------------------------------ MODULE AccessGrants ------------------------------
(***************************************************************************)
(* Who may open what (packages/core-entitlements, migration 0004, the      *)
(* ladder of packages/catalog).  An order with a captured payment grants   *)
(* its customer one entitlement per product; support may revoke it.  A     *)
(* customer asks for a new access token by e-mail (reissueAccessToken) and *)
(* downloads files with the token and a signed, short-lived link           *)
(* (authorizeDownload).  Both read the tables in two awaited queries, with *)
(* the instant of the request taken once, so grants and revocations fall   *)
(* between their steps.                                                    *)
(*                                                                         *)
(* A digest, a signature and an e-mail address are what they stand for:    *)
(* a token is its row's number, a link the claims it was signed over, and  *)
(* an address is already normalised.                                       *)
(***************************************************************************)
EXTENDS Absence, Integers, Sequences, FiniteSetsExt

CONSTANTS
    Customers,         \* normalised e-mail addresses
    Rungs,             \* products on the ladder, entry-level first
    FunnelOrders,
    BuyerOf(_),        \* lower(customer_email) of an order
    ProductOf(_),      \* product_slug of an order
    Assets,            \* asset ids a request may name
    Manifest(_),       \* those a product ships
    AccessTokenTtl,    \* ACCESS_TOKEN_TTL_MS, in ticks
    DownloadGrantTtl,  \* DOWNLOAD_GRANT_TTL_MS, in ticks
    MaxNow,            \* bound: ticks of the clock
    MaxTokens,         \* bound: tokens issued
    MaxLinks           \* bound: links minted

Products == 0..Rungs - 1

\* Orders are for a product on the ladder; lifetimes and bounds are numbers.
ASSUME AccessConstants ==
    /\ \A o \in FunnelOrders : BuyerOf(o) \in Customers /\ ProductOf(o) \in Products
    /\ Rungs \in Nat /\ AccessTokenTtl \in Nat /\ DownloadGrantTtl \in Nat
    /\ MaxNow \in Nat /\ MaxTokens \in Nat /\ None \notin Nat

TokenIds == 1..MaxTokens
Claims == [product : Products, asset : Assets, customer : Customers,
           expires : 0..MaxNow + DownloadGrantTtl]
Forged == [forged |-> TRUE]   \* a link this system never signed

VARIABLES
    now,           \* the clock
    entitlements,  \* rows by customer and product
    granted,       \* orders whose grant has committed
    tokens,        \* rows of access_tokens, by age
    links,         \* links minted so far
    reissue,       \* the reissue request in progress
    download       \* the download request in progress, and its answer

accessVars == <<now, entitlements, granted, tokens, links, reissue, download>>

Row == [order : FunnelOrders, revoked : BOOLEAN]

\* Rows, tokens, links and the two requests keep to their domains.
AccessTypeOK ==
    /\ now \in 0..MaxNow
    /\ entitlements \in [Customers \X Products -> Row \cup {None}]
    /\ granted \subseteq FunnelOrders
    /\ tokens \in Seq([customer : Customers, expires : Nat, revokedAt : 0..MaxNow \cup {None}])
    /\ Len(tokens) <= MaxTokens
    /\ links \subseteq Claims
    /\ reissue \in [pc : {"idle", "list", "save"}, customer : Customers \cup {None},
                    at : 0..MaxNow]
    /\ download.pc \in {"idle", "find", "list", "done"}

IdleReissue == [pc |-> "idle", customer |-> None, at |-> 0]
IdleDownload ==
    [pc |-> "idle", token |-> None, link |-> None, product |-> None, asset |-> None, at |-> 0,
     customer |-> None, could |-> {}, couldNot |-> {}, answer |-> None]

AccessInit ==
    /\ now = 0
    /\ entitlements = [k \in Customers \X Products |-> None]
    /\ granted = {}
    /\ tokens = << >>
    /\ links = {}
    /\ reissue = IdleReissue
    /\ download = IdleDownload

--------------------------------------------------------------------------
(* The ladder and the funnel.                                              *)

\* Buying a rung grants every rung below it.
ImpliedProductIds(product) == 0..product
AccessibleProducts(purchased) == UNION {ImpliedProductIds(p) : p \in purchased}
CanAccessProduct(purchased, product) == product \in AccessibleProducts(purchased)

\* -1 for a visitor who owns nothing.
Tier(purchased) == IF purchased = {} THEN -1 ELSE Max(AccessibleProducts(purchased))

\* The rung above the highest one reached, from the entry product up.
NextUpsell(purchased) ==
    IF Tier(purchased) + 1 < Rungs THEN Tier(purchased) + 1 ELSE None

\* listActive and purchasedFrom: the products of the rows not revoked.
ListActive(rows, customer) ==
    {p \in Products : /\ rows[<<customer, p>>] # None
                      /\ ~rows[<<customer, p>>].revoked}

Accessible(rows, customer) == AccessibleProducts(ListActive(rows, customer))

--------------------------------------------------------------------------
(* Grants and revocations.                                                 *)

\* What the customer of a download in progress could open at some moment of it,
\* and what he could not: a history for the properties.
Observe(rows) ==
    download' = IF download.pc = "list"
                THEN [download EXCEPT
                        !.could = @ \cup Accessible(rows, download.customer),
                        !.couldNot = @ \cup (Products \ Accessible(rows, download.customer))]
                ELSE download

\* grant, for an order with a captured payment and for its own product and
\* customer, which is all the triggers of 0004 admit.  A row that is there
\* already stays as it is, revoked or not.
Grant(o) ==
    LET k == <<BuyerOf(o), ProductOf(o)>> IN
    /\ entitlements' = IF entitlements[k] = None
                       THEN [entitlements EXCEPT ![k] = [order |-> o, revoked |-> FALSE]]
                       ELSE entitlements
    /\ granted' = granted \cup {o}
    /\ Observe(entitlements')
    /\ UNCHANGED <<now, tokens, links, reissue>>

\* revoke: conditional on revoked_at IS NULL.
Revoke(customer, product) ==
    /\ product \in ListActive(entitlements, customer)
    /\ entitlements' = [entitlements EXCEPT ![<<customer, product>>].revoked = TRUE]
    /\ Observe(entitlements')
    /\ UNCHANGED <<now, granted, tokens, links, reissue>>

--------------------------------------------------------------------------
(* Reissue of an access token.                                             *)

\* An address that is no address is refused before any query.
AskForToken(customer) ==
    /\ reissue.pc = "idle"
    /\ reissue' = [pc |-> "list", customer |-> customer, at |-> now]
    /\ UNCHANGED <<now, entitlements, granted, tokens, links, download>>

\* "does this person currently own anything?"
CheckHoldings(customer) == ListActive(entitlements, customer) # {}

\* No live entitlement, no token; the answer to the visitor is the same.
ReadHoldings ==
    /\ reissue.pc = "list"
    /\ reissue' = IF CheckHoldings(reissue.customer)
                  THEN [reissue EXCEPT !.pc = "save"]
                  ELSE IdleReissue
    /\ UNCHANGED <<now, entitlements, granted, tokens, links, download>>

\* saveAccessToken, and the e-mail.  Older tokens are left alone.
SaveAccessToken ==
    /\ reissue.pc = "save"
    /\ Len(tokens) < MaxTokens
    /\ tokens' = Append(tokens, [customer |-> reissue.customer,
                                 expires |-> reissue.at + AccessTokenTtl, revokedAt |-> None])
    /\ reissue' = IdleReissue
    /\ UNCHANGED <<now, entitlements, granted, links, download>>

\* No code revokes a token, but the column is read: somebody sets it in the database.
RevokeToken(token) ==
    /\ token \in DOMAIN tokens
    /\ tokens[token].revokedAt = None
    /\ tokens' = [tokens EXCEPT ![token].revokedAt = now]
    /\ UNCHANGED <<now, entitlements, granted, links, reissue, download>>

--------------------------------------------------------------------------
(* Downloads.                                                              *)

\* createDownloadGrant, for whatever its caller asks.
CreateDownloadGrant(customer, product, asset) ==
    /\ Cardinality(links) < MaxLinks
    /\ links' = links \cup {[product |-> product, asset |-> asset, customer |-> customer,
                             expires |-> now + DownloadGrantTtl]}
    /\ UNCHANGED <<now, entitlements, granted, tokens, reissue, download>>

\* A visitor holding any cookie and any link, his own or one that leaked.
AskForDownload(token, link, product, asset) ==
    /\ download.pc = "idle"
    /\ download' = [IdleDownload EXCEPT !.pc = "find", !.token = token, !.link = link,
                                        !.product = product, !.asset = asset, !.at = now]
    /\ UNCHANGED <<now, entitlements, granted, tokens, links, reissue>>

\* evaluateAccessToken.
ValidToken(token, at) ==
    token <= Len(tokens) /\ tokens[token].revokedAt = None /\ at < tokens[token].expires

Answered(answer) == [download EXCEPT !.pc = "done", !.answer = answer]

\* resolveAccess, first query: who is this?
FindAccessToken ==
    /\ download.pc = "find"
    /\ download' =
         IF download.token = None THEN Answered("no-session")
         ELSE IF ~ValidToken(download.token, download.at) THEN Answered("invalid-session")
         ELSE LET c == tokens[download.token].customer
                  open == Accessible(entitlements, c)
              IN  [download EXCEPT !.pc = "list", !.customer = c, !.could = open,
                                   !.couldNot = Products \ open]
    /\ UNCHANGED <<now, entitlements, granted, tokens, links, reissue>>

\* Mutant: the customer named by the link is not compared with the cookie's.
VerifyDownloadGrantAnyone(link, customer, at) ==
    CASE link = None -> "grant-malformed"
      [] link = Forged -> "grant-bad-signature"
      [] link \in links /\ link.expires <= at -> "grant-expired"
      [] OTHER -> "valid"

\* verifyDownloadGrant: signature, then expiry, then customer.
VerifyDownloadGrant(link, customer, at) ==
    CASE link = None -> "grant-malformed"
      [] link = Forged -> "grant-bad-signature"
      [] link \in links /\ link.expires <= at -> "grant-expired"
      [] link \in links /\ link.expires > at /\ link.customer # customer -> "grant-wrong-customer"
      [] OTHER -> "valid"

\* The rest of authorizeDownload, in its order, after the second query.
DownloadVerdict(purchased) ==
    LET verdict == VerifyDownloadGrant(download.link, download.customer, download.at) IN
    IF ~CanAccessProduct(purchased, download.product) THEN "not-entitled"
    ELSE IF verdict # "valid" THEN verdict
    ELSE IF \/ download.link.product # download.product
            \/ download.link.asset # download.asset THEN "grant-bad-signature"
    ELSE IF download.asset \notin Manifest(download.product) THEN "unknown-asset"
    ELSE "allowed"

AuthorizeDownload ==
    /\ download.pc = "list"
    /\ download' = Answered(DownloadVerdict(ListActive(entitlements, download.customer)))
    /\ UNCHANGED <<now, entitlements, granted, tokens, links, reissue>>

\* The visitor has his answer; another may ask.
Leave ==
    /\ download.pc = "done"
    /\ download' = IdleDownload
    /\ UNCHANGED <<now, entitlements, granted, tokens, links, reissue>>

NowPasses ==
    /\ now < MaxNow
    /\ now' = now + 1
    /\ UNCHANGED <<entitlements, granted, tokens, links, reissue, download>>

--------------------------------------------------------------------------
AccessNext ==
    \/ \E o \in FunnelOrders : Grant(o)
    \/ \E c \in Customers, p \in Products : Revoke(c, p)
    \/ \E c \in Customers : AskForToken(c)
    \/ ReadHoldings
    \/ SaveAccessToken
    \/ \E t \in TokenIds : RevokeToken(t)
    \/ \E c \in Customers, p \in Products, a \in Assets : CreateDownloadGrant(c, p, a)
    \/ \E t \in TokenIds \cup {None}, l \in links \cup {None, Forged},
          p \in Products, a \in Assets : AskForDownload(t, l, p, a)
    \/ FindAccessToken
    \/ AuthorizeDownload
    \/ Leave
    \/ NowPasses

AccessSpec == AccessInit /\ [][AccessNext]_accessVars

--------------------------------------------------------------------------
(* Properties.                                                             *)

\* A file is handed out only to a customer who could open the product at some
\* moment of the request, with a token that was neither expired nor revoked when
\* it began and a link signed for that very customer, product and file; and nobody is told
\* "not-entitled" who could open the product all along (authorizeDownload, whose
\* two queries a grant or a revocation may separate).
AnswersAreTrue ==
    download.pc = "done" =>
        /\ download.answer = "allowed" =>
             /\ download.product \in download.could
             /\ download.asset \in Manifest(download.product)
             /\ tokens[download.token].customer = download.customer
             /\ download.at < tokens[download.token].expires
             /\ tokens[download.token].revokedAt # None =>
                  tokens[download.token].revokedAt >= download.at
             /\ \E l \in links :
                   /\ l.customer = download.customer
                   /\ l.product = download.product
                   /\ l.asset = download.asset
                   /\ download.at < l.expires
        /\ download.answer = "not-entitled" => download.product \in download.couldNot

\* Nobody is offered what he can open already, and whoever has not reached the
\* top is offered something that adds exactly one rung (nextUpsell).
UpsellIsNew ==
    \A c \in Customers :
        LET purchased == ListActive(entitlements, c)
            offer == NextUpsell(purchased)
        IN  IF AccessibleProducts(purchased) = Products
            THEN offer = None
            ELSE /\ offer \in Products
                 /\ AccessibleProducts(purchased \cup {offer})
                      = AccessibleProducts(purchased) \cup {offer}
                 /\ ~CanAccessProduct(purchased, offer)

\* What access promises: answers that were true while they were worked out, and offers
\* that are worth something.
AccessHolds == AccessTypeOK /\ AnswersAreTrue /\ UpsellIsNew

\* Disagreement: "a payment row without its entitlement is a customer who paid
\* and got nothing" (webhookHandler.ts:22).  The transaction that settles an
\* order leaves its customer with the product.
GrantGivesAccess ==
    [][\A o \in granted' \ granted :
          ProductOf(o) \in ListActive(entitlements', BuyerOf(o))]_accessVars
=============================================================================
