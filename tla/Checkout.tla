-------------------------------- MODULE Checkout --------------------------------
(***************************************************************************)
(* The checkout page in the buyer's browser: the panel and its reducer     *)
(* (CheckoutPanel.tsx, checkout/machine.ts), the request for an order      *)
(* (request.ts), the lazy loading of Razorpay's script (loadRazorpay.ts)   *)
(* and the window that script opens.                                       *)
(*                                                                         *)
(* An attempt is one call of start(); its number stands for the fresh      *)
(* Idempotency-Key it sends and for the order the server makes for that    *)
(* key.  The window is Razorpay's: it covers the page while it is open,    *)
(* lets the buyer try again after a failed payment, and closes when it     *)
(* reports success.  A payment begun in it may be captured after it closed.*)
(***************************************************************************)
EXTENDS Absence, Naturals, Sequences, FiniteSets

CONSTANTS
    MaxStarts  \* bound: attempts

\* Attempts are numbered; no attempt is None.
ASSUME CheckoutConstants == MaxStarts \in Nat /\ None \notin Nat

VARIABLES
    panel,    \* CheckoutState: its phase and the order it carries
    starts,   \* each attempt: where its start() stands
    ordered,  \* attempts for which the server made an order
    sdk,      \* the script: "absent", "loading", "ready", "broken" (a cached rejection)
    window,   \* the attempt whose window is open
    tried,    \* attempts with a payment Razorpay has not given up
    charged,  \* attempts Razorpay took money for
    told,     \* attempts whose success the browser was told: a history
    held      \* the order whose payment was last resumed: a history

checkoutVars == <<panel, starts, ordered, sdk, window, tried, charged, told, held>>

Phases == {"idle", "creating", "opening", "confirming", "dismissed", "failed"}
Running == {"request", "load", "loaded", "unloaded"}

\* Phases, attempts and the script keep to their states.
CheckoutTypeOK ==
    /\ panel \in [phase : Phases, order : 1..MaxStarts \cup {None}]
    /\ starts \in Seq(Running \cup {"over"}) /\ Len(starts) <= MaxStarts
    /\ ordered \subseteq DOMAIN starts
    /\ charged \subseteq ordered
    /\ sdk \in {"absent", "loading", "ready", "broken"}
    /\ window \in ordered \cup {None}

CheckoutInit ==
    /\ panel = [phase |-> "idle", order |-> None]
    /\ starts = << >>
    /\ ordered = {}
    /\ sdk = "absent"
    /\ window = None
    /\ tried = {}
    /\ charged = {}
    /\ told = {}
    /\ held = None

--------------------------------------------------------------------------
(* checkoutReducer, one operator per event that changes something.         *)

To(phase, order) == [phase |-> phase, order |-> order]

OnSubmit == IF panel.phase \in {"creating", "opening"} THEN panel ELSE To("creating", None)

OnOrderCreated(order) == IF panel.phase = "creating" THEN To("opening", order) ELSE panel

OnOrderFailed == To("failed", None)

\* Mutant: success counts only while the panel still says "opening".
OnPaymentSubmittedOpening ==
    IF panel.phase = "opening" THEN To("confirming", panel.order) ELSE panel

OnPaymentSubmitted == IF panel.order # None THEN To("confirming", panel.order) ELSE panel

OnCheckoutDismissed ==
    IF panel.phase = "opening" THEN To("dismissed", panel.order) ELSE panel

OnPaymentFailed == To("failed", panel.order)

OnRetry == IF panel.phase \in {"failed", "dismissed"} THEN To("idle", None) ELSE panel

CanSubmit == panel.phase \in {"idle", "failed", "dismissed"}

--------------------------------------------------------------------------
(* start(), from one await to the next.                                    *)

\* The details are valid and the button is not disabled: a new key, a request.
Submit ==
    /\ window = None
    /\ CanSubmit
    /\ Len(starts) < MaxStarts
    /\ panel' = OnSubmit
    /\ starts' = Append(starts, "request")
    /\ UNCHANGED <<ordered, sdk, window, tried, charged, told, held>>

\* The server handles the request, perhaps long after the browser gave it up.
ServerCreatesOrder(n) ==
    /\ ordered' = ordered \cup {n}
    /\ UNCHANGED <<panel, starts, sdk, window, tried, charged, told, held>>

\* loadRazorpay, as far as it goes at once: the constructor, the promise there
\* is, or a new script.
Loading == [ready |-> "loaded", broken |-> "unloaded", loading |-> "load", absent |-> "load"]

ReceiveOrder(n) ==
    /\ starts[n] = "request"
    /\ n \in ordered
    /\ panel' = OnOrderCreated(n)
    /\ starts' = [starts EXCEPT ![n] = Loading[sdk]]
    /\ sdk' = IF sdk = "absent" THEN "loading" ELSE sdk
    /\ UNCHANGED <<ordered, window, tried, charged, told, held>>

\* The network fails, the answer is no JSON or it is an error.
ReceiveFailure(n) ==
    /\ starts[n] = "request"
    /\ panel' = OnOrderFailed
    /\ starts' = [starts EXCEPT ![n] = "over"]
    /\ UNCHANGED <<ordered, sdk, window, tried, charged, told, held>>

SettleLoads(step) ==
    starts' = [n \in DOMAIN starts |-> IF starts[n] = "load" THEN step ELSE starts[n]]

\* onload: with a constructor, or without one, and then the rejected promise stays.
ScriptLoads ==
    /\ sdk = "loading"
    /\ \/ sdk' = "ready" /\ SettleLoads("loaded")
       \/ sdk' = "broken" /\ SettleLoads("unloaded")
    /\ UNCHANGED <<panel, ordered, window, tried, charged, told, held>>

\* onerror: the next attempt asks for the script again.
ScriptFails ==
    /\ sdk = "loading"
    /\ sdk' = "absent"
    /\ SettleLoads("unloaded")
    /\ UNCHANGED <<panel, ordered, window, tried, charged, told, held>>

\* The catch: the payment window could not load.
LoadFailed(n) ==
    /\ starts[n] = "unloaded"
    /\ panel' = OnPaymentFailed
    /\ starts' = [starts EXCEPT ![n] = "over"]
    /\ UNCHANGED <<ordered, sdk, window, tried, charged, told, held>>

\* CHECKOUT_OPENED changes nothing.
OpenWindow(n) ==
    /\ starts[n] = "loaded"
    /\ starts' = [starts EXCEPT ![n] = "over"]
    /\ window' = n
    /\ UNCHANGED <<panel, ordered, sdk, tried, charged, told, held>>

--------------------------------------------------------------------------
(* Razorpay's window and its callbacks.                                    *)

BeginPayment ==
    /\ window # None
    /\ tried' = tried \cup {window}
    /\ UNCHANGED <<panel, starts, ordered, sdk, window, charged, told, held>>

\* payment.failed: the window stays open for another try.
PaymentFails ==
    /\ window \in tried
    /\ tried' = tried \ {window}
    /\ panel' = OnPaymentFailed
    /\ UNCHANGED <<starts, ordered, sdk, window, charged, told, held>>

\* handler.
PaymentSucceeds ==
    /\ window \in tried
    /\ panel' = OnPaymentSubmitted
    /\ charged' = charged \cup {window}
    /\ told' = told \cup {window}
    /\ tried' = tried \ {window}
    /\ window' = None
    /\ UNCHANGED <<starts, ordered, sdk, held>>

\* modal.ondismiss.
Dismiss ==
    /\ window # None
    /\ panel' = OnCheckoutDismissed
    /\ window' = None
    /\ UNCHANGED <<starts, ordered, sdk, tried, charged, told, held>>

\* A payment begun before the window was closed goes through after all.
LateCapture(n) ==
    /\ n \in tried
    /\ n # window
    /\ charged' = charged \cup {n}
    /\ tried' = tried \ {n}
    /\ UNCHANGED <<panel, starts, ordered, sdk, window, told, held>>

\* "Try again" and "Resume payment" are the same button.
Retry ==
    /\ window = None
    /\ panel.phase \in {"failed", "dismissed"}
    /\ panel' = OnRetry
    /\ held' = IF panel.phase = "dismissed" THEN panel.order ELSE None
    /\ UNCHANGED <<starts, ordered, sdk, window, tried, charged, told>>

--------------------------------------------------------------------------
CheckoutNext ==
    \/ Submit \/ Retry \/ ScriptLoads \/ ScriptFails
    \/ BeginPayment \/ PaymentFails \/ PaymentSucceeds \/ Dismiss
    \/ \E n \in DOMAIN starts :
          \/ ServerCreatesOrder(n) \/ ReceiveOrder(n) \/ ReceiveFailure(n)
          \/ LoadFailed(n) \/ OpenWindow(n) \/ LateCapture(n)

CheckoutSpec == CheckoutInit /\ [][CheckoutNext]_checkoutVars

--------------------------------------------------------------------------
(* Properties.                                                             *)

\* "A double tap cannot create two orders": at any moment at most one attempt is under
\* way or has its window open, and it is the last one.
OneAttemptAtATime ==
    \A n \in DOMAIN starts :
        starts[n] \in Running \/ window = n =>
            /\ n = Len(starts)
            /\ starts[n] \in Running => window = None

\* The spinner always has something that will end it: a request without an answer, a
\* script without an event, or the open window of the very order that is shown.
BusyHasACause ==
    /\ panel.phase = "creating" => \E n \in DOMAIN starts : starts[n] = "request"
    /\ panel.phase = "opening" =>
          \/ window = panel.order
          \/ starts[panel.order] \in {"load", "loaded", "unloaded"}
    /\ \A n \in DOMAIN starts : starts[n] = "load" => sdk = "loading"

\* Whoever was told that a payment went through sees that order being confirmed from
\* then on and is never asked to pay again, failed payments before it included; and
\* nobody sees "confirming" for an order Razorpay took no money for (machine.ts).
PaidIsShown ==
    /\ told # {} => panel.phase = "confirming"
    /\ panel.phase = "confirming" => panel.order \in told \cap charged

\* What the page promises over every order of answers, script events and callbacks.
CheckoutHolds == CheckoutTypeOK /\ OneAttemptAtATime /\ BusyHasACause /\ PaidIsShown

\* "Your order is still held, so you can pick up where you left off" (CheckoutPanel.tsx,
\* beside the button "Resume payment"): the window that comes next is of that order.
ResumeKeepsOrder == (window # None /\ held # None) => window = held
=================================================================================
