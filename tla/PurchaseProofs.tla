-------------------------- MODULE PurchaseProofs --------------------------
(***************************************************************************)
(* The way from an order to the product: order creation, the payment       *)
(* tables, the checkout page and the access grants.  Each part is a        *)
(* component of its own, with its own inductive invariant.                 *)
(***************************************************************************)
EXTENDS OrderIntake, PaymentIntegrity, Checkout, AccessGrants, WellFoundedInduction, TLAPS

---------------------------------------------------------------------------
(***************************************************************************)
(* Proofs that the answers of createOrder agree, for any number of         *)
(* requests and keys.  Two answers to one key need not come from the same  *)
(* lookup; what ties them together is that a key has at most one row       *)
(* (OneRowPerKey) and that every answer is a row of the request's own key  *)
(* (AnswersAreRows).                                                       *)
(***************************************************************************)

OneRowPerKey ==
    \A o, q \in orders : (KeyOf(o) = KeyOf(q) /\ KeyOf(o) # NoKey) => o = q

AnswersAreRows ==
    \A r \in Requests :
        answer[r] \in Requests =>
            /\ answer[r] \in orders
            /\ ContentOf(answer[r]) = ContentOf(r)
            /\ KeyOf(r) # NoKey => KeyOf(answer[r]) = KeyOf(r)

\* A row is written only after its Razorpay order exists.
RowsArePlaced ==
    /\ orders \subseteq placed
    /\ \A r \in Requests : pc[r] \in {"insert", "reread"} => r \in placed

OrdersIInv == TypeOK /\ OneRowPerKey /\ AnswersAreRows /\ RowsArePlaced /\ ConflictIsReal

LEMMA OrdersInitHolds == Init => OrdersIInv
<1> SUFFICES ASSUME Init PROVE OrdersIInv
  OBVIOUS
<1>1. NoAnswer \notin Requests /\ NoAnswer # "conflict"
  BY AnswerAssumption DEF Errors
<1>2. TypeOK
  BY MaxFaultsAssumption DEF Init, TypeOK, PC
<1>3. OneRowPerKey /\ RowsArePlaced
  BY DEF Init, OneRowPerKey, RowsArePlaced
<1>4. AnswersAreRows /\ ConflictIsReal
  BY <1>1 DEF Init, AnswersAreRows, ConflictIsReal
<1> QED
  BY <1>2, <1>3, <1>4 DEF OrdersIInv

\* Telling a client something touches its answer alone.
LEMMA ReplyEffect ==
    ASSUME TypeOK, NEW r \in Requests, NEW what \in Requests \cup Errors, Reply(r, what)
    PROVE  /\ pc' \in [Requests -> PC]
           /\ answer' \in [Requests -> Requests \cup Errors \cup {NoAnswer}]
           /\ pc'[r] = "done" /\ answer'[r] = what
           /\ \A q \in Requests : q # r => pc'[q] = pc[q] /\ answer'[q] = answer[q]
BY DEF TypeOK, Reply, PC

LEMMA GotoEffect ==
    ASSUME TypeOK, NEW r \in Requests, NEW to \in PC, Goto(r, to)
    PROVE  /\ pc' \in [Requests -> PC]
           /\ pc'[r] = to
           /\ \A q \in Requests : q # r => pc'[q] = pc[q]
           /\ answer' = answer
BY DEF TypeOK, Goto

\* A row found by the key of a request may be replayed or refused.
LEMMA ReplayKeeps ==
    ASSUME OrdersIInv, NEW r \in Requests, NEW o \in WithKey(KeyOf(r)),
           AcceptReplayOrConflict(r, o), UNCHANGED <<placed, orders, faults>>
    PROVE  OrdersIInv'
<1>1. /\ o \in orders
      /\ o \in Requests
      /\ KeyOf(o) = KeyOf(r)
  BY DEF WithKey, OrdersIInv, TypeOK
<1> DEFINE what == IF ContentOf(o) = ContentOf(r) THEN o ELSE "conflict"
<1>2. what \in Requests \cup Errors /\ Reply(r, what) /\ TypeOK
  BY <1>1 DEF AcceptReplayOrConflict, Errors, OrdersIInv
<1>3. /\ pc' \in [Requests -> PC]
      /\ answer' \in [Requests -> Requests \cup Errors \cup {NoAnswer}]
      /\ pc'[r] = "done" /\ answer'[r] = what
      /\ \A q \in Requests : q # r => pc'[q] = pc[q] /\ answer'[q] = answer[q]
  BY <1>2, ReplyEffect
<1>4. "conflict" \notin Requests
  BY AnswerAssumption DEF Errors
<1>5. TypeOK'
  BY <1>3 DEF OrdersIInv, TypeOK
<1>6. OneRowPerKey' /\ RowsArePlaced'
  BY <1>3 DEF OrdersIInv, OneRowPerKey, RowsArePlaced
<1>7. AnswersAreRows'
  BY <1>1, <1>3, <1>4 DEF OrdersIInv, AnswersAreRows
<1>8. ConflictIsReal'
  BY <1>1, <1>3, <1>4 DEF OrdersIInv, ConflictIsReal
<1> QED
  BY <1>5, <1>6, <1>7, <1>8 DEF OrdersIInv

\* Moving on changes nothing a client was told.
LEMMA OrderGotoKeeps ==
    ASSUME OrdersIInv, NEW r \in Requests, NEW to \in PC, Goto(r, to),
           UNCHANGED <<orders, faults>>, placed \subseteq placed', placed' \subseteq Requests,
           to \in {"insert", "reread"} => r \in placed'
    PROVE  OrdersIInv'
<1>1. /\ pc' \in [Requests -> PC]
      /\ pc'[r] = to
      /\ \A q \in Requests : q # r => pc'[q] = pc[q]
      /\ answer' = answer
  BY GotoEffect DEF OrdersIInv
<1>2. TypeOK'
  BY <1>1 DEF OrdersIInv, TypeOK
<1>3. OneRowPerKey' /\ AnswersAreRows' /\ ConflictIsReal'
  BY <1>1 DEF OrdersIInv, OneRowPerKey, AnswersAreRows, ConflictIsReal
<1>4. RowsArePlaced'
  BY <1>1 DEF OrdersIInv, RowsArePlaced
<1> QED
  BY <1>2, <1>3, <1>4 DEF OrdersIInv

\* An error tells the client nothing about any order.
LEMMA ErrorKeeps ==
    ASSUME OrdersIInv, NEW r \in Requests, NEW what \in Errors \ {"conflict"}, Reply(r, what),
           UNCHANGED orders, placed \subseteq placed', placed' \subseteq Requests,
           faults' \in 0..MaxFaults
    PROVE  OrdersIInv'
<1>1. /\ pc' \in [Requests -> PC]
      /\ answer' \in [Requests -> Requests \cup Errors \cup {NoAnswer}]
      /\ pc'[r] = "done" /\ answer'[r] = what
      /\ \A q \in Requests : q # r => pc'[q] = pc[q] /\ answer'[q] = answer[q]
  BY ReplyEffect DEF OrdersIInv
<1>2. what \notin Requests /\ what # "conflict"
  BY AnswerAssumption
<1>3. TypeOK'
  BY <1>1 DEF OrdersIInv, TypeOK
<1>4. OneRowPerKey' /\ RowsArePlaced'
  BY <1>1 DEF OrdersIInv, OneRowPerKey, RowsArePlaced
<1>5. AnswersAreRows' /\ ConflictIsReal'
  BY <1>1, <1>2 DEF OrdersIInv, AnswersAreRows, ConflictIsReal
<1> QED
  BY <1>3, <1>4, <1>5 DEF OrdersIInv

\* The INSERT succeeds when the key has no row; the client may or may not
\* learn of it.
LEMMA InsertOrderKeeps ==
    ASSUME OrdersIInv, NEW r \in Requests, pc[r] = "insert", WithKey(KeyOf(r)) = {},
           NEW what \in {r, "internal_error"}, Reply(r, what),
           orders' = orders \cup {r}, UNCHANGED placed, faults' \in 0..MaxFaults
    PROVE  OrdersIInv'
<1>1. what \in Requests \cup Errors
  BY DEF Errors
<1>2. /\ pc' \in [Requests -> PC]
      /\ answer' \in [Requests -> Requests \cup Errors \cup {NoAnswer}]
      /\ pc'[r] = "done" /\ answer'[r] = what
      /\ \A q \in Requests : q # r => pc'[q] = pc[q] /\ answer'[q] = answer[q]
  BY <1>1, ReplyEffect DEF OrdersIInv
<1>3. /\ "conflict" \notin Requests
      /\ "internal_error" \notin Requests
  BY AnswerAssumption DEF Errors
<1>4. TypeOK'
  BY <1>2 DEF OrdersIInv, TypeOK
<1>5. OneRowPerKey'
  BY DEF OrdersIInv, OneRowPerKey, WithKey
<1>6. RowsArePlaced'
  BY <1>2 DEF OrdersIInv, RowsArePlaced
<1>7. AnswersAreRows'
  BY <1>2, <1>3 DEF OrdersIInv, AnswersAreRows
<1>8. ConflictIsReal'
  BY <1>2, <1>3 DEF OrdersIInv, ConflictIsReal
<1> QED
  BY <1>4, <1>5, <1>6, <1>7, <1>8 DEF OrdersIInv

LEMMA OrdersNextKeeps == OrdersIInv /\ [Next]_vars => OrdersIInv'
<1> SUFFICES ASSUME OrdersIInv, [Next]_vars PROVE OrdersIInv'
  OBVIOUS
<1>1. CASE UNCHANGED vars
  BY <1>1 DEF vars, OrdersIInv, TypeOK, OneRowPerKey, AnswersAreRows, RowsArePlaced, ConflictIsReal
<1>2. placed \subseteq Requests /\ faults \in 0..MaxFaults
  BY DEF OrdersIInv, TypeOK
<1>3. Fault => faults' \in 0..MaxFaults
  BY <1>2, MaxFaultsAssumption DEF Fault
<1>4. ASSUME NEW r \in Requests, Validate(r) PROVE OrdersIInv'
  <2>1. CASE r \in Malformed
    BY <1>2, <1>4, <2>1, ErrorKeeps DEF Validate, Errors
  <2>2. CASE r \notin Malformed
    <3>1. \E to \in {"create", "find"} : Goto(r, to)
      BY <1>4, <2>2 DEF Validate
    <3>2. UNCHANGED <<placed, orders, faults>>
      BY <1>4 DEF Validate
    <3> QED
      BY <1>2, <3>1, <3>2, OrderGotoKeeps DEF PC
  <2> QED
    BY <2>1, <2>2
<1>5. ASSUME NEW r \in Requests, FindByKey(r) PROVE OrdersIInv'
  <2>1. CASE WithKey(KeyOf(r)) = {}
    BY <1>2, <1>5, <2>1, OrderGotoKeeps DEF FindByKey, PC
  <2>2. CASE WithKey(KeyOf(r)) # {}
    BY <1>5, <2>2, ReplayKeeps DEF FindByKey
  <2> QED
    BY <2>1, <2>2
<1>6. ASSUME NEW r \in Requests, CreateRazorpayOrder(r) PROVE OrdersIInv'
  BY <1>2, <1>6, OrderGotoKeeps DEF CreateRazorpayOrder, PC
<1>7. ASSUME NEW r \in Requests, InsertOrder(r) PROVE OrdersIInv'
  <2>1. CASE WithKey(KeyOf(r)) = {}
    BY <1>2, <1>7, <2>1, InsertOrderKeeps DEF InsertOrder
  <2>2. CASE WithKey(KeyOf(r)) # {}
    <3>1. r \in placed
      BY <1>7 DEF InsertOrder, OrdersIInv, RowsArePlaced
    <3> QED
      BY <1>2, <1>7, <2>2, <3>1, OrderGotoKeeps DEF InsertOrder, PC
  <2> QED
    BY <2>1, <2>2
<1>8. ASSUME NEW r \in Requests, RereadByKey(r) PROVE OrdersIInv'
  BY <1>8, ReplayKeeps DEF RereadByKey
<1>9. ASSUME NEW r \in Requests, ProviderFails(r) PROVE OrdersIInv'
  BY <1>2, <1>3, <1>9, ErrorKeeps DEF ProviderFails, Errors
<1>10. ASSUME NEW r \in Requests, DatabaseFails(r) PROVE OrdersIInv'
  <2>1. CASE orders' = orders
    BY <1>2, <1>3, <1>10, <2>1, ErrorKeeps DEF DatabaseFails, Errors
  <2>2. CASE orders' # orders
    BY <1>3, <1>10, <2>2, InsertOrderKeeps DEF DatabaseFails
  <2> QED
    BY <2>1, <2>2
<1>11. ASSUME NEW r \in Requests, AnswerLost(r) PROVE OrdersIInv'
  BY <1>2, <1>3, <1>11, ErrorKeeps DEF AnswerLost, Errors
<1> QED
  BY <1>1, <1>4, <1>5, <1>6, <1>7, <1>8, <1>9, <1>10, <1>11 DEF Next, Handle

\* The inductive invariant holds in every reachable state.
THEOREM OrdersInvariance == Spec => []OrdersIInv
<1>1. Init => OrdersIInv
  BY OrdersInitHolds
<1>2. OrdersIInv /\ [Next]_vars => OrdersIInv'
  BY OrdersNextKeeps
<1> QED
  BY <1>1, <1>2, PTL DEF Spec

\* All answers to one key name one order, however the lookups, the INSERTs and
\* the failures of the requests interleave (createOrder).
THEOREM SameKeySameOrderHolds == Spec => []SameKeySameOrder
<1>1. OrdersIInv => SameKeySameOrder
  BY DEF OrdersIInv, SameKeySameOrder, OneRowPerKey, AnswersAreRows
<1> QED
  BY <1>1, OrdersInvariance, PTL

\* No client is handed the order of another product or person, and what it is
\* handed is a row and a Razorpay order (acceptReplayOrConflict).
THEOREM AnswerFitsRequestHolds == Spec => []AnswerFitsRequest
<1>1. OrdersIInv => AnswerFitsRequest
  BY DEF OrdersIInv, AnswerFitsRequest, AnswersAreRows, RowsArePlaced
<1> QED
  BY <1>1, OrdersInvariance, PTL

\* A 409 always names a real conflict (acceptReplayOrConflict).
THEOREM ConflictIsRealHolds == Spec => []ConflictIsReal
<1>1. OrdersIInv => ConflictIsReal
  BY DEF OrdersIInv
<1> QED
  BY <1>1, OrdersInvariance, PTL

--------------------------------------------------------------------------
(* Orders left behind at Razorpay.  A request that has not asked Razorpay  *)
(* yet has left none, so only the later answers matter; rows are never     *)
(* deleted, so what a finished request was told stays true.                *)

NothingPlacedYet == \A r \in Requests : pc[r] \in {"validate", "find"} => r \notin placed

\* The steps of one request cannot disturb what is said of the others.
LEMMA OthersStayBounded ==
    ASSUME TypeOK, NothingPlacedYet, OrphansAreBounded, NEW r \in Requests,
           placed' \subseteq placed \cup {r}, orders \subseteq orders',
           \A q \in Requests : q # r => pc'[q] = pc[q] /\ answer'[q] = answer[q]
    PROVE  /\ \A q \in Requests \ {r} : pc'[q] \in {"validate", "find"} => q \notin placed'
           /\ \A q \in (placed' \ orders') \ {r} :
                 pc'[q] = "done" =>
                    \/ answer'[q] \in {"provider_error", "internal_error", "lost"}
                    \/ /\ WithKey(KeyOf(q))' # {}
                       /\ answer'[q] \in WithKey(KeyOf(q))' \cup {"conflict"}
<1>1. \A q \in Requests : WithKey(KeyOf(q)) \subseteq WithKey(KeyOf(q))'
  BY DEF WithKey
<1>2. \A q \in placed : q \in Requests
  BY DEF TypeOK
<1> QED
  BY <1>1, <1>2 DEF NothingPlacedYet, OrphansAreBounded

\* A request that is refused or answered before it asked Razorpay leaves nothing
\* behind; a failure is one of the answers an orphan may have.
LEMMA ReplyBounds ==
    ASSUME OrdersIInv, NothingPlacedYet, OrphansAreBounded, NEW r \in Requests,
           NEW what \in Requests \cup Errors, Reply(r, what),
           placed' \subseteq placed \cup {r}, orders \subseteq orders',
           \/ r \notin placed'
           \/ r \in orders'
           \/ what \in {"provider_error", "internal_error", "lost"}
           \/ WithKey(KeyOf(r))' # {} /\ what \in WithKey(KeyOf(r))' \cup {"conflict"}
    PROVE  NothingPlacedYet' /\ OrphansAreBounded'
<1>1. /\ pc'[r] = "done" /\ answer'[r] = what
      /\ \A q \in Requests : q # r => pc'[q] = pc[q] /\ answer'[q] = answer[q]
  BY ReplyEffect DEF OrdersIInv
<1>2. /\ \A q \in Requests \ {r} : pc'[q] \in {"validate", "find"} => q \notin placed'
      /\ \A q \in (placed' \ orders') \ {r} :
            pc'[q] = "done" =>
               \/ answer'[q] \in {"provider_error", "internal_error", "lost"}
               \/ /\ WithKey(KeyOf(q))' # {}
                  /\ answer'[q] \in WithKey(KeyOf(q))' \cup {"conflict"}
  BY <1>1, OthersStayBounded DEF OrdersIInv
<1>3. NothingPlacedYet'
  BY <1>1, <1>2 DEF NothingPlacedYet
<1>4. OrphansAreBounded'
  BY <1>1, <1>2 DEF OrphansAreBounded
<1> QED
  BY <1>3, <1>4

LEMMA GotoBounds ==
    ASSUME OrdersIInv, NothingPlacedYet, OrphansAreBounded, NEW r \in Requests,
           NEW to \in PC \ {"done"}, Goto(r, to), UNCHANGED orders,
           placed' \subseteq placed \cup {r},
           to \in {"validate", "find"} => r \notin placed'
    PROVE  NothingPlacedYet' /\ OrphansAreBounded'
<1>1. /\ pc'[r] = to
      /\ \A q \in Requests : q # r => pc'[q] = pc[q] /\ answer'[q] = answer[q]
  BY GotoEffect DEF OrdersIInv
<1>2. /\ \A q \in Requests \ {r} : pc'[q] \in {"validate", "find"} => q \notin placed'
      /\ \A q \in (placed' \ orders') \ {r} :
            pc'[q] = "done" =>
               \/ answer'[q] \in {"provider_error", "internal_error", "lost"}
               \/ /\ WithKey(KeyOf(q))' # {}
                  /\ answer'[q] \in WithKey(KeyOf(q))' \cup {"conflict"}
  BY <1>1, OthersStayBounded DEF OrdersIInv
<1>3. NothingPlacedYet'
  BY <1>1, <1>2 DEF NothingPlacedYet
<1>4. OrphansAreBounded'
  BY <1>1, <1>2 DEF OrphansAreBounded
<1> QED
  BY <1>3, <1>4

LEMMA NextBounds ==
    OrdersIInv /\ NothingPlacedYet /\ OrphansAreBounded /\ [Next]_vars
        => NothingPlacedYet' /\ OrphansAreBounded'
<1> SUFFICES ASSUME OrdersIInv, NothingPlacedYet, OrphansAreBounded, [Next]_vars
             PROVE  NothingPlacedYet' /\ OrphansAreBounded'
  OBVIOUS
<1>1. CASE UNCHANGED vars
  <2>1. \A q \in Requests : WithKey(KeyOf(q))' = WithKey(KeyOf(q))
    BY <1>1 DEF vars, WithKey
  <2>2. \A q \in placed : q \in Requests
    BY DEF OrdersIInv, TypeOK
  <2> QED
    BY <1>1, <2>1, <2>2 DEF vars, NothingPlacedYet, OrphansAreBounded
<1>2. \A q \in Requests : WithKey(KeyOf(q)) \subseteq Requests
  BY DEF WithKey, OrdersIInv, TypeOK
<1>3. ASSUME NEW r \in Requests, Validate(r) PROVE NothingPlacedYet' /\ OrphansAreBounded'
  <2>1. r \notin placed /\ UNCHANGED <<placed, orders>>
    BY <1>3 DEF Validate, NothingPlacedYet
  <2>2. CASE r \in Malformed
    BY <1>3, <2>1, <2>2, ReplyBounds DEF Validate, Errors
  <2>3. CASE r \notin Malformed
    <3>1. \E to \in {"create", "find"} : Goto(r, to)
      BY <1>3, <2>3 DEF Validate
    <3> QED
      BY <2>1, <3>1, GotoBounds DEF PC
  <2> QED
    BY <2>2, <2>3
<1>4. ASSUME NEW r \in Requests, FindByKey(r) PROVE NothingPlacedYet' /\ OrphansAreBounded'
  <2>1. r \notin placed /\ UNCHANGED <<placed, orders>>
    BY <1>4 DEF FindByKey, NothingPlacedYet
  <2>2. CASE WithKey(KeyOf(r)) = {}
    BY <1>4, <2>1, <2>2, GotoBounds DEF FindByKey, PC
  <2>3. CASE WithKey(KeyOf(r)) # {}
    <3>1. PICK o \in WithKey(KeyOf(r)) : AcceptReplayOrConflict(r, o)
      BY <1>4, <2>3 DEF FindByKey
    <3>2. \E what \in Requests \cup Errors : Reply(r, what)
      BY <1>2, <3>1 DEF AcceptReplayOrConflict, Errors
    <3> QED
      BY <2>1, <3>2, ReplyBounds
  <2> QED
    BY <2>2, <2>3
<1>5. ASSUME NEW r \in Requests, CreateRazorpayOrder(r)
      PROVE  NothingPlacedYet' /\ OrphansAreBounded'
  BY <1>5, GotoBounds DEF CreateRazorpayOrder, PC
<1>6. ASSUME NEW r \in Requests, InsertOrder(r) PROVE NothingPlacedYet' /\ OrphansAreBounded'
  <2>1. CASE WithKey(KeyOf(r)) = {}
    BY <1>6, <2>1, ReplyBounds DEF InsertOrder
  <2>2. CASE WithKey(KeyOf(r)) # {}
    BY <1>6, <2>2, GotoBounds DEF InsertOrder, PC
  <2> QED
    BY <2>1, <2>2
<1>7. ASSUME NEW r \in Requests, RereadByKey(r) PROVE NothingPlacedYet' /\ OrphansAreBounded'
  <2>1. PICK o \in WithKey(KeyOf(r)) : AcceptReplayOrConflict(r, o)
    BY <1>7 DEF RereadByKey
  <2>2. WithKey(KeyOf(r))' = WithKey(KeyOf(r)) /\ UNCHANGED <<placed, orders>>
    BY <1>7 DEF RereadByKey, WithKey
  <2>3. PICK what \in {o, "conflict"} : Reply(r, what)
    BY <2>1 DEF AcceptReplayOrConflict
  <2>4. what \in Requests \cup Errors
    BY <1>2, <2>1 DEF Errors
  <2> QED
    BY <2>1, <2>2, <2>3, <2>4, ReplyBounds
<1>8. ASSUME NEW r \in Requests, ProviderFails(r) PROVE NothingPlacedYet' /\ OrphansAreBounded'
  BY <1>8, ReplyBounds DEF ProviderFails, Errors
<1>9. ASSUME NEW r \in Requests, DatabaseFails(r) PROVE NothingPlacedYet' /\ OrphansAreBounded'
  <2>1. orders \subseteq orders' /\ placed' = placed
    BY <1>9 DEF DatabaseFails
  <2> QED
    BY <1>9, <2>1, ReplyBounds DEF DatabaseFails, Errors
<1>10. ASSUME NEW r \in Requests, AnswerLost(r) PROVE NothingPlacedYet' /\ OrphansAreBounded'
  BY <1>10, ReplyBounds DEF AnswerLost, Errors
<1> QED
  BY <1>1, <1>3, <1>4, <1>5, <1>6, <1>7, <1>8, <1>9, <1>10 DEF Next, Handle

\* A Razorpay order without a row is always accounted for by a failure its client was
\* told of or by the row that won its key ("known, bounded consequence", createOrder).
THEOREM OrphansAreBoundedHolds == Spec => []OrphansAreBounded
<1>1. Init => NothingPlacedYet /\ OrphansAreBounded
  BY DEF Init, NothingPlacedYet, OrphansAreBounded
<1>2. OrdersIInv /\ NothingPlacedYet /\ OrphansAreBounded /\ [Next]_vars
        => NothingPlacedYet' /\ OrphansAreBounded'
  BY NextBounds
<1> QED
  BY <1>1, <1>2, OrdersInvariance, PTL DEF Spec

\* Rows, answers and awaits keep to their domains (createOrder).
THEOREM OrdersTyped == Spec => []TypeOK
<1>1. OrdersIInv => TypeOK
  BY DEF OrdersIInv
<1> QED
  BY <1>1, OrdersInvariance, PTL

---------------------------------------------------------------------------
(***************************************************************************)
(* Proofs that the triggers and indexes keep payments in line with their   *)
(* orders for any number of sessions, orders and payments.                 *)
(*                                                                         *)
(* The properties speak of committed rows, the triggers read committed     *)
(* rows, and what makes the two meet is what a statement in flight keeps   *)
(* true until its commit: it stays Sound against the tables, and any two   *)
(* statements in flight are Compatible.                                    *)
(***************************************************************************)

Writes == {Idle} \cup PaymentWrites \cup OrderWrites \cup PurchaseWrites

\* What a statement in flight knows of the committed rows.
Sound(w) ==
    /\ w.kind = "payment" =>
         /\ w.row.terms = order_terms[w.row.order]
         /\ \/ w.row.order \in w.locks
            \/ Recorded(w.id) /\ payments[w.id].order = w.row.order
         /\ Recorded(w.id) => /\ LegalTransition(payments[w.id].status, w.row.status)
                              /\ CapturedPaymentFrozen(payments[w.id], w.row)
         /\ w.row.status = "CAPTURED" => CapturedFor(w.row.order) \subseteq {w.id}
    /\ w.kind = "order" => ~OrderFinancialsFrozen(w.id)

\* What the row locks and index entries keep apart.
Compatible(v, w) ==
    /\ (v.kind = "payment" /\ w.kind = "payment") =>
         /\ v.id # w.id
         /\ ~(/\ v.row.status = "CAPTURED"
              /\ w.row.status = "CAPTURED"
              /\ v.row.order = w.row.order)
    /\ (v.kind = "order" /\ w.kind = "payment") => w.row.order # v.id
    /\ (v.kind = "payment" /\ w.kind = "order") => v.row.order # w.id

InFlight ==
    /\ \A s \in Sessions : Sound(stmt[s])
    /\ \A s, u \in Sessions : s # u => Compatible(stmt[s], stmt[u])

PaymentsIInv == PaymentsTypeOK /\ PaymentsMatchOrders /\ OneCapture /\ InFlight

--------------------------------------------------------------------------
(* What the kind of a statement says of its fields.                        *)

LEMMA WriteShape ==
    ASSUME NEW w \in Writes
    PROVE  /\ w.kind = "payment" => w \in PaymentWrites
           /\ w.kind = "order" => w \in OrderWrites
           /\ w.kind = "purchase" => w \in PurchaseWrites
BY DEF Writes, Idle, PaymentWrites, OrderWrites, PurchaseWrites

\* The initial state: nothing is in flight and no payment is recorded.
LEMMA PaymentsInitHolds == PaymentsInit => PaymentsIInv
<1> SUFFICES ASSUME PaymentsInit PROVE PaymentsIInv
  OBVIOUS
<1>1. PaymentsTypeOK
  BY DEF PaymentsInit, PaymentsTypeOK
<1>2. PaymentsMatchOrders /\ OneCapture
  BY DEF PaymentsInit, PaymentsMatchOrders, OneCapture, Recorded
<1>3. InFlight
  BY DEF PaymentsInit, InFlight, Sound, Compatible, Idle
<1> QED
  BY <1>1, <1>2, <1>3 DEF PaymentsIInv

--------------------------------------------------------------------------
(* Executing a statement.                                                  *)

\* A statement that is sound and compatible with those in flight may join
\* them: the tables do not move.
LEMMA Joins ==
    ASSUME PaymentsIInv, NEW s \in Sessions, NEW w \in Writes, Execute(s, w), Sound(w),
           \A u \in Sessions : u # s => Compatible(w, stmt[u]) /\ Compatible(stmt[u], w)
    PROVE  PaymentsIInv'
<1>1. PaymentsTypeOK'
  BY DEF PaymentsIInv, PaymentsTypeOK, Execute, Writes
<1>2. /\ UNCHANGED <<order_terms, payments, meta_events>>
      /\ \A u \in Sessions : stmt'[u] = IF u = s THEN w ELSE stmt[u]
  BY DEF PaymentsIInv, PaymentsTypeOK, Execute
<1>3. PaymentsMatchOrders' /\ OneCapture'
  BY <1>2 DEF PaymentsIInv, PaymentsMatchOrders, OneCapture, Recorded
<1>4. ASSUME NEW u \in Sessions PROVE Sound(stmt[u])'
  <2>1. Sound(stmt'[u])
    BY <1>2 DEF PaymentsIInv, InFlight
  <2> QED
    BY <1>2, <2>1 DEF Sound, Recorded, CapturedFor, OrderFinancialsFrozen
<1>5. ASSUME NEW u \in Sessions, NEW v \in Sessions, u # v
      PROVE  Compatible(stmt[u], stmt[v])'
  <2>1. Compatible(stmt'[u], stmt'[v])
    BY <1>2, <1>5 DEF PaymentsIInv, InFlight
  <2> QED
    BY <2>1 DEF Compatible
<1> QED
  BY <1>1, <1>3, <1>4, <1>5 DEF PaymentsIInv, InFlight

\* A payment statement that found no UPDATE of the order in flight, no writer
\* of its row and no capture in flight is compatible with every other one.
LEMMA PaymentCompatible ==
    ASSUME PaymentsIInv, NEW s \in Sessions, NEW p \in Payments, NEW row \in Payment,
           NEW locks \in SUBSET Orders, ~Writing("payment", p),
           ~Writing("order", row.order),
           row.status = "CAPTURED" => ~CaptureInFlight(row.order)
    PROVE  LET w == [kind |-> "payment", id |-> p, row |-> row, locks |-> locks]
           IN  \A u \in Sessions : u # s => Compatible(w, stmt[u]) /\ Compatible(stmt[u], w)
<1> DEFINE w == [kind |-> "payment", id |-> p, row |-> row, locks |-> locks]
<1> SUFFICES ASSUME NEW u \in Sessions PROVE Compatible(w, stmt[u]) /\ Compatible(stmt[u], w)
  OBVIOUS
<1>1. /\ w.kind = "payment"
      /\ w.id = p
      /\ w.row = row
  OBVIOUS
<1>2. stmt[u].kind = "payment" => stmt[u].id # p
  BY DEF Writing
<1>3. stmt[u].kind = "order" => stmt[u].id # row.order
  BY DEF Writing
<1>4. ~(/\ stmt[u].kind = "payment"
        /\ stmt[u].row.status = "CAPTURED"
        /\ row.status = "CAPTURED"
        /\ stmt[u].row.order = row.order)
  BY DEF CaptureInFlight
<1> HIDE DEF w
<1> QED
  BY <1>1, <1>2, <1>3, <1>4 DEF Compatible

\* InsertPayment takes the share lock and finds no row of its own.
LEMMA InsertPaymentKeeps ==
    ASSUME PaymentsIInv, NEW s \in Sessions, NEW p \in Payments, NEW row \in Payment,
           InsertPayment(s, p, row)
    PROVE  PaymentsIInv'
<1> DEFINE w == [kind |-> "payment", id |-> p, row |-> row, locks |-> {row.order}]
<1>1. w \in Writes
  BY DEF Writes, PaymentWrites, Payment
<1>2. Sound(w)
  BY DEF Sound, InsertPayment, PaymentMatchesOrder, OneCapturedPerOrder
<1>3. {row.order} \in SUBSET Orders
  BY DEF Payment
<1>4. \A u \in Sessions : u # s => Compatible(w, stmt[u]) /\ Compatible(stmt[u], w)
  BY <1>3, PaymentCompatible DEF InsertPayment, PaymentMatchesOrder, OneCapturedPerOrder
<1>5. Execute(s, w)
  BY DEF InsertPayment
<1> HIDE DEF w
<1> QED
  BY <1>1, <1>2, <1>4, <1>5, Joins

\* UpdatePayment: an update that leaves order and terms alone takes no lock on
\* the order, but the row it updates already freezes it.
LEMMA UpdatePaymentKeeps ==
    ASSUME PaymentsIInv, NEW s \in Sessions, NEW p \in Payments, NEW row \in Payment,
           UpdatePayment(s, p, row)
    PROVE  PaymentsIInv'
<1> DEFINE rematched == row.order # payments[p].order \/ row.terms # payments[p].terms
<1> DEFINE locks == IF rematched THEN {row.order} ELSE {}
<1> DEFINE w == [kind |-> "payment", id |-> p, row |-> row, locks |-> locks]
<1>1. locks \in SUBSET Orders
  BY DEF Payment
<1>2. w \in Writes
  BY <1>1 DEF Writes, PaymentWrites
<1>3. Recorded(p) /\ payments[p] \in Payment
  BY DEF UpdatePayment, Recorded, PaymentsIInv, PaymentsTypeOK
<1>4. row.terms = order_terms[row.order] /\ ~Writing("order", row.order)
  <2>1. CASE rematched
    BY <2>1 DEF UpdatePayment, PaymentMatchesOrder
  <2>2. CASE ~rematched
    <3>1. row.terms = order_terms[row.order]
      BY <1>3, <2>2 DEF PaymentsIInv, PaymentsMatchOrders
    <3>2. ASSUME NEW u \in Sessions, stmt[u].kind = "order", stmt[u].id = row.order
          PROVE  FALSE
      <4>1. ~OrderFinancialsFrozen(stmt[u].id)
        BY <3>2 DEF PaymentsIInv, InFlight, Sound
      <4> QED
        BY <4>1, <3>2, <1>3, <2>2 DEF OrderFinancialsFrozen
    <3> QED
      BY <3>1, <3>2 DEF Writing
  <2> QED
    BY <2>1, <2>2
<1>5. Sound(w)
  BY <1>3, <1>4 DEF Sound, UpdatePayment, OneCapturedPerOrder
<1>6. /\ ~Writing("payment", p)
      /\ row.status = "CAPTURED" => ~CaptureInFlight(row.order)
  BY DEF UpdatePayment, OneCapturedPerOrder
<1>7. Execute(s, w)
  BY DEF UpdatePayment
<1> HIDE DEF locks, rematched
<1>8. \A u \in Sessions : u # s => Compatible(w, stmt[u]) /\ Compatible(stmt[u], w)
  BY <1>1, <1>4, <1>6, PaymentCompatible
<1> HIDE DEF w
<1> QED
  BY <1>2, <1>5, <1>7, <1>8, Joins

\* UpdateOrder: a payment statement in flight for the order either holds the
\* share lock or updates a row that freezes the order.
LEMMA UpdateOrderKeeps ==
    ASSUME PaymentsIInv, NEW s \in Sessions, NEW o \in Orders, NEW terms \in Terms,
           UpdateOrder(s, o, terms)
    PROVE  PaymentsIInv'
<1> DEFINE w == [kind |-> "order", id |-> o, terms |-> terms]
<1>1. w \in Writes
  BY DEF Writes, OrderWrites
<1>2. Sound(w)
  BY DEF Sound, UpdateOrder
<1>3. ASSUME NEW u \in Sessions PROVE Compatible(w, stmt[u]) /\ Compatible(stmt[u], w)
  <2>1. stmt[u].kind = "payment" => stmt[u].row.order # o
    <3> SUFFICES ASSUME stmt[u].kind = "payment", stmt[u].row.order = o PROVE FALSE
      OBVIOUS
    <3>1. stmt[u] \in PaymentWrites
      BY WriteShape DEF PaymentsIInv, PaymentsTypeOK, Writes
    <3>2. o \in stmt[u].locks \/ (Recorded(stmt[u].id) /\ payments[stmt[u].id].order = o)
      BY DEF PaymentsIInv, InFlight, Sound
    <3> QED
      BY <3>1, <3>2 DEF UpdateOrder, Shared, OrderFinancialsFrozen, PaymentWrites
  <2> QED
    BY <2>1 DEF Compatible
<1>4. Execute(s, w)
  BY DEF UpdateOrder
<1> HIDE DEF w
<1> QED
  BY <1>1, <1>2, <1>3, <1>4, Joins

\* InsertPurchase constrains nothing the invariant speaks of.
LEMMA InsertPurchaseKeeps ==
    ASSUME PaymentsIInv, NEW s \in Sessions, NEW o \in Orders, InsertPurchase(s, o)
    PROVE  PaymentsIInv'
<1> DEFINE w == [kind |-> "purchase", id |-> o]
<1>1. w \in Writes
  BY DEF Writes, PurchaseWrites
<1>2. Sound(w)
  BY DEF Sound
<1>3. \A u \in Sessions : Compatible(w, stmt[u]) /\ Compatible(stmt[u], w)
  BY DEF Compatible
<1>4. Execute(s, w)
  BY DEF InsertPurchase
<1> HIDE DEF w
<1> QED
  BY <1>1, <1>2, <1>3, <1>4, Joins

--------------------------------------------------------------------------
(* Ending a transaction.                                                   *)

\* A session that goes idle leaves the others as compatible as they were.
LEMMA GoesIdle ==
    ASSUME PaymentsIInv, NEW s \in Sessions, stmt' = [stmt EXCEPT ![s] = Idle]
    PROVE  /\ stmt' \in [Sessions -> Writes]
           /\ \A u, v \in Sessions : u # v => Compatible(stmt[u], stmt[v])'
           /\ \A u \in Sessions : u # s => stmt'[u] = stmt[u]
           /\ stmt'[s] = Idle
<1>1. /\ stmt' \in [Sessions -> Writes]
      /\ \A u \in Sessions : u # s => stmt'[u] = stmt[u]
      /\ stmt'[s] = Idle
  BY DEF PaymentsIInv, PaymentsTypeOK, Writes
<1>2. ASSUME NEW u \in Sessions, NEW v \in Sessions, u # v
      PROVE  Compatible(stmt[u], stmt[v])'
  <2>1. CASE u = s \/ v = s
    BY <1>1, <2>1 DEF Compatible, Idle
  <2>2. CASE u # s /\ v # s
    <3>1. Compatible(stmt[u], stmt[v])
      BY <1>2 DEF PaymentsIInv, InFlight
    <3> QED
      BY <1>1, <2>2, <3>1 DEF Compatible
  <2> QED
    BY <2>1, <2>2
<1> QED
  BY <1>1, <1>2

\* A rollback leaves the tables alone.
LEMMA RollbackKeeps ==
    ASSUME PaymentsIInv, NEW s \in Sessions, Rollback(s)
    PROVE  PaymentsIInv'
<1>1. UNCHANGED <<order_terms, payments, meta_events>> /\ stmt' = [stmt EXCEPT ![s] = Idle]
  BY DEF Rollback
<1>2. PaymentsTypeOK' /\ PaymentsMatchOrders' /\ OneCapture'
  BY <1>1, GoesIdle DEF PaymentsIInv, PaymentsTypeOK, Writes, PaymentsMatchOrders, OneCapture, Recorded
<1>3. ASSUME NEW u \in Sessions PROVE Sound(stmt[u])'
  <2>1. CASE u = s
    BY <1>1, <2>1, GoesIdle DEF Sound, Idle
  <2>2. CASE u # s
    <3>1. Sound(stmt[u]) /\ stmt'[u] = stmt[u]
      BY <1>1, <2>2, GoesIdle DEF PaymentsIInv, InFlight
    <3> QED
      BY <1>1, <3>1 DEF Sound, Recorded, CapturedFor, OrderFinancialsFrozen
  <2> QED
    BY <2>1, <2>2
<1> QED
  BY <1>1, <1>2, <1>3, GoesIdle DEF PaymentsIInv, InFlight

\* A payment row is committed: it carries the order's terms, no other capture
\* of the order is recorded, and nobody else was writing the same row.
LEMMA CommitPaymentKeeps ==
    ASSUME PaymentsIInv, NEW s \in Sessions, stmt[s].kind = "payment",
           payments' = [payments EXCEPT ![stmt[s].id] = stmt[s].row],
           UNCHANGED <<order_terms, meta_events>>,
           stmt' = [stmt EXCEPT ![s] = Idle]
    PROVE  PaymentsIInv'
<1> DEFINE w == stmt[s]
<1>1. w \in PaymentWrites /\ w.id \in Payments /\ w.row \in Payment
  BY WriteShape DEF PaymentsIInv, PaymentsTypeOK, Writes, PaymentWrites
<1>2. \A p \in Payments : payments'[p] = IF p = w.id THEN w.row ELSE payments[p]
  BY <1>1 DEF PaymentsIInv, PaymentsTypeOK
<1>3. Sound(w)
  BY DEF PaymentsIInv, InFlight
<1>4. w.row # NoPayment
  BY <1>1, NoPaymentAssumption
<1>5. PaymentsTypeOK'
  BY <1>1, GoesIdle DEF PaymentsIInv, PaymentsTypeOK, Writes
<1>6. PaymentsMatchOrders'
  BY <1>2, <1>3 DEF PaymentsIInv, PaymentsMatchOrders, Recorded, Sound
<1>7. OneCapture'
  <2> SUFFICES ASSUME NEW p \in Payments, NEW q \in Payments,
                      Recorded(p)', Recorded(q)',
                      payments'[p].status = "CAPTURED", payments'[q].status = "CAPTURED",
                      payments'[p].order = payments'[q].order, p # q
               PROVE  FALSE
    BY DEF OneCapture
  <2>1. CASE p # w.id /\ q # w.id
    BY <1>2, <2>1 DEF PaymentsIInv, OneCapture, Recorded
  <2>2. CASE p = w.id
    <3>1. q \in CapturedFor(w.row.order)
      BY <1>2, <2>2 DEF CapturedFor, Recorded
    <3> QED
      BY <1>2, <1>3, <2>2, <3>1 DEF Sound
  <2>3. CASE q = w.id
    <3>1. p \in CapturedFor(w.row.order)
      BY <1>2, <2>3 DEF CapturedFor, Recorded
    <3> QED
      BY <1>2, <1>3, <2>3, <3>1 DEF Sound
  <2> QED
    BY <2>1, <2>2, <2>3
<1>8. ASSUME NEW u \in Sessions, u # s PROVE Sound(stmt[u])'
  <2> DEFINE v == stmt[u]
  <2>1. Sound(v) /\ Compatible(v, w) /\ stmt'[u] = v
    BY <1>8, GoesIdle DEF PaymentsIInv, InFlight
  <2>2. CASE v.kind = "payment"
    <3>1. v.id \in Payments /\ v.id # w.id /\ payments'[v.id] = payments[v.id]
      BY <1>2, <2>1, <2>2, WriteShape DEF PaymentsIInv, PaymentsTypeOK, Writes, PaymentWrites, Compatible
    <3>2. ASSUME v.row.status = "CAPTURED" PROVE CapturedFor(v.row.order)' \subseteq {v.id}
      BY <1>2, <2>1, <2>2, <3>2 DEF CapturedFor, Recorded, Sound, Compatible
    <3> QED
      BY <2>1, <2>2, <3>1, <3>2 DEF Sound, Recorded
  <2>3. CASE v.kind = "order"
    <3>1. w.row.order # v.id
      BY <2>1, <2>3 DEF Compatible
    <3>2. ~OrderFinancialsFrozen(v.id)'
      BY <1>2, <2>1, <2>3, <3>1 DEF Sound, OrderFinancialsFrozen, Recorded
    <3> QED
      BY <2>1, <2>3, <3>2 DEF Sound
  <2>4. CASE v.kind \notin {"payment", "order"}
    BY <2>1, <2>4 DEF Sound
  <2> QED
    BY <2>2, <2>3, <2>4
<1>9. Sound(stmt[s])'
  BY GoesIdle DEF Sound, Idle
<1> QED
  BY <1>5, <1>6, <1>7, <1>8, <1>9, GoesIdle DEF PaymentsIInv, InFlight

\* New terms of an order are committed: no payment for it exists, and none is
\* in flight.
LEMMA CommitOrderKeeps ==
    ASSUME PaymentsIInv, NEW s \in Sessions, stmt[s].kind = "order",
           order_terms' = [order_terms EXCEPT ![stmt[s].id] = stmt[s].terms],
           UNCHANGED <<payments, meta_events>>,
           stmt' = [stmt EXCEPT ![s] = Idle]
    PROVE  PaymentsIInv'
<1> DEFINE w == stmt[s]
<1>1. w \in OrderWrites /\ w.id \in Orders /\ w.terms \in Terms
  BY WriteShape DEF PaymentsIInv, PaymentsTypeOK, Writes, OrderWrites
<1>2. \A o \in Orders : o # w.id => order_terms'[o] = order_terms[o]
  BY <1>1 DEF PaymentsIInv, PaymentsTypeOK
<1>3. Sound(w)
  BY DEF PaymentsIInv, InFlight
<1>4. PaymentsTypeOK'
  BY <1>1, GoesIdle DEF PaymentsIInv, PaymentsTypeOK, Writes
<1>5. PaymentsMatchOrders'
  <2> SUFFICES ASSUME NEW p \in Payments, Recorded(p)
               PROVE  payments[p].terms = order_terms'[payments[p].order]
    BY DEF PaymentsMatchOrders, Recorded
  <2>1. payments[p].order \in Orders /\ payments[p].order # w.id
    BY <1>3 DEF PaymentsIInv, PaymentsTypeOK, Recorded, Payment, Sound, OrderFinancialsFrozen
  <2> QED
    BY <1>2, <2>1 DEF PaymentsIInv, PaymentsMatchOrders
<1>6. OneCapture'
  BY DEF PaymentsIInv, OneCapture, Recorded
<1>7. ASSUME NEW u \in Sessions, u # s PROVE Sound(stmt[u])'
  <2> DEFINE v == stmt[u]
  <2>1. Sound(v) /\ Compatible(v, w) /\ stmt'[u] = v
    BY <1>7, GoesIdle DEF PaymentsIInv, InFlight
  <2>2. v.kind = "payment" => v.row.order \in Orders /\ v.row.order # w.id
    BY <2>1, WriteShape DEF PaymentsIInv, PaymentsTypeOK, Writes, PaymentWrites, Payment, Compatible
  <2>3. v.kind = "payment" => order_terms'[v.row.order] = order_terms[v.row.order]
    BY <1>2, <2>2
  <2> HIDE DEF v, w
  <2> QED
    BY <2>1, <2>3 DEF Sound, Recorded, CapturedFor, OrderFinancialsFrozen
<1>8. Sound(stmt[s])'
  BY GoesIdle DEF Sound, Idle
<1> QED
  BY <1>4, <1>5, <1>6, <1>7, <1>8, GoesIdle DEF PaymentsIInv, InFlight

\* A Purchase row is committed: payments and orders stay as they are.
LEMMA CommitPurchaseKeeps ==
    ASSUME PaymentsIInv, NEW s \in Sessions, stmt[s].kind = "purchase",
           meta_events' = meta_events \cup {stmt[s].id},
           UNCHANGED <<order_terms, payments>>,
           stmt' = [stmt EXCEPT ![s] = Idle]
    PROVE  PaymentsIInv'
<1>1. stmt[s].id \in Orders
  BY WriteShape DEF PaymentsIInv, PaymentsTypeOK, Writes, PurchaseWrites
<1>2. PaymentsTypeOK' /\ PaymentsMatchOrders' /\ OneCapture'
  BY <1>1, GoesIdle DEF PaymentsIInv, PaymentsTypeOK, Writes, PaymentsMatchOrders, OneCapture, Recorded
<1>3. ASSUME NEW u \in Sessions, u # s PROVE Sound(stmt[u])'
  <2>1. Sound(stmt[u]) /\ stmt'[u] = stmt[u]
    BY <1>3, GoesIdle DEF PaymentsIInv, InFlight
  <2> QED
    BY <2>1 DEF Sound, Recorded, CapturedFor, OrderFinancialsFrozen
<1>4. Sound(stmt[s])'
  BY GoesIdle DEF Sound, Idle
<1> QED
  BY <1>2, <1>3, <1>4, GoesIdle DEF PaymentsIInv, InFlight

--------------------------------------------------------------------------
(* The theorems.                                                           *)

\* Every step keeps the invariant.
LEMMA PaymentsNextKeeps == PaymentsIInv /\ [PaymentsNext]_paymentVars => PaymentsIInv'
<1> SUFFICES ASSUME PaymentsIInv, [PaymentsNext]_paymentVars PROVE PaymentsIInv'
  OBVIOUS
<1>1. CASE UNCHANGED paymentVars
  BY <1>1 DEF paymentVars, PaymentsIInv, PaymentsTypeOK, PaymentsMatchOrders, OneCapture, InFlight,
              Sound, Compatible, Recorded, CapturedFor, OrderFinancialsFrozen
<1>2. ASSUME NEW s \in Sessions, NEW p \in Payments, NEW row \in Payment,
             InsertPayment(s, p, row) \/ UpdatePayment(s, p, row)
      PROVE  PaymentsIInv'
  BY <1>2, InsertPaymentKeeps, UpdatePaymentKeeps
<1>3. ASSUME NEW s \in Sessions, NEW o \in Orders, NEW terms \in Terms, UpdateOrder(s, o, terms)
      PROVE  PaymentsIInv'
  BY <1>3, UpdateOrderKeeps
<1>4. ASSUME NEW s \in Sessions, NEW o \in Orders, InsertPurchase(s, o) PROVE PaymentsIInv'
  BY <1>4, InsertPurchaseKeeps
<1>5. ASSUME NEW s \in Sessions, Commit(s) PROVE PaymentsIInv'
  BY <1>5, CommitPaymentKeeps, CommitOrderKeeps, CommitPurchaseKeeps DEF Commit
<1>6. ASSUME NEW s \in Sessions, Rollback(s) PROVE PaymentsIInv'
  BY <1>6, RollbackKeeps
<1> QED
  BY <1>1, <1>2, <1>3, <1>4, <1>5, <1>6 DEF PaymentsNext

\* The inductive invariant holds in every reachable state.
THEOREM PaymentsInvariance == PaymentsSpec => []PaymentsIInv
<1>1. PaymentsInit => PaymentsIInv
  BY PaymentsInitHolds
<1>2. PaymentsIInv /\ [PaymentsNext]_paymentVars => PaymentsIInv'
  BY PaymentsNextKeeps
<1> QED
  BY <1>1, <1>2, PTL DEF PaymentsSpec

\* Every table and every statement in flight keeps its type.
THEOREM PaymentsTyped == PaymentsSpec => []PaymentsTypeOK
<1>1. PaymentsIInv => PaymentsTypeOK
  BY DEF PaymentsIInv
<1> QED
  BY <1>1, PaymentsInvariance, PTL

\* Every payment row carries the terms of its order, for any number of
\* sessions (triggers payments_match_order and orders_financials_frozen).
THEOREM PaymentsMatchOrdersHolds == PaymentsSpec => []PaymentsMatchOrders
<1>1. PaymentsIInv => PaymentsMatchOrders
  BY DEF PaymentsIInv
<1> QED
  BY <1>1, PaymentsInvariance, PTL

\* No order ever has two captured payments (payments_one_captured_per_order).
THEOREM OneCaptureHolds == PaymentsSpec => []OneCapture
<1>1. PaymentsIInv => OneCapture
  BY DEF PaymentsIInv
<1> QED
  BY <1>1, PaymentsInvariance, PTL

\* A captured payment is moved by nothing but its refund, and a failed or
\* refunded one by nothing (triggers payments_status_transition and
\* payments_captured_frozen).
THEOREM CaptureIsFinalHolds == PaymentsSpec => CaptureIsFinal
<1>1. PaymentsIInv /\ [PaymentsNext]_paymentVars => [CaptureStep]_paymentVars
  <2> SUFFICES ASSUME PaymentsIInv, [PaymentsNext]_paymentVars PROVE CaptureStep \/ UNCHANGED paymentVars
    OBVIOUS
  <2>1. CASE payments' = payments
    BY <2>1 DEF CaptureStep, Recorded, LegalTransition
  <2>2. ASSUME NEW s \in Sessions, Commit(s), stmt[s].kind = "payment" PROVE CaptureStep
    <3>1. stmt[s].id \in Payments /\ stmt[s].row \in Payment
      BY <2>2, WriteShape DEF PaymentsIInv, PaymentsTypeOK, Writes, PaymentWrites
    <3>2. payments' = [payments EXCEPT ![stmt[s].id] = stmt[s].row]
      BY <2>2 DEF Commit
    <3>3. \A p \in Payments : payments'[p] = IF p = stmt[s].id THEN stmt[s].row ELSE payments[p]
      BY <3>1, <3>2 DEF PaymentsIInv, PaymentsTypeOK
    <3>4. Sound(stmt[s])
      BY DEF PaymentsIInv, InFlight
    <3>5. stmt[s].row # NoPayment
      BY <3>1, NoPaymentAssumption
    <3> QED
      BY <2>2, <3>3, <3>4, <3>5 DEF CaptureStep, Sound, Recorded, LegalTransition,
                                    CapturedPaymentFrozen
  <2>3. payments' = payments \/ \E s \in Sessions : Commit(s) /\ stmt[s].kind = "payment"
    BY DEF PaymentsNext, paymentVars, InsertPayment, UpdatePayment, UpdateOrder, InsertPurchase,
           Execute, Commit, Rollback
  <2> QED
    BY <2>1, <2>2, <2>3
<1> QED
  BY <1>1, PaymentsInvariance, PTL DEF CaptureIsFinal, PaymentsSpec

---------------------------------------------------------------------------
(* The checkout page (Checkout).                                           *)

CheckoutTyped ==
    /\ panel \in [phase : Phases, order : 1..MaxStarts \cup {None}]
    /\ starts \in Seq(Running \cup {"over"}) /\ Len(starts) <= MaxStarts
    /\ ordered \subseteq DOMAIN starts
    /\ charged \subseteq ordered
    /\ tried \subseteq ordered
    /\ sdk \in {"absent", "loading", "ready", "broken"}
    /\ window \in ordered \cup {None}

\* The attempt under way is the last one, no window is open, and the panel shows it.
UnderWay ==
    \A n \in DOMAIN starts :
        starts[n] \in Running =>
            /\ n = Len(starts) /\ window = None
            /\ starts[n] = "request" => panel.phase = "creating"
            /\ starts[n] # "request" =>
                  n \in ordered /\ panel.phase = "opening" /\ panel.order = n
            /\ starts[n] = "load" => sdk = "loading"

\* An open window is that of the last attempt, which the panel shows.
WindowIsShown ==
    window # None =>
        window = Len(starts) /\ panel.phase \in {"opening", "failed"} /\ panel.order = window

\* What the panel shows as busy is under way.
ShownIsBusy ==
    /\ panel.phase = "creating" => \E n \in DOMAIN starts : starts[n] = "request"
    /\ panel.phase = "opening" =>
          \/ window = panel.order /\ window # None
          \/ panel.order \in DOMAIN starts /\ starts[panel.order] \in {"load", "loaded", "unloaded"}

CheckoutIInv ==
    CheckoutTyped /\ UnderWay /\ WindowIsShown /\ ShownIsBusy /\ PaidIsShown

--------------------------------------------------------------------------
LEMMA CheckoutInitHolds == ASSUME CheckoutInit PROVE CheckoutIInv
BY CheckoutConstants DEF CheckoutInit, CheckoutIInv, CheckoutTyped, UnderWay, WindowIsShown,
   ShownIsBusy, PaidIsShown, Phases, Running

\* What the types say of an attempt.
LEMMA Attempts ==
    ASSUME CheckoutIInv
    PROVE  /\ Len(starts) \in Nat /\ DOMAIN starts = 1..Len(starts) /\ Len(starts) <= MaxStarts
           /\ starts \in Seq(Running \cup {"over"})
           /\ \A n \in DOMAIN starts : n \in 1..MaxStarts /\ n # None
           /\ None \notin tried /\ None \notin ordered
           /\ \A n \in DOMAIN starts, step \in Running \cup {"over"} :
                 LET after == [starts EXCEPT ![n] = step]
                 IN  /\ after \in Seq(Running \cup {"over"}) /\ Len(after) = Len(starts)
                     /\ DOMAIN after = DOMAIN starts /\ after[n] = step
                     /\ \A m \in DOMAIN starts : m # n => after[m] = starts[m]
<1>1. /\ starts \in Seq(Running \cup {"over"}) /\ Len(starts) \in Nat
      /\ DOMAIN starts = 1..Len(starts) /\ Len(starts) <= MaxStarts
  BY DEF CheckoutIInv, CheckoutTyped
<1>2. \A n \in DOMAIN starts : n \in 1..MaxStarts /\ n # None
  BY <1>1, CheckoutConstants
<1>3. None \notin tried /\ None \notin ordered
  BY <1>2 DEF CheckoutIInv, CheckoutTyped
<1>4. ASSUME NEW n \in DOMAIN starts, NEW step \in Running \cup {"over"}
      PROVE  LET after == [starts EXCEPT ![n] = step]
             IN  /\ after \in Seq(Running \cup {"over"}) /\ Len(after) = Len(starts)
                 /\ DOMAIN after = DOMAIN starts /\ after[n] = step
                 /\ \A m \in DOMAIN starts : m # n => after[m] = starts[m]
  BY <1>1
<1> QED
  BY <1>1, <1>2, <1>3, <1>4

LEMMA SubmitKeeps == ASSUME CheckoutIInv, Submit PROVE CheckoutIInv'
<1> DEFINE n == Len(starts) + 1
<1>1. /\ starts' = Append(starts, "request") /\ Len(starts) < MaxStarts /\ window = None
      /\ panel' = [phase |-> "creating", order |-> None] /\ panel.phase \in {"idle", "failed", "dismissed"}
      /\ UNCHANGED <<ordered, sdk, window, tried, charged, told, held>>
  BY DEF Submit, OnSubmit, CanSubmit, To
<1>2. /\ starts' \in Seq(Running \cup {"over"}) /\ Len(starts') = n /\ n <= MaxStarts
      /\ DOMAIN starts' = 1..n /\ starts'[n] = "request"
      /\ \A m \in DOMAIN starts : m \in DOMAIN starts' /\ starts'[m] = starts[m]
      /\ \A m \in DOMAIN starts' : m \in DOMAIN starts \/ m = n
  BY <1>1, Attempts, CheckoutConstants DEF Running
<1>3. CheckoutTyped'
  BY <1>1, <1>2 DEF CheckoutIInv, CheckoutTyped, Phases
<1>4. \A m \in DOMAIN starts : starts[m] \notin Running
  BY <1>1 DEF CheckoutIInv, UnderWay, Running
<1> HIDE DEF n
<1>5. UnderWay' /\ WindowIsShown'
  BY <1>1, <1>2, <1>4 DEF UnderWay, WindowIsShown, Running
<1>6. ShownIsBusy' /\ PaidIsShown'
  BY <1>1, <1>2 DEF ShownIsBusy, CheckoutIInv, PaidIsShown
<1> QED
  BY <1>3, <1>5, <1>6 DEF CheckoutIInv

LEMMA ServerCreatesOrderKeeps ==
    ASSUME CheckoutIInv, NEW n \in DOMAIN starts, ServerCreatesOrder(n)
    PROVE  CheckoutIInv'
BY DEF ServerCreatesOrder, CheckoutIInv, CheckoutTyped, UnderWay, WindowIsShown, ShownIsBusy,
       PaidIsShown

\* An attempt that is under way moves on; no other is.
LEMMA OthersAreOver ==
    ASSUME CheckoutIInv, NEW n \in DOMAIN starts, starts[n] \in Running
    PROVE  /\ n = Len(starts) /\ window = None /\ told = {}
           /\ \A m \in DOMAIN starts : m # n => starts[m] = "over"
<1>1. n = Len(starts) /\ window = None /\ panel.phase \in {"creating", "opening"}
  BY DEF CheckoutIInv, UnderWay, Running
<1>2. \A m \in DOMAIN starts : starts[m] \in Running \cup {"over"}
  BY Attempts
<1> QED
  BY <1>1, <1>2 DEF CheckoutIInv, UnderWay, PaidIsShown

LEMMA ReceiveOrderKeeps ==
    ASSUME CheckoutIInv, NEW n \in DOMAIN starts, ReceiveOrder(n)
    PROVE  CheckoutIInv'
<1>1. starts[n] = "request" /\ n \in ordered /\ starts[n] \in Running
  BY DEF ReceiveOrder, Running
<1>2. panel.phase = "creating" /\ panel' = [phase |-> "opening", order |-> n]
  BY <1>1 DEF ReceiveOrder, CheckoutIInv, UnderWay, OnOrderCreated, To
<1>3. /\ Loading[sdk] \in {"load", "loaded", "unloaded"}
      /\ Loading[sdk] = "load" => sdk' = "loading"
      /\ sdk' \in {"absent", "loading", "ready", "broken"}
  BY DEF ReceiveOrder, Loading, CheckoutIInv, CheckoutTyped
<1> DEFINE step == Loading[sdk]
<1>4. starts' = [starts EXCEPT ![n] = step]
      /\ UNCHANGED <<ordered, window, tried, charged, told, held>>
  BY DEF ReceiveOrder
<1> HIDE DEF step
<1>5. /\ starts' \in Seq(Running \cup {"over"}) /\ Len(starts') = Len(starts)
      /\ DOMAIN starts' = DOMAIN starts /\ starts'[n] = step
      /\ \A m \in DOMAIN starts : m # n => starts'[m] = "over"
  BY <1>1, <1>3, <1>4, Attempts, OthersAreOver DEF Running, step
<1>6. CheckoutTyped'
  BY <1>2, <1>3, <1>4, <1>5, Attempts DEF CheckoutIInv, CheckoutTyped, Phases
<1>7. n = Len(starts) /\ window = None /\ told = {}
  BY <1>1, OthersAreOver
<1>8. UnderWay'
  BY <1>1, <1>2, <1>3, <1>4, <1>5, <1>7 DEF UnderWay, Running, step
<1>9. WindowIsShown' /\ ShownIsBusy' /\ PaidIsShown'
  BY <1>2, <1>3, <1>4, <1>5, <1>7 DEF WindowIsShown, ShownIsBusy, PaidIsShown, step
<1> QED
  BY <1>6, <1>8, <1>9 DEF CheckoutIInv

\* An attempt ends without a window: the panel says so.
LEMMA EndKeeps ==
    ASSUME CheckoutIInv, NEW n \in DOMAIN starts, starts[n] \in Running,
           panel'.phase = "failed", panel' \in [phase : Phases, order : 1..MaxStarts \cup {None}],
           starts' = [starts EXCEPT ![n] = "over"],
           UNCHANGED <<ordered, sdk, window, tried, charged, told, held>>
    PROVE  CheckoutIInv'
<1>1. /\ starts' \in Seq(Running \cup {"over"}) /\ Len(starts') = Len(starts)
      /\ DOMAIN starts' = DOMAIN starts
      /\ \A m \in DOMAIN starts : starts'[m] = "over"
  BY Attempts, OthersAreOver
<1>2. CheckoutTyped'
  BY <1>1 DEF CheckoutIInv, CheckoutTyped
<1>3. UnderWay' /\ WindowIsShown' /\ ShownIsBusy' /\ PaidIsShown'
  BY <1>1, OthersAreOver DEF UnderWay, WindowIsShown, ShownIsBusy, PaidIsShown, Running
<1> QED
  BY <1>2, <1>3 DEF CheckoutIInv

LEMMA ReceiveFailureKeeps ==
    ASSUME CheckoutIInv, NEW n \in DOMAIN starts, ReceiveFailure(n)
    PROVE  CheckoutIInv'
<1>1. starts[n] \in Running /\ panel' = [phase |-> "failed", order |-> None]
  BY DEF ReceiveFailure, OnOrderFailed, To, Running
<1>2. panel'.phase = "failed" /\ panel' \in [phase : Phases, order : 1..MaxStarts \cup {None}]
  BY <1>1 DEF Phases
<1>3. /\ starts' = [starts EXCEPT ![n] = "over"]
      /\ UNCHANGED <<ordered, sdk, window, tried, charged, told, held>>
  BY DEF ReceiveFailure
<1> QED
  BY <1>1, <1>2, <1>3, EndKeeps

LEMMA LoadFailedKeeps ==
    ASSUME CheckoutIInv, NEW n \in DOMAIN starts, LoadFailed(n)
    PROVE  CheckoutIInv'
<1>1. starts[n] \in Running /\ panel' = [phase |-> "failed", order |-> panel.order]
  BY DEF LoadFailed, OnPaymentFailed, To, Running
<1>2. panel.order \in 1..MaxStarts \cup {None}
  BY DEF CheckoutIInv, CheckoutTyped
<1>3. panel'.phase = "failed" /\ panel' \in [phase : Phases, order : 1..MaxStarts \cup {None}]
  BY <1>1, <1>2 DEF Phases
<1>4. /\ starts' = [starts EXCEPT ![n] = "over"]
      /\ UNCHANGED <<ordered, sdk, window, tried, charged, told, held>>
  BY DEF LoadFailed
<1> QED
  BY <1>1, <1>3, <1>4, EndKeeps

\* The script answers whoever waits for it, which is the last attempt if any.
LEMMA SettleKeeps ==
    ASSUME CheckoutIInv, NEW step \in {"loaded", "unloaded"}, SettleLoads(step),
           sdk' \in {"absent", "loading", "ready", "broken"},
           UNCHANGED <<panel, ordered, window, tried, charged, told, held>>
    PROVE  CheckoutIInv'
<1>1. /\ starts' \in Seq(Running \cup {"over"}) /\ Len(starts') = Len(starts)
      /\ DOMAIN starts' = DOMAIN starts
      /\ \A m \in DOMAIN starts : starts'[m] = IF starts[m] = "load" THEN step ELSE starts[m]
  <2>1. /\ DOMAIN starts = 1..Len(starts) /\ Len(starts) \in Nat
        /\ \A m \in DOMAIN starts : starts[m] \in Running \cup {"over"}
    BY Attempts
  <2>2. starts' = [m \in 1..Len(starts) |-> IF starts[m] = "load" THEN step ELSE starts[m]]
    BY <2>1 DEF SettleLoads
  <2>3. \A m \in 1..Len(starts) :
           (IF starts[m] = "load" THEN step ELSE starts[m]) \in Running \cup {"over"}
    BY <2>1 DEF Running
  <2> QED
    BY <2>1, <2>2, <2>3
<1>2. CheckoutTyped'
  BY <1>1 DEF CheckoutIInv, CheckoutTyped
<1>3. UnderWay'
  BY <1>1 DEF CheckoutIInv, UnderWay, Running
<1>4. WindowIsShown' /\ PaidIsShown'
  BY <1>1 DEF CheckoutIInv, WindowIsShown, PaidIsShown
<1>5. ShownIsBusy'
  BY <1>1 DEF CheckoutIInv, ShownIsBusy
<1> QED
  BY <1>2, <1>3, <1>4, <1>5 DEF CheckoutIInv

LEMMA ScriptKeeps == ASSUME CheckoutIInv, ScriptLoads \/ ScriptFails PROVE CheckoutIInv'
BY SettleKeeps DEF ScriptLoads, ScriptFails

LEMMA OpenWindowKeeps ==
    ASSUME CheckoutIInv, NEW n \in DOMAIN starts, OpenWindow(n)
    PROVE  CheckoutIInv'
<1>1. /\ starts[n] = "loaded" /\ starts[n] \in Running /\ starts' = [starts EXCEPT ![n] = "over"]
      /\ window' = n /\ UNCHANGED <<panel, ordered, sdk, tried, charged, told, held>>
  BY DEF OpenWindow, Running
<1>2. /\ starts' \in Seq(Running \cup {"over"}) /\ Len(starts') = Len(starts)
      /\ DOMAIN starts' = DOMAIN starts
      /\ \A m \in DOMAIN starts : starts'[m] = "over"
  BY <1>1, Attempts, OthersAreOver
<1>3. n = Len(starts) /\ n \in ordered /\ panel.phase = "opening" /\ panel.order = n /\ n # None
  BY <1>1, Attempts DEF CheckoutIInv, UnderWay
<1>4. CheckoutTyped'
  BY <1>1, <1>2, <1>3 DEF CheckoutIInv, CheckoutTyped
<1>5. UnderWay' /\ WindowIsShown' /\ ShownIsBusy' /\ PaidIsShown'
  BY <1>1, <1>2, <1>3 DEF CheckoutIInv, UnderWay, WindowIsShown, ShownIsBusy, PaidIsShown, Running
<1> QED
  BY <1>4, <1>5 DEF CheckoutIInv

LEMMA BeginPaymentKeeps == ASSUME CheckoutIInv, BeginPayment PROVE CheckoutIInv'
BY DEF BeginPayment, CheckoutIInv, CheckoutTyped, UnderWay, WindowIsShown, ShownIsBusy, PaidIsShown

\* While a window is open nothing is under way and nobody was told of a payment.
LEMMA WindowOpen ==
    ASSUME CheckoutIInv, window # None
    PROVE  /\ panel.phase \in {"opening", "failed"} /\ panel.order = window /\ window \in ordered
           /\ told = {} /\ window \in 1..MaxStarts
           /\ \A m \in DOMAIN starts : starts[m] \notin Running
BY Attempts DEF CheckoutIInv, CheckoutTyped, WindowIsShown, PaidIsShown, UnderWay

LEMMA PaymentFailsKeeps == ASSUME CheckoutIInv, PaymentFails PROVE CheckoutIInv'
<1>1. window # None
  BY Attempts DEF PaymentFails
<1>2. /\ panel' = [phase |-> "failed", order |-> window] /\ tried' \subseteq tried
      /\ UNCHANGED <<starts, ordered, sdk, window, charged, told, held>>
  BY <1>1, WindowOpen DEF PaymentFails, OnPaymentFailed, To
<1>3. CheckoutTyped'
  BY <1>1, <1>2, WindowOpen DEF CheckoutIInv, CheckoutTyped, Phases
<1>4. UnderWay' /\ WindowIsShown' /\ ShownIsBusy' /\ PaidIsShown'
  BY <1>1, <1>2, WindowOpen DEF CheckoutIInv, UnderWay, WindowIsShown, ShownIsBusy, PaidIsShown
<1> QED
  BY <1>3, <1>4 DEF CheckoutIInv

LEMMA PaymentSucceedsKeeps == ASSUME CheckoutIInv, PaymentSucceeds PROVE CheckoutIInv'
<1>1. window # None
  BY Attempts DEF PaymentSucceeds
<1>2. /\ panel' = [phase |-> "confirming", order |-> window] /\ tried' \subseteq tried
      /\ charged' = charged \cup {window} /\ told' = told \cup {window} /\ window' = None
      /\ UNCHANGED <<starts, ordered, sdk, held>>
  BY <1>1, WindowOpen DEF PaymentSucceeds, OnPaymentSubmitted, To
<1>3. CheckoutTyped'
  BY <1>1, <1>2, WindowOpen DEF CheckoutIInv, CheckoutTyped, Phases
<1>4. UnderWay' /\ WindowIsShown' /\ ShownIsBusy' /\ PaidIsShown'
  BY <1>1, <1>2, WindowOpen DEF CheckoutIInv, UnderWay, WindowIsShown, ShownIsBusy, PaidIsShown
<1> QED
  BY <1>3, <1>4 DEF CheckoutIInv

LEMMA DismissKeeps == ASSUME CheckoutIInv, Dismiss PROVE CheckoutIInv'
<1>1. window # None /\ window' = None /\ UNCHANGED <<starts, ordered, sdk, tried, charged, told, held>>
  BY DEF Dismiss
<1>2. /\ panel'.phase \in {"dismissed", "failed"}
      /\ panel' \in [phase : Phases, order : 1..MaxStarts \cup {None}]
  BY <1>1, WindowOpen DEF Dismiss, OnCheckoutDismissed, To, Phases, CheckoutIInv, CheckoutTyped
<1>3. CheckoutTyped'
  BY <1>1, <1>2 DEF CheckoutIInv, CheckoutTyped
<1>4. UnderWay' /\ WindowIsShown' /\ ShownIsBusy' /\ PaidIsShown'
  BY <1>1, <1>2, WindowOpen DEF CheckoutIInv, UnderWay, WindowIsShown, ShownIsBusy, PaidIsShown
<1> QED
  BY <1>3, <1>4 DEF CheckoutIInv

LEMMA LateCaptureKeeps ==
    ASSUME CheckoutIInv, NEW n \in DOMAIN starts, LateCapture(n)
    PROVE  CheckoutIInv'
BY DEF LateCapture, CheckoutIInv, CheckoutTyped, UnderWay, WindowIsShown, ShownIsBusy, PaidIsShown

LEMMA RetryKeeps == ASSUME CheckoutIInv, Retry PROVE CheckoutIInv'
<1>1. /\ panel' = [phase |-> "idle", order |-> None] /\ panel.phase \in {"failed", "dismissed"}
      /\ window = None /\ UNCHANGED <<starts, ordered, sdk, window, tried, charged, told>>
  BY DEF Retry, OnRetry, To
<1>2. CheckoutTyped'
  BY <1>1 DEF CheckoutIInv, CheckoutTyped, Phases
<1>3. UnderWay' /\ WindowIsShown' /\ ShownIsBusy' /\ PaidIsShown'
  BY <1>1 DEF CheckoutIInv, UnderWay, WindowIsShown, ShownIsBusy, PaidIsShown
<1> QED
  BY <1>2, <1>3 DEF CheckoutIInv

LEMMA CheckoutNextKeeps == ASSUME CheckoutIInv, [CheckoutNext]_checkoutVars PROVE CheckoutIInv'
<1>1. CASE UNCHANGED checkoutVars
  BY <1>1 DEF checkoutVars, CheckoutIInv, CheckoutTyped, UnderWay, WindowIsShown, ShownIsBusy,
              PaidIsShown
<1> QED
  BY <1>1, SubmitKeeps, ServerCreatesOrderKeeps, ReceiveOrderKeeps, ReceiveFailureKeeps,
     LoadFailedKeeps, ScriptKeeps, OpenWindowKeeps, BeginPaymentKeeps, PaymentFailsKeeps,
     PaymentSucceedsKeeps, DismissKeeps, LateCaptureKeeps, RetryKeeps DEF CheckoutNext

\* The invariant holds in every reachable state.
THEOREM CheckoutInvariance == CheckoutSpec => []CheckoutIInv
<1>1. CheckoutInit => CheckoutIInv
  BY CheckoutInitHolds
<1>2. CheckoutIInv /\ [CheckoutNext]_checkoutVars => CheckoutIInv'
  BY CheckoutNextKeeps
<1> QED
  BY <1>1, <1>2, PTL DEF CheckoutSpec

\* One attempt at a time, a busy page that something will end, and a payment that was
\* reported is shown as such from then on (Checkout), over every order of answers, script
\* events and callbacks and for any number of attempts.
THEOREM CheckoutHoldsAlways == CheckoutSpec => []CheckoutHolds
<1>1. CheckoutIInv => CheckoutTypeOK
  BY DEF CheckoutIInv, CheckoutTyped, CheckoutTypeOK
<1>2. CheckoutIInv => OneAttemptAtATime
  BY Attempts DEF CheckoutIInv, UnderWay, WindowIsShown, OneAttemptAtATime
<1>3. CheckoutIInv => BusyHasACause
  BY DEF CheckoutIInv, UnderWay, ShownIsBusy, BusyHasACause, Running
<1>4. CheckoutIInv => CheckoutHolds
  BY <1>1, <1>2, <1>3 DEF CheckoutHolds, CheckoutIInv
<1> QED
  BY <1>4, CheckoutInvariance, PTL

---------------------------------------------------------------------------
(* Who may open what (AccessGrants).                                       *)

TokenRows == [customer : Customers, expires : Nat, revokedAt : 0..MaxNow \cup {None}]
Downloads ==
    [pc : {"idle", "find", "list", "done"}, token : TokenIds \cup {None},
     link : Claims \cup {None, Forged}, product : Products \cup {None},
     asset : Assets \cup {None}, at : 0..MaxNow, customer : Customers \cup {None},
     could : SUBSET Products, couldNot : SUBSET Products,
     answer : {None, "no-session", "invalid-session", "not-entitled", "grant-malformed",
               "grant-bad-signature", "grant-expired", "grant-wrong-customer", "unknown-asset",
               "allowed"}]

AccessTyped ==
    /\ now \in 0..MaxNow
    /\ entitlements \in [Customers \X Products -> Row \cup {None}]
    /\ granted \subseteq FunnelOrders
    /\ tokens \in Seq(TokenRows)
    /\ Len(tokens) <= MaxTokens
    /\ links \subseteq Claims
    /\ reissue \in [pc : {"idle", "list", "save"}, customer : Customers \cup {None}, at : 0..MaxNow]
    /\ reissue.pc # "idle" => reissue.customer \in Customers
    /\ download \in Downloads

\* Links are only ever minted.
LinkIsKnown == download.link \in links \cup {None, Forged}

NotRevokedBefore(d) ==
    tokens[d.token].revokedAt # None => tokens[d.token].revokedAt >= d.at

\* Between its two queries a download has a live token of its customer, and what it
\* has seen covers what the customer may open now.
ListsWhatIs ==
    download.pc = "list" =>
        /\ download.token \in 1..Len(tokens)
        /\ tokens[download.token].customer = download.customer
        /\ download.at < tokens[download.token].expires
        /\ NotRevokedBefore(download)
        /\ download.product \in Products
        /\ Accessible(entitlements, download.customer) \subseteq download.could
        /\ Products \ Accessible(entitlements, download.customer) \subseteq download.couldNot

\* An answer that lets through keeps the token it was given for.
AnswerStands ==
    /\ download.pc = "find" => download.product \in Products
    /\ download.pc = "done" /\ download.answer = "allowed" => download.token \in 1..Len(tokens)
    /\ download.at <= now

AccessIInv == AccessTyped /\ LinkIsKnown /\ ListsWhatIs /\ AnswerStands /\ AnswersAreTrue

--------------------------------------------------------------------------
(* The ladder.                                                             *)

LEMMA LeastNumber ==
    ASSUME NEW T, T \subseteq Nat, T # {}
    PROVE  \E x \in T : \A y \in T : x <= y
<1>1. IsWellFoundedOn(OpToRel(<, Nat), Nat)
  BY NatLessThanWellFounded
<1>2. PICK x \in T : \A y \in T : ~ (<<y, x>> \in OpToRel(<, Nat))
  BY <1>1, WFMin
<1>3. \A y \in T : ~(y < x)
  BY <1>2 DEF OpToRel
<1> QED
  BY <1>3

\* What a customer may open is all up to his highest rung.
LEMMA Ladder ==
    ASSUME NEW purchased, purchased \subseteq Products, purchased # {}
    PROVE  \E m \in purchased : /\ AccessibleProducts(purchased) = 0..m
                                /\ Tier(purchased) = m
<1>1. purchased \subseteq Int /\ Rungs \in Nat
  BY AccessConstants DEF Products
<1> DEFINE T == {Rungs - 1 - p : p \in purchased}
<1>2. T \subseteq Nat /\ T # {}
  <2>1. \A p \in purchased : p \in Int /\ p <= Rungs - 1
    BY <1>1 DEF Products
  <2>2. \A p \in purchased : Rungs - 1 - p \in Nat
    BY <1>1, <2>1
  <2> QED
    BY <2>2
<1>3. PICK x \in T : \A y \in T : x <= y
  <2> HIDE DEF T
  <2> QED
    BY <1>2, LeastNumber
<1>4. PICK m \in purchased : \A p \in purchased : p <= m
  <2>1. PICK m \in purchased : x = Rungs - 1 - m
    BY <1>3
  <2>2. \A p \in purchased : Rungs - 1 - m <= Rungs - 1 - p
    BY <1>3, <2>1
  <2>3. \A p \in purchased : p <= m
    BY <1>1, <2>2
  <2> QED
    BY <2>3
<1>5. m \in Nat
  BY <1>1 DEF Products
<1>6. AccessibleProducts(purchased) = 0..m
  BY <1>1, <1>4, <1>5 DEF AccessibleProducts, ImpliedProductIds
<1>7. Max(0..m) = m
  BY <1>5 DEF Max
<1> QED
  BY <1>6, <1>7 DEF Tier

LEMMA NothingBought == AccessibleProducts({}) = {} /\ Tier({}) = -1
BY DEF AccessibleProducts, Tier

\* An offer adds exactly one rung, and only the top of the ladder gets none (nextUpsell).
LEMMA OfferIsNew ==
    ASSUME NEW purchased, purchased \subseteq Products
    PROVE  IF AccessibleProducts(purchased) = Products
           THEN NextUpsell(purchased) = None
           ELSE /\ NextUpsell(purchased) \in Products
                /\ AccessibleProducts(purchased \cup {NextUpsell(purchased)})
                     = AccessibleProducts(purchased) \cup {NextUpsell(purchased)}
                /\ ~CanAccessProduct(purchased, NextUpsell(purchased))
<1>1. PICK k \in Int : /\ AccessibleProducts(purchased) = 0..k /\ Tier(purchased) = k
                       /\ -1 <= k /\ k < Rungs
  <2>1. CASE purchased = {}
    <3>1. 0..(-1) = {} /\ -1 \in Int /\ -1 < Rungs
      BY AccessConstants
    <3> QED
      BY <2>1, <3>1, NothingBought
  <2>2. CASE purchased # {}
    <3>1. PICK m \in purchased : AccessibleProducts(purchased) = 0..m /\ Tier(purchased) = m
      BY <2>2, Ladder
    <3>2. m \in Int /\ -1 <= m /\ m < Rungs
      BY AccessConstants DEF Products
    <3> QED
      BY <3>1, <3>2
  <2> QED
    BY <2>1, <2>2
<1>2. CASE k + 1 < Rungs
  <2>1. NextUpsell(purchased) = k + 1
    BY <1>1, <1>2 DEF NextUpsell
  <2>2. k + 1 \in Products /\ k + 1 \notin 0..k /\ 0..(k + 1) = (0..k) \cup {k + 1}
    BY <1>1, <1>2, AccessConstants DEF Products
  <2>3. AccessibleProducts(purchased \cup {k + 1}) = AccessibleProducts(purchased) \cup 0..(k + 1)
    BY DEF AccessibleProducts, ImpliedProductIds
  <2>4. AccessibleProducts(purchased \cup {k + 1}) = AccessibleProducts(purchased) \cup {k + 1}
    BY <1>1, <2>2, <2>3
  <2>5. AccessibleProducts(purchased) # Products /\ ~CanAccessProduct(purchased, k + 1)
    BY <1>1, <2>2 DEF CanAccessProduct
  <2> QED
    BY <2>1, <2>2, <2>4, <2>5
<1>3. CASE ~(k + 1 < Rungs)
  <2>1. 0..k = Products
    BY <1>1, <1>3, AccessConstants DEF Products
  <2>2. NextUpsell(purchased) = None
    BY <1>1, <1>3 DEF NextUpsell
  <2> QED
    BY <1>1, <2>1, <2>2
<1> QED
  BY <1>2, <1>3

LEMMA OffersAreNew == UpsellIsNew
<1>1. \A c \in Customers : ListActive(entitlements, c) \subseteq Products
  BY DEF ListActive
<1> QED
  BY <1>1, OfferIsNew DEF UpsellIsNew

--------------------------------------------------------------------------
(* Steps.                                                                  *)

LEMMA AccessibleType ==
    ASSUME NEW rows, NEW c
    PROVE  Accessible(rows, c) \subseteq Products
<1>1. \A p \in Products : 0..p \subseteq Products
  BY AccessConstants DEF Products
<1> QED
  BY <1>1 DEF Accessible, AccessibleProducts, ImpliedProductIds, ListActive

LEMMA AccessInitHolds == ASSUME AccessInit PROVE AccessIInv
BY AccessConstants DEF AccessInit, AccessIInv, AccessTyped, LinkIsKnown, ListsWhatIs, AnswerStands,
   AnswersAreTrue, IdleReissue, IdleDownload, Downloads, TokenRows

\* A grant or a revocation: the history takes in what the rows say now.
LEMMA ObserveKeeps ==
    ASSUME AccessIInv, entitlements' \in [Customers \X Products -> Row \cup {None}],
           granted' \subseteq FunnelOrders, Observe(entitlements'),
           UNCHANGED <<now, tokens, links, reissue>>
    PROVE  AccessIInv'
<1> DEFINE open == Accessible(entitlements', download.customer)
<1>1. open \subseteq Products
  BY AccessibleType
<1>2. CASE download.pc = "list"
  <2>1. /\ download' = [download EXCEPT !.could = download.could \cup open,
                                        !.couldNot = download.couldNot \cup (Products \ open)]
        /\ download \in Downloads
    BY <1>2 DEF Observe, AccessIInv, AccessTyped
  <2> HIDE DEF open
  <2>2. /\ download' \in Downloads /\ download'.pc = "list" /\ download'.token = download.token
        /\ download'.link = download.link /\ download'.product = download.product
        /\ download'.at = download.at /\ download'.customer = download.customer
        /\ download'.could = download.could \cup open
        /\ download'.couldNot = download.couldNot \cup (Products \ open)
    BY <1>1, <1>2, <2>1 DEF Downloads
  <2>3. AccessTyped' /\ LinkIsKnown'
    BY <2>2 DEF AccessIInv, AccessTyped, LinkIsKnown
  <2>4. ListsWhatIs'
    BY <1>2, <2>2 DEF AccessIInv, ListsWhatIs, NotRevokedBefore, open
  <2> QED
    BY <2>2, <2>3, <2>4 DEF AccessIInv, AnswerStands, AnswersAreTrue
<1>3. CASE download.pc # "list"
  <2>1. download' = download
    BY <1>3 DEF Observe
  <2> QED
    BY <1>3, <2>1 DEF AccessIInv, AccessTyped, LinkIsKnown, ListsWhatIs,
     NotRevokedBefore, AnswerStands, AnswersAreTrue
<1> QED
  BY <1>2, <1>3

LEMMA GrantKeeps == ASSUME AccessIInv, NEW o \in FunnelOrders, Grant(o) PROVE AccessIInv'
<1>1. <<BuyerOf(o), ProductOf(o)>> \in Customers \X Products
  BY AccessConstants
<1>2. entitlements' \in [Customers \X Products -> Row \cup {None}]
  BY <1>1 DEF Grant, AccessIInv, AccessTyped, Row
<1> QED
  BY <1>2, ObserveKeeps DEF Grant, AccessIInv, AccessTyped

LEMMA RevokeKeeps ==
    ASSUME AccessIInv, NEW c \in Customers, NEW p \in Products, Revoke(c, p)
    PROVE  AccessIInv'
<1>1. entitlements[<<c, p>>] \in Row
  BY DEF Revoke, ListActive, AccessIInv, AccessTyped
<1>2. entitlements' \in [Customers \X Products -> Row \cup {None}]
  BY <1>1 DEF Revoke, AccessIInv, AccessTyped, Row
<1> QED
  BY <1>2, ObserveKeeps DEF Revoke, AccessIInv, AccessTyped

LEMMA AskForTokenKeeps ==
    ASSUME AccessIInv, NEW c \in Customers, AskForToken(c)
    PROVE  AccessIInv'
BY DEF AskForToken, AccessIInv, AccessTyped, LinkIsKnown, ListsWhatIs, NotRevokedBefore,
   AnswerStands, AnswersAreTrue

LEMMA ReadHoldingsKeeps == ASSUME AccessIInv, ReadHoldings PROVE AccessIInv'
<1>1. UNCHANGED <<now, entitlements, granted, tokens, links, download>>
  BY DEF ReadHoldings
<1>2. AccessTyped'
  BY <1>1, AccessConstants DEF ReadHoldings, AccessIInv, AccessTyped, IdleReissue
<1> QED
  BY <1>1, <1>2 DEF AccessIInv, LinkIsKnown, ListsWhatIs, NotRevokedBefore, AnswerStands,
     AnswersAreTrue

\* Older tokens stay where they are.
LEMMA SaveAccessTokenKeeps == ASSUME AccessIInv, SaveAccessToken PROVE AccessIInv'
<1> DEFINE row == [customer |-> reissue.customer, expires |-> reissue.at + AccessTokenTtl,
                   revokedAt |-> None]
<1>1. /\ tokens' = Append(tokens, row) /\ reissue' = IdleReissue /\ Len(tokens) < MaxTokens
      /\ UNCHANGED <<now, entitlements, granted, links, download>>
  BY DEF SaveAccessToken
<1>2. row \in TokenRows
  BY AccessConstants DEF SaveAccessToken, AccessIInv, AccessTyped, TokenRows
<1> HIDE DEF row
<1>3. /\ tokens' \in Seq(TokenRows) /\ Len(tokens') <= MaxTokens
      /\ \A t \in 1..Len(tokens) : t \in 1..Len(tokens') /\ tokens'[t] = tokens[t]
  BY <1>1, <1>2, AccessConstants DEF AccessIInv, AccessTyped
<1>4. AccessTyped'
  BY <1>1, <1>3, AccessConstants DEF AccessIInv, AccessTyped, IdleReissue
<1>5. LinkIsKnown' /\ ListsWhatIs' /\ AnswerStands' /\ AnswersAreTrue'
  BY <1>1, <1>3 DEF AccessIInv, LinkIsKnown, ListsWhatIs, NotRevokedBefore, AnswerStands,
                    AnswersAreTrue
<1> QED
  BY <1>4, <1>5 DEF AccessIInv

\* A token revoked now was not revoked before a download that has begun.
LEMMA RevokeTokenKeeps == ASSUME AccessIInv, NEW t \in TokenIds, RevokeToken(t) PROVE AccessIInv'
<1>1. /\ t \in DOMAIN tokens /\ tokens[t].revokedAt = None
      /\ tokens' = [tokens EXCEPT ![t].revokedAt = now]
      /\ UNCHANGED <<now, entitlements, granted, links, reissue, download>>
  BY DEF RevokeToken
<1>2. /\ tokens \in Seq(TokenRows) /\ Len(tokens) \in Nat /\ DOMAIN tokens = 1..Len(tokens)
      /\ now \in 0..MaxNow /\ now \in Nat /\ now # None
      /\ \A s \in 1..Len(tokens) : tokens[s] \in TokenRows
  BY AccessConstants DEF AccessIInv, AccessTyped
<1>3. /\ tokens' \in Seq(TokenRows) /\ Len(tokens') = Len(tokens)
      /\ \A s \in 1..Len(tokens) :
            /\ tokens'[s].customer = tokens[s].customer /\ tokens'[s].expires = tokens[s].expires
            /\ tokens'[s].revokedAt = tokens[s].revokedAt \/ tokens'[s].revokedAt = now
  BY <1>1, <1>2 DEF TokenRows
<1>4. AccessTyped' /\ LinkIsKnown' /\ AnswerStands'
  BY <1>1, <1>3 DEF AccessIInv, AccessTyped, LinkIsKnown, AnswerStands
<1>5. download.at <= now
  BY DEF AccessIInv, AnswerStands
<1>6. ListsWhatIs'
  BY <1>1, <1>3, <1>5 DEF AccessIInv, ListsWhatIs, NotRevokedBefore
<1>7. AnswersAreTrue'
  BY <1>1, <1>3, <1>5 DEF AccessIInv, AnswerStands, AnswersAreTrue
<1> QED
  BY <1>4, <1>6, <1>7 DEF AccessIInv

LEMMA CreateDownloadGrantKeeps ==
    ASSUME AccessIInv, NEW c \in Customers, NEW p \in Products, NEW a \in Assets,
           CreateDownloadGrant(c, p, a)
    PROVE  AccessIInv'
<1>1. links \subseteq links' /\ UNCHANGED <<now, entitlements, granted, tokens, reissue, download>>
  BY DEF CreateDownloadGrant
<1>2. links' \subseteq Claims
  <2>1. now + DownloadGrantTtl \in 0..MaxNow + DownloadGrantTtl
    BY AccessConstants DEF AccessIInv, AccessTyped
  <2> QED
    BY <2>1 DEF CreateDownloadGrant, AccessIInv, AccessTyped, Claims
<1>3. AccessTyped' /\ LinkIsKnown' /\ ListsWhatIs' /\ AnswerStands'
  BY <1>1, <1>2 DEF AccessIInv, AccessTyped, LinkIsKnown, ListsWhatIs, NotRevokedBefore,
     AnswerStands
<1>4. AnswersAreTrue'
  BY <1>1 DEF AccessIInv, AnswersAreTrue
<1> QED
  BY <1>3, <1>4 DEF AccessIInv

LEMMA AskForDownloadKeeps ==
    ASSUME AccessIInv, NEW t \in TokenIds \cup {None}, NEW l \in links \cup {None, Forged},
           NEW p \in Products, NEW a \in Assets, AskForDownload(t, l, p, a)
    PROVE  AccessIInv'
<1>1. /\ UNCHANGED <<now, entitlements, granted, tokens, links, reissue>>
      /\ download'.pc = "find" /\ download'.link = l /\ download'.product = p
      /\ download'.at = now /\ now <= now
  BY DEF AskForDownload, IdleDownload, AccessIInv, AccessTyped
<1>2. download' \in Downloads
  BY DEF AskForDownload, IdleDownload, Downloads, AccessIInv, AccessTyped
<1> QED
  BY <1>1, <1>2 DEF AccessIInv, AccessTyped, LinkIsKnown, ListsWhatIs,
     NotRevokedBefore, AnswerStands, AnswersAreTrue

LEMMA FindAccessTokenKeeps == ASSUME AccessIInv, FindAccessToken PROVE AccessIInv'
<1>1. /\ UNCHANGED <<now, entitlements, granted, tokens, links, reissue>>
      /\ download.pc = "find" /\ download \in Downloads /\ download.product \in Products
  BY DEF FindAccessToken, AccessIInv, AccessTyped, AnswerStands
<1>2. CASE download.token = None \/ ~ValidToken(download.token, download.at)
  <2>1. PICK reply \in {"no-session", "invalid-session"} : download' = Answered(reply)
    BY <1>2 DEF FindAccessToken
  <2>2. /\ download' \in Downloads /\ download'.pc = "done" /\ download'.answer = reply
        /\ download'.link = download.link /\ download'.at = download.at
    BY <1>1, <2>1 DEF Answered, Downloads
  <2> QED
    BY <1>1, <2>2 DEF AccessIInv, AccessTyped, LinkIsKnown, ListsWhatIs, NotRevokedBefore,
       AnswerStands, AnswersAreTrue
<1>3. CASE download.token # None /\ ValidToken(download.token, download.at)
  <2> DEFINE c == tokens[download.token].customer
             open == Accessible(entitlements, c)
  <2>1. download' = [download EXCEPT !.pc = "list", !.customer = c, !.could = open,
                                     !.couldNot = Products \ open]
    BY <1>3 DEF FindAccessToken
  <2>2. /\ download.token \in 1..Len(tokens) /\ download.at < tokens[download.token].expires
        /\ tokens[download.token].revokedAt = None /\ c \in Customers
    <3>1. download.token \in 1..MaxTokens /\ download.token <= Len(tokens)
          /\ download.at < tokens[download.token].expires
          /\ tokens[download.token].revokedAt = None
      BY <1>1, <1>3 DEF ValidToken, Downloads, TokenIds
    <3>2. tokens \in Seq(TokenRows) /\ Len(tokens) \in Nat
      BY DEF AccessIInv, AccessTyped
    <3>3. download.token \in 1..Len(tokens)
      BY <3>1, <3>2, AccessConstants
    <3>4. tokens[download.token] \in TokenRows
      BY <3>2, <3>3
    <3> QED
      BY <3>1, <3>3, <3>4 DEF TokenRows
  <2>3. open \subseteq Products
    BY AccessibleType
  <2> HIDE DEF open
  <2>4. /\ download' \in Downloads /\ download'.pc = "list" /\ download'.token = download.token
        /\ download'.customer = c /\ download'.at = download.at /\ download'.link = download.link
        /\ download'.product = download.product /\ download'.could = open
        /\ download'.couldNot = Products \ open
    <3> HIDE DEF c
    <3> QED
      BY <1>1, <2>1, <2>2, <2>3 DEF Downloads
  <2>5. AccessTyped' /\ LinkIsKnown'
    BY <1>1, <2>4 DEF AccessIInv, AccessTyped, LinkIsKnown
  <2>6. ListsWhatIs'
    BY <1>1, <2>2, <2>4 DEF ListsWhatIs, NotRevokedBefore, open
  <2> QED
    BY <1>1, <2>4, <2>5, <2>6 DEF AccessIInv, AnswerStands, AnswersAreTrue
<1> QED
  BY <1>2, <1>3

\* A link is good only if it was minted, is not expired and names the customer.
LEMMA ValidGrants ==
    ASSUME NEW link, NEW customer, NEW at,
           VerifyDownloadGrant(link, customer, at) = "valid"
    PROVE  /\ link # None /\ link # Forged
           /\ link \in links => ~(link.expires <= at) /\ (link.expires > at => link.customer = customer)
BY DEF VerifyDownloadGrant

LEMMA AuthorizeDownloadKeeps == ASSUME AccessIInv, AuthorizeDownload PROVE AccessIInv'
<1> DEFINE purchased == ListActive(entitlements, download.customer)
           reply == DownloadVerdict(purchased)
           verdict == VerifyDownloadGrant(download.link, download.customer, download.at)
<1>1. /\ UNCHANGED <<now, entitlements, granted, tokens, links, reissue>>
      /\ download.pc = "list" /\ download \in Downloads /\ download' = Answered(reply)
  BY DEF AuthorizeDownload, AccessIInv, AccessTyped
<1>2. verdict \in {"grant-malformed", "grant-bad-signature", "grant-expired",
                   "grant-wrong-customer", "valid"}
  BY DEF VerifyDownloadGrant
<1>3. /\ reply \in {"not-entitled", "grant-malformed", "grant-bad-signature", "grant-expired",
                     "grant-wrong-customer", "unknown-asset", "allowed"}
      /\ reply = "not-entitled" => ~CanAccessProduct(purchased, download.product)
      /\ reply = "allowed" =>
            /\ CanAccessProduct(purchased, download.product)
            /\ verdict = "valid"
            /\ download.link.product = download.product
            /\ download.link.asset = download.asset
            /\ download.asset \in Manifest(download.product)
  <2> HIDE DEF purchased
  <2> QED
    BY <1>2 DEF DownloadVerdict
<1> HIDE DEF reply, verdict
<1>4. /\ download' \in Downloads /\ download'.pc = "done" /\ download'.answer = reply
      /\ download'.link = download.link /\ download'.product = download.product
      /\ download'.asset = download.asset /\ download'.at = download.at
      /\ download'.token = download.token /\ download'.customer = download.customer
      /\ download'.could = download.could /\ download'.couldNot = download.couldNot
  BY <1>1, <1>3 DEF Answered, Downloads
<1>5. AccessTyped' /\ LinkIsKnown' /\ ListsWhatIs' /\ AnswerStands'
  BY <1>1, <1>4 DEF AccessIInv, AccessTyped, LinkIsKnown, ListsWhatIs, AnswerStands
<1>6. /\ reply = "allowed" => download.product \in download.could
      /\ reply = "not-entitled" => download.product \in download.couldNot
  BY <1>1, <1>3 DEF CanAccessProduct, Accessible, AccessIInv, ListsWhatIs
<1>7. ASSUME reply = "allowed"
      PROVE  /\ download.link \in links /\ download.link.customer = download.customer
             /\ download.at < download.link.expires
  <2>1. /\ download.link # None /\ download.link # Forged
        /\ download.link \in links =>
             /\ ~(download.link.expires <= download.at)
             /\ download.link.expires > download.at => download.link.customer = download.customer
    BY <1>3, <1>7, ValidGrants DEF verdict
  <2>2. download.link \in links
    BY <2>1 DEF AccessIInv, LinkIsKnown
  <2>3. download.link.expires \in Int /\ download.at \in Int
    BY <1>1, <2>2, AccessConstants DEF AccessIInv, AccessTyped, Claims, Downloads
  <2> QED
    BY <2>1, <2>2, <2>3
<1>8. AnswersAreTrue'
  BY <1>1, <1>3, <1>4, <1>6, <1>7 DEF AccessIInv, ListsWhatIs, NotRevokedBefore, AnswersAreTrue
<1> QED
  BY <1>5, <1>8 DEF AccessIInv

LEMMA LeaveKeeps == ASSUME AccessIInv, Leave PROVE AccessIInv'
<1>1. UNCHANGED <<now, entitlements, granted, tokens, links, reissue>> /\ download' = IdleDownload
  BY DEF Leave
<1>2. /\ IdleDownload \in Downloads /\ IdleDownload.pc = "idle" /\ IdleDownload.link = None
      /\ IdleDownload.at = 0
  BY AccessConstants DEF IdleDownload, Downloads
<1> QED
  BY <1>1, <1>2 DEF AccessIInv, AccessTyped, LinkIsKnown, ListsWhatIs,
     NotRevokedBefore, AnswerStands, AnswersAreTrue

LEMMA NowPassesKeeps == ASSUME AccessIInv, NowPasses PROVE AccessIInv'
<1>1. /\ now' \in 0..MaxNow /\ now \in Int /\ now <= now' /\ download.at \in Int
      /\ UNCHANGED <<entitlements, granted, tokens, links, reissue, download>>
  BY AccessConstants DEF NowPasses, AccessIInv, AccessTyped, Downloads
<1> QED
  BY <1>1 DEF AccessIInv, AccessTyped, LinkIsKnown, ListsWhatIs,
     NotRevokedBefore, AnswerStands, AnswersAreTrue

LEMMA AccessNextKeeps == ASSUME AccessIInv, [AccessNext]_accessVars PROVE AccessIInv'
<1>1. CASE UNCHANGED accessVars
  BY <1>1 DEF accessVars, AccessIInv, AccessTyped, LinkIsKnown, ListsWhatIs, NotRevokedBefore,
     AnswerStands, AnswersAreTrue
<1> QED
  BY <1>1, GrantKeeps, RevokeKeeps, AskForTokenKeeps, ReadHoldingsKeeps, SaveAccessTokenKeeps,
     RevokeTokenKeeps,
     CreateDownloadGrantKeeps, AskForDownloadKeeps, FindAccessTokenKeeps, AuthorizeDownloadKeeps,
     LeaveKeeps, NowPassesKeeps DEF AccessNext

\* The invariant holds in every reachable state.
THEOREM AccessInvariance == AccessSpec => []AccessIInv
<1>1. AccessInit => AccessIInv
  BY AccessInitHolds
<1>2. AccessIInv /\ [AccessNext]_accessVars => AccessIInv'
  BY AccessNextKeeps
<1> QED
  BY <1>1, <1>2, PTL DEF AccessSpec

\* No file without an entitlement of some moment of the request, a live token and a link
\* signed for it, no false "not-entitled", and offers that add a rung (AccessGrants), for
\* every ladder, catalog, set of customers and order of grants and revocations.
THEOREM AccessHoldsAlways == AccessSpec => []AccessHolds
<1>1. AccessIInv => AccessTypeOK
  BY DEF AccessIInv, AccessTyped, AccessTypeOK, TokenRows, Downloads
<1>2. AccessIInv => AccessHolds
  BY <1>1, OffersAreNew DEF AccessHolds, AccessIInv
<1> QED
  BY <1>2, AccessInvariance, PTL

===========================================================================
