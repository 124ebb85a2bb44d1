------------------------------- MODULE OrderIntake -------------------------------
(***************************************************************************)
(* POST /api/payments/create-order: createOrder of packages/core-payments  *)
(* for any number of concurrent requests, with or without an               *)
(* Idempotency-Key.  One action is one await: the key lookup, the call to  *)
(* Razorpay, the INSERT, the second lookup after a lost race.              *)
(*                                                                         *)
(* A request that gets as far as the INSERT has made one Razorpay order    *)
(* and may add one row, so both are named after the request.               *)
(***************************************************************************)
EXTENDS Naturals

CONSTANTS
    Requests,      \* requests that arrive
    Keys,          \* values of the Idempotency-Key header
    NoKey,         \* no header, or a blank one
    KeyOf(_),      \* the key of a request
    ContentOf(_),  \* its product, email and phone, normalised as the code compares them
    Malformed,     \* requests the schema or the catalog refuses
    NoAnswer,      \* the request is still being handled
    MaxFaults      \* bound: failures of the database, of Razorpay and of the network

ASSUME KeyAssumption == NoKey \notin Keys /\ \A r \in Requests : KeyOf(r) \in Keys \cup {NoKey}
ASSUME MalformedAssumption == Malformed \subseteq Requests
ASSUME MaxFaultsAssumption == MaxFaults \in Nat

Errors == {"refused", "conflict", "provider_error", "internal_error", "lost"}

ASSUME AnswerAssumption ==
    Requests \cap (Errors \cup {NoAnswer}) = {} /\ NoAnswer \notin Errors

VARIABLES
    placed,   \* the requests whose order exists at Razorpay
    orders,   \* the requests whose row is in the table orders
    pc,       \* the next await of each request
    answer,   \* what the client was told: an order, or an error
    faults    \* faults so far

vars == <<placed, orders, pc, answer, faults>>

PC == {"validate", "find", "create", "insert", "reread", "done"}

\* Rows and answers keep to their domains, and a request stays at a known await.
TypeOK ==
    /\ placed \subseteq Requests
    /\ orders \subseteq Requests
    /\ pc \in [Requests -> PC]
    /\ answer \in [Requests -> Requests \cup Errors \cup {NoAnswer}]
    /\ faults \in 0..MaxFaults

Init ==
    /\ placed = {}
    /\ orders = {}
    /\ pc = [r \in Requests |-> "validate"]
    /\ answer = [r \in Requests |-> NoAnswer]
    /\ faults = 0

--------------------------------------------------------------------------
Fault == faults < MaxFaults /\ faults' = faults + 1

Goto(r, to) == pc' = [pc EXCEPT ![r] = to] /\ UNCHANGED answer

Reply(r, what) ==
    /\ pc' = [pc EXCEPT ![r] = "done"]
    /\ answer' = [answer EXCEPT ![r] = what]

\* findByIdempotencyKey: a null key has no index entry and matches nothing.
WithKey(key) == {o \in orders : key # NoKey /\ KeyOf(o) = key}

\* Mutant: any order of the key is taken for a replay.
AcceptReplayAlways(r, o) == Reply(r, o)

\* acceptReplayOrConflict: the row is this request's order only if it was made
\* for the same product, email and phone.
AcceptReplayOrConflict(r, o) ==
    Reply(r, IF ContentOf(o) = ContentOf(r) THEN o ELSE "conflict")

\* Steps 1 and 2 of createOrder.
Validate(r) ==
    /\ pc[r] = "validate"
    /\ IF r \in Malformed
       THEN Reply(r, "refused")
       ELSE Goto(r, IF KeyOf(r) = NoKey THEN "create" ELSE "find")
    /\ UNCHANGED <<placed, orders, faults>>

FindByKey(r) ==
    /\ pc[r] = "find"
    /\ IF WithKey(KeyOf(r)) = {}
       THEN Goto(r, "create")
       ELSE \E o \in WithKey(KeyOf(r)) : AcceptReplayOrConflict(r, o)
    /\ UNCHANGED <<placed, orders, faults>>

CreateRazorpayOrder(r) ==
    /\ pc[r] = "create"
    /\ placed' = placed \cup {r}
    /\ Goto(r, "insert")
    /\ UNCHANGED <<orders, faults>>

\* Mutant: no unique index on idempotency_key.
InsertOrderUnindexed(r) ==
    /\ pc[r] = "insert"
    /\ orders' = orders \cup {r}
    /\ Reply(r, r)
    /\ UNCHANGED <<placed, faults>>

\* Mutant: ON CONFLICT DO NOTHING, and the loser answers with its own order.
InsertOrderDoNothing(r) ==
    /\ pc[r] = "insert"
    /\ orders' = IF WithKey(KeyOf(r)) = {} THEN orders \cup {r} ELSE orders
    /\ Reply(r, r)
    /\ UNCHANGED <<placed, faults>>

\* orders.create: the unique index on idempotency_key decides the race.
InsertOrder(r) ==
    /\ pc[r] = "insert"
    /\ IF WithKey(KeyOf(r)) = {}
       THEN orders' = orders \cup {r} /\ Reply(r, r)
       ELSE UNCHANGED orders /\ Goto(r, "reread")
    /\ UNCHANGED <<placed, faults>>

\* Mutant: the loser of the race is told of a conflict.
RereadByKeyConflict(r) ==
    /\ pc[r] = "reread"
    /\ Reply(r, "conflict")
    /\ UNCHANGED <<placed, orders, faults>>

\* The loser of the race reads the winner's row; orders are never deleted.
RereadByKey(r) ==
    /\ pc[r] = "reread"
    /\ \E o \in WithKey(KeyOf(r)) : AcceptReplayOrConflict(r, o)
    /\ UNCHANGED <<placed, orders, faults>>

--------------------------------------------------------------------------
(* Failures: each may strike before or after its effect.                   *)

\* RazorpayOrderCreationError.
ProviderFails(r) ==
    /\ pc[r] = "create"
    /\ Fault
    /\ placed' \in {placed, placed \cup {r}}
    /\ Reply(r, "provider_error")
    /\ UNCHANGED orders

\* OrderPersistenceError: the connection may break after the row is committed.
DatabaseFails(r) ==
    /\ pc[r] \in {"find", "insert", "reread"}
    /\ Fault
    /\ orders' \in {orders} \cup
         (IF pc[r] = "insert" /\ WithKey(KeyOf(r)) = {} THEN {orders \cup {r}} ELSE {})
    /\ Reply(r, "internal_error")
    /\ UNCHANGED placed

\* The process dies, or the answer never reaches the client.
AnswerLost(r) ==
    /\ answer[r] \in Requests \cup {NoAnswer}
    /\ Fault
    /\ Reply(r, "lost")
    /\ UNCHANGED <<placed, orders>>

--------------------------------------------------------------------------
Handle(r) ==
    \/ Validate(r)
    \/ FindByKey(r)
    \/ CreateRazorpayOrder(r)
    \/ InsertOrder(r)
    \/ RereadByKey(r)

Next ==
    \E r \in Requests : Handle(r) \/ ProviderFails(r) \/ DatabaseFails(r) \/ AnswerLost(r)

Spec == Init /\ [][Next]_vars

--------------------------------------------------------------------------
(* Properties.                                                             *)

\* All the answers ever given to one key name the same order, even to requests
\* that looked the key up before anybody had inserted it (createOrder steps 3
\* and 5).
SameKeySameOrder ==
    \A r, q \in Requests :
        (/\ KeyOf(r) = KeyOf(q)
         /\ KeyOf(r) # NoKey
         /\ answer[r] \in Requests
         /\ answer[q] \in Requests) => answer[r] = answer[q]

\* Nobody is handed an order for another product or person, whichever of the
\* two lookups found it; and the order a client may pay is always a row here
\* and an order at Razorpay, so its webhook finds it (acceptReplayOrConflict).
AnswerFitsRequest ==
    \A r \in Requests :
        answer[r] \in Requests =>
            /\ ContentOf(answer[r]) = ContentOf(r)
            /\ answer[r] \in orders
            /\ answer[r] \in placed

\* A request is refused for its key only when the key already stands for a
\* different request, never because it raced its own retry.
ConflictIsReal ==
    \A r \in Requests :
        answer[r] = "conflict" =>
            \E o \in orders : KeyOf(o) = KeyOf(r) /\ ContentOf(o) # ContentOf(r)

\* A Razorpay order without a row is left behind only by a request that lost
\* the race for its key, or whose client was told of a failure: the "known,
\* bounded consequence" of the idempotency strategy in createOrder.
OrphansAreBounded ==
    \A r \in placed \ orders :
        pc[r] = "done" =>
            \/ answer[r] \in {"provider_error", "internal_error", "lost"}
            \/ WithKey(KeyOf(r)) # {} /\ answer[r] \in WithKey(KeyOf(r)) \cup {"conflict"}
=============================================================================
