---------------------------- MODULE PaymentIntegrity ----------------------------
(***************************************************************************)
(* What the database itself guarantees about orders, payments and Meta     *)
(* Purchase rows: the triggers of migrations 0003 and 0009 and the unique  *)
(* indexes of 0001 and 0002, against any sessions that insert and update   *)
(* these rows.  The migrations promise it for "ANY handler, a future admin *)
(* script, and a psql session".                                            *)
(*                                                                         *)
(* A session runs transactions of one statement at READ COMMITTED: the     *)
(* triggers of the statement read what is committed when it executes, the  *)
(* row locks and the index entries it takes are held until it commits or   *)
(* rolls back.  A statement that has to wait for a lock is not enabled; a  *)
(* statement a trigger refuses changes nothing and is no step.             *)
(***************************************************************************)
EXTENDS Naturals

CONSTANTS
    Orders,      \* rows of orders
    Payments,    \* provider payment ids
    Terms,       \* amount and currency, of an order and of a payment for it
    Sessions,    \* database sessions
    NoPayment    \* the payment id has no row

Statuses == {"AUTHORIZED", "CAPTURED", "FAILED", "REFUNDED"}

Payment == [status : Statuses, order : Orders, terms : Terms]

ASSUME NoPaymentAssumption == NoPayment \notin Payment

VARIABLES
    order_terms,  \* committed terms of each order
    payments,     \* committed row of each payment id
    meta_events,  \* the orders whose Purchase row is committed
    stmt          \* what each session has executed and not committed

paymentVars == <<order_terms, payments, meta_events, stmt>>

Idle == [kind |-> "none"]
PaymentWrites == [kind : {"payment"}, id : Payments, row : Payment, locks : SUBSET Orders]
OrderWrites == [kind : {"order"}, id : Orders, terms : Terms]
PurchaseWrites == [kind : {"purchase"}, id : Orders]

\* Committed rows and uncommitted statements keep to their domains.
PaymentsTypeOK ==
    /\ order_terms \in [Orders -> Terms]
    /\ payments \in [Payments -> Payment \cup {NoPayment}]
    /\ meta_events \subseteq Orders
    /\ stmt \in [Sessions -> {Idle} \cup PaymentWrites \cup OrderWrites \cup PurchaseWrites]

PaymentsInit ==
    /\ order_terms \in [Orders -> Terms]
    /\ payments = [p \in Payments |-> NoPayment]
    /\ meta_events = {}
    /\ stmt = [s \in Sessions |-> Idle]

--------------------------------------------------------------------------
(* Row locks and index entries held by statements in flight.               *)

Writing(kind, id) == \E s \in Sessions : stmt[s].kind = kind /\ stmt[s].id = id

\* SELECT ... FOR SHARE of enforce_payment_matches_order.
Shared(o) == \E s \in Sessions : stmt[s].kind = "payment" /\ o \in stmt[s].locks

\* An entry of payments_one_captured_per_order not yet committed.
CaptureInFlight(o) ==
    \E s \in Sessions : /\ stmt[s].kind = "payment"
                        /\ stmt[s].row.order = o
                        /\ stmt[s].row.status = "CAPTURED"

--------------------------------------------------------------------------
(* The triggers, named after their functions without the verb.             *)

Recorded(p) == payments[p] # NoPayment

CapturedFor(o) == {p \in Payments : Recorded(p) /\ payments[p].order = o
                                                /\ payments[p].status = "CAPTURED"}

\* Mutant: the trigger reads the order without FOR SHARE.
PaymentMatchesOrderUnlocked(row) == row.terms = order_terms[row.order]

\* FOR SHARE waits for an UPDATE of the order in flight.
PaymentMatchesOrder(row) == ~Writing("order", row.order) /\ row.terms = order_terms[row.order]

OrderFinancialsFrozen(o) == \E p \in Payments : Recorded(p) /\ payments[p].order = o

MetaEventRequiresCapture(o) == CapturedFor(o) # {}

LegalTransition(old, new) ==
    \/ new = old
    \/ old = "AUTHORIZED" /\ new \in {"CAPTURED", "FAILED"}
    \/ old = "CAPTURED" /\ new = "REFUNDED"

CapturedPaymentFrozen(old, new) ==
    old.status = "CAPTURED" => new.order = old.order /\ new.terms = old.terms

\* Reads meta_events without a lock.
MetaEventKeepsCapture(p, old, new) ==
    (old.status = "CAPTURED" /\ new.status # "CAPTURED")
        => old.order \notin meta_events \/ CapturedFor(old.order) \ {p} # {}

\* Mutant: a trigger that counts committed captures in place of the index.
OneCapturedPerOrderCounted(p, row) ==
    row.status = "CAPTURED" => CapturedFor(row.order) \subseteq {p}

\* The partial unique index: an insertion waits for the entry of another
\* transaction and fails against a committed one.
OneCapturedPerOrder(p, row) ==
    row.status = "CAPTURED" => CapturedFor(row.order) \subseteq {p} /\ ~CaptureInFlight(row.order)

--------------------------------------------------------------------------
(* Statements.                                                             *)

Execute(s, write) ==
    /\ stmt[s] = Idle
    /\ stmt' = [stmt EXCEPT ![s] = write]
    /\ UNCHANGED <<order_terms, payments, meta_events>>

InsertPayment(s, p, row) ==
    /\ ~Recorded(p)
    /\ ~Writing("payment", p)
    /\ PaymentMatchesOrder(row)
    /\ OneCapturedPerOrder(p, row)
    /\ Execute(s, [kind |-> "payment", id |-> p, row |-> row, locks |-> {row.order}])

\* Mutant: two transactions may update one payment at once.
UpdatePaymentUnlocked(s, p, row) ==
    LET old == payments[p] IN
    /\ Recorded(p)
    /\ row # old
    /\ CapturedPaymentFrozen(old, row)
    /\ MetaEventKeepsCapture(p, old, row)
    /\ PaymentMatchesOrder(row)
    /\ LegalTransition(old.status, row.status)
    /\ OneCapturedPerOrder(p, row)
    /\ Execute(s, [kind |-> "payment", id |-> p, row |-> row, locks |-> {row.order}])

\* payments_match_order fires when order_id, amount_paise or currency is set.
UpdatePayment(s, p, row) ==
    LET old == payments[p]
        rematched == row.order # old.order \/ row.terms # old.terms
    IN
    /\ Recorded(p)
    /\ row # old
    /\ ~Writing("payment", p)
    /\ CapturedPaymentFrozen(old, row)
    /\ MetaEventKeepsCapture(p, old, row)
    /\ rematched => PaymentMatchesOrder(row)
    /\ LegalTransition(old.status, row.status)
    /\ OneCapturedPerOrder(p, row)
    /\ Execute(s, [kind |-> "payment", id |-> p, row |-> row,
                   locks |-> IF rematched THEN {row.order} ELSE {}])

\* The row lock of the UPDATE comes before its trigger.
UpdateOrder(s, o, terms) ==
    /\ terms # order_terms[o]
    /\ ~Writing("order", o)
    /\ ~Shared(o)
    /\ ~OrderFinancialsFrozen(o)
    /\ Execute(s, [kind |-> "order", id |-> o, terms |-> terms])

\* An order has one Purchase row for all time (meta_events_order_id_key).
InsertPurchase(s, o) ==
    /\ o \notin meta_events
    /\ ~Writing("purchase", o)
    /\ MetaEventRequiresCapture(o)
    /\ Execute(s, [kind |-> "purchase", id |-> o])

Commit(s) ==
    /\ \/ /\ stmt[s].kind = "payment"
          /\ payments' = [payments EXCEPT ![stmt[s].id] = stmt[s].row]
          /\ UNCHANGED <<order_terms, meta_events>>
       \/ /\ stmt[s].kind = "order"
          /\ order_terms' = [order_terms EXCEPT ![stmt[s].id] = stmt[s].terms]
          /\ UNCHANGED <<payments, meta_events>>
       \/ /\ stmt[s].kind = "purchase"
          /\ meta_events' = meta_events \cup {stmt[s].id}
          /\ UNCHANGED <<order_terms, payments>>
    /\ stmt' = [stmt EXCEPT ![s] = Idle]

Rollback(s) ==
    /\ stmt[s] # Idle
    /\ stmt' = [stmt EXCEPT ![s] = Idle]
    /\ UNCHANGED <<order_terms, payments, meta_events>>

PaymentsNext ==
    \E s \in Sessions :
        \/ \E p \in Payments, row \in Payment : InsertPayment(s, p, row) \/ UpdatePayment(s, p, row)
        \/ \E o \in Orders, terms \in Terms : UpdateOrder(s, o, terms)
        \/ \E o \in Orders : InsertPurchase(s, o)
        \/ Commit(s)
        \/ Rollback(s)

PaymentsSpec == PaymentsInit /\ [][PaymentsNext]_paymentVars

--------------------------------------------------------------------------
(* Properties.                                                             *)

\* Every payment row carries exactly the terms of its order, whichever way an
\* UPDATE of the order and a payment for it interleave (migration 0003, "the
\* pair cannot both succeed").
PaymentsMatchOrders ==
    \A p \in Payments : Recorded(p) => payments[p].terms = order_terms[payments[p].order]

\* No order has two captured payments, though two of them may be on the way
\* at once (payments_one_captured_per_order).
OneCapture ==
    \A p, q \in Payments :
        (Recorded(p) /\ Recorded(q) /\ payments[p].status = "CAPTURED"
            /\ payments[q].status = "CAPTURED" /\ payments[p].order = payments[q].order)
        => p = q

CaptureStep ==
    \A p \in Payments :
        /\ Recorded(p) => Recorded(p)' /\ LegalTransition(payments[p].status, payments'[p].status)
        /\ (Recorded(p) /\ payments[p].status = "CAPTURED")
             => payments'[p].order = payments[p].order /\ payments'[p].terms = payments[p].terms

\* Money that has been taken stays taken for the same order and terms until it
\* is refunded, and a failed or refunded payment never revives: no two
\* concurrent updates add up to an illegal transition (migration 0009, 1, 2).
CaptureIsFinal == [][CaptureStep]_paymentVars

\* Migration 0009: the two Meta triggers "together make the invariant hold no
\* matter which table moves" - every Purchase has a captured payment behind it.
PurchaseKeepsCapture == \A o \in meta_events : CapturedFor(o) # {}
=============================================================================
