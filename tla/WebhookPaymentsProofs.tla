-------------------------- MODULE WebhookPaymentsProofs --------------------------
(***************************************************************************)
(* Proofs that the webhook's transaction settles a payment as a whole, for *)
(* any number of deliveries, handlers, payments and orders.                *)
(*                                                                         *)
(* What is acknowledged was committed by somebody, perhaps long ago, so    *)
(* the tables must agree with each other at all times (TablesAgree).  They *)
(* do, since a transaction reads rows of one order only while it holds the *)
(* lock on it (LocksAreExclusive): what it has read stays true until it    *)
(* commits (Transaction).                                                  *)
(***************************************************************************)
EXTENDS WebhookPayments, TLAPS

\* The delivery is the first one of its event and is about a payment.
Pays(h) == "event" \in wrote[h] /\ PaymentIn(h) # NoPayment

HoldsOrder(h) == pc[h] \in {"pay", "mark", "grant", "enqueue", "commit"} /\ Pays(h)

LocksAreExclusive ==
    \A g, h \in Handlers : (g # h /\ HoldsOrder(g) /\ HoldsOrder(h)) => OrderIn(g) # OrderIn(h)

TablesAgree ==
    /\ payments \subseteq captured
    /\ meta_events = payments
    /\ \A o \in Orders : o \in paid <=> PaymentsFor(o) # {}
    /\ \A p \in payments : entitlements[EntitlementOf(OrderOf(p))] # NoOrder
    /\ \A k \in Entitlements :
          entitlements[k] # NoOrder => /\ EntitlementOf(entitlements[k]) = k
                                       /\ PaymentsFor(entitlements[k]) # {}

EventsAreSettled ==
    /\ acked \subseteq webhook_events
    /\ \A v \in webhook_events : PaymentOf(v) \in payments \cup {NoPayment}

\* What a transaction has written, and what it has read that still holds.
Transaction(h) ==
    /\ pc[h] \in {"idle", "insert", "answer"} => wrote[h] = {}
    /\ pc[h] # "idle" => event[h] \in Events /\ PaymentIn(h) \in captured \cup {NoPayment}
    /\ pc[h] \in {"lock", "pay", "mark", "grant", "enqueue"} => Pays(h)
    /\ pc[h] \in {"lock", "pay"} => wrote[h] = {"event"}
    /\ (pc[h] \in {"mark", "grant", "enqueue", "commit"} /\ Pays(h)) =>
          /\ "payment" \in wrote[h] <=> PaymentIn(h) \notin payments
          /\ "payment" \in wrote[h] => PaymentsFor(OrderIn(h)) = {}
    /\ (pc[h] \in {"grant", "enqueue", "commit"} /\ Pays(h)) => "paid" \in wrote[h]
    /\ (pc[h] \in {"enqueue", "commit"} /\ Pays(h)) =>
          "entitlement" \in wrote[h] \/ entitlements[EntitlementIn(h)] # NoOrder
    /\ pc[h] \in {"mark", "grant", "enqueue"} => "purchase" \notin wrote[h]
    /\ (pc[h] = "commit" /\ Pays(h)) => ("purchase" \in wrote[h] <=> "payment" \in wrote[h])
    /\ (pc[h] = "commit" /\ ~Pays(h)) =>
          \/ wrote[h] = {} /\ event[h] \in webhook_events
          \/ wrote[h] = {"event"} /\ PaymentIn(h) = NoPayment
    /\ pc[h] = "answer" => event[h] \in webhook_events

IInv ==
    /\ TypeOK
    /\ TablesAgree
    /\ EventsAreSettled
    /\ LocksAreExclusive
    /\ \A h \in Handlers : Transaction(h)

--------------------------------------------------------------------------
LEMMA InitHolds == Init => IInv
<1> SUFFICES ASSUME Init PROVE IInv
  OBVIOUS
<1>1. TypeOK
  BY MaxFaultsAssumption DEF Init, TypeOK, PC
<1>2. TablesAgree /\ EventsAreSettled
  BY DEF Init, TablesAgree, EventsAreSettled, PaymentsFor
<1>3. LocksAreExclusive /\ \A h \in Handlers : Transaction(h)
  BY DEF Init, LocksAreExclusive, HoldsOrder, Transaction
<1> QED
  BY <1>1, <1>2, <1>3 DEF IInv

\* The order a captured payment is for is one of the orders.
LEMMA OrderIsOrder ==
    ASSUME IInv, NEW h \in Handlers, pc[h] # "idle", PaymentIn(h) # NoPayment
    PROVE  /\ PaymentIn(h) \in Payments
           /\ PaymentIn(h) \in captured
           /\ OrderIn(h) \in Orders
           /\ EntitlementIn(h) \in Entitlements
<1>1. PaymentIn(h) \in captured
  BY DEF IInv, Transaction
<1>2. PaymentIn(h) \in Payments
  BY <1>1 DEF IInv, TypeOK
<1> QED
  BY <1>1, <1>2, OrderOfAssumption DEF OrderIn, EntitlementIn, Entitlements

\* A step of one transaction that commits nothing is judged by that transaction alone.
LEMMA LocalStep ==
    ASSUME IInv, TypeOK', NEW h \in Handlers, UNCHANGED <<captured, tables>>,
           acked' \subseteq webhook_events,
           \A g \in Handlers \ {h} :
              pc'[g] = pc[g] /\ event'[g] = event[g] /\ wrote'[g] = wrote[g],
           Transaction(h)',
           HoldsOrder(h)' =>
              \A g \in Handlers \ {h} : HoldsOrder(g) => OrderIn(g) # OrderIn(h)'
    PROVE  IInv'
<1>1. TablesAgree' /\ EventsAreSettled'
  BY DEF IInv, TablesAgree, EventsAreSettled, tables, PaymentsFor
<1>2. \A g \in Handlers \ {h} : /\ HoldsOrder(g)' = HoldsOrder(g)
                                /\ OrderIn(g)' = OrderIn(g)
  BY DEF HoldsOrder, Pays, PaymentIn, OrderIn
<1>3. LocksAreExclusive'
  BY <1>2 DEF IInv, LocksAreExclusive
<1>4. ASSUME NEW g \in Handlers \ {h} PROVE Transaction(g)'
  BY <1>4 DEF IInv, Transaction, Pays, PaymentIn, OrderIn, EntitlementIn, PaymentsFor, tables
<1> QED
  BY <1>1, <1>3, <1>4 DEF IInv

\* A rollback leaves nothing but an idle handler.
LEMMA RollbackKeeps ==
    ASSUME IInv, NEW h \in Handlers, Rollback(h), faults' \in 0..MaxFaults
    PROVE  IInv'
<1>1. TypeOK'
  BY DEF IInv, TypeOK, Rollback, tables, PC
<1>2. pc'[h] = "idle" /\ wrote'[h] = {}
  BY DEF IInv, TypeOK, Rollback
<1>3. Transaction(h)' /\ ~HoldsOrder(h)'
  BY <1>2 DEF Transaction, HoldsOrder
<1>4. acked' \subseteq webhook_events
  BY DEF IInv, EventsAreSettled, Rollback
<1>5. \A g \in Handlers \ {h} :
         pc'[g] = pc[g] /\ event'[g] = event[g] /\ wrote'[g] = wrote[g]
  BY DEF IInv, TypeOK, Rollback
<1> QED
  BY <1>1, <1>3, <1>4, <1>5, LocalStep DEF Rollback

\* A statement that succeeds.
LEMMA AdvanceEffect ==
    ASSUME IInv, NEW h \in Handlers, NEW to \in PC, NEW rows \in SUBSET Written,
           Advance(h, to, rows)
    PROVE  /\ TypeOK'
           /\ pc'[h] = to /\ wrote'[h] = wrote[h] \cup rows /\ event'[h] = event[h]
           /\ \A g \in Handlers \ {h} :
                 pc'[g] = pc[g] /\ event'[g] = event[g] /\ wrote'[g] = wrote[g]
           /\ UNCHANGED <<captured, tables>>
           /\ acked' \subseteq webhook_events
BY DEF IInv, TypeOK, Advance, EventsAreSettled, tables

LEMMA AdvanceKeeps ==
    ASSUME IInv, NEW h \in Handlers, NEW to \in PC, NEW rows \in SUBSET Written,
           Advance(h, to, rows), Transaction(h)',
           HoldsOrder(h) \/ ~HoldsOrder(h)' \/ ~OrderLocked(OrderIn(h))
    PROVE  IInv'
<1>1. /\ TypeOK'
      /\ event'[h] = event[h]
      /\ \A g \in Handlers \ {h} :
            pc'[g] = pc[g] /\ event'[g] = event[g] /\ wrote'[g] = wrote[g]
      /\ UNCHANGED <<captured, tables>>
      /\ acked' \subseteq webhook_events
  BY AdvanceEffect
<1>2. OrderIn(h)' = OrderIn(h)
  BY <1>1 DEF OrderIn, PaymentIn
<1>3. ASSUME HoldsOrder(h)', NEW g \in Handlers \ {h}, HoldsOrder(g)
      PROVE  OrderIn(g) # OrderIn(h)'
  <2>1. CASE HoldsOrder(h)
    BY <1>2, <1>3, <2>1 DEF IInv, LocksAreExclusive
  <2>2. CASE ~OrderLocked(OrderIn(h))
    BY <1>2, <1>3, <2>2 DEF OrderLocked, HoldsOrder, Pays
  <2> QED
    BY <1>3, <2>1, <2>2
<1> QED
  BY <1>1, <1>3, LocalStep

--------------------------------------------------------------------------
(* The statements, one by one.                                             *)

LEMMA InsertKeeps ==
    ASSUME IInv, NEW h \in Handlers, InsertWebhookEvent(h)
    PROVE  IInv'
<1>1. /\ pc[h] = "insert" /\ wrote[h] = {}
      /\ event[h] \in Events /\ PaymentIn(h) \in captured \cup {NoPayment}
  BY DEF InsertWebhookEvent, IInv, Transaction
<1>2. CASE event[h] \in webhook_events
  <2>1. Advance(h, "commit", {})
    BY <1>2 DEF InsertWebhookEvent
  <2>2. /\ pc'[h] = "commit" /\ wrote'[h] = {} /\ event'[h] = event[h]
        /\ UNCHANGED <<captured, tables>>
    BY <1>1, <2>1, AdvanceEffect DEF PC
  <2>3. Transaction(h)' /\ ~HoldsOrder(h)'
    BY <1>1, <1>2, <2>2 DEF Transaction, HoldsOrder, Pays, PaymentIn, tables
  <2> QED
    BY <2>1, <2>3, AdvanceKeeps DEF PC
<1>3. CASE event[h] \notin webhook_events
  <2> DEFINE to == IF PaymentIn(h) = NoPayment THEN "commit" ELSE "lock"
  <2>1. Advance(h, to, {"event"}) /\ to \in PC /\ {"event"} \in SUBSET Written
    BY <1>3 DEF InsertWebhookEvent, PC, Written
  <2>2. /\ pc'[h] = to /\ wrote'[h] = {"event"} /\ event'[h] = event[h]
        /\ UNCHANGED <<captured, tables>>
    BY <1>1, <2>1, AdvanceEffect
  <2>3. Transaction(h)' /\ ~HoldsOrder(h)'
    BY <1>1, <2>2 DEF Transaction, HoldsOrder, Pays, PaymentIn, tables
  <2> QED
    BY <2>1, <2>3, AdvanceKeeps
<1> QED
  BY <1>2, <1>3

LEMMA FindOrderKeeps ==
    ASSUME IInv, NEW h \in Handlers, FindOrder(h)
    PROVE  IInv'
<1>1. CASE OrderIn(h) \in Known
  <2>1. /\ Advance(h, "pay", {}) /\ ~OrderLocked(OrderIn(h)) /\ pc[h] = "lock"
        /\ wrote[h] = {"event"}
    BY <1>1 DEF FindOrder, IInv, Transaction
  <2>2. /\ pc'[h] = "pay" /\ wrote'[h] = {"event"} /\ event'[h] = event[h]
        /\ UNCHANGED <<captured, tables>>
    BY <2>1, AdvanceEffect DEF PC
  <2>3. Transaction(h)'
    BY <2>1, <2>2 DEF IInv, Transaction, Pays, PaymentIn, tables
  <2> QED
    BY <2>1, <2>3, AdvanceKeeps DEF PC
<1>2. CASE OrderIn(h) \notin Known
  <2>1. faults' \in 0..MaxFaults
    BY <1>2 DEF FindOrder, IInv, TypeOK
  <2> QED
    BY <1>2, <2>1, RollbackKeeps DEF FindOrder
<1> QED
  BY <1>1, <1>2

\* Under the lock, what the statement finds of the order's payments is final.
LEMMA UpsertKeeps ==
    ASSUME IInv, NEW h \in Handlers, UpsertCapturedPayment(h)
    PROVE  IInv'
<1>1. pc[h] = "pay" /\ wrote[h] = {"event"} /\ Pays(h) /\ HoldsOrder(h)
  BY DEF UpsertCapturedPayment, IInv, Transaction, HoldsOrder
<1>2. CASE PaymentIn(h) \in payments \/ PaymentsFor(OrderIn(h)) = {}
  <2> DEFINE rows == {"payment"} \ Recorded(h)
  <2>1. Advance(h, "mark", rows) /\ rows \in SUBSET Written
    BY <1>2 DEF UpsertCapturedPayment, Written
  <2>2. /\ pc'[h] = "mark" /\ wrote'[h] = wrote[h] \cup rows /\ event'[h] = event[h]
        /\ UNCHANGED <<captured, tables>>
    BY <2>1, AdvanceEffect DEF PC
  <2>3. "payment" \in rows <=> PaymentIn(h) \notin payments
    BY DEF Recorded
  <2>4. Transaction(h)'
    BY <1>1, <1>2, <2>2, <2>3
       DEF IInv, Transaction, Pays, PaymentIn, OrderIn, PaymentsFor, tables
  <2> QED
    BY <1>1, <2>1, <2>4, AdvanceKeeps DEF PC
<1>3. CASE ~(PaymentIn(h) \in payments \/ PaymentsFor(OrderIn(h)) = {})
  <2>1. faults' \in 0..MaxFaults
    BY <1>3 DEF UpsertCapturedPayment, IInv, TypeOK
  <2> QED
    BY <1>3, <2>1, RollbackKeeps DEF UpsertCapturedPayment
<1> QED
  BY <1>2, <1>3

LEMMA MarkKeeps ==
    ASSUME IInv, NEW h \in Handlers, MarkOrderPaid(h)
    PROVE  IInv'
<1>1. pc[h] = "mark" /\ Pays(h) /\ HoldsOrder(h) /\ Advance(h, "grant", {"paid"})
  BY DEF MarkOrderPaid, IInv, Transaction, HoldsOrder
<1>2. /\ pc'[h] = "grant" /\ wrote'[h] = wrote[h] \cup {"paid"} /\ event'[h] = event[h]
      /\ UNCHANGED <<captured, tables>>
  BY <1>1, AdvanceEffect DEF PC, Written
<1>3. Transaction(h)'
  BY <1>1, <1>2 DEF IInv, Transaction, Pays, PaymentIn, OrderIn, PaymentsFor, tables
<1> QED
  BY <1>1, <1>3, AdvanceKeeps DEF PC, Written

LEMMA GrantKeeps ==
    ASSUME IInv, NEW h \in Handlers, GrantEntitlement(h)
    PROVE  IInv'
<1>1. pc[h] = "grant" /\ Pays(h) /\ HoldsOrder(h)
  BY DEF GrantEntitlement, IInv, Transaction, HoldsOrder
<1>2. CASE CaptureVisible(h)
  <2> DEFINE rows == {"entitlement"} \ Recorded(h)
  <2>1. Advance(h, "enqueue", rows) /\ rows \in SUBSET Written
    BY <1>2 DEF GrantEntitlement, Written
  <2>2. /\ pc'[h] = "enqueue" /\ wrote'[h] = wrote[h] \cup rows /\ event'[h] = event[h]
        /\ UNCHANGED <<captured, tables>>
    BY <2>1, AdvanceEffect DEF PC
  <2>3. /\ rows \subseteq {"entitlement"}
        /\ "entitlement" \in rows \/ entitlements[EntitlementIn(h)] # NoOrder
    BY DEF Recorded
  <2>4. Transaction(h)'
    BY <1>1, <2>2, <2>3
       DEF IInv, Transaction, Pays, PaymentIn, OrderIn, EntitlementIn, PaymentsFor, tables
  <2> QED
    BY <1>1, <2>1, <2>4, AdvanceKeeps DEF PC
<1>3. CASE ~CaptureVisible(h)
  <2>1. faults' \in 0..MaxFaults
    BY <1>3 DEF GrantEntitlement, IInv, TypeOK
  <2> QED
    BY <1>3, <2>1, RollbackKeeps DEF GrantEntitlement
<1> QED
  BY <1>2, <1>3

LEMMA EnqueueKeeps ==
    ASSUME IInv, NEW h \in Handlers, EnqueueMetaPurchase(h)
    PROVE  IInv'
<1>1. pc[h] = "enqueue" /\ Pays(h) /\ HoldsOrder(h)
  BY DEF EnqueueMetaPurchase, IInv, Transaction, HoldsOrder
<1> DEFINE free == CaptureVisible(h) /\ PurchasesFor(OrderIn(h)) \subseteq {PaymentIn(h)}
<1>2. CASE free
  <2> DEFINE rows == {"purchase"} \ Recorded(h)
  <2>1. Advance(h, "commit", rows) /\ rows \in SUBSET Written
    BY <1>2 DEF EnqueueMetaPurchase, Written
  <2>2. /\ pc'[h] = "commit" /\ wrote'[h] = wrote[h] \cup rows /\ event'[h] = event[h]
        /\ UNCHANGED <<captured, tables>>
    BY <2>1, AdvanceEffect DEF PC
  <2>3. rows \subseteq {"purchase"} /\ ("purchase" \in rows <=> PaymentIn(h) \notin payments)
    BY DEF Recorded, IInv, TablesAgree
  <2>4. Transaction(h)'
    BY <1>1, <2>2, <2>3
       DEF IInv, Transaction, Pays, PaymentIn, OrderIn, EntitlementIn, PaymentsFor, tables
  <2> QED
    BY <1>1, <2>1, <2>4, AdvanceKeeps DEF PC
<1>3. CASE ~free
  <2>1. faults' \in 0..MaxFaults
    BY <1>3 DEF EnqueueMetaPurchase, IInv, TypeOK
  <2> QED
    BY <1>3, <2>1, RollbackKeeps DEF EnqueueMetaPurchase
<1> QED
  BY <1>2, <1>3

--------------------------------------------------------------------------
(* COMMIT.  A delivery that settles something new holds the lock of its    *)
(* order; one that finds everything recorded changes no table but the log. *)

Settles(h) == pc[h] = "commit" /\ "payment" \in wrote[h]

\* What a transaction makes of the tables when it commits.
LEMMA CommitEffect ==
    ASSUME IInv, NEW h \in Handlers, Commit(h)
    PROVE  /\ UNCHANGED <<captured, acked, event, faults>>
           /\ webhook_events \subseteq webhook_events'
           /\ webhook_events' \subseteq webhook_events \cup {event[h]}
           /\ event[h] \in webhook_events'
           /\ Settles(h) =>
                /\ Pays(h)
                /\ PaymentsFor(OrderIn(h)) = {}
                /\ payments' = payments \cup {PaymentIn(h)}
                /\ meta_events' = meta_events \cup {PaymentIn(h)}
                /\ paid' = paid \cup {OrderIn(h)}
           /\ ~Settles(h) =>
                /\ UNCHANGED <<payments, meta_events, paid>>
                /\ Pays(h) => PaymentIn(h) \in payments
           /\ \/ entitlements' = entitlements /\ (Pays(h) => entitlements[EntitlementIn(h)] # NoOrder)
              \/ /\ Pays(h)
                 /\ entitlements' = [entitlements EXCEPT ![EntitlementIn(h)] = OrderIn(h)]
<1>1. pc[h] = "commit" /\ Transaction(h)
  BY DEF Commit, IInv
<1>2. UNCHANGED <<captured, acked, event, faults>>
  BY DEF Commit
<1>3. CASE Pays(h)
  <2>1. PaymentIn(h) \in Payments /\ OrderIn(h) \in Orders
    BY <1>1, <1>3, OrderIsOrder DEF Pays
  <2>2. "paid" \in wrote[h] /\ "event" \in wrote[h]
    BY <1>1, <1>3 DEF Transaction, Pays
  <2>3. webhook_events' = webhook_events \cup {event[h]} /\ paid' = paid \cup {OrderIn(h)}
    BY <2>2 DEF Commit
  <2>4. CASE Settles(h)
    <3>1. PaymentsFor(OrderIn(h)) = {} /\ "purchase" \in wrote[h]
      BY <1>1, <1>3, <2>4 DEF Transaction, Settles
    <3>2. /\ payments' = payments \cup {PaymentIn(h)}
          /\ meta_events' = meta_events \cup {PaymentIn(h)}
      BY <2>4, <3>1 DEF Commit, Settles
    <3> QED
      BY <1>1, <1>2, <1>3, <2>3, <2>4, <3>1, <3>2 DEF Commit, Transaction
  <2>5. CASE ~Settles(h)
    <3>1. PaymentIn(h) \in payments /\ "purchase" \notin wrote[h] /\ "payment" \notin wrote[h]
      BY <1>1, <1>3, <2>5 DEF Transaction, Settles
    <3>2. payments' = payments /\ meta_events' = meta_events
      BY <3>1 DEF Commit
    <3>3. OrderIn(h) \in paid
      BY <2>1, <3>1 DEF IInv, TablesAgree, PaymentsFor, OrderIn
    <3> QED
      BY <1>1, <1>2, <1>3, <2>3, <2>5, <3>1, <3>2, <3>3 DEF Commit, Transaction
  <2> QED
    BY <2>4, <2>5
<1>4. CASE ~Pays(h)
  <2>1. \/ wrote[h] = {} /\ event[h] \in webhook_events
        \/ wrote[h] = {"event"} /\ PaymentIn(h) = NoPayment
    BY <1>1, <1>4 DEF Transaction
  <2>2. /\ payments' = payments /\ paid' = paid /\ meta_events' = meta_events
        /\ entitlements' = entitlements /\ ~Settles(h)
    BY <2>1 DEF Commit, Settles
  <2>3. webhook_events' = webhook_events \cup {event[h]}
    BY <2>1 DEF Commit
  <2> QED
    BY <1>2, <1>4, <2>2, <2>3
<1> QED
  BY <1>3, <1>4

LEMMA CommitKeeps ==
    ASSUME IInv, NEW h \in Handlers, Commit(h)
    PROVE  IInv'
<1>1. /\ pc[h] = "commit" /\ event[h] \in Events
      /\ PaymentIn(h) \in captured \cup {NoPayment}
  BY DEF Commit, IInv, Transaction
<1>2. /\ UNCHANGED <<captured, acked, event, faults>>
      /\ webhook_events \subseteq webhook_events'
      /\ webhook_events' \subseteq webhook_events \cup {event[h]}
      /\ event[h] \in webhook_events'
  BY CommitEffect
<1>3. Pays(h) => /\ PaymentIn(h) \in Payments /\ PaymentIn(h) \in captured
                 /\ OrderIn(h) \in Orders /\ EntitlementIn(h) \in Entitlements
  BY <1>1, OrderIsOrder DEF Pays
<1>4. /\ pc'[h] = "answer" /\ wrote'[h] = {}
      /\ \A g \in Handlers \ {h} : pc'[g] = pc[g] /\ wrote'[g] = wrote[g]
      /\ pc' \in [Handlers -> PC] /\ wrote' \in [Handlers -> SUBSET Written]
  BY DEF Commit, IInv, TypeOK, PC
<1>5. /\ payments \subseteq payments' /\ meta_events' = payments'
      /\ payments' \subseteq payments \cup {PaymentIn(h)}
      /\ Settles(h) => Pays(h) /\ PaymentsFor(OrderIn(h)) = {}
      /\ payments' # payments => Settles(h)
      /\ Pays(h) => PaymentIn(h) \in payments'
  BY CommitEffect DEF IInv, TablesAgree
<1>6. /\ entitlements' \in [Entitlements -> Orders \cup {NoOrder}]
      /\ \A k \in Entitlements : entitlements[k] # NoOrder => entitlements'[k] # NoOrder
      /\ \A k \in Entitlements : \/ entitlements'[k] = entitlements[k]
                                 \/ /\ Pays(h) /\ k = EntitlementIn(h)
                                    /\ entitlements'[k] = OrderIn(h)
      /\ Pays(h) => entitlements'[EntitlementIn(h)] # NoOrder
  BY <1>3, CommitEffect, AbsenceAssumption DEF IInv, TypeOK
<1>7. TypeOK'
  <2>1. /\ webhook_events' \subseteq Events /\ payments' \subseteq Payments
        /\ meta_events' \subseteq Payments
    BY <1>1, <1>2, <1>3, <1>5 DEF IInv, TypeOK
  <2>2. paid' \subseteq Orders
    BY <1>3, CommitEffect DEF IInv, TypeOK
  <2> QED
    BY <1>2, <1>4, <1>6, <2>1, <2>2 DEF IInv, TypeOK
<1>8. TablesAgree'
  <2>1. payments' \subseteq captured'
    BY <1>2, <1>3, <1>5 DEF IInv, TablesAgree
  <2>2. \A o \in Orders : o \in paid' <=> PaymentsFor(o)' # {}
    <3>1. CASE Settles(h)
      BY <1>3, <3>1, CommitEffect DEF IInv, TablesAgree, PaymentsFor, OrderIn
    <3>2. CASE ~Settles(h)
      BY <3>2, CommitEffect DEF IInv, TablesAgree, PaymentsFor
    <3> QED
      BY <3>1, <3>2
  <2>3. \A p \in payments' : entitlements'[EntitlementOf(OrderOf(p))] # NoOrder
    <3>1. TAKE p \in payments'
    <3>2. CASE p \in payments
      <4>1. p \in Payments /\ EntitlementOf(OrderOf(p)) \in Entitlements
        BY <3>2, OrderOfAssumption DEF IInv, TypeOK, Entitlements
      <4> QED
        BY <1>6, <3>2, <4>1 DEF IInv, TablesAgree
    <3>3. CASE p \notin payments
      BY <1>5, <1>6, <3>1, <3>3 DEF EntitlementIn, OrderIn
    <3> QED
      BY <3>2, <3>3
  <2>4. ASSUME NEW k \in Entitlements, entitlements'[k] # NoOrder
        PROVE  /\ EntitlementOf(entitlements'[k]) = k
               /\ \E p \in payments' : OrderOf(p) = entitlements'[k]
    <3>1. CASE entitlements'[k] = entitlements[k]
      BY <1>5, <2>4, <3>1 DEF IInv, TablesAgree, PaymentsFor
    <3>2. CASE Pays(h) /\ k = EntitlementIn(h) /\ entitlements'[k] = OrderIn(h)
      BY <1>5, <3>2 DEF EntitlementIn, OrderIn, PaymentsFor
    <3> QED
      BY <1>6, <3>1, <3>2
  <2>5. \A k \in Entitlements :
           entitlements'[k] # NoOrder => PaymentsFor(entitlements[k])' # {}
    BY <2>4 DEF PaymentsFor
  <2> QED
    BY <1>5, <2>1, <2>2, <2>3, <2>4, <2>5 DEF TablesAgree
<1>9. EventsAreSettled'
  <2>1. PaymentOf(event[h]) \in payments' \cup {NoPayment}
    <3>1. CASE Pays(h)
      BY <1>5, <3>1 DEF PaymentIn
    <3>2. CASE ~Pays(h)
      <4>1. event[h] \in webhook_events \/ PaymentIn(h) = NoPayment
        BY <1>1, <3>2 DEF IInv, Transaction
      <4> QED
        BY <1>5, <4>1 DEF IInv, EventsAreSettled, PaymentIn
    <3> QED
      BY <3>1, <3>2
  <2> QED
    BY <1>2, <1>5, <2>1 DEF IInv, EventsAreSettled
<1>10. \A g \in Handlers \ {h} : PaymentIn(g)' = PaymentIn(g) /\ OrderIn(g)' = OrderIn(g)
                                  /\ EntitlementIn(g)' = EntitlementIn(g)
                                  /\ Pays(g)' = Pays(g)
                                  /\ HoldsOrder(g)' = HoldsOrder(g)
  BY <1>2, <1>4 DEF PaymentIn, OrderIn, EntitlementIn, Pays, HoldsOrder
<1>11. LocksAreExclusive'
  <2>1. ~HoldsOrder(h)'
    BY <1>4 DEF HoldsOrder
  <2> QED
    BY <1>10, <2>1 DEF IInv, LocksAreExclusive
<1>12. Transaction(h)'
  BY <1>1, <1>2, <1>4 DEF Transaction, PaymentIn
<1>13. ASSUME NEW g \in Handlers \ {h} PROVE Transaction(g)'
  <2>1. HoldsOrder(g) => /\ PaymentIn(g) \in payments' <=> PaymentIn(g) \in payments
                         /\ PaymentsFor(OrderIn(g))' = PaymentsFor(OrderIn(g))
    <3>1. CASE payments' = payments
      BY <1>10, <3>1 DEF PaymentsFor
    <3>2. CASE payments' # payments /\ HoldsOrder(g)
      <4>1. HoldsOrder(h)
        BY <1>1, <1>5, <3>2 DEF HoldsOrder
      <4>2. OrderIn(g) # OrderIn(h)
        BY <3>2, <4>1 DEF IInv, LocksAreExclusive
      <4>3. PaymentIn(g) # PaymentIn(h)
        BY <4>2 DEF OrderIn
      <4>4. {p \in payments' : OrderOf(p) = OrderIn(g)} = {p \in payments : OrderOf(p) = OrderIn(g)}
        BY <1>5, <4>2 DEF OrderIn
      <4> QED
        BY <1>5, <1>10, <4>3, <4>4 DEF PaymentsFor
    <3> QED
      BY <3>1, <3>2
  <2>2. (pc[g] # "idle" /\ Pays(g)) => EntitlementIn(g) \in Entitlements
    BY OrderIsOrder DEF Pays
  <2>3. pc'[g] = pc[g] /\ wrote'[g] = wrote[g] /\ event'[g] = event[g]
    BY <1>2, <1>4
  <2>4. (pc[g] \in {"enqueue", "commit"} /\ Pays(g)) =>
           "entitlement" \in wrote[g] \/ entitlements'[EntitlementIn(g)] # NoOrder
    BY <1>6, <2>2 DEF IInv, Transaction
  <2>5. (pc[g] \in {"mark", "grant", "enqueue", "commit"} /\ Pays(g)) => HoldsOrder(g)
    BY DEF HoldsOrder
  <2>6. Transaction(g)
    BY DEF IInv
  <2> QED
    BY <1>2, <1>10, <2>1, <2>3, <2>4, <2>5, <2>6 DEF Transaction
<1> QED
  BY <1>7, <1>8, <1>9, <1>11, <1>12, <1>13 DEF IInv

--------------------------------------------------------------------------
(* Razorpay's side, and the next-state relation.                           *)

LEMMA CaptureKeeps ==
    ASSUME IInv, NEW p \in Payments, Capture(p)
    PROVE  IInv'
<1>1. TypeOK'
  BY DEF IInv, TypeOK, Capture, tables
<1>2. TablesAgree' /\ EventsAreSettled'
  BY DEF IInv, TablesAgree, EventsAreSettled, Capture, tables, PaymentsFor
<1>3. LocksAreExclusive'
  BY DEF IInv, LocksAreExclusive, HoldsOrder, Pays, PaymentIn, OrderIn, Capture
<1>4. ASSUME NEW h \in Handlers PROVE Transaction(h)'
  BY <1>4 DEF IInv, Transaction, Pays, PaymentIn, OrderIn, EntitlementIn, PaymentsFor,
              Capture, tables
<1> QED
  BY <1>1, <1>2, <1>3, <1>4 DEF IInv

LEMMA DeliverKeeps ==
    ASSUME IInv, NEW h \in Handlers, NEW v \in Events, Deliver(h, v)
    PROVE  IInv'
<1>1. /\ TypeOK'
      /\ pc'[h] = "insert" /\ event'[h] = v /\ wrote'[h] = wrote[h]
      /\ \A g \in Handlers \ {h} :
            pc'[g] = pc[g] /\ event'[g] = event[g] /\ wrote'[g] = wrote[g]
      /\ UNCHANGED <<captured, acked, tables>>
  BY DEF IInv, TypeOK, Deliver, tables, PC
<1>2. wrote[h] = {} /\ PaymentOf(v) \in captured \cup {NoPayment}
  BY DEF Deliver, IInv, Transaction
<1>3. Transaction(h)' /\ ~HoldsOrder(h)'
  BY <1>1, <1>2 DEF Transaction, HoldsOrder, PaymentIn
<1>4. acked' \subseteq webhook_events
  BY <1>1 DEF IInv, EventsAreSettled
<1> QED
  BY <1>1, <1>3, <1>4, LocalStep

LEMMA AnswerKeeps ==
    ASSUME IInv, NEW h \in Handlers, Answer(h)
    PROVE  IInv'
<1>1. event[h] \in webhook_events /\ wrote[h] = {}
  BY DEF Answer, IInv, Transaction
<1>2. /\ TypeOK'
      /\ pc'[h] = "idle" /\ wrote'[h] = wrote[h]
      /\ \A g \in Handlers \ {h} :
            pc'[g] = pc[g] /\ event'[g] = event[g] /\ wrote'[g] = wrote[g]
      /\ UNCHANGED <<captured, tables>>
  BY <1>1 DEF IInv, TypeOK, Answer, tables, PC
<1>3. Transaction(h)' /\ ~HoldsOrder(h)'
  BY <1>1, <1>2 DEF Transaction, HoldsOrder
<1>4. acked' \subseteq webhook_events
  BY <1>1 DEF Answer, IInv, EventsAreSettled
<1> QED
  BY <1>2, <1>3, <1>4, LocalStep

LEMMA NextKeeps == IInv /\ [Next]_vars => IInv'
<1> SUFFICES ASSUME IInv, [Next]_vars PROVE IInv'
  OBVIOUS
<1>1. CASE UNCHANGED vars
  <2>1. TypeOK' /\ TablesAgree' /\ EventsAreSettled'
    BY <1>1 DEF vars, tables, IInv, TypeOK, TablesAgree, EventsAreSettled, PaymentsFor
  <2>2. LocksAreExclusive'
    BY <1>1 DEF vars, IInv, LocksAreExclusive, HoldsOrder, Pays, PaymentIn, OrderIn
  <2>3. ASSUME NEW h \in Handlers PROVE Transaction(h)'
    BY <1>1, <2>3 DEF vars, tables, IInv, Transaction, Pays, PaymentIn, OrderIn, EntitlementIn,
                      PaymentsFor
  <2> QED
    BY <2>1, <2>2, <2>3 DEF IInv
<1>2. ASSUME NEW h \in Handlers, Handle(h) PROVE IInv'
  BY <1>2, InsertKeeps, FindOrderKeeps, UpsertKeeps, MarkKeeps, GrantKeeps, EnqueueKeeps,
     CommitKeeps, AnswerKeeps DEF Handle
<1>3. ASSUME NEW h \in Handlers, Fail(h) PROVE IInv'
  <2>1. faults' \in 0..MaxFaults
    BY <1>3, MaxFaultsAssumption DEF Fail, IInv, TypeOK
  <2> QED
    BY <1>3, <2>1, RollbackKeeps DEF Fail
<1> QED
  BY <1>1, <1>2, <1>3, CaptureKeeps, DeliverKeeps DEF Next

\* The inductive invariant holds in every reachable state.
THEOREM Invariance == Spec => []IInv
<1>1. Init => IInv
  BY InitHolds
<1>2. IInv /\ [Next]_vars => IInv'
  BY NextKeeps
<1> QED
  BY <1>1, <1>2, PTL DEF Spec

\* Tables and transactions in flight keep to their domains (webhookPgStore.ts).
THEOREM TypeCorrect == Spec => []TypeOK
<1>1. IInv => TypeOK
  BY DEF IInv
<1> QED
  BY <1>1, Invariance, PTL

\* Whatever deliveries overlap, fail or are repeated, an event that was answered 200 is
\* settled in all its parts, and access always rests on a captured payment
\* (handleRazorpayWebhook, route.ts).
THEOREM WebhookHoldsAlways == Spec => []WebhookHolds
<1>1. IInv => AcknowledgedIsSettled
  <2> SUFFICES ASSUME IInv, NEW v \in acked
               PROVE  /\ v \in webhook_events
                      /\ PaymentOf(v) # NoPayment =>
                           /\ PaymentOf(v) \in payments
                           /\ PaymentOf(v) \in meta_events
                           /\ OrderOf(PaymentOf(v)) \in paid
                           /\ entitlements[EntitlementOf(OrderOf(PaymentOf(v)))] # NoOrder
    BY DEF AcknowledgedIsSettled
  <2>1. v \in webhook_events /\ PaymentOf(v) \in payments \cup {NoPayment}
    BY DEF IInv, EventsAreSettled
  <2>2. ASSUME PaymentOf(v) \in payments PROVE OrderOf(PaymentOf(v)) \in paid
    BY <2>2, OrderOfAssumption DEF IInv, TypeOK, TablesAgree, PaymentsFor
  <2> QED
    BY <2>1, <2>2 DEF IInv, TablesAgree
<1>2. IInv => EntitlementsAreBacked
  BY DEF IInv, TablesAgree, EntitlementsAreBacked, PaymentsFor
<1>3. IInv => WebhookHolds
  BY <1>1, <1>2 DEF WebhookHolds, IInv
<1> QED
  BY <1>3, Invariance, PTL

--------------------------------------------------------------------------
(* The transaction implements the one step of PaidOrders: Commit is Settle *)
(* or changes nothing, Capture is Capture, and nothing else is seen.       *)

access == {k \in Entitlements : entitlements[k] # NoOrder}

LEMMA CommitImplements ==
    ASSUME IInv, NEW h \in Handlers, Commit(h)
    PROVE  [Promise!Next]_(Promise!vars)
<1>1. pc[h] = "commit"
  BY DEF Commit
<1>2. Pays(h) => /\ PaymentIn(h) \in Payments /\ PaymentIn(h) \in captured
                 /\ OrderIn(h) \in Orders /\ EntitlementIn(h) \in Entitlements
  BY <1>1, OrderIsOrder DEF Pays
<1>3. entitlements \in [Entitlements -> Orders \cup {NoOrder}] /\ NoOrder \notin Orders
  BY AbsenceAssumption DEF IInv, TypeOK
<1>4. access' = IF Pays(h) THEN access \cup {EntitlementIn(h)} ELSE access
  BY <1>2, <1>3, CommitEffect DEF access
<1>5. CASE Settles(h)
  <2>1. OrderIn(h) \notin paid /\ Pays(h)
    BY <1>2, <1>5, CommitEffect DEF IInv, TablesAgree
  <2>2. ASSUME NEW p \in Payments, p = PaymentIn(h) PROVE Promise!Settle(p)
    BY <1>2, <1>4, <1>5, <2>1, <2>2, CommitEffect
       DEF Promise!Settle, access, OrderIn, EntitlementIn
  <2>3. \E p \in Payments : Promise!Settle(p)
    BY <1>2, <2>1, <2>2
  <2> QED
    BY <2>3 DEF Promise!Next
<1>6. CASE ~Settles(h)
  <2>1. access' = access
    <3>1. Pays(h) => entitlements[EntitlementIn(h)] # NoOrder
      BY <1>6, CommitEffect DEF IInv, TablesAgree, EntitlementIn, OrderIn
    <3> QED
      BY <1>2, <1>4, <3>1 DEF access
  <2> QED
    BY <1>6, <2>1, CommitEffect DEF Promise!vars, access
<1> QED
  BY <1>5, <1>6

LEMMA StepImplements == IInv /\ [Next]_vars => [Promise!Next]_(Promise!vars)
<1> SUFFICES ASSUME IInv, [Next]_vars PROVE [Promise!Next]_(Promise!vars)
  OBVIOUS
<1>1. ASSUME UNCHANGED <<captured, tables>> PROVE UNCHANGED Promise!vars
  BY <1>1 DEF tables, Promise!vars
<1>2. ASSUME NEW p \in Payments, Capture(p) PROVE Promise!Capture(p)
  BY <1>2 DEF Capture, Promise!Capture, tables
<1>3. ASSUME NEW h \in Handlers, Handle(h), ~Commit(h) PROVE UNCHANGED <<captured, tables>>
  BY <1>3 DEF Handle, InsertWebhookEvent, FindOrder, UpsertCapturedPayment, MarkOrderPaid,
              GrantEntitlement, EnqueueMetaPurchase, Answer, Advance, Rollback
<1>4. ASSUME NEW h \in Handlers, Fail(h) \/ \E v \in Events : Deliver(h, v)
      PROVE  UNCHANGED <<captured, tables>>
  BY <1>4 DEF Fail, Deliver, Rollback
<1>5. CASE UNCHANGED vars
  BY <1>1, <1>5 DEF vars
<1>6. CASE \E p \in Payments : Capture(p)
  BY <1>2, <1>6 DEF Promise!Next
<1>7. CASE \E h \in Handlers : Handle(h)
  BY <1>1, <1>3, <1>7, CommitImplements
<1>8. CASE \E h \in Handlers : Fail(h) \/ \E v \in Events : Deliver(h, v)
  BY <1>1, <1>4, <1>8
<1> QED
  BY <1>5, <1>6, <1>7, <1>8 DEF Next

\* "Either half alone is worse than neither" (webhookHandler.ts): the statements of the
\* transaction, interleaved with those of any other, implement the one step of PaidOrders.
THEOREM ImplementsPaidOrdersHolds == Spec => ImplementsPaidOrders
<1>1. Init => Promise!Init
  BY DEF Init, Promise!Init
<1>2. IInv /\ [Next]_vars => [Promise!Next]_(Promise!vars)
  BY StepImplements
<1> QED
  BY <1>1, <1>2, Invariance, PTL DEF Spec, ImplementsPaidOrders, Promise!Spec
==================================================================================
