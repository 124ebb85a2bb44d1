------------------------------- MODULE PaidOrders -------------------------------
(***************************************************************************)
(* What the payment boundary promises of a captured payment: the payment,  *)
(* the order's PAID status, the customer's access and the Purchase to      *)
(* report all come into being in one step, once per order.  "Either half   *)
(* alone is worse than neither" (webhookHandler.ts).                       *)
(***************************************************************************)
EXTENDS FiniteSets

CONSTANTS
    Payments,        \* Razorpay payment ids
    OrderOf(_),      \* the order a payment is for
    EntitlementOf(_) \* the customer and product an order is for

VARIABLES
    captured,      \* payments Razorpay has captured
    paid,          \* orders marked PAID
    settled,       \* payments recorded
    purchases,     \* payments whose Purchase is to be reported
    access         \* <<customer, product>> pairs with access

vars == <<captured, paid, settled, purchases, access>>

Init ==
    /\ captured = {}
    /\ paid = {}
    /\ settled = {}
    /\ purchases = {}
    /\ access = {}

Capture(p) ==
    /\ captured' = captured \cup {p}
    /\ UNCHANGED <<paid, settled, purchases, access>>

Settle(p) ==
    /\ p \in captured
    /\ OrderOf(p) \notin paid
    /\ settled' = settled \cup {p}
    /\ purchases' = purchases \cup {p}
    /\ paid' = paid \cup {OrderOf(p)}
    /\ access' = access \cup {EntitlementOf(OrderOf(p))}
    /\ UNCHANGED captured

Next == \E p \in Payments : Capture(p) \/ Settle(p)

Spec == Init /\ [][Next]_vars
=============================================================================
