--------------------------- MODULE MCWebhookPayments ---------------------------
(* Small instances of the payment boundary: orders oa and ob of the same   *)
(* customer and product, ox of somebody else's system.                     *)
EXTENDS WebhookPayments, TLC

CONSTANTS oa, ob, ox, pa, pa2, pb, px, ea, ea1, ea2, eb, ex, ei

\* Order oa is paid twice.
PaidOrder(p) == CASE p \in {pa, pa2} -> oa [] p = pb -> ob [] OTHER -> ox

\* Events ea and ea1 both tell of payment pa; ei is an event the system has no
\* opinion about.
About(v) ==
    CASE v \in {ea, ea1} -> pa
      [] v = ea2 -> pa2
      [] v = eb -> pb
      [] v = ex -> px
      [] OTHER -> NoPayment

Buyer(o) == IF o = ox THEN "stranger" ELSE "buyer"

HandlerSymmetry == Permutations(Handlers)
=============================================================================
