\* Two orders of one customer, one of them paid twice, and a payment for somebody else's
\* order, under fairness.
SPECIFICATION FairSpec
CONSTANTS
    oa = oa
    ob = ob
    ox = ox
    pa = pa
    pa2 = pa2
    pb = pb
    px = px
    ea = ea
    ea1 = ea1
    ea2 = ea2
    eb = eb
    ex = ex
    ei = ei
    Events = {ea, ea2, eb, ex}
    Payments = {pa, pa2, pb, px}
    Orders = {oa, ob, ox}
    Known = {oa, ob}
    Handlers = {h1, h2}
    NoEvent = NoEvent
    NoPayment = NoPayment
    NoOrder = NoOrder
    PaymentOf <- About
    OrderOf <- PaidOrder
    EntitlementOf <- Buyer
    MaxFaults = 1
INVARIANT
    WebhookHolds
PROPERTIES
    RequestsEnd
    CapturedIsSettled
    ImplementsPaidOrders
