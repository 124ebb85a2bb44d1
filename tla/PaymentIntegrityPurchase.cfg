\* One order: does every Purchase keep a captured payment behind it?
SPECIFICATION PaymentsSpec
CONSTANTS
    Orders = {o1}
    Payments = {p1}
    Terms = {t1}
    Sessions = {s1, s2}
    NoPayment = NoPayment
CHECK_DEADLOCK FALSE
INVARIANTS
    PurchaseKeepsCapture
