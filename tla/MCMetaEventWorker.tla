-------------------------- MODULE MCMetaEventWorker --------------------------
(* Small instances of the conversion outbox.                               *)
EXTENDS MetaEventWorker

CONSTANTS e1, e2, w1, w2

TwoEvents == {e1, e2}
OneEvent == {e1}
TwoWorkers == {w1, w2}
NoneUnsupported == {}
SecondUnsupported == {e2}
=============================================================================
