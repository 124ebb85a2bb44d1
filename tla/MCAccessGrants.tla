----------------------------- MODULE MCAccessGrants -----------------------------
(* One customer who may buy one product twice.                             *)
EXTENDS AccessGrants

Buyer(o) == "c1"
Course(o) == 0
Shipped(p) == {"book"}
=============================================================================
