-------------------------------- MODULE Absence --------------------------------
(***************************************************************************)
(* The value the code writes as null or undefined.  Modules that are       *)
(* composed take it from here, so that all of them mean the same value.    *)
(***************************************************************************)
CONSTANT None
=============================================================================
