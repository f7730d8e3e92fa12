---------------------- MODULE MCConcurrencyController ----------------------
(***************************************************************************)
(* Small instances of the concurrency controller.  More callers than twice *)
(* the slots, so that the queue holds several entries of which some are    *)
(* overtaken if it is not served in order.  No symmetry: the queue orders  *)
(* the callers, and one run singles some of them out.                      *)
(***************************************************************************)
EXTENDS ConcurrencyController

CONSTANTS o1, o2, o3, o4, o5

FiveOps == {o1, o2, o3, o4, o5}
OneHangs == {o1}
=============================================================================
