--------------------------- MODULE MCLearnerSession ---------------------------
(***************************************************************************)
(* Model values for LearnerSession: one browser, at an address it shares   *)
(* with others who enter wrong codes too.  The pages run gives its page    *)
(* two calls at a time, the limiter run two more addresses and one call.   *)
(***************************************************************************)
EXTENDS LearnerSession, TLC

CONSTANTS d1

HomeAddress == [d \in Devices |-> "library"]
=============================================================================
