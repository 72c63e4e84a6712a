---------------------------- MODULE MCLiveStream ----------------------------
(***************************************************************************)
(* Bounds for LiveStream: two calls of load() under way together.          *)
(***************************************************************************)
EXTENDS LiveStream
=============================================================================
