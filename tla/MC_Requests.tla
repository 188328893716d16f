---------------------------- MODULE MC_Requests ----------------------------
(* Requests for TLC.  The bounds are in the configurations: one draw more   *)
(* than there are session numbers, so that they wrap onto a call that may   *)
(* still be pending.                                                        *)
EXTENDS Requests
=============================================================================
