---------------------------- MODULE MCLoadClient ----------------------------
(***************************************************************************)
(* The load test for TLC: the clients, and the summary run_load_test makes *)
(* of their samples.  SizeModulus = 16384 is the least power of two that   *)
(* the code's rank fits; 210 * 95 does not fit it.                         *)
(***************************************************************************)
EXTENDS LoadClient
=============================================================================
