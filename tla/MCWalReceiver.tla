---------------------------- MODULE MCWalReceiver ----------------------------
(***************************************************************************)
(* Model-checking instance of WalReceiver: two segments of two positions, *)
(* so that a frame can cross a segment boundary and a restart can begin   *)
(* below what was flushed.                                                  *)
(***************************************************************************)
EXTENDS WalReceiver

====
