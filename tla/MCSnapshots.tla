---------------------------- MODULE MCSnapshots ----------------------------
(* Two threads.                                                            *)
EXTENDS Snapshots

CONSTANTS t1, t2
MCThread == {t1, t2}
=============================================================================
