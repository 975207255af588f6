------------------------------ MODULE MCEdenFS ------------------------------
(* Instances of EdenFS for TLC.                                            *)
EXTENDS EdenFSReads
=============================================================================
