-------------------------- MODULE MCBlockAllocator --------------------------
(* Instances of BlockAllocator for TLC.                                    *)
EXTENDS BlockAllocator
=============================================================================
