------------------------------ MODULE BlockPool ------------------------------
(***************************************************************************)
(* What the file system makes of balloc and bfree (edenfs.c:983-1041): a   *)
(* pool of blocks.  A block is taken from the free ones, then linked once. *)
(* The blocks of a chain are freed one by one and unlinked together, after *)
(* that.  A block that is neither linked nor free is in the hands of a     *)
(* thread or lost: power can fail in between.  A block that is linked but  *)
(* free is being deleted or torn: power failed in between.                 *)
(***************************************************************************)
CONSTANT Block   \* the blocks of the volume

VARIABLES used,    \* blocks that are not free
          linked,  \* blocks that the file system leads to
          freed,   \* linked blocks of a chain that is being deleted
          torn,    \* linked blocks that a power failure left free
          shared   \* torn blocks that were linked once more

Init == /\ used \in SUBSET Block
        /\ linked = {} /\ freed = {} /\ torn = {} /\ shared = {}

\* What is linked is given again only when it is torn or was.
Available(b) == b \notin linked \ (torn \cup shared)

Take(b) ==
    /\ b \in Block \ used
    /\ Available(b)
    /\ used' = used \cup {b}
    /\ UNCHANGED <<linked, freed, torn, shared>>

Link(b) ==
    /\ b \in used
    /\ Available(b)
    /\ linked' = linked \cup {b}
    /\ shared' = shared \cup ({b} \cap torn)
    /\ torn' = torn \ {b}
    /\ UNCHANGED <<used, freed>>

Free(b) ==
    /\ b \in linked \ freed
    /\ used' = used \ {b}
    /\ freed' = freed \cup {b}
    /\ UNCHANGED <<linked, torn, shared>>

\* A torn block whose entry is deleted at last is as good as new.
Unlink ==
    /\ linked' = linked \ (freed \ shared)
    /\ torn' = torn \ freed
    /\ freed' = {}
    /\ UNCHANGED <<used, shared>>

Crash ==
    /\ torn' = torn \cup (freed \ shared)
    /\ freed' = {}
    /\ UNCHANGED <<used, linked, shared>>

Next == \/ \E b \in Block : Take(b) \/ Link(b) \/ Free(b)
        \/ Unlink \/ Crash

Spec == Init /\ [][Next]_<<used, linked, freed, torn, shared>>

=============================================================================
