------------------------------ MODULE FileTree ------------------------------
(***************************************************************************)
(* What a user is promised of EdenFS: a tree of directories and files.     *)
(* Creating an object replaces what the path led to, deleting one takes    *)
(* what is below it along, and a new file is written once.                 *)
(***************************************************************************)
EXTENDS Naturals, Sequences

CONSTANT Path   \* the paths users name: non-empty sequences of names

VARIABLES tree,   \* what exists: its path, whether a directory, its data
          sound   \* FALSE once the volume is no longer a file system

\* The path leads to a directory that q leads through, or to q itself.
Leads(p, q) == Len(p) <= Len(q) /\ SubSeq(q, 1, Len(p)) = p

Node(p, d, data) == [path |-> p, dir |-> d, data |-> data]
Without(p) == {n \in tree : ~Leads(p, n.path)}

Create(p, d) ==
    /\ Len(p) > 1 => Node(SubSeq(p, 1, Len(p) - 1), TRUE, <<>>) \in tree
    /\ tree' = Without(p) \cup {Node(p, d, <<>>)}

Delete(p) ==
    /\ \E n \in tree : n.path = p
    /\ tree' = Without(p)

Write(p) ==
    /\ Node(p, FALSE, <<>>) \in tree
    /\ \E n \in tree' : n.path = p /\ ~n.dir /\ tree' = Without(p) \cup {n}

Break == sound' = FALSE

Next == \/ /\ sound /\ sound' = sound
           /\ \E p \in Path : (\E d \in BOOLEAN : Create(p, d)) \/ Delete(p) \/ Write(p)
        \/ Break

\* A formatted volume, with what the host may have put there.
Init == sound = TRUE

Spec == Init /\ [][Next]_<<tree, sound>>

=============================================================================
