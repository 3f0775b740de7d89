------------------------------ MODULE LockList ------------------------------
(* The list of locks of an inode, whatever their kind.                      *)
EXTENDS Integers, Sequences, SequencesExt

\* locks_delete_lock for each lock of the list at a place in I, on the way
\* along the list.
Keep(list, I) ==
    LET kept[k \in 0 .. Len(list)] ==
            IF k = 0 THEN << >>
            ELSE IF k \in I THEN kept[k - 1] ELSE Append(kept[k - 1], list[k])
    IN  kept[Len(list)]
=============================================================================
