------------------------------ MODULE Marking ------------------------------
(***************************************************************************)
(* What the buffer of a channel does with readings that are marked: an API *)
(* marks those it has taken as deleted, and they go when the buffer is     *)
(* cleaned, or stay when the API could not deliver them.                   *)
(***************************************************************************)
EXTENDS Integers, Sequences

IdsOf(s) == {s[i].id : i \in DOMAIN s}

(* Mutant: the buffer is emptied. *)
CleanedMutant(s) == <<>>

(* Buffer::clean *)
Cleaned(s) ==
    LET kept[i \in 0..Len(s)] ==
            IF i = 0 THEN <<>>
            ELSE IF s[i].deleted THEN kept[i - 1] ELSE Append(kept[i - 1], s[i])
    IN  kept[Len(s)]

(* Buffer::undelete *)
Undeleted(s) == [i \in DOMAIN s |-> [s[i] EXCEPT !.deleted = FALSE]]

=============================================================================
