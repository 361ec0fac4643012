------------------------------- MODULE Queues -------------------------------
(***************************************************************************)
(* The circular doubly linked lists of common.h, as sequences: head first, *)
(* each element at most once.                                              *)
(***************************************************************************)
EXTENDS Integers, SequencesExt

(* ST_REMOVE_LINK: the element is taken out wherever it is.                *)
Unlink(s, t) ==
    LET p == CHOOSE i \in 1..Len(s) : s[i] = t
    IN  RemoveAt(s, p)

(* What is left of s, in its order, when all but the elements of T are     *)
(* taken out.                                                              *)
Only(s, T) ==
    LET left[i \in 0..Len(s)] ==
          IF i = 0 THEN <<>>
          ELSE IF s[i] \in T THEN Append(left[i - 1], s[i]) ELSE left[i - 1]
    IN  left[Len(s)]

(* Element x is before element y on queue s.                               *)
Before(s, x, y) == \E i, j \in DOMAIN s : i < j /\ s[i] = x /\ s[j] = y

=============================================================================
