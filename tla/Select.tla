------------------------------- MODULE Select -------------------------------
(***************************************************************************)
(* The loops of the code that go through a list and keep some of it.       *)
(*                                                                         *)
(* Select is SelectSeq, with the places of the elements to keep in place   *)
(* of a test.  It is written as a recursive function because the provers   *)
(* can reason about that.                                                  *)
(***************************************************************************)
EXTENDS Naturals, Sequences

Select(s, kept) ==
  LET select[k \in 0..Len(s)] ==
        IF k = 0 THEN <<>>
        ELSE IF k \in kept THEN Append(select[k - 1], s[k])
        ELSE select[k - 1]
  IN  select[Len(s)]
=============================================================================
