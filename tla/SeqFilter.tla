------------------------------ MODULE SeqFilter ------------------------------
(***************************************************************************)
(* The elements of a sequence that are in a set, in their order: SelectSeq *)
(* of a set, as a function of the position, which a proof can unfold.      *)
(***************************************************************************)
EXTENDS Naturals, Sequences

Filter(s, T) ==
  LET kept[i \in 0 .. Len(s)] ==
        IF i = 0 THEN <<>>
        ELSE IF s[i] \in T THEN Append(kept[i - 1], s[i]) ELSE kept[i - 1]
  IN kept[Len(s)]
=============================================================================
