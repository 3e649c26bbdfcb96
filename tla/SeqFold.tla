------------------------------- MODULE SeqFold -------------------------------
(***************************************************************************)
(* A loop over a sequence: step maps a pair, the state of the loop and an  *)
(* element, to the next state.  It is a function and not an operator, so   *)
(* that facts about every fold can be stated and proved once               *)
(* (SeqFoldProofs).                                                        *)
(***************************************************************************)
EXTENDS Integers, Sequences

Fold(step, start, s) ==
    LET after[k \in 0..Len(s)] ==
          IF k = 0 THEN start ELSE step[<<after[k - 1], s[k]>>]
    IN  after[Len(s)]
=============================================================================
