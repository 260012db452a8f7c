-------------------------------- MODULE Lists --------------------------------
(***************************************************************************)
(* What the loops over a list with a `seen` set make of it, told from the  *)
(* positions of its elements.                                              *)
(***************************************************************************)
EXTENDS Integers, Sequences, SequencesExt

\* What stands at the given positions, in the order of the list.
At(list, positions) ==
  FlattenSeq([i \in DOMAIN list |-> IF i \in positions THEN <<list[i]>> ELSE <<>>])

\* Where a key occurs that has not occurred before.
Firsts(keys) == {i \in DOMAIN keys : \A j \in 1..(i - 1) : keys[j] # keys[i]}
=============================================================================
