----------------------------- MODULE Translation -----------------------------
(* What the console makes of a text: each element is replaced by a sequence *)
(* of its own, and these are put one after the other.                       *)
EXTENDS Integers, Sequences

(* E gives for each element the sequence that replaces it. *)
Translated(E, s) ==
  LET f[i \in 0..Len(s)] == IF i = 0 THEN << >> ELSE f[i - 1] \o E[s[i]]
  IN  f[Len(s)]
=============================================================================
