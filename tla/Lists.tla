-------------------------------- MODULE Lists ---------------------------------
(***************************************************************************)
(* What the code does with the slices it has.                              *)
(***************************************************************************)
EXTENDS Integers, Sequences, FiniteSetsExt

(* slices.IndexFunc: the first of the places at which a condition holds, 0 for
   none. *)
First(places) == IF places = {} THEN 0 ELSE Min(places)

(* A loop over s that updates what it has: step maps that and the next element
   to what it has then.  (A recursive function, and step a function too, so
   that what a loop computes can be proved by induction.) *)
Fold(step, base, s) ==
    LET f[i \in 0 .. Len(s)] == IF i = 0 THEN base ELSE step[<<f[i - 1], s[i]>>]
    IN  f[Len(s)]
=============================================================================
