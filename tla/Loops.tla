-------------------------------- MODULE Loops --------------------------------
(****************************************************************************)
(* Loops over a sequence that collect another one, written as recursive     *)
(* functions.                                                               *)
(****************************************************************************)
EXTENDS Naturals, Sequences

\* What a loop over the sequence collects.
Collect(op(_, _), seq) ==
  LET done[n \in 0 .. Len(seq)] == IF n = 0 THEN <<>> ELSE op(done[n - 1], seq[n])
  IN done[Len(seq)]

\* The elements of the sequence that are wanted, in their order.
Picked(seq, wanted) ==
  LET Pick(picked, x) == IF x \in wanted THEN Append(picked, x) ELSE picked
  IN Collect(Pick, seq)

=============================================================================
