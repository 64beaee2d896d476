------------------------------- MODULE MCReads -------------------------------
(* Readers of one operation, told apart by nothing. *)
EXTENDS ReadAttempts, TLC

ReaderSymmetry == Permutations(Actors)

=============================================================================
