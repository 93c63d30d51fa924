--------------------------- MODULE MCCommandQueue ---------------------------
(* The queue of commands with one consumer and two producers that are alike. *)
EXTENDS CommandQueue, TLC

CONSTANTS p1, p2, c1

TwoProducers == {p1, p2}
OneConsumer  == {c1}
ProducersAreAlike == Permutations({p1, p2})
=============================================================================
