----------------------------- MODULE MC_TsQueue -----------------------------
(* Instantiation of TsQueue for TLC. *)
EXTENDS TsQueue, TLC

CONSTANTS p1, p2, c1

MCProducers == {p1, p2}
MCOneConsumer == {c1}

\* Producers are interchangeable: symmetry is sound for the safety runs.
ProducerSymmetry == Permutations(MCProducers)
=============================================================================
