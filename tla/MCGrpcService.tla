--------------------------- MODULE MCGrpcService ---------------------------
EXTENDS GrpcService, TLC

\* Calls of one kind are interchangeable: no action prefers one of them.
Symmetry == Permutations(Calls) \cup Permutations(StatusCalls)

=============================================================================
