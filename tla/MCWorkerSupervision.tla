------------------------- MODULE MCWorkerSupervision -------------------------
EXTENDS WorkerSupervision, TLC
CONSTANTS a, b
Controllers == {a, b}
AnyController == Permutations(Controllers)
=============================================================================
