----------------------------- MODULE MCJobSystem -----------------------------
EXTENDS JobSystem, TLC
CONSTANTS n1, n2, j1, j2, r1, r2
KindQueue == [n \in Nodes |-> "queue"]
KindWorker == [n \in Nodes |-> "worker"]
NoPairs == {}
OneForeign == {<<n2, j1>>}
RunSymmetry == Permutations(Runs)
NodeRunSymmetry == Permutations(Runs) \cup Permutations(Nodes)
=============================================================================
