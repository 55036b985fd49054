---------------------------- MODULE MCRunBudget ----------------------------
(* Two attempts, two children, one reconciler; three units each.        *)
EXTENDS RunBudget, TLC

MCLimit == [d \in Dims |-> 3]
MCGrants == {[d \in Dims |-> 1]}
Usage(v, mark, final) ==
  [vals |-> [d \in Dims |-> v], mark |-> mark, final |-> final, metered |-> TRUE]
TurnsOnly(report) == [report EXCEPT !.vals["cost_nanos"] = Missing]
MCReports == {Usage(1, 0, FALSE), Usage(2, 1, TRUE), TurnsOnly(Usage(2, 1, TRUE))}
BudgetSymmetry == Permutations(Recorders) \cup Permutations(Invocations) \cup Permutations(Children)
                    \cup Permutations(Results) \cup Permutations(ReceiptKeys)
=============================================================================
