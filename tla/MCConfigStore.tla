---------------------------- MODULE MCConfigStore ----------------------------
EXTENDS ConfigStore, TLC
CONSTANTS conf, svc, a, b

MCRank == [f \in {conf, svc} |-> IF f = conf THEN 1 ELSE 2]
ForwardClock == [i \in 1 .. MaxId |-> i]

\* Both contents are good: nothing tells them apart.
Symmetry == Permutations({a, b})

\* Bound: any two of a failing step, deaths and an edit, in any order.
AnyTwo == faults + crashes + edits <= 2
=============================================================================
