----------------------------- MODULE MCReconcile ------------------------------
EXTENDS Reconcile, TLC
CONSTANTS r1, r2, boot, nobody, a, b

\* Request handlers differ in nothing but their names, contents neither.
Same == Permutations(Requests) \union Permutations(Contents)
=============================================================================
