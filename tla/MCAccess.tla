------------------------------- MODULE MCAccess -------------------------------
EXTENDS Access, TLC
CONSTANTS r1, r2, r3, a1, a2, nowhere

\* Requests and addresses differ in nothing but their names.
Same == Permutations(Requests) \union Permutations(Addresses)
=============================================================================
