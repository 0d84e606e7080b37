---------------------------- MODULE MCConfigEvents ----------------------------
EXTENDS ConfigEvents, TLC
CONSTANTS s1, s2

\* Handlers differ in nothing but their names.
Handlers == Permutations(Streams)
=============================================================================
