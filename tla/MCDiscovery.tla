------------------------------ MODULE MCDiscovery ------------------------------
EXTENDS Discovery
CONSTANTS a, b, c, d, ta, tb

\* Three services of one type, so that the limit of services can be reached
\* below the limit of types, and one of another, so that both can.
MCTypeOf == [k \in {a, b, c, d} |-> IF k = d THEN tb ELSE ta]
=============================================================================
