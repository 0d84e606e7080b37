---------------------------- MODULE MCManagedAvahi ----------------------------
EXTENDS ManagedAvahi
CONSTANTS conf, svc, a, b

MCRank == [f \in {conf, svc} |-> IF f = conf THEN 1 ELSE 2]
ForwardClock == [i \in 1 .. MaxId |-> i]

\* Content b parses and validates, but avahi-daemon does not start with it.
MCRunnable == {im \in Images : im[conf] = a}
=============================================================================
