----------------------------- MODULE MCLogStream -----------------------------
EXTENDS LogStream
CONSTANT r1
=============================================================================
