----------------------------- MODULE MCRequest ------------------------------
EXTENDS Request

CONSTANTS r1, r2, r3, s1, s2

\* All of one session.
MCSessionOf == [r \in {r1, r2, r3} |-> s1]
=============================================================================
