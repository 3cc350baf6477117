------------------------------- MODULE MCDesk -------------------------------
\* Desk on small instances.
EXTENDS Desk
=============================================================================
