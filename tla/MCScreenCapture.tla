-------------------------- MODULE MCScreenCapture --------------------------
EXTENDS ScreenCapture, TLC
Symmetry == Permutations(Session) \cup Permutations(Consumer) \cup Permutations(Frame)
=============================================================================
