---------------------------- MODULE MCScreencast ----------------------------
EXTENDS Screencast, TLC

\* The tabs are interchangeable.
Symmetry == Permutations(Tab)
=============================================================================
