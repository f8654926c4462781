----------------------------- MODULE MCGraphics -----------------------------
EXTENDS Graphics, TLC

CONSTANTS h1, h2, h3, a1, a2, a3, a4, u1, u2, t1, t2

Handles == {h1, h2, h3}
Addresses == {a1, a2, a3, a4}
Users == {u1, u2}
Posters == {t1, t2}
Symmetry == Permutations(Handles) \cup Permutations(Addresses) \cup Permutations(Posters)

\* A bound: the libraries share nothing but the end of the process, so one of
\* them stays as it was loaded while the other goes through all its states.
OneMoves == GrallocInit \/ HwcInit
=============================================================================
