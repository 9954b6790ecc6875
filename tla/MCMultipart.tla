----------------------------- MODULE MCMultipart -----------------------------
EXTENDS Multipart, TLC

\* Requests are interchangeable.
Symmetry == Permutations(Threads)
=============================================================================
