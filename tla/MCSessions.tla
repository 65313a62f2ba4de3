----------------------------- MODULE MCSessions -----------------------------
\* Instances of Sessions for TLC.
EXTENDS Sessions, TLC

\* Tokens, users and requests carry no meaning of their own.  Used by the
\* runs without liveness properties only.
Symmetry == Permutations(Users) \union Permutations(Tokens) \union Permutations(Requests)
=============================================================================
