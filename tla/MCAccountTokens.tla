-------------------------- MODULE MCAccountTokens --------------------------
\* Instances of AccountTokens for TLC.
EXTENDS AccountTokens, TLC

\* Users, tokens and requests carry no meaning of their own.
Symmetry == Permutations(Users) \union Permutations(Tokens) \union Permutations(Requests)
=============================================================================
