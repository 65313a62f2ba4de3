-------------------------- MODULE MCOrganizations --------------------------
\* Instances of Organizations for TLC.
EXTENDS Organizations, TLC

\* Users, organizations and requests carry no meaning of their own.
Symmetry == Permutations(Users) \union Permutations(Orgs) \union Permutations(Requests)
=============================================================================
