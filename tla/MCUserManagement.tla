-------------------------- MODULE MCUserManagement --------------------------
\* Instances of UserManagement for TLC.
EXTENDS UserManagement, TLC

Symmetry == Permutations(Users) \union Permutations(Requests)
=============================================================================
