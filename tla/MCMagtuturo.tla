------------------------------- MODULE MCMagtuturo -------------------------------
\* Instances of Magtuturo for TLC: the operations each behaviour uses.
EXTENDS Magtuturo

Symmetry == Permutations(Requests)

MCWorkloads ==
  { {"GENERATE", "ASSIGN"}, {"MONTH", "CLEAR", "STATUS"} }

\* Two teachers compete for the SUGO seat; one of them is assigned to RESERBA too.
MCSeatings ==
  { [teacher |-> 1, type |-> "SUGO", seat |-> 0], [teacher |-> 2, type |-> "SUGO", seat |-> 1],
    [teacher |-> 2, type |-> "RESERBA", seat |-> 0] }
=============================================================================
