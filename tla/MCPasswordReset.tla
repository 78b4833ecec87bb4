----------------------------- MODULE MCPasswordReset -----------------------------
\* Instances of PasswordReset for TLC: the operations each behaviour uses.
EXTENDS PasswordReset, TLC

Symmetry == Permutations(Requests)

MCWorkloads ==
  { {"LOGIN", "CHANGE", "RESET", "OPERATOR"},
    {"LOGIN", "ACTIVATE", "DEACTIVATE", "OPERATOR"},
    {"LOGIN", "RESTART", "TIME"},
    {"LOGIN", "OPERATOR", "RESTART"},
    {"CREATE", "RESET", "OPERATOR"},
    {"REQUEST", "VERIFY", "RECOVER", "TIME"} }
=============================================================================
