------------------------------- MODULE MCWeekEditing -------------------------------
\* Instances of WeekEditing for TLC: a super administrator who is an administrator
\* as well, and a scheduler; the operations each behaviour uses.
EXTENDS WeekEditing, TLC

CONSTANTS sol, eli, t1, t2, t3, d1

Order(a, b, status) == <<[teacher |-> a, status |-> status], [teacher |-> b, status |-> status]>>

\* Two teachers in both orders, and one.
MCSaves == {Order(t1, t2, "ABSENT"), Order(t2, t1, "AVAILABLE"), <<[teacher |-> t2, status |-> "ABSENT"]>>}

\* One row, two rows, a teacher twice, and a teacher who does not speak the language.
MCBatches ==
  { {<<<<d1, "SUGO">>, t1>>}, {<<<<d1, "SUGO">>, t1>>, <<<<d1, "RESERBA">>, t2>>},
    {<<<<d1, "SUGO">>, t2>>, <<<<d1, "RESERBA">>, t2>>}, {<<<<d1, "RESERBA">>, t3>>} }

MCRolesOf == [u \in Users |-> IF u = sol THEN {"SUPER_ADMIN", "ADMIN"} ELSE {"SCHEDULER"}]

Symmetry == Permutations(Requests)

MCWorkloads ==
  { {"CREATE", "CHANGE", "CLEAR"},
    {"GENERATE", "CREATE", "CHANGE"},
    {"RECORD", "CREATE", "CHANGE", "HCORRECT"},
    {"REPLACE", "CHANGE", "SAVE"},
    {"SAVE", "FILL"},
    {"SAVE", "BEGIN", "END", "PUBLISH"},
    {"RESOLVE", "CREATE_WEEK"} }
=============================================================================
