----------------------------- MODULE MCGeneration -----------------------------
\* Instances of Generation for TLC.
EXTENDS Generation

\* Three teachers, two dakos.  The second dako is the priority dako.
Plain == [active |-> Teachers, english |-> Teachers,
          enabled |-> Dakos, englishDakos |-> {}, priority |-> {2},
          destination |-> [t \in Teachers |-> 1],
          duty |-> [t \in Teachers |-> "KATUWANG"],
          oath |-> [t \in Teachers |-> 0]]

\* Languages, an oath in the second week, one duty of each kind.
Mixed == [Plain EXCEPT !.english = {1, 2}, !.englishDakos = {1},
                       !.oath = [t \in Teachers |-> IF t = 2 THEN 2 ELSE 0],
                       !.duty = [t \in Teachers |-> IF t = 1 THEN "DESTINADO" ELSE "KATUWANG"],
                       !.destination = [t \in Teachers |-> IF t = 3 THEN 2 ELSE 1]]

\* A teacher who left, and a dako out of use; one has no destination.
Reduced == [Plain EXCEPT !.active = {1, 2}, !.enabled = {2}, !.priority = {},
                         !.destination = [t \in Teachers |-> IF t = 3 THEN 0 ELSE 2]]

\* Everybody, or some; the others ABSENT, who stay out for another week, or INACTIVE.
Encode(S, status) == [t \in Teachers |-> IF t \in S THEN "AVAILABLE" ELSE status]

MCEncodings ==
  {Encode(Teachers, "ABSENT"), Encode({2, 3}, "ABSENT"),
   Encode({1, 3}, "INACTIVE"), Encode({3}, "ABSENT")}

MCMasters == {Plain, Mixed, Reduced}
=============================================================================
