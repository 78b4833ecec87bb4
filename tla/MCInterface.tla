----------------------------- MODULE MCInterface -----------------------------
\* An instance of Interface for TLC.
EXTENDS Interface, TLC

\* Ana fits one slot and is ruled out for the other, ben takes an exception for one.
MCFit ==
  "a" :> ("ana" :> "fits" @@ "ben" :> "soft") @@ "b" :> ("ana" :> "hard" @@ "ben" :> "fits")

\* One table is wider than the others by its own content.
MCContent == [t \in Tracks |-> IF t = "sugo" THEN 2 ELSE 1]

\* The ends of months and of years.
MCDates ==
  { [m |-> 1, d |-> 1], [m |-> 2, d |-> 28], [m |-> 2, d |-> 29], [m |-> 3, d |-> 1],
    [m |-> 3, d |-> 31], [m |-> 5, d |-> 31], [m |-> 8, d |-> 15], [m |-> 12, d |-> 31] }

\* Fewer rows than a page holds, more, and two pages of them; with 69 the next section
\* but one may begin where its heading fits and its first row does not.
MCRowCounts == 0..40 \union 60..70

A(d, type, t, how) == [dako |-> d, type |-> type, teacher |-> t, source |-> how]

\* Two teachers change places, one changes section, and the plan is cleared.
MCPlans ==
  { {A(1, "SUGO", "ana", "AUTO"), A(2, "SUGO", "ben", "AUTO"), A(1, "RESERBA", "cora", "MANUAL")},
    {A(1, "SUGO", "ben", "AUTO"), A(2, "SUGO", "ana", "AUTO"), A(1, "RESERBA", "cora", "MANUAL")},
    {A(1, "SUGO", "cora", "AUTO"), A(2, "RESERBA", "ana", "OVERRIDE"),
     A(1, "RESERBA_II", "ben", "HISTORICAL")},
    {} }

MCRosters ==
  { {},
    {[mag |-> "SUGO", seat |-> 1, teacher |-> "dan"], [mag |-> "SUGO", seat |-> 3, teacher |-> "eva"],
     [mag |-> "RESERBA", seat |-> 2, teacher |-> "ana"]} }
=============================================================================
