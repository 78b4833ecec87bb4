------------------------ MODULE DestinationHistoryProofs ------------------------
(***************************************************************************)
(* Proofs about DestinationHistory, for any number of teachers, dakos,     *)
(* duties, overlapping requests and calls.                                 *)
(*                                                                         *)
(* The argument has three layers, each inductive over the one before.      *)
(*                                                                         *)
(*  - PlanInv: the statements a request has left are one of a few lists    *)
(*    (Shapes), whatever it read.                                          *)
(*  - RowInv: no two transactions wrote the same row, a row stays with its *)
(*    teacher, and what a transaction wrote of somebody else's is closed   *)
(*    and was in the slot it fills.                                        *)
(*  - MirrorInv: what holds of the teacher's open period before each       *)
(*    statement of an undisturbed request (Phase), so that the two columns *)
(*    and the period agree when it commits.                                *)
(***************************************************************************)
EXTENDS DestinationHistory, FunctionTheorems, FiniteSetTheorems, SequenceTheorems, TLAPS

-----------------------------------------------------------------------------
(* The lists of statements *)

Statements ==
  {"readPrior", "readTeacher", "readOpen", "insert"} \union UpdateStatements \union TeacherStatements

After(a, S) == {<<a>> \o s : s \in S}

Ends == {<< >>, <<"setCurrent">>, <<"setDuty">>}
Duty == After("setDuty", Ends)
Mirror == After("mirror", Ends)

Inserting == After("insert", Mirror)
InsertSlot == Inserting \union After("closeUnlabelled", Inserting)
Moving == After("closeSlot", InsertSlot)
Leaving == After("closeOwn", Moving \union {<<"setCurrent">>})

Relabelling == After("relabel", Duty)
RelabelSlot == Relabelling \union After("closeUnlabelled", Relabelling)
Staying == After("closeSlot", RelabelSlot)

Syncing == After("syncDuty", {<<"setDuty">>})
Opening == After("readOpen", Ends)
Reading == After("readTeacher", Opening)
Asking == {<<"readPrior">>}
Correcting == {<<"correct">>, <<"correctEnd">>}

\* The list ends with a period of the teacher at the dako of the call.
Posting == Reading \union Opening \union InsertSlot \union Moving \union After("closeOwn", Moving)

Shapes == Ends \union Duty \union Mirror \union InsertSlot \union Moving \union Leaving
          \union RelabelSlot \union Staying \union Syncing \union Opening \union Reading
          \union Asking \union Correcting

Starts(s, a) == s # << >> /\ Head(s) = a
StartsWith(s, A) == s # << >> /\ Head(s) \in A

Kinds == {"ASSIGN", "CLEAR", "EDIT", "CORRECT"}
Calls == [kind : Kinds, teacher : Teachers, dako : Dakos \union {NoDako}, duty : DutyValues,
          period : Ids \union {0}]
Tables == UNION {[S -> PeriodRows] : S \in SUBSET Ids}

Typed ==
  /\ teachers \in [Teachers -> TeacherRows]
  /\ periods \in Tables
  /\ draft \in [Requests -> Tables]
  /\ teacherDraft \in [Requests -> SUBSET TeacherRows]
  /\ call \in [Requests -> Calls \union {NoCall}]
  /\ seen \in [Requests -> SUBSET TeacherRows]
  /\ todo \in [Requests -> Shapes]
  /\ candidates \in [Requests -> SUBSET Ids]

\* A request that is not in flight holds nothing.
Clean(p) ==
  ~InFlight(p) => /\ draft[p] = << >> /\ teacherDraft[p] = {} /\ seen[p] = {}
                  /\ todo[p] = << >> /\ candidates[p] = {}

\* What the lists of statements say about the call and its UPDATE.
PlanOf(c, s, k) ==
  /\ s \in Posting => c.dako \in Dakos
  /\ s \in InsertSlot \union Moving \union Leaving => c.period = 0
  /\ s \in RelabelSlot \union Staying \union Correcting => c.period # 0
  /\ k # {} => StartsWith(s, UpdateStatements)

PlanInv ==
  /\ Typed
  /\ \A p \in Requests : Clean(p)
  /\ \A p \in Requests : InFlight(p) => PlanOf(call[p], todo[p], candidates[p])
  /\ \A p \in Requests : candidates[p] \subseteq DOMAIN PeriodsOf(p)

-----------------------------------------------------------------------------
(* Whose rows a transaction may write *)

RowsApart ==
  \A p, q \in Requests : p # q => DOMAIN draft[p] \intersect DOMAIN draft[q] = {}

\* Row versions d over table v: rows stay with their teacher, and those of others were
\* open in the slot of the call and are closed.
DraftOf(c, d, v) ==
  \A i \in DOMAIN d :
    /\ i \in DOMAIN v => d[i].teacher = v[i].teacher
    /\ d[i].teacher # c.teacher =>
         /\ i \in DOMAIN v
         /\ ~d[i].open
         /\ v[i].open => v[i].dako = c.dako /\ v[i].duty \in {c.duty, "NONE"}

\* The period the call names is the teacher's.
PeriodOwn(c, v) ==
  c.period # 0 => c.period \in DOMAIN v /\ v[c.period].teacher = c.teacher

RowInv ==
  /\ RowsApart
  /\ \A p \in Requests : InFlight(p) =>
       /\ DraftOf(call[p], draft[p], periods)
       /\ PeriodOwn(call[p], PeriodsOf(p))
       /\ todo[p] \in Asking => draft[p] = << >>

-----------------------------------------------------------------------------
(* What an undisturbed request knows before each of its statements *)

Mine(c, v) == {i \in DOMAIN v : v[i].open /\ v[i].teacher = c.teacher}

MineAre(c, v, d, u) == \A i \in Mine(c, v) : v[i].dako = d /\ v[i].duty = u

\* c: the call, t: the teacher row it sees, v: the periods it sees, s: its statements,
\* k: the rows its UPDATE waits for, r: the teacher row it read.
Phase(c, t, v, s, k, r) ==
  /\ \A i, j \in Mine(c, v) : i = j
  /\ s = << >> \/ StartsWith(s, {"readPrior", "readTeacher", "readOpen", "correct", "correctEnd"})
       => MineAre(c, v, t.current, t.duty)
  /\ StartsWith(s, {"correct", "correctEnd"}) => c.period \notin Mine(c, v)
  /\ Starts(s, "readOpen") => r = {t}
  /\ Starts(s, "setCurrent") => MineAre(c, v, c.dako, t.duty)
  /\ Starts(s, "setDuty") =>
       MineAre(c, v, IF Tail(s) = <<"setCurrent">> THEN c.dako ELSE t.current, c.duty)
  /\ Starts(s, "mirror") => MineAre(c, v, c.dako, c.duty)
  /\ Starts(s, "insert") => Mine(c, v) = {}
  /\ StartsWith(s, {"closeSlot", "closeUnlabelled"}) /\ c.period = 0 => Mine(c, v) = {}
  /\ (StartsWith(s, {"closeSlot", "closeUnlabelled"}) /\ c.period # 0) \/ Starts(s, "relabel") =>
       /\ Mine(c, v) \subseteq {c.period}
       /\ t.current = c.dako
       /\ \A i \in Mine(c, v) : v[i].dako = c.dako
  /\ Starts(s, "syncDuty") => \A i \in Mine(c, v) : v[i].dako = t.current
  /\ StartsWith(s, {"closeOwn", "relabel", "syncDuty"}) /\ k # {} => Mine(c, v) \subseteq k

Undisturbed(p) == InFlight(p) /\ call[p].teacher \notin disturbed

Alone ==
  \A p, q \in Requests :
    p # q /\ InFlight(p) /\ InFlight(q) /\ call[p].teacher = call[q].teacher =>
      call[p].teacher \in disturbed

OnePeriodEach ==
  \A i, j \in DOMAIN periods :
    periods[i].open /\ periods[j].open /\ periods[i].teacher = periods[j].teacher
      /\ periods[i].teacher \notin disturbed => i = j

MirrorInv ==
  /\ Alone
  /\ OnePeriodEach
  /\ RelationshipMirrored
  /\ \A p \in Requests : Undisturbed(p) =>
       Phase(call[p], TeacherOf(p), PeriodsOf(p), todo[p], candidates[p], seen[p])

LedgerInv == PlanInv /\ RowInv /\ MirrorInv

-----------------------------------------------------------------------------
(* Lists, by their first statement *)

LEMMA AfterFacts ==
  ASSUME NEW a \in Statements, NEW S, S \subseteq Seq(Statements), NEW s \in After(a, S)
  PROVE  /\ s \in Seq(Statements) /\ s # << >>
         /\ Head(s) = a
         /\ Tail(s) \in S
<1>1. PICK r \in S : s = <<a>> \o r
  BY DEF After
<1>2. r \in Seq(Statements) /\ <<a>> \in Seq(Statements)
  OBVIOUS
<1>3. s \in Seq(Statements) /\ Len(s) = 1 + Len(r) /\ s[1] = a /\ \A i \in 1..Len(r) : s[1 + i] = r[i]
  BY <1>1, <1>2, ConcatProperties
<1>4. s # << >> /\ Head(s) = a
  BY <1>2, <1>3
<1>5. Tail(s) = r
  <2>1. /\ Tail(s) \in Seq(Statements) /\ Len(Tail(s)) = Len(s) - 1
        /\ \A i \in 1..Len(Tail(s)) : Tail(s)[i] = s[i + 1]
    BY <1>3, <1>4, HeadTailProperties
  <2>2. Len(Tail(s)) = Len(r) /\ \A i \in 1..Len(r) : Tail(s)[i] = r[i]
    BY <1>2, <1>3, <2>1
  <2>. QED BY <1>2, <2>1, <2>2, SeqEqual
<1>. QED BY <1>3, <1>4, <1>5

LEMMA ShapesAreLists ==
  /\ Ends \subseteq Seq(Statements) /\ Duty \subseteq Seq(Statements) /\ Mirror \subseteq Seq(Statements)
  /\ Inserting \subseteq Seq(Statements) /\ InsertSlot \subseteq Seq(Statements)
  /\ Moving \subseteq Seq(Statements) /\ Leaving \subseteq Seq(Statements)
  /\ Relabelling \subseteq Seq(Statements) /\ RelabelSlot \subseteq Seq(Statements)
  /\ Staying \subseteq Seq(Statements) /\ Syncing \subseteq Seq(Statements)
  /\ Opening \subseteq Seq(Statements) /\ Reading \subseteq Seq(Statements)
<1>0. /\ {"readPrior", "readTeacher", "readOpen", "insert"} \subseteq Statements
      /\ {"closeOwn", "closeSlot", "closeUnlabelled", "relabel", "syncDuty"} \subseteq Statements
      /\ {"mirror", "setDuty", "setCurrent"} \subseteq Statements
  BY DEF Statements, UpdateStatements, TeacherStatements
<1>. HIDE DEF Statements
<1>1. Ends \subseteq Seq(Statements) /\ {<<"setDuty">>} \subseteq Seq(Statements) /\ {<<"setCurrent">>} \subseteq Seq(Statements)
  BY <1>0, EmptySeq DEF Ends
<1>2. Duty \subseteq Seq(Statements) /\ Mirror \subseteq Seq(Statements) /\ Opening \subseteq Seq(Statements)
      /\ Syncing \subseteq Seq(Statements)
  BY <1>0, <1>1, AfterFacts DEF Duty, Mirror, Opening, Syncing
<1>3. Inserting \subseteq Seq(Statements) /\ Relabelling \subseteq Seq(Statements) /\ Reading \subseteq Seq(Statements)
  BY <1>0, <1>2, AfterFacts DEF Inserting, Relabelling, Reading
<1>4. InsertSlot \subseteq Seq(Statements) /\ RelabelSlot \subseteq Seq(Statements)
  BY <1>0, <1>3, AfterFacts DEF InsertSlot, RelabelSlot
<1>5. Moving \subseteq Seq(Statements) /\ Staying \subseteq Seq(Statements)
  BY <1>0, <1>4, AfterFacts DEF Moving, Staying
<1>6. Leaving \subseteq Seq(Statements)
  <2>1. Moving \union {<<"setCurrent">>} \subseteq Seq(Statements)
    BY <1>1, <1>5
  <2>. QED BY <1>0, <2>1, AfterFacts DEF Leaving
<1>. QED BY <1>1, <1>2, <1>3, <1>4, <1>5, <1>6

LEMMA Single ==
  ASSUME NEW a \in Statements
  PROVE  <<a>> \in Seq(Statements) /\ <<a>> # << >> /\ Head(<<a>>) = a /\ Tail(<<a>>) = << >>
<1>1. <<a>> \in Seq(Statements) /\ << >> \in Seq(Statements)
  BY EmptySeq
<1>2. <<a>> = <<a>> \o << >>
  BY <1>1, ConcatEmptySeq
<1>3. <<a>> \in After(a, {<< >>})
  BY <1>2 DEF After
<1>4. /\ <<a>> # << >> /\ Head(<<a>>) = a
      /\ Tail(<<a>>) \in {<< >>}
  <2>. DEFINE S == {<< >>}
  <2>1. S \subseteq Seq(Statements)
    BY <1>1
  <2>. HIDE DEF S
  <2>2. <<a>> \in After(a, S)
    BY <1>3 DEF S
  <2>3. <<a>> # << >> /\ Head(<<a>>) = a /\ Tail(<<a>>) \in S
    BY <2>1, <2>2, AfterFacts
  <2>. QED BY <2>3 DEF S
<1>. QED BY <1>1, <1>4

LEMMA Names ==
  /\ {"readPrior", "readTeacher", "readOpen", "insert"} \subseteq Statements
  /\ {"closeOwn", "closeSlot", "closeUnlabelled", "relabel", "syncDuty"} \subseteq Statements
  /\ {"mirror", "setDuty", "setCurrent", "correct", "correctEnd"} \subseteq Statements
BY DEF Statements, UpdateStatements, TeacherStatements

LEMMA EndsHeads ==
  ASSUME NEW s \in Ends
  PROVE  s = << >> \/ (s # << >> /\ Head(s) \in {"setCurrent", "setDuty"} /\ Tail(s) = << >>)
BY Names, Single DEF Ends

\* How the lists of a set begin, and what they leave.
LEMMA Heads ==
  ASSUME NEW s
  PROVE  /\ s \in Duty => Starts(s, "setDuty") /\ Tail(s) \in Ends
         /\ s \in Mirror => Starts(s, "mirror") /\ Tail(s) \in Ends
         /\ s \in Inserting => Starts(s, "insert") /\ Tail(s) \in Mirror
         /\ s \in InsertSlot \ Inserting => Starts(s, "closeUnlabelled") /\ Tail(s) \in Inserting
         /\ s \in Moving => Starts(s, "closeSlot") /\ Tail(s) \in InsertSlot
         /\ s \in Leaving => Starts(s, "closeOwn") /\ Tail(s) \in Moving \union {<<"setCurrent">>}
         /\ s \in Relabelling => Starts(s, "relabel") /\ Tail(s) \in Duty
         /\ s \in RelabelSlot \ Relabelling => Starts(s, "closeUnlabelled") /\ Tail(s) \in Relabelling
         /\ s \in Staying => Starts(s, "closeSlot") /\ Tail(s) \in RelabelSlot
         /\ s \in Syncing => Starts(s, "syncDuty") /\ Tail(s) = <<"setDuty">>
         /\ s \in Opening => Starts(s, "readOpen") /\ Tail(s) \in Ends
         /\ s \in Reading => Starts(s, "readTeacher") /\ Tail(s) \in Opening
         /\ s \in Asking => Starts(s, "readPrior") /\ Tail(s) = << >>
         /\ s \in Correcting => StartsWith(s, {"correct", "correctEnd"}) /\ Tail(s) = << >>
<1>1. \A a \in Statements, S \in SUBSET Seq(Statements) :
        \A r \in After(a, S) : Starts(r, a) /\ Tail(r) \in S
  BY AfterFacts, Zenon DEF Starts
<1>2. {<<"setDuty">>} \subseteq Seq(Statements) /\ Moving \union {<<"setCurrent">>} \subseteq Seq(Statements)
  BY Names, Single, ShapesAreLists
<1>3. (s \in Duty => Starts(s, "setDuty") /\ Tail(s) \in Ends)
      /\ (s \in Mirror => Starts(s, "mirror") /\ Tail(s) \in Ends)
  BY Names, <1>1, ShapesAreLists DEF Duty, Mirror
<1>4. (s \in Inserting => Starts(s, "insert") /\ Tail(s) \in Mirror)
      /\ (s \in InsertSlot \ Inserting => Starts(s, "closeUnlabelled") /\ Tail(s) \in Inserting)
  BY Names, <1>1, ShapesAreLists DEF Inserting, InsertSlot
<1>5. (s \in Moving => Starts(s, "closeSlot") /\ Tail(s) \in InsertSlot)
      /\ (s \in Leaving => Starts(s, "closeOwn") /\ Tail(s) \in Moving \union {<<"setCurrent">>})
  BY Names, <1>1, <1>2, ShapesAreLists DEF Moving, Leaving
<1>6. (s \in Relabelling => Starts(s, "relabel") /\ Tail(s) \in Duty)
      /\ (s \in RelabelSlot \ Relabelling => Starts(s, "closeUnlabelled") /\ Tail(s) \in Relabelling)
  BY Names, <1>1, ShapesAreLists DEF Relabelling, RelabelSlot
<1>7. (s \in Staying => Starts(s, "closeSlot") /\ Tail(s) \in RelabelSlot)
  BY Names, <1>1, ShapesAreLists DEF Staying
<1>8. (s \in Syncing => Starts(s, "syncDuty") /\ Tail(s) = <<"setDuty">>)
  <2>. DEFINE S == {<<"setDuty">>}
  <2>1. S \in SUBSET Seq(Statements) /\ Syncing = After("syncDuty", S)
    BY <1>2 DEF Syncing
  <2>. HIDE DEF S
  <2>2. s \in Syncing => Starts(s, "syncDuty") /\ Tail(s) \in S
    BY Names, <1>1, <2>1
  <2>. QED BY <2>2 DEF S
<1>9. (s \in Opening => Starts(s, "readOpen") /\ Tail(s) \in Ends)
      /\ (s \in Reading => Starts(s, "readTeacher") /\ Tail(s) \in Opening)
  BY Names, <1>1, ShapesAreLists DEF Opening, Reading
<1>10. (s \in Asking => Starts(s, "readPrior") /\ Tail(s) = << >>)
      /\ (s \in Correcting => StartsWith(s, {"correct", "correctEnd"}) /\ Tail(s) = << >>)
  BY Names, Single DEF Asking, Correcting, Starts, StartsWith
<1>. QED BY <1>3, <1>4, <1>5, <1>6, <1>7, <1>8, <1>9, <1>10

\* Which list it is, by its first statement.
LEMMA ByHead ==
  ASSUME NEW s \in Shapes
  PROVE  /\ Starts(s, "readPrior") => s \in Asking
         /\ Starts(s, "readTeacher") => s \in Reading
         /\ Starts(s, "readOpen") => s \in Opening
         /\ Starts(s, "closeOwn") => s \in Leaving
         /\ Starts(s, "closeSlot") => s \in Moving \union Staying
         /\ Starts(s, "closeUnlabelled") => s \in (InsertSlot \ Inserting) \union (RelabelSlot \ Relabelling)
         /\ Starts(s, "insert") => s \in Inserting
         /\ Starts(s, "relabel") => s \in Relabelling
         /\ Starts(s, "syncDuty") => s \in Syncing
         /\ StartsWith(s, {"correct", "correctEnd"}) => s \in Correcting
         /\ Starts(s, "mirror") => s \in Mirror
         /\ Starts(s, "setDuty") => Tail(s) \in Ends
         /\ Starts(s, "setCurrent") => Tail(s) = << >>
         /\ Starts(s, "setCurrent") \/ s = << >> => s \in Ends
<1>1. s \in Ends => s = << >> \/ (StartsWith(s, {"setCurrent", "setDuty"}) /\ Tail(s) = << >>)
  BY EndsHeads DEF StartsWith
<1>2. << >> \in Ends
  BY DEF Ends
<1>. QED BY <1>1, <1>2, Heads DEF Shapes, Starts, StartsWith

LEMMA Pair ==
  ASSUME NEW a \in Statements, NEW b \in Statements
  PROVE  <<a, b>> \in Seq(Statements) /\ <<a, b>> = <<a>> \o <<b>>
<1>1. PICK x, y \in Seq(Statements) : x = <<a>> /\ y = <<b>>
  BY Single
<1>2. Len(x) = 1 /\ Len(y) = 1 /\ x[1] = a /\ y[1] = b
  BY <1>1
<1>3. x \o y \in Seq(Statements) /\ Len(x \o y) = 2 /\ (x \o y)[1] = a /\ (x \o y)[2] = b
  BY <1>2, ConcatProperties
<1>4. <<a, b>> \in Seq(Statements)
  OBVIOUS
<1>5. <<a, b>> = x \o y
  BY <1>3, <1>4, SeqEqual
<1>. QED BY <1>1, <1>4, <1>5

\* <<a, b>> and then s.
LEMMA Twice ==
  ASSUME NEW a \in Statements, NEW b \in Statements, NEW S, S \subseteq Seq(Statements), NEW s \in S
  PROVE  <<a, b>> \o s \in After(a, After(b, S))
<1>1. <<a, b>> \o s = <<a>> \o (<<b>> \o s)
  BY Pair, Single, ConcatAssociative
<1>. QED BY <1>1 DEF After

LEMMA SlotPlans ==
  ASSUME NEW d, NEW S, S \subseteq Seq(Statements), NEW s \in S
  PROVE  SlotPlan(d) \o s \in After("closeSlot", S \union After("closeUnlabelled", S))
<1>1. <<"closeSlot">> \o s \in After("closeSlot", S \union After("closeUnlabelled", S))
  BY DEF After
<1>2. <<"closeSlot", "closeUnlabelled">> \o s \in After("closeSlot", After("closeUnlabelled", S))
  BY Twice, Names
<1>3. After("closeSlot", After("closeUnlabelled", S))
        \subseteq After("closeSlot", S \union After("closeUnlabelled", S))
  BY DEF After
<1>. QED BY <1>1, <1>2, <1>3 DEF SlotPlan

\* What is done to the periods once the open one is read.
LEMMA AssignPlans ==
  ASSUME NEW t, NEW open, NEW c, NEW e \in Ends
  PROVE  /\ InPlace(t, open, c) =>
              IF \E o \in open : o.duty = c.duty THEN AssignPlan(t, open, c) \o e = e
                                                ELSE AssignPlan(t, open, c) \o e \in Staying
         /\ ~InPlace(t, open, c) =>
              IF t.current # NoDako THEN AssignPlan(t, open, c) \o e \in After("closeOwn", Moving)
                                    ELSE AssignPlan(t, open, c) \o e \in Moving
<1>0. e \in Seq(Statements) /\ << >> \in Seq(Statements)
  BY ShapesAreLists, EmptySeq
<1>1. SlotPlan(c.duty) \in Seq(Statements)
  BY Names, Single, Pair DEF SlotPlan
<1>2. <<"relabel", "setDuty">> \o e \in Relabelling /\ <<"insert", "mirror">> \o e \in Inserting
  BY Names, Twice, ShapesAreLists DEF Relabelling, Duty, Inserting, Mirror
<1>3. <<"relabel", "setDuty">> \in Seq(Statements) /\ <<"insert", "mirror">> \in Seq(Statements)
      /\ <<"closeOwn">> \in Seq(Statements)
  BY Names, Pair, Single
<1>4. CASE InPlace(t, open, c)
  <2>1. CASE \E o \in open : o.duty = c.duty
    BY <1>0, <1>4, <2>1, ConcatEmptySeq DEF AssignPlan
  <2>2. CASE ~\E o \in open : o.duty = c.duty
    <3>1. AssignPlan(t, open, c) \o e = SlotPlan(c.duty) \o (<<"relabel", "setDuty">> \o e)
      BY <1>0, <1>1, <1>3, <1>4, <2>2, ConcatAssociative DEF AssignPlan
    <3>2. SlotPlan(c.duty) \o (<<"relabel", "setDuty">> \o e) \in Staying
      BY <1>2, SlotPlans, ShapesAreLists, Zenon DEF Staying, RelabelSlot
    <3>. QED BY <1>4, <2>2, <3>1, <3>2
  <2>. QED BY <2>1, <2>2
<1>5. CASE ~InPlace(t, open, c)
  <2>. DEFINE R == SlotPlan(c.duty) \o <<"insert", "mirror">>
              U == SlotPlan(c.duty) \o (<<"insert", "mirror">> \o e)
  <2>1. R \in Seq(Statements) /\ R \o e = U
    BY <1>0, <1>1, <1>3, ConcatAssociative, ConcatProperties
  <2>2. U \in Moving
    BY <1>2, SlotPlans, ShapesAreLists, Zenon DEF Moving, InsertSlot
  <2>3. AssignPlan(t, open, c) = (IF t.current # NoDako THEN <<"closeOwn">> ELSE << >>) \o R
    <3>. DEFINE H == IF t.current # NoDako THEN <<"closeOwn">> ELSE << >>
    <3>1. H \in Seq(Statements)
      BY <1>0, <1>3
    <3>2. AssignPlan(t, open, c) = (H \o SlotPlan(c.duty)) \o <<"insert", "mirror">>
      BY <1>5 DEF AssignPlan
    <3>. QED BY <1>1, <1>3, <3>1, <3>2, ConcatAssociative
  <2>. HIDE DEF R, U
  <2>4. CASE t.current # NoDako
    <3>1. AssignPlan(t, open, c) \o e = <<"closeOwn">> \o U
      <4>1. AssignPlan(t, open, c) = <<"closeOwn">> \o R
        BY <2>3, <2>4
      <4>. PICK o \in Seq(Statements) : o = <<"closeOwn">>
        BY <1>3
      <4>2. (o \o R) \o e = o \o (R \o e)
        <5>1. R \in Seq(Statements) /\ e \in Seq(Statements)
          BY <1>0, <2>1
        <5>2. ASSUME NEW x \in Seq(Statements), NEW y \in Seq(Statements), NEW z \in Seq(Statements)
              PROVE  (x \o y) \o z = x \o (y \o z)
          BY ConcatAssociative
        <5>. QED BY <5>1, <5>2
      <4>. QED BY <2>1, <4>1, <4>2
    <3>. QED BY <1>5, <2>2, <2>4, <3>1 DEF After
  <2>5. CASE ~(t.current # NoDako)
    <3>1. AssignPlan(t, open, c) \o e = U
      BY <2>1, <2>3, <2>5, ConcatEmptySeq
    <3>. QED BY <1>5, <2>2, <2>5, <3>1
  <2>. QED BY <2>4, <2>5
<1>. QED BY <1>4, <1>5

LEMMA EditPlans ==
  ASSUME NEW r, NEW c
  PROVE  IF c.dako \notin {NoDako, r.current} THEN EditPlan(r, c) \in Reading
         ELSE IF c.duty \notin {"NONE", r.duty} THEN EditPlan(r, c) \in Syncing
         ELSE EditPlan(r, c) = IF c.duty = "NONE" THEN << >> ELSE <<"setDuty">>
<1>. DEFINE e == IF c.duty = "NONE" THEN << >> ELSE <<"setDuty">>
<1>1. e \in Ends /\ e \in Seq(Statements) /\ << >> \in Seq(Statements)
  BY ShapesAreLists, EmptySeq DEF Ends
<1>2. <<"readTeacher", "readOpen">> \o e \in Reading
  BY <1>1, Names, Twice, ShapesAreLists DEF Reading, Opening
<1>3. c.duty # "NONE" => <<"syncDuty">> \o e \in Syncing
  BY DEF Syncing, After
<1>4. << >> \o e = e
  BY <1>1, ConcatEmptySeq
<1>. QED BY <1>2, <1>3, <1>4 DEF EditPlan

\* A list that ends with a new period is not one that relabels a period.
LEMMA TailsDiffer ==
  /\ InsertSlot \intersect RelabelSlot = {}
  /\ Moving \intersect Staying = {}
<1>1. ASSUME NEW s \in InsertSlot, s \in RelabelSlot PROVE FALSE
  BY <1>1, Heads DEF Starts
<1>2. ASSUME NEW s \in Moving, s \in Staying PROVE FALSE
  BY <1>1, <1>2, Heads
<1>. QED BY <1>1, <1>2

\* The list of a posting that begins by closing the teacher's own period.
LEMMA LeavingFacts ==
  ASSUME NEW s \in After("closeOwn", Moving)
  PROVE  s \in Leaving /\ Starts(s, "closeOwn") /\ Tail(s) \in Moving
<1>1. s \in Leaving
  BY DEF Leaving, After
<1>2. Starts(s, "closeOwn") /\ Tail(s) \in Moving
  BY Names, ShapesAreLists, AfterFacts DEF Starts
<1>. QED BY <1>1, <1>2

\* A list keeps what it needs as its statements are executed one by one.
LEMMA PlanTail ==
  ASSUME NEW c, NEW s \in Shapes, NEW k, PlanOf(c, s, k), s # << >>,
         ~StartsWith(s, {"readPrior", "readOpen"})
  PROVE  Tail(s) \in Shapes /\ PlanOf(c, Tail(s), {})
<1>1. \A r : Starts(s, r) <=> Head(s) = r
  BY DEF Starts
<1>2. Head(s) \in {"readTeacher", "closeOwn", "closeSlot", "closeUnlabelled", "insert", "relabel",
                   "syncDuty", "correct", "correctEnd", "mirror", "setDuty", "setCurrent"}
  BY EndsHeads, Heads DEF Shapes, Starts, StartsWith
<1>3. CASE Head(s) \in {"setDuty", "setCurrent", "mirror", "correct", "correctEnd"}
  <2>1. Tail(s) \in Ends
    <3>1. << >> \in Ends
      BY DEF Ends
    <3>. QED BY <1>1, <1>3, <3>1, ByHead, Heads DEF StartsWith
  <2>. QED BY <2>1, EndsHeads, Heads, LeavingFacts DEF Shapes, PlanOf, Posting, Starts, StartsWith
<1>4. CASE Head(s) \in {"readTeacher", "syncDuty"}
  <2>1. (s \in Reading /\ Tail(s) \in Opening) \/ Tail(s) = <<"setDuty">>
    BY <1>1, <1>4, ByHead, Heads
  <2>2. CASE s \in Reading /\ Tail(s) \in Opening
    BY <2>2, EndsHeads, Heads, LeavingFacts DEF Shapes, PlanOf, Posting, Starts, StartsWith
  <2>3. CASE Tail(s) = <<"setDuty">>
    <3>1. Tail(s) \in Ends
      BY <2>3 DEF Ends
    <3>. QED BY <3>1, EndsHeads, Heads, LeavingFacts DEF Shapes, PlanOf, Posting, Starts, StartsWith
  <2>. QED BY <2>1, <2>2, <2>3
<1>5. CASE Head(s) = "closeOwn"
  <2>1. s \in Leaving
    BY <1>1, <1>5, ByHead
  <2>2. PICK r \in Moving \union {<<"setCurrent">>} : s = <<"closeOwn">> \o r
    BY <2>1 DEF Leaving, After
  <2>3. <<"setCurrent">> \in Ends
    BY DEF Ends
  <2>4. Tail(s) = r
    <3>. DEFINE S == {r}
    <3>1. r \in Seq(Statements)
      BY <2>2, <2>3, ShapesAreLists
    <3>2. s \in After("closeOwn", S)
      BY <2>2 DEF After
    <3>3. Tail(s) \in S
      <4>1. S \subseteq Seq(Statements)
        BY <3>1
      <4>. HIDE DEF S
      <4>. QED BY <3>2, <4>1, Names, AfterFacts
    <3>. QED BY <3>3
  <2>5. CASE r \in Moving
    <3>1. s \in Posting
      BY <2>2, <2>5 DEF Posting, After
    <3>2. c.dako \in Dakos /\ c.period = 0
      BY <2>1, <3>1 DEF PlanOf
    <3>. QED BY <2>4, <2>5, <3>2, Heads, LeavingFacts DEF Shapes, PlanOf, Starts, StartsWith
  <2>6. CASE r = <<"setCurrent">>
    <3>1. Tail(s) \in Ends
      BY <2>3, <2>4, <2>6
    <3>. QED BY <3>1, EndsHeads, Heads, LeavingFacts DEF Shapes, PlanOf, Posting, Starts, StartsWith
  <2>. QED BY <2>2, <2>5, <2>6
<1>6. CASE Head(s) \in {"closeSlot", "closeUnlabelled", "insert", "relabel"}
  <2>1. \/ s \in Moving /\ Tail(s) \in InsertSlot
        \/ s \in InsertSlot /\ Tail(s) \in InsertSlot \union Mirror
        \/ s \in Staying /\ Tail(s) \in RelabelSlot
        \/ s \in RelabelSlot /\ Tail(s) \in RelabelSlot \union Duty
    BY <1>1, <1>6, ByHead, Heads DEF InsertSlot, RelabelSlot
  <2>2. CASE s \in Moving \union InsertSlot /\ Tail(s) \in InsertSlot \union Mirror
    <3>1. c.dako \in Dakos /\ c.period = 0
      BY <2>2 DEF PlanOf, Posting
    <3>. QED BY <2>2, <3>1, Heads, LeavingFacts, TailsDiffer DEF Shapes, PlanOf, Starts, StartsWith
  <2>3. CASE s \in Staying \union RelabelSlot /\ Tail(s) \in RelabelSlot \union Duty
    <3>1. c.period # 0
      BY <2>3 DEF PlanOf
    <3>2. Tail(s) \notin InsertSlot \union Moving \union Leaving \union Reading \union Opening
      BY <2>3, Heads, TailsDiffer DEF Starts
    <3>3. Tail(s) \notin After("closeOwn", Moving)
      BY <2>3, Heads, LeavingFacts DEF Starts
    <3>. QED BY <2>3, <3>1, <3>2, <3>3 DEF Shapes, PlanOf, Posting
  <2>. QED BY <2>1, <2>2, <2>3
<1>. QED BY <1>2, <1>3, <1>4, <1>5, <1>6

-----------------------------------------------------------------------------
(* Tables, and what a request sees of them *)

LEMMA OverIs ==
  ASSUME NEW r, NEW v
  PROVE  /\ DOMAIN Over(r, v) = DOMAIN r \union DOMAIN v
         /\ \A i \in DOMAIN r : Over(r, v)[i] = r[i]
         /\ \A i \in DOMAIN v \ DOMAIN r : Over(r, v)[i] = v[i]
BY DEF Over

LEMMA TableFacts ==
  ASSUME NEW v \in Tables
  PROVE  DOMAIN v \subseteq Ids /\ \A i \in DOMAIN v : v[i] \in PeriodRows
BY DEF Tables

LEMMA OverTyped ==
  ASSUME NEW r \in Tables, NEW v \in Tables
  PROVE  Over(r, v) \in Tables
<1>1. Over(r, v) = [i \in DOMAIN r \union DOMAIN v |-> IF i \in DOMAIN r THEN r[i] ELSE v[i]]
  BY DEF Over
<1>2. DOMAIN r \union DOMAIN v \in SUBSET Ids
  BY TableFacts
<1>3. Over(r, v) \in [DOMAIN r \union DOMAIN v -> PeriodRows]
  BY <1>1, TableFacts
<1>. QED BY <1>2, <1>3 DEF Tables

LEMMA NoRows == << >> \in Tables /\ DOMAIN << >> = {}
<1>1. << >> \in [{} -> PeriodRows] /\ DOMAIN << >> = {}
  OBVIOUS
<1>. QED BY <1>1 DEF Tables

LEMMA OverNothing ==
  ASSUME NEW v \in Tables
  PROVE  Over(<< >>, v) = v
<1>1. v = [i \in DOMAIN v |-> v[i]]
  BY DEF Tables
<1>2. Over(<< >>, v) = [i \in DOMAIN v |-> v[i]]
  BY NoRows DEF Over
<1>. QED BY <1>1, <1>2

LEMMA ViewTyped ==
  ASSUME Typed, NEW p \in Requests
  PROVE  /\ PeriodsOf(p) \in Tables
         /\ DOMAIN PeriodsOf(p) = DOMAIN draft[p] \union DOMAIN periods
         /\ \A i \in DOMAIN draft[p] : PeriodsOf(p)[i] = draft[p][i]
         /\ \A i \in DOMAIN periods \ DOMAIN draft[p] : PeriodsOf(p)[i] = periods[i]
<1>1. draft[p] \in Tables /\ periods \in Tables
  BY DEF Typed
<1>. QED BY <1>1, OverTyped, OverIs, Zenon DEF PeriodsOf

LEMMA TeacherTyped ==
  ASSUME Typed, NEW p \in Requests, InFlight(p)
  PROVE  /\ TeacherOf(p) \in TeacherRows
         /\ teacherDraft[p] # {} => TeacherOf(p) \in teacherDraft[p]
         /\ teacherDraft[p] = {} => TeacherOf(p) = teachers[call[p].teacher]
<1>1. call[p] \in Calls
  BY DEF Typed, InFlight
<1>2. teachers[call[p].teacher] \in TeacherRows /\ teacherDraft[p] \subseteq TeacherRows
  BY <1>1 DEF Typed, Calls
<1>3. \E r \in teacherDraft[p] \union {teachers[call[p].teacher]} :
        teacherDraft[p] # {} => r \in teacherDraft[p]
  OBVIOUS
<1>4. /\ TeacherOf(p) \in teacherDraft[p] \union {teachers[call[p].teacher]}
      /\ teacherDraft[p] # {} => TeacherOf(p) \in teacherDraft[p]
  BY <1>3 DEF TeacherOf
<1>. QED BY <1>2, <1>4

LEMMA CallFacts ==
  ASSUME Typed, NEW p \in Requests, InFlight(p)
  PROVE  /\ call[p] \in Calls /\ call[p].teacher \in Teachers /\ call[p].duty \in DutyValues
         /\ call[p].dako \in Dakos \union {NoDako} /\ call[p].period \in Ids \union {0}
         /\ call[p].kind \in Kinds
BY DEF Typed, InFlight, Calls

\* A request with statements left, or rows it waits for, is in flight.
LEMMA Busy ==
  ASSUME PlanInv, NEW p \in Requests, todo[p] # << >> \/ candidates[p] # {}
  PROVE  /\ InFlight(p) /\ todo[p] # << >> /\ todo[p] \in Shapes
         /\ PlanOf(call[p], todo[p], candidates[p])
<1>1. InFlight(p)
  BY DEF PlanInv, Clean
<1>2. PlanOf(call[p], todo[p], candidates[p])
  BY <1>1 DEF PlanInv
<1>. QED BY <1>1, <1>2 DEF PlanInv, Typed, PlanOf, StartsWith

Untouched(q) ==
  /\ draft'[q] = draft[q] /\ teacherDraft'[q] = teacherDraft[q] /\ call'[q] = call[q]
  /\ seen'[q] = seen[q] /\ todo'[q] = todo[q] /\ candidates'[q] = candidates[q]

\* A step of p: the other requests are as they were.
LEMMA PlanStep ==
  ASSUME PlanInv, NEW p \in Requests, Typed',
         \A q \in Others(p) : Untouched(q),
         DOMAIN periods \subseteq DOMAIN periods',
         Clean(p)',
         InFlight(p)' => PlanOf(call[p], todo[p], candidates[p])',
         candidates'[p] \subseteq DOMAIN PeriodsOf(p)'
  PROVE  PlanInv'
<1>1. ASSUME NEW q \in Requests
      PROVE  /\ Clean(q)'
             /\ InFlight(q)' => PlanOf(call'[q], todo'[q], candidates'[q])
             /\ candidates'[q] \subseteq DOMAIN PeriodsOf(q)'
  <2>1. CASE q = p
    BY <2>1
  <2>2. CASE q # p
    <3>1. Untouched(q)
      BY <2>2 DEF Others
    <3>2. Clean(q) /\ (InFlight(q) => PlanOf(call[q], todo[q], candidates[q]))
      BY DEF PlanInv
    <3>3. InFlight(q)' <=> InFlight(q)
      BY <3>1 DEF Untouched, InFlight
    <3>4. Clean(q)'
      BY <3>1, <3>2, <3>3 DEF Clean, Untouched
    <3>5. InFlight(q)' => PlanOf(call'[q], todo'[q], candidates'[q])
      BY <3>1, <3>2, <3>3, Zenon DEF Untouched
    <3>6. DOMAIN PeriodsOf(q) = DOMAIN draft[q] \union DOMAIN periods
      BY ViewTyped DEF PlanInv
    <3>7. DOMAIN PeriodsOf(q)' = DOMAIN draft'[q] \union DOMAIN periods'
      BY OverIs, Zenon DEF PeriodsOf
    <3>8. candidates'[q] \subseteq DOMAIN PeriodsOf(q)'
      BY <3>1, <3>6, <3>7 DEF PlanInv, Untouched
    <3>. QED BY <3>4, <3>5, <3>8
  <2>. QED BY <2>1, <2>2
<1>. QED BY <1>1 DEF PlanInv

LEMMA RollbackPlan ==
  ASSUME PlanInv, NEW p \in Requests, Rollback(p)
  PROVE  PlanInv'
<1>1. /\ call' = [call EXCEPT ![p] = NoCall]
      /\ todo' = [todo EXCEPT ![p] = << >>]
      /\ draft' = [draft EXCEPT ![p] = << >>]
      /\ teacherDraft' = [teacherDraft EXCEPT ![p] = {}]
      /\ seen' = [seen EXCEPT ![p] = {}]
      /\ candidates' = [candidates EXCEPT ![p] = {}]
      /\ periods' = periods /\ teachers' = teachers
  BY DEF Rollback, End, dbVars
<1>2. << >> \in Shapes
  BY DEF Shapes, Ends
<1>3. Typed'
  BY <1>1, <1>2, NoRows DEF PlanInv, Typed
<1>4. \A q \in Others(p) : Untouched(q)
  BY <1>1 DEF Others, Untouched, PlanInv, Typed
<1>5. Clean(p)' /\ ~InFlight(p)' /\ candidates'[p] = {}
  BY <1>1 DEF Clean, InFlight, PlanInv, Typed
<1>. QED BY <1>1, <1>3, <1>4, <1>5, PlanStep

-----------------------------------------------------------------------------
(* The lists stay what they are: the statements that read *)

LEMMA IdsPositive == 0 \notin Ids
BY DEF Ids

LEMMA ReadPriorPlan ==
  ASSUME PlanInv, NEW p \in Requests, ReadPrior(p)
  PROVE  PlanInv'
<1>1. Starts(todo[p], "readPrior")
  BY DEF ReadPrior, At, Starts
<1>2. InFlight(p) /\ todo[p] \in Shapes /\ call[p] \in Calls /\ TeacherOf(p) \in TeacherRows
      /\ candidates[p] = {}
  <2>1. InFlight(p) /\ todo[p] \in Shapes /\ PlanOf(call[p], todo[p], candidates[p])
    BY <1>1, Busy DEF Starts
  <2>2. ~StartsWith(todo[p], UpdateStatements)
    BY <1>1 DEF Starts, StartsWith, UpdateStatements
  <2>. QED BY <2>1, <2>2, CallFacts, TeacherTyped DEF PlanInv, PlanOf
<1>3. todo[p] \in Asking
  BY <1>1, <1>2, ByHead
<1>. DEFINE u == IF call[p].duty = "NONE" THEN TeacherOf(p).duty ELSE call[p].duty
            c == [call[p] EXCEPT !.duty = u]
            s == EditPlan(TeacherOf(p), call[p])
<1>4. /\ call' = [call EXCEPT ![p] = c] /\ todo' = [todo EXCEPT ![p] = s]
      /\ UNCHANGED <<periods, teachers, draft, teacherDraft, seen, candidates>>
  BY DEF ReadPrior, dbVars, ownVars
<1>5. c \in Calls /\ c.dako = call[p].dako /\ c.period = call[p].period /\ c # NoCall
  <2>1. u \in DutyValues
    BY <1>2 DEF Calls, TeacherRows
  <2>2. c \in Calls
    BY <1>2, <2>1 DEF Calls
  <2>3. c.kind = call[p].kind /\ call[p].kind # "NONE"
    BY <1>2 DEF Calls, Kinds
  <2>. QED BY <1>2, <2>2, <2>3 DEF Calls, NoCall
<1>6. IF call[p].dako \notin {NoDako, TeacherOf(p).current} THEN s \in Reading
      ELSE s \in Syncing \union Ends
  BY EditPlans DEF Ends
<1>. HIDE DEF c, s
<1>7. s \in Shapes /\ PlanOf(c, s, {})
  <2>1. CASE s \in Reading
    <3>1. call[p].dako \in Dakos
      BY <1>2, <1>6, <2>1, Heads, EndsHeads DEF Starts, Calls
    <3>. QED BY <1>5, <2>1, <3>1, Heads, LeavingFacts DEF Shapes, PlanOf, Posting, Starts, StartsWith
  <2>2. CASE s \in Syncing \union Ends
    BY <2>2, EndsHeads, Heads, LeavingFacts DEF Shapes, PlanOf, Posting, Starts, StartsWith
  <2>. QED BY <1>6, <2>1, <2>2
<1>8. Typed'
  BY <1>4, <1>5, <1>7 DEF PlanInv, Typed
<1>9. \A q \in Others(p) : Untouched(q)
  BY <1>4 DEF Others, Untouched, PlanInv, Typed
<1>10. call'[p] = c /\ todo'[p] = s /\ candidates'[p] = {} /\ InFlight(p)'
  BY <1>2, <1>4, <1>5 DEF PlanInv, Typed, InFlight
<1>. QED BY <1>4, <1>7, <1>8, <1>9, <1>10, PlanStep DEF Clean

\* The next statement is done and the call stays what it is.
LEMMA AdvancePlan ==
  ASSUME PlanInv, NEW p \in Requests, todo[p] # << >>,
         ~StartsWith(todo[p], {"readPrior", "readOpen"}),
         call' = call, todo' = [todo EXCEPT ![p] = Tail(todo[p])],
         candidates'[p] = {}, Typed',
         \A q \in Others(p) : Untouched(q),
         DOMAIN periods \subseteq DOMAIN periods'
  PROVE  PlanInv'
<1>1. InFlight(p) /\ todo[p] \in Shapes /\ PlanOf(call[p], todo[p], candidates[p])
  BY Busy
<1>2. PlanOf(call[p], Tail(todo[p]), {})
  BY <1>1, PlanTail
<1>3. todo'[p] = Tail(todo[p]) /\ call'[p] = call[p] /\ InFlight(p)'
  BY <1>1 DEF PlanInv, Typed, InFlight
<1>4. PlanOf(call'[p], todo'[p], candidates'[p])
  BY <1>2, <1>3, Zenon
<1>. QED BY <1>3, <1>4, PlanStep DEF Clean

LEMMA AdvanceTyped ==
  ASSUME PlanInv, NEW p \in Requests, todo[p] # << >>,
         ~StartsWith(todo[p], {"readPrior", "readOpen"})
  PROVE  [todo EXCEPT ![p] = Tail(todo[p])] \in [Requests -> Shapes]
<1>1. todo[p] \in Shapes /\ PlanOf(call[p], todo[p], candidates[p])
  BY Busy
<1>2. Tail(todo[p]) \in Shapes
  BY <1>1, PlanTail
<1>. QED BY <1>2 DEF PlanInv, Typed

LEMMA ReadTeacherPlan ==
  ASSUME PlanInv, NEW p \in Requests, ReadTeacher(p)
  PROVE  PlanInv'
<1>1. todo[p] # << >> /\ Head(todo[p]) = "readTeacher"
  BY DEF ReadTeacher, At
<1>2. InFlight(p) /\ TeacherOf(p) \in TeacherRows /\ candidates[p] = {}
  <2>1. InFlight(p) /\ PlanOf(call[p], todo[p], candidates[p])
    BY <1>1, Busy
  <2>. QED BY <1>1, <2>1, TeacherTyped DEF PlanInv, PlanOf, StartsWith, UpdateStatements
<1>3. ~StartsWith(todo[p], {"readPrior", "readOpen"})
  BY <1>1 DEF StartsWith
<1>4. /\ seen' = [seen EXCEPT ![p] = {TeacherOf(p)}]
      /\ todo' = [todo EXCEPT ![p] = Tail(todo[p])]
      /\ UNCHANGED <<periods, teachers, draft, teacherDraft, call, candidates>>
  BY DEF ReadTeacher, dbVars, ownVars
<1>5. Typed'
  BY <1>1, <1>2, <1>3, <1>4, AdvanceTyped DEF PlanInv, Typed
<1>6. \A q \in Others(p) : Untouched(q)
  BY <1>4 DEF Others, Untouched, PlanInv, Typed
<1>. QED BY <1>1, <1>2, <1>3, <1>4, <1>5, <1>6, AdvancePlan

LEMMA OpenOfMine ==
  ASSUME NEW p
  PROVE  OpenOf(p) = Mine(call[p], PeriodsOf(p))
BY DEF OpenOf, Mine

\* What ReadOpen leaves to do, and the period it names.
LEMMA ReadOpenIs ==
  ASSUME PlanInv, NEW p \in Requests, ReadOpen(p)
  PROVE  \E t \in seen[p], i \in Ids \union {0} :
           LET c == [call[p] EXCEPT !.period = i]
               open == {PeriodsOf(p)[j] : j \in Mine(call[p], PeriodsOf(p))}
               s == AssignPlan(t, open, call[p]) \o Tail(todo[p])
           IN /\ call' = [call EXCEPT ![p] = c] /\ todo' = [todo EXCEPT ![p] = s]
              /\ IF InPlace(t, open, call[p]) THEN i \in Mine(call[p], PeriodsOf(p)) ELSE i = 0
              /\ Tail(todo[p]) \in Ends /\ s \in Shapes /\ PlanOf(c, s, {})
<1>1. Starts(todo[p], "readOpen")
  BY DEF ReadOpen, At, Starts
<1>2. InFlight(p) /\ todo[p] \in Shapes /\ PlanOf(call[p], todo[p], candidates[p])
  BY <1>1, Busy DEF Starts
<1>3. todo[p] \in Opening /\ Tail(todo[p]) \in Ends
  BY <1>1, <1>2, ByHead, Heads
<1>4. call[p].dako \in Dakos
  BY <1>2, <1>3 DEF PlanOf, Posting
<1>. DEFINE M == Mine(call[p], PeriodsOf(p))
            open == {PeriodsOf(p)[j] : j \in M}
<1>5. PICK t \in seen[p] :
        /\ todo' = [todo EXCEPT ![p] = AssignPlan(t, open, call[p]) \o Tail(todo[p])]
        /\ call' = [call EXCEPT ![p].period =
                      IF InPlace(t, open, call[p]) THEN CHOOSE i \in M : TRUE ELSE 0]
  BY OpenOfMine DEF ReadOpen
<1>. DEFINE i == IF InPlace(t, open, call[p]) THEN CHOOSE x \in M : TRUE ELSE 0
            c == [call[p] EXCEPT !.period = i]
            s == AssignPlan(t, open, call[p]) \o Tail(todo[p])
<1>6. M \subseteq Ids /\ 0 \notin Ids
  <2>1. M \subseteq DOMAIN PeriodsOf(p)
    BY DEF Mine
  <2>. QED BY <2>1, ViewTyped, TableFacts, IdsPositive DEF PlanInv
<1>7. InPlace(t, open, call[p]) => M # {}
  BY DEF InPlace
<1>8. IF InPlace(t, open, call[p]) THEN i \in M ELSE i = 0
  BY <1>7
<1>9. i \in Ids \union {0} /\ call' = [call EXCEPT ![p] = c] /\ todo' = [todo EXCEPT ![p] = s]
  BY <1>5, <1>6, <1>8
<1>10. c.period = i /\ c.dako = call[p].dako
  BY <1>2, CallFacts DEF PlanInv, Calls
<1>11. s \in Shapes /\ PlanOf(c, s, {})
  <2>1. CASE InPlace(t, open, call[p])
    <3>1. i # 0
      BY <1>6, <1>8, <2>1
    <3>2. s \in Ends \/ s \in Staying
      <4>. HIDE DEF open, i, c
      <4>1. IF \E o \in open : o.duty = call[p].duty THEN s = Tail(todo[p]) ELSE s \in Staying
        BY <1>3, <2>1, AssignPlans
      <4>. QED BY <1>3, <4>1
    <3>. HIDE DEF s, c, i
    <3>. QED BY <1>10, <3>1, <3>2, EndsHeads, Heads, LeavingFacts, TailsDiffer
             DEF Shapes, PlanOf, Posting, Starts, StartsWith
  <2>2. CASE ~InPlace(t, open, call[p])
    <3>1. i = 0
      BY <2>2
    <3>2. s \in Moving \/ s \in After("closeOwn", Moving)
      BY <1>3, <2>2, AssignPlans
    <3>. HIDE DEF s, c, i
    <3>. QED BY <1>4, <1>10, <3>1, <3>2, Heads, LeavingFacts, TailsDiffer
             DEF Shapes, PlanOf, Posting, Starts, StartsWith
  <2>. QED BY <2>1, <2>2
<1>. QED BY <1>3, <1>8, <1>9, <1>11

LEMMA ReadOpenPlan ==
  ASSUME PlanInv, NEW p \in Requests, ReadOpen(p)
  PROVE  PlanInv'
<1>1. Starts(todo[p], "readOpen")
  BY DEF ReadOpen, At, Starts
<1>2. InFlight(p) /\ candidates[p] = {} /\ call[p] \in Calls
  <2>1. InFlight(p) /\ PlanOf(call[p], todo[p], candidates[p])
    BY <1>1, Busy DEF Starts
  <2>. QED BY <1>1, <2>1, CallFacts DEF PlanInv, PlanOf, Starts, StartsWith, UpdateStatements
<1>3. PICK i \in Ids \union {0}, s \in Shapes :
        /\ call' = [call EXCEPT ![p] = [call[p] EXCEPT !.period = i]]
        /\ todo' = [todo EXCEPT ![p] = s]
        /\ PlanOf([call[p] EXCEPT !.period = i], s, {})
  BY ReadOpenIs
<1>4. UNCHANGED <<periods, teachers, draft, teacherDraft, candidates>> /\ seen' = [seen EXCEPT ![p] = {}]
  BY DEF ReadOpen, dbVars, ownVars
<1>. DEFINE c == [call[p] EXCEPT !.period = i]
<1>5. c \in Calls /\ c # NoCall
  <2>1. c \in Calls
    BY <1>2 DEF Calls
  <2>2. c.kind \in Kinds
    BY <2>1 DEF Calls
  <2>. QED BY <2>1, <2>2 DEF NoCall, Kinds
<1>6. call' = [call EXCEPT ![p] = c] /\ PlanOf(c, s, {})
  BY <1>3
<1>. HIDE DEF c
<1>7. Typed'
  BY <1>3, <1>4, <1>5, <1>6 DEF PlanInv, Typed
<1>8. \A q \in Others(p) : Untouched(q)
  BY <1>3, <1>4 DEF Others, Untouched, PlanInv, Typed
<1>9. call'[p] = c /\ todo'[p] = s /\ candidates'[p] = {} /\ InFlight(p)'
  BY <1>2, <1>3, <1>4, <1>5, <1>6 DEF PlanInv, Typed, InFlight
<1>. QED BY <1>4, <1>6, <1>7, <1>8, <1>9, PlanStep DEF Clean

-----------------------------------------------------------------------------
(* The statements that write *)

\* The statement wrote rows.
Wrote(p, rows) ==
  /\ draft' = [draft EXCEPT ![p] = Over(rows, draft[p])]
  /\ todo' = [todo EXCEPT ![p] = Tail(todo[p])]
  /\ candidates' = [candidates EXCEPT ![p] = {}]
  /\ UNCHANGED <<dbVars, teacherDraft, call, seen, ghostVars>>

\* What an UPDATE writes that picked the rows S.
UpdatedRows(p, S) == [i \in S \intersect Matching(p) |-> Updated(p, PeriodsOf(p)[i])]

\* The rows an UPDATE may have picked.
Picked(p, S) ==
  /\ \/ candidates[p] = {} /\ S = Matching(p)
     \/ candidates[p] # {} /\ S = candidates[p]
  /\ ~RowsLocked(p, S)

NewRow(c) == [teacher |-> c.teacher, dako |-> c.dako, duty |-> c.duty, open |-> TRUE]

LEMMA UpdateIs ==
  ASSUME PlanInv, NEW p \in Requests, Update(p) \/ UpdateAfterWait(p)
  PROVE  /\ StartsWith(todo[p], UpdateStatements)
         /\ \E S : Picked(p, S) /\ (Rollback(p) \/ Wrote(p, UpdatedRows(p, S)))
<1>1. CASE Update(p)
  <2>1. StartsWith(todo[p], UpdateStatements)
    BY <1>1 DEF Update, AtOneOf, At, StartsWith
  <2>2. candidates[p] = {} /\ WriteMatching(p, Matching(p))
    BY <1>1 DEF Update
  <2>3. /\ ~RowsLocked(p, Matching(p))
        /\ Rollback(p) \/ Wrote(p, UpdatedRows(p, Matching(p)))
    BY <2>2, Zenon DEF WriteMatching, WritePeriods, Wrote, UpdatedRows
  <2>. QED BY <2>1, <2>2, <2>3 DEF Picked
<1>2. CASE UpdateAfterWait(p)
  <2>1. candidates[p] # {} /\ WriteMatching(p, candidates[p])
    BY <1>2 DEF UpdateAfterWait
  <2>2. StartsWith(todo[p], UpdateStatements)
    BY <2>1, Busy DEF PlanOf
  <2>3. /\ ~RowsLocked(p, candidates[p])
        /\ Rollback(p) \/ Wrote(p, UpdatedRows(p, candidates[p]))
    BY <2>1, Zenon DEF WriteMatching, WritePeriods, Wrote, UpdatedRows
  <2>. QED BY <2>1, <2>2, <2>3 DEF Picked
<1>. QED BY <1>1, <1>2

LEMMA InsertIs ==
  ASSUME PlanInv, NEW p \in Requests, Insert(p)
  PROVE  /\ Starts(todo[p], "insert")
         /\ \E new \in Ids :
              /\ new \notin DOMAIN periods
              /\ \A q \in Requests : new \notin DOMAIN draft[q]
              /\ Rollback(p) \/ Wrote(p, [i \in {new} |-> NewRow(call[p])])
<1>1. Starts(todo[p], "insert")
  BY DEF Insert, At, Starts
<1>2. PICK new \in Ids \ (DOMAIN periods \union UNION {DOMAIN draft[q] : q \in Requests}) :
        WritePeriods(p, [i \in {new} |-> NewRow(call[p])])
  BY Zenon DEF Insert, NewRow
<1>3. Rollback(p) \/ Wrote(p, [i \in {new} |-> NewRow(call[p])])
  BY <1>2, Zenon DEF WritePeriods, Wrote
<1>4. \A q \in Requests : new \notin DOMAIN draft[q]
  BY <1>2
<1>. QED BY <1>1, <1>2, <1>3, <1>4

LEMMA UpdatedTyped ==
  ASSUME PlanInv, NEW p \in Requests, InFlight(p), NEW S
  PROVE  /\ UpdatedRows(p, S) \in Tables
         /\ DOMAIN UpdatedRows(p, S) = S \intersect Matching(p)
         /\ Matching(p) \subseteq DOMAIN PeriodsOf(p)
<1>1. Matching(p) \subseteq DOMAIN PeriodsOf(p)
  BY DEF Matching
<1>2. ASSUME NEW i \in Matching(p) PROVE Updated(p, PeriodsOf(p)[i]) \in PeriodRows
  <2>1. PeriodsOf(p)[i] \in PeriodRows /\ call[p].duty \in DutyValues
    BY <1>1, ViewTyped, TableFacts, CallFacts DEF PlanInv
  <2>. QED BY <2>1 DEF Updated, PeriodRows
<1>3. S \intersect Matching(p) \in SUBSET Ids
  BY <1>1, ViewTyped, TableFacts DEF PlanInv
<1>4. UpdatedRows(p, S) \in [S \intersect Matching(p) -> PeriodRows]
  BY <1>2 DEF UpdatedRows
<1>. QED BY <1>1, <1>3, <1>4 DEF Tables

LEMMA InsertedTyped ==
  ASSUME PlanInv, NEW p \in Requests, Starts(todo[p], "insert"), NEW new \in Ids
  PROVE  [i \in {new} |-> NewRow(call[p])] \in Tables
<1>1. InFlight(p) /\ todo[p] \in Shapes /\ PlanOf(call[p], todo[p], candidates[p])
  BY Busy DEF Starts
<1>2. todo[p] \in InsertSlot
  BY <1>1, ByHead DEF InsertSlot
<1>3. NewRow(call[p]) \in PeriodRows
  BY <1>1, <1>2, CallFacts DEF PlanInv, PlanOf, Posting, NewRow, PeriodRows
<1>4. [i \in {new} |-> NewRow(call[p])] \in [{new} -> PeriodRows]
  BY <1>3
<1>. QED BY <1>4 DEF Tables

LEMMA OverOver ==
  ASSUME NEW a, NEW b, NEW c
  PROVE  Over(Over(a, b), c) = Over(a, Over(b, c))
BY DEF Over

LEMMA WroteView ==
  ASSUME PlanInv, NEW p \in Requests, NEW rows, Wrote(p, rows)
  PROVE  /\ PeriodsOf(p)' = Over(rows, PeriodsOf(p))
         /\ \A q \in Others(p) : PeriodsOf(q)' = PeriodsOf(q)
         /\ \A q \in Requests : TeacherOf(q)' = TeacherOf(q)
<1>1. draft'[p] = Over(rows, draft[p]) /\ \A q \in Others(p) : draft'[q] = draft[q]
  BY DEF Wrote, PlanInv, Typed, Others
<1>2. periods' = periods /\ teachers' = teachers /\ teacherDraft' = teacherDraft /\ call' = call
  BY DEF Wrote, dbVars
<1>3. PeriodsOf(p)' = Over(Over(rows, draft[p]), periods)
  BY <1>1, <1>2 DEF PeriodsOf
<1>4. PeriodsOf(p)' = Over(rows, PeriodsOf(p))
  BY <1>3, OverOver DEF PeriodsOf
<1>5. \A q \in Others(p) : PeriodsOf(q)' = PeriodsOf(q)
  BY <1>1, <1>2 DEF PeriodsOf
<1>6. \A q \in Requests : TeacherOf(q)' = TeacherOf(q)
  BY <1>2 DEF TeacherOf
<1>. QED BY <1>4, <1>5, <1>6

LEMMA WrotePlan ==
  ASSUME PlanInv, NEW p \in Requests, NEW rows \in Tables, Wrote(p, rows),
         todo[p] # << >>, ~StartsWith(todo[p], {"readPrior", "readOpen"})
  PROVE  PlanInv'
<1>1. /\ call' = call /\ todo' = [todo EXCEPT ![p] = Tail(todo[p])]
      /\ draft' = [draft EXCEPT ![p] = Over(rows, draft[p])]
      /\ candidates' = [candidates EXCEPT ![p] = {}]
      /\ UNCHANGED <<periods, teachers, teacherDraft, seen>>
  BY DEF Wrote, dbVars
<1>2. Over(rows, draft[p]) \in Tables
  BY OverTyped DEF PlanInv, Typed
<1>3. Typed'
  BY <1>1, <1>2, AdvanceTyped DEF PlanInv, Typed
<1>4. \A q \in Others(p) : Untouched(q)
  BY <1>1 DEF Others, Untouched, PlanInv, Typed
<1>5. candidates'[p] = {}
  BY <1>1 DEF PlanInv, Typed
<1>. QED BY <1>1, <1>3, <1>4, <1>5, AdvancePlan

LEMMA WaitPlan ==
  ASSUME PlanInv, NEW p \in Requests, WaitForRows(p)
  PROVE  PlanInv'
<1>1. StartsWith(todo[p], UpdateStatements)
  BY DEF WaitForRows, AtOneOf, At, StartsWith
<1>2. InFlight(p) /\ PlanOf(call[p], todo[p], candidates[p])
  BY <1>1, Busy DEF StartsWith
<1>3. /\ candidates' = [candidates EXCEPT ![p] = Matching(p)]
      /\ UNCHANGED <<periods, teachers, draft, teacherDraft, call, seen, todo>>
  BY DEF WaitForRows, dbVars, ownVars
<1>4. Matching(p) \subseteq DOMAIN PeriodsOf(p) /\ PeriodsOf(p)' = PeriodsOf(p)
  BY <1>3 DEF Matching, PeriodsOf
<1>5. Matching(p) \subseteq Ids
  BY <1>4, ViewTyped, TableFacts DEF PlanInv
<1>6. Typed'
  BY <1>3, <1>5 DEF PlanInv, Typed
<1>7. \A q \in Others(p) : Untouched(q)
  BY <1>3 DEF Others, Untouched, PlanInv, Typed
<1>8. candidates'[p] = Matching(p)
  BY <1>3 DEF PlanInv, Typed
<1>9. InFlight(p)' /\ PlanOf(call'[p], todo'[p], candidates'[p])
  BY <1>1, <1>2, <1>3 DEF InFlight, PlanOf
<1>. QED BY <1>3, <1>4, <1>6, <1>7, <1>8, <1>9, PlanStep DEF Clean

\* The row of the teacher that the statement writes.
NewTeacher(c, t, s) ==
  [current |-> IF Starts(s, "setDuty") THEN t.current ELSE c.dako,
   duty    |-> IF Starts(s, "setCurrent") THEN t.duty ELSE c.duty]

LEMMA UpdateTeacherIs ==
  ASSUME PlanInv, NEW p \in Requests, UpdateTeacher(p)
  PROVE  /\ StartsWith(todo[p], TeacherStatements)
         /\ teacherDraft' = [teacherDraft EXCEPT ![p] = {NewTeacher(call[p], TeacherOf(p), todo[p])}]
         /\ todo' = [todo EXCEPT ![p] = Tail(todo[p])]
         /\ UNCHANGED <<dbVars, draft, call, seen, candidates, ghostVars>>
<1>1. StartsWith(todo[p], TeacherStatements)
  BY DEF UpdateTeacher, AtOneOf, At, StartsWith
<1>2. /\ At(p, "setDuty") <=> Starts(todo[p], "setDuty")
      /\ At(p, "setCurrent") <=> Starts(todo[p], "setCurrent")
  BY DEF At, Starts
<1>. QED BY <1>1, <1>2 DEF UpdateTeacher, NewTeacher

LEMMA UpdateTeacherPlan ==
  ASSUME PlanInv, NEW p \in Requests, UpdateTeacher(p)
  PROVE  PlanInv'
<1>. DEFINE r == NewTeacher(call[p], TeacherOf(p), todo[p])
<1>1. StartsWith(todo[p], TeacherStatements)
  BY UpdateTeacherIs
<1>2. /\ teacherDraft' = [teacherDraft EXCEPT ![p] = {r}]
      /\ todo' = [todo EXCEPT ![p] = Tail(todo[p])]
      /\ UNCHANGED <<periods, teachers, draft, call, seen, candidates>>
  BY UpdateTeacherIs DEF dbVars
<1>3. InFlight(p) /\ PlanOf(call[p], todo[p], candidates[p])
  BY <1>1, Busy DEF StartsWith
<1>4. r \in TeacherRows
  BY <1>3, CallFacts, TeacherTyped DEF PlanInv, NewTeacher, TeacherRows
<1>5. todo[p] # << >> /\ ~StartsWith(todo[p], {"readPrior", "readOpen"}) /\ candidates[p] = {}
  BY <1>1, <1>3 DEF StartsWith, TeacherStatements, UpdateStatements, PlanOf
<1>. HIDE DEF r
<1>6. Typed'
  BY <1>2, <1>4, <1>5, AdvanceTyped DEF PlanInv, Typed
<1>7. \A q \in Others(p) : Untouched(q)
  BY <1>2 DEF Others, Untouched, PlanInv, Typed
<1>. QED BY <1>2, <1>5, <1>6, <1>7, AdvancePlan

-----------------------------------------------------------------------------
(* The commit *)

LEMMA CommitIs ==
  ASSUME PlanInv, NEW p \in Requests, Commit(p)
  PROVE  /\ InFlight(p) /\ todo[p] = << >>
         /\ periods' = PeriodsOf(p)
         /\ teachers' = [teachers EXCEPT ![call[p].teacher] = TeacherOf(p)]
         /\ call' = [call EXCEPT ![p] = NoCall]
         /\ todo' = [todo EXCEPT ![p] = << >>]
         /\ draft' = [draft EXCEPT ![p] = << >>]
         /\ teacherDraft' = [teacherDraft EXCEPT ![p] = {}]
         /\ seen' = [seen EXCEPT ![p] = {}]
         /\ candidates' = [candidates EXCEPT ![p] = {}]
         /\ UNCHANGED ghostVars
BY DEF Commit, End

LEMMA CommitPlan ==
  ASSUME PlanInv, NEW p \in Requests, Commit(p)
  PROVE  PlanInv'
<1>1. << >> \in Shapes
  BY DEF Shapes, Ends
<1>2. PeriodsOf(p) \in Tables /\ DOMAIN periods \subseteq DOMAIN PeriodsOf(p)
  BY ViewTyped DEF PlanInv
<1>3. TeacherOf(p) \in TeacherRows
  BY CommitIs, TeacherTyped DEF PlanInv
<1>4. Typed'
  BY <1>1, <1>2, <1>3, CommitIs, NoRows DEF PlanInv, Typed
<1>5. \A q \in Others(p) : Untouched(q)
  BY CommitIs DEF Others, Untouched, PlanInv, Typed
<1>6. Clean(p)' /\ ~InFlight(p)' /\ candidates'[p] = {}
  BY CommitIs DEF Clean, InFlight, PlanInv, Typed
<1>. QED BY <1>2, <1>4, <1>5, <1>6, CommitIs, PlanStep

-----------------------------------------------------------------------------
(* The calls begin *)

\* What a call is asked for, and its statements.
Begun(c, s) ==
  /\ c \in Calls /\ s \in Shapes /\ PlanOf(c, s, {})
  /\ \/ s \in Reading \union Asking \union Leaving /\ c.period = 0
     \/ /\ s \in Correcting /\ c.kind = "CORRECT"
        /\ c.period \in DOMAIN periods /\ c.teacher = periods[c.period].teacher

Begins(p) ==
  \/ \E t \in Teachers :
       \/ Clear(p, t)
       \/ \E d \in Dakos, u \in Duties : Assign(p, t, d, u)
       \/ \E d \in Dakos \union {NoDako}, u \in DutyValues :
            /\ d # NoDako \/ u # "NONE"
            /\ Edit(p, t, d, u)
  \/ \E i \in DOMAIN periods :
       \/ CorrectEnd(p, i)
       \/ \E u \in DutyValues : Correct(p, i, u)

LEMMA CallTyped ==
  ASSUME NEW k \in Kinds, NEW t \in Teachers, NEW d \in Dakos \union {NoDako},
         NEW u \in DutyValues, NEW i \in Ids \union {0}
  PROVE  /\ Call(k, t, d, u, i) \in Calls
         /\ Call(k, t, d, u, i).period = i /\ Call(k, t, d, u, i).dako = d
         /\ Call(k, t, d, u, i).teacher = t /\ Call(k, t, d, u, i).kind = k
BY DEF Call, Calls

LEMMA Triple ==
  ASSUME NEW a \in Statements, NEW b \in Statements, NEW c \in Statements
  PROVE  <<a, b, c>> = <<a, b>> \o <<c>>
<1>1. PICK x, y \in Seq(Statements) : x = <<a, b>> /\ y = <<c>>
  BY Single, Pair
<1>2. Len(x) = 2 /\ Len(y) = 1 /\ x[1] = a /\ x[2] = b /\ y[1] = c
  BY <1>1
<1>3. x \o y \in Seq(Statements) /\ Len(x \o y) = 3
      /\ (x \o y)[1] = a /\ (x \o y)[2] = b /\ (x \o y)[3] = c
  <2>1. x \o y \in Seq(Statements) /\ Len(x \o y) = Len(x) + Len(y)
        /\ \A i \in 1..(Len(x) + Len(y)) :
              (x \o y)[i] = IF i <= Len(x) THEN x[i] ELSE y[i - Len(x)]
    BY ConcatProperties
  <2>2. Len(x \o y) = 3 /\ \A i \in 1..3 : (x \o y)[i] = IF i <= 2 THEN x[i] ELSE y[i - 2]
    BY <1>2, <2>1
  <2>3. (x \o y)[1] = x[1] /\ (x \o y)[2] = x[2] /\ (x \o y)[3] = y[1]
    BY <2>2
  <2>. QED BY <1>2, <2>1, <2>2, <2>3
<1>4. <<a, b, c>> \in Seq(Statements)
  OBVIOUS
<1>5. <<a, b, c>> = x \o y
  <2>. DEFINE r == <<a, b, c>>
  <2>1. Len(r) = 3 /\ r[1] = a /\ r[2] = b /\ r[3] = c /\ r \in Seq(Statements)
    BY <1>4
  <2>. HIDE DEF r
  <2>2. \A i \in 1..Len(r) : r[i] = (x \o y)[i]
    BY <1>3, <2>1
  <2>3. Len(r) = Len(x \o y) /\ x \o y \in Seq(Statements)
    BY <1>3, <2>1
  <2>4. r = x \o y
    BY <2>1, <2>2, <2>3, SeqEqual, Zenon
  <2>. QED BY <2>4 DEF r
<1>. QED BY <1>1, <1>5

LEMMA BeginsIs ==
  ASSUME PlanInv, NEW p \in Requests, Begins(p)
  PROVE  \E c, s : Begun(c, s) /\ Start(p, c, s)
<1>0. "ASSIGN" \in Kinds /\ "CLEAR" \in Kinds /\ "EDIT" \in Kinds /\ "CORRECT" \in Kinds
  BY DEF Kinds
<1>1. <<"readTeacher", "readOpen", "setCurrent">> \in Reading
  <2>1. <<"readTeacher", "readOpen", "setCurrent">> = <<"readTeacher", "readOpen">> \o <<"setCurrent">>
    BY Triple, Names
  <2>2. <<"setCurrent">> \in Ends
    BY DEF Ends
  <2>. QED BY <2>1, <2>2, Twice, Names, ShapesAreLists DEF Reading, Opening
<1>2. <<"closeOwn", "setCurrent">> \in Leaving
  <2>1. <<"closeOwn", "setCurrent">> = <<"closeOwn">> \o <<"setCurrent">>
    BY Pair, Names
  <2>2. <<"setCurrent">> \in Moving \union {<<"setCurrent">>}
    OBVIOUS
  <2>. QED BY <2>1, <2>2, Zenon DEF Leaving, After
<1>3. \A t \in Teachers : Clear(p, t) => \E c, s : Begun(c, s) /\ Start(p, c, s)
  <2>. SUFFICES ASSUME NEW t \in Teachers, Clear(p, t) PROVE \E c, s : Begun(c, s) /\ Start(p, c, s)
    OBVIOUS
  <2>. DEFINE c == Call("CLEAR", t, NoDako, "NONE", 0)
              s == <<"closeOwn", "setCurrent">>
  <2>1. Start(p, c, s)
    BY DEF Clear
  <2>2. c \in Calls /\ c.period = 0 /\ s \in Leaving
    BY <1>0, <1>2, CallTyped DEF DutyValues
  <2>3. s \notin After("closeOwn", Moving)
    <3>. DEFINE S == {<<"setCurrent">>}
    <3>1. Tail(s) \in S
      <4>1. s \in After("closeOwn", S) /\ S \subseteq Seq(Statements)
        BY Pair, Single, Names DEF After
      <4>. HIDE DEF s, S
      <4>. QED BY <4>1, AfterFacts, Names
    <3>2. <<"setCurrent">> \in Ends
      BY DEF Ends
    <3>. QED BY <3>1, <3>2, EndsHeads, LeavingFacts, Heads DEF Starts
  <2>. HIDE DEF c, s
  <2>4. PlanOf(c, s, {})
    BY <2>2, <2>3, Heads DEF PlanOf, Posting, Starts, StartsWith
  <2>. QED BY <2>1, <2>2, <2>4 DEF Begun, Shapes
<1>4. \A t \in Teachers, d \in Dakos, u \in Duties :
        Assign(p, t, d, u) => \E c, s : Begun(c, s) /\ Start(p, c, s)
  <2>. SUFFICES ASSUME NEW t \in Teachers, NEW d \in Dakos, NEW u \in Duties, Assign(p, t, d, u)
                PROVE \E c, s : Begun(c, s) /\ Start(p, c, s)
    OBVIOUS
  <2>. DEFINE c == Call("ASSIGN", t, d, u, 0)
              s == <<"readTeacher", "readOpen", "setCurrent">>
  <2>1. Start(p, c, s)
    BY DEF Assign
  <2>2. c \in Calls /\ c.period = 0 /\ c.dako \in Dakos /\ s \in Reading
    BY <1>0, <1>1, CallTyped DEF DutyValues
  <2>. HIDE DEF c, s
  <2>4. PlanOf(c, s, {})
    BY <2>2, Heads DEF PlanOf, Posting, Starts, StartsWith
  <2>. QED BY <2>1, <2>2, <2>4 DEF Begun, Shapes
<1>5. \A t \in Teachers, d \in Dakos \union {NoDako}, u \in DutyValues :
        Edit(p, t, d, u) => \E c, s : Begun(c, s) /\ Start(p, c, s)
  <2>. SUFFICES ASSUME NEW t \in Teachers, NEW d \in Dakos \union {NoDako}, NEW u \in DutyValues,
                       Edit(p, t, d, u)
                PROVE \E c, s : Begun(c, s) /\ Start(p, c, s)
    OBVIOUS
  <2>. DEFINE c == Call("EDIT", t, d, u, 0)
              s == <<"readPrior">>
  <2>1. Start(p, c, s)
    BY DEF Edit
  <2>2. c \in Calls /\ c.period = 0 /\ s \in Asking
    BY <1>0, CallTyped DEF Asking
  <2>. HIDE DEF c, s
  <2>4. PlanOf(c, s, {})
    BY <2>2, Heads, LeavingFacts DEF PlanOf, Posting, Starts, StartsWith
  <2>. QED BY <2>1, <2>2, <2>4 DEF Begun, Shapes
<1>6. ASSUME NEW i \in DOMAIN periods, NEW u \in DutyValues, NEW s \in Correcting,
             Start(p, Call("CORRECT", periods[i].teacher, NoDako, u, i), s)
      PROVE  \E c, r : Begun(c, r) /\ Start(p, c, r)
  <2>. DEFINE c == Call("CORRECT", periods[i].teacher, NoDako, u, i)
  <2>1. i \in Ids /\ periods[i].teacher \in Teachers
    BY TableFacts DEF PlanInv, Typed, PeriodRows
  <2>2. c \in Calls /\ c.period = i /\ c.teacher = periods[i].teacher /\ c.kind = "CORRECT"
    <3>1. "CORRECT" \in Kinds /\ NoDako \in Dakos \union {NoDako} /\ i \in Ids \union {0}
      BY <1>0, <2>1
    <3>2. PICK t \in Teachers : t = periods[i].teacher
      BY <2>1
    <3>3. c = Call("CORRECT", t, NoDako, u, i)
      BY <3>2
    <3>4. Call("CORRECT", t, NoDako, u, i) =
            [kind |-> "CORRECT", teacher |-> t, dako |-> NoDako, duty |-> u, period |-> i]
      BY DEF Call
    <3>. HIDE DEF c
    <3>5. c.period = i /\ c.teacher = t /\ c.kind = "CORRECT" /\ c.dako = NoDako /\ c.duty = u
      BY <3>3, <3>4
    <3>6. c \in Calls
      BY <3>1, <3>3, <3>4 DEF Calls
    <3>. QED BY <3>2, <3>5, <3>6
  <2>3. Start(p, c, s)
    BY <1>6
  <2>. HIDE DEF c
  <2>4. PlanOf(c, s, {})
    BY <2>1, <2>2, IdsPositive, Heads, LeavingFacts DEF PlanOf, Posting, Starts, StartsWith
  <2>. QED BY <2>2, <2>3, <2>4 DEF Begun, Shapes
<1>7. \A i \in DOMAIN periods : CorrectEnd(p, i) => \E c, s : Begun(c, s) /\ Start(p, c, s)
  BY <1>6 DEF CorrectEnd, Correcting, DutyValues
<1>8. \A i \in DOMAIN periods, u \in DutyValues :
        Correct(p, i, u) => \E c, s : Begun(c, s) /\ Start(p, c, s)
  BY <1>6 DEF Correct, Correcting
<1>. QED BY <1>3, <1>4, <1>5, <1>7, <1>8 DEF Begins

LEMMA StartIs ==
  ASSUME PlanInv, NEW p \in Requests, NEW c, NEW s, Begun(c, s), Start(p, c, s)
  PROVE  /\ ~InFlight(p) /\ c # NoCall
         /\ call' = [call EXCEPT ![p] = c] /\ todo' = [todo EXCEPT ![p] = s]
         /\ disturbed' = disturbed \union
              {t \in {c.teacher} : \/ \E q \in Running : call[q].teacher = t
                                   \/ c.kind = "CORRECT" /\ periods[c.period].open}
         /\ UNCHANGED <<dbVars, ownVars, seen, candidates>>
<1>1. c.kind \in Kinds
  BY DEF Begun, Calls
<1>. QED BY <1>1 DEF Start, NoCall, Kinds

LEMMA BeginsPlan ==
  ASSUME PlanInv, NEW p \in Requests, NEW c, NEW s, Begun(c, s), Start(p, c, s)
  PROVE  PlanInv'
<1>1. c \in Calls /\ s \in Shapes /\ PlanOf(c, s, {}) /\ candidates[p] = {}
  BY StartIs DEF Begun, PlanInv, Clean
<1>2. UNCHANGED <<periods, teachers, draft, teacherDraft, seen, candidates>>
  BY StartIs DEF dbVars, ownVars
<1>3. Typed'
  BY <1>1, <1>2, StartIs DEF PlanInv, Typed
<1>4. \A q \in Others(p) : Untouched(q)
  BY <1>2, StartIs DEF Others, Untouched, PlanInv, Typed
<1>5. call'[p] = c /\ todo'[p] = s /\ candidates'[p] = {} /\ InFlight(p)'
  BY <1>1, <1>2, StartIs DEF PlanInv, Typed, InFlight
<1>. QED BY <1>1, <1>2, <1>3, <1>4, <1>5, PlanStep DEF Clean

LEMMA StutterPlan ==
  ASSUME PlanInv, UNCHANGED vars
  PROVE  PlanInv'
BY DEF PlanInv, Typed, Clean, InFlight, PlanOf, StartsWith, PeriodsOf, Over, vars, dbVars, ownVars, ghostVars

-----------------------------------------------------------------------------
(* The steps *)

\* What p does, as the lemmas above describe it.
LEMMA NextIs ==
  ASSUME Next
  PROVE  \E p \in Requests :
           \/ ReadPrior(p) \/ ReadTeacher(p) \/ ReadOpen(p)
           \/ Update(p) \/ UpdateAfterWait(p) \/ WaitForRows(p) \/ Insert(p) \/ UpdateTeacher(p)
           \/ Commit(p) \/ Rollback(p) \/ Begins(p)
<1>1. PICK p \in Requests : Step(p) \/ Fail(p) \/ Begins(p)
  BY DEF Next, Begins
<1>. QED BY <1>1 DEF Step, Fail

LEMMA NextPlan ==
  ASSUME PlanInv, Next
  PROVE  PlanInv'
<1>1. PICK p \in Requests :
        \/ ReadPrior(p) \/ ReadTeacher(p) \/ ReadOpen(p)
        \/ Update(p) \/ UpdateAfterWait(p) \/ WaitForRows(p) \/ Insert(p) \/ UpdateTeacher(p)
        \/ Commit(p) \/ Rollback(p) \/ Begins(p)
  BY NextIs
<1>2. CASE Update(p) \/ UpdateAfterWait(p)
  <2>1. PICK S : Rollback(p) \/ Wrote(p, UpdatedRows(p, S))
    BY <1>2, UpdateIs
  <2>2. StartsWith(todo[p], UpdateStatements)
    BY <1>2, UpdateIs
  <2>3. todo[p] # << >> /\ ~StartsWith(todo[p], {"readPrior", "readOpen"}) /\ InFlight(p)
    BY <2>2, Busy DEF StartsWith, UpdateStatements
  <2>4. UpdatedRows(p, S) \in Tables
    BY <2>3, UpdatedTyped
  <2>. QED BY <2>1, <2>3, <2>4, RollbackPlan, WrotePlan
<1>3. CASE Insert(p)
  <2>1. Starts(todo[p], "insert")
    BY <1>3, InsertIs
  <2>2. PICK new \in Ids : Rollback(p) \/ Wrote(p, [i \in {new} |-> NewRow(call[p])])
    BY <1>3, InsertIs
  <2>3. todo[p] # << >> /\ ~StartsWith(todo[p], {"readPrior", "readOpen"})
    BY <2>1 DEF Starts, StartsWith
  <2>. QED BY <2>1, <2>2, <2>3, InsertedTyped, RollbackPlan, WrotePlan
<1>4. CASE Begins(p)
  BY <1>4, BeginsIs, BeginsPlan
<1>. QED BY <1>1, <1>2, <1>3, <1>4, ReadPriorPlan, ReadTeacherPlan, ReadOpenPlan, WaitPlan,
            UpdateTeacherPlan, CommitPlan, RollbackPlan

-----------------------------------------------------------------------------
(* Whose rows are written *)

LEMMA NeverAsksAgain ==
  ASSUME NEW s \in Shapes, s # << >>
  PROVE  Tail(s) \notin Asking
<1>1. << >> \in Ends
  BY DEF Ends
<1>2. <<"setDuty">> \in Ends /\ <<"setCurrent">> \in Ends
  BY DEF Ends
<1>3. \/ Tail(s) \in Ends \union Duty \union Mirror \union InsertSlot \union Moving
      \/ Tail(s) \in RelabelSlot \union Staying \union Opening
  BY <1>1, <1>2, EndsHeads, Heads DEF Shapes, InsertSlot, RelabelSlot
<1>. QED BY <1>3, EndsHeads, Heads DEF Starts

\* The WHERE of each UPDATE.
LEMMA WhereIs ==
  ASSUME NEW p, NEW i
  PROVE  LET r == PeriodsOf(p)[i]
             c == call[p]
             s == todo[p]
         IN /\ StartsWith(s, {"closeOwn", "syncDuty"}) =>
                 (Where(p, i) <=> r.open /\ r.teacher = c.teacher)
            /\ Starts(s, "closeSlot") =>
                 (Where(p, i) <=> r.open /\ r.dako = c.dako /\ r.duty = c.duty /\ i # c.period)
            /\ Starts(s, "closeUnlabelled") =>
                 (Where(p, i) <=> r.open /\ r.dako = c.dako /\ r.duty = "NONE")
            /\ StartsWith(s, {"relabel", "correct", "correctEnd"}) => (Where(p, i) <=> i = c.period)
<1>1. AtOneOf(p, {"closeOwn", "syncDuty"}) <=> StartsWith(todo[p], {"closeOwn", "syncDuty"})
  BY DEF AtOneOf, At, StartsWith
<1>2. At(p, "closeSlot") <=> Starts(todo[p], "closeSlot")
  BY DEF At, Starts
<1>3. At(p, "closeUnlabelled") <=> Starts(todo[p], "closeUnlabelled")
  BY DEF At, Starts
<1>4. CASE StartsWith(todo[p], {"closeOwn", "syncDuty"})
  BY <1>1, <1>2, <1>3, <1>4 DEF Where, Starts, StartsWith
<1>5. CASE Starts(todo[p], "closeSlot")
  BY <1>1, <1>2, <1>3, <1>5 DEF Where, Starts, StartsWith, InSlot
<1>6. CASE Starts(todo[p], "closeUnlabelled")
  BY <1>1, <1>2, <1>3, <1>6 DEF Where, Starts, StartsWith
<1>7. CASE StartsWith(todo[p], {"relabel", "correct", "correctEnd"})
  BY <1>1, <1>2, <1>3, <1>7 DEF Where, Starts, StartsWith
<1>. QED BY <1>4, <1>5, <1>6, <1>7

\* The SET of each UPDATE.
LEMMA UpdatedIs ==
  ASSUME NEW p, NEW r \in PeriodRows, StartsWith(todo[p], UpdateStatements)
  PROVE  /\ Updated(p, r).teacher = r.teacher /\ Updated(p, r).dako = r.dako
         /\ StartsWith(todo[p], {"relabel", "syncDuty", "correct"}) =>
              Updated(p, r).duty = call[p].duty /\ Updated(p, r).open = r.open
         /\ StartsWith(todo[p], {"closeOwn", "closeSlot", "closeUnlabelled", "correctEnd"}) =>
              Updated(p, r).duty = r.duty /\ ~Updated(p, r).open
<1>1. AtOneOf(p, {"relabel", "syncDuty", "correct"})
        <=> StartsWith(todo[p], {"relabel", "syncDuty", "correct"})
  BY DEF AtOneOf, At, StartsWith
<1>2. CASE StartsWith(todo[p], {"relabel", "syncDuty", "correct"})
  BY <1>1, <1>2 DEF Updated, StartsWith, PeriodRows
<1>3. CASE ~StartsWith(todo[p], {"relabel", "syncDuty", "correct"})
  BY <1>1, <1>3 DEF Updated, StartsWith, PeriodRows
<1>. QED BY <1>2, <1>3

\* A step of p that leaves the committed periods: the rows of the others are as they were.
LEMMA RowStep ==
  ASSUME PlanInv, RowInv, NEW p \in Requests, periods' = periods,
         \A q \in Others(p) : Untouched(q),
         \A q \in Others(p) : DOMAIN draft'[p] \intersect DOMAIN draft[q] = {},
         InFlight(p)' => /\ DraftOf(call'[p], draft'[p], periods)
                         /\ PeriodOwn(call'[p], PeriodsOf(p)')
                         /\ todo'[p] \in Asking => draft'[p] = << >>
  PROVE  RowInv'
<1>1. ASSUME NEW q \in Requests, NEW r \in Requests, q # r
      PROVE  DOMAIN draft'[q] \intersect DOMAIN draft'[r] = {}
  <2>1. CASE q # p /\ r # p
    BY <1>1, <2>1 DEF RowInv, RowsApart, Untouched, Others
  <2>2. CASE q = p
    BY <1>1, <2>2 DEF Untouched, Others
  <2>3. CASE r = p
    BY <1>1, <2>3 DEF Untouched, Others
  <2>. QED BY <2>1, <2>2, <2>3
<1>2. RowsApart'
  BY <1>1 DEF RowsApart
<1>3. ASSUME NEW q \in Requests, InFlight(q)'
      PROVE  /\ DraftOf(call'[q], draft'[q], periods')
             /\ PeriodOwn(call'[q], PeriodsOf(q)')
             /\ todo'[q] \in Asking => draft'[q] = << >>
  <2>1. CASE q = p
    BY <1>3, <2>1
  <2>2. CASE q # p
    <3>1. Untouched(q)
      BY <2>2 DEF Others
    <3>2. InFlight(q) /\ PeriodsOf(q)' = PeriodsOf(q)
      BY <1>3, <3>1 DEF Untouched, InFlight, PeriodsOf
    <3>3. /\ DraftOf(call[q], draft[q], periods)
          /\ PeriodOwn(call[q], PeriodsOf(q))
          /\ todo[q] \in Asking => draft[q] = << >>
      BY <3>2 DEF RowInv
    <3>. QED BY <3>1, <3>2, <3>3, Zenon DEF Untouched
  <2>. QED BY <2>1, <2>2
<1>. QED BY <1>2, <1>3 DEF RowInv

\* Rows apart from those of the others, and written as they may be, are added.
LEMMA WroteRows ==
  ASSUME PlanInv, RowInv, NEW p \in Requests, NEW rows \in Tables, Wrote(p, rows),
         todo[p] # << >>,
         DraftOf(call[p], rows, periods),
         \A i \in DOMAIN rows \intersect DOMAIN PeriodsOf(p) :
           rows[i].teacher = PeriodsOf(p)[i].teacher,
         \A q \in Others(p) : DOMAIN rows \intersect DOMAIN draft[q] = {}
  PROVE  RowInv'
<1>1. InFlight(p) /\ todo[p] \in Shapes
  BY Busy
<1>2. /\ draft'[p] = Over(rows, draft[p]) /\ call' = call /\ periods' = periods
      /\ todo'[p] = Tail(todo[p])
  BY DEF Wrote, PlanInv, Typed, dbVars
<1>3. \A q \in Others(p) : Untouched(q)
  BY DEF Wrote, Others, Untouched, PlanInv, Typed
<1>. DEFINE d == Over(rows, draft[p])
<1>10. /\ DOMAIN d = DOMAIN rows \union DOMAIN draft[p]
       /\ \A i \in DOMAIN rows : d[i] = rows[i]
       /\ \A i \in DOMAIN draft[p] \ DOMAIN rows : d[i] = draft[p][i]
  BY DEF Over
<1>11. draft'[p] = d
  BY <1>2
<1>. HIDE DEF d
<1>4. DOMAIN draft'[p] = DOMAIN rows \union DOMAIN draft[p]
  BY <1>10, <1>11
<1>5. \A q \in Others(p) : DOMAIN draft'[p] \intersect DOMAIN draft[q] = {}
  BY <1>4 DEF RowInv, RowsApart, Others
<1>6. DraftOf(call[p], draft[p], periods) /\ PeriodOwn(call[p], PeriodsOf(p))
  BY <1>1 DEF RowInv
<1>7. DraftOf(call[p], d, periods)
  BY <1>10, <1>6 DEF DraftOf
<1>8. PeriodOwn(call[p], PeriodsOf(p)')
  <2>. DEFINE w == Over(rows, PeriodsOf(p))
  <2>1. /\ DOMAIN w = DOMAIN rows \union DOMAIN PeriodsOf(p)
        /\ \A i \in DOMAIN rows : w[i] = rows[i]
        /\ \A i \in DOMAIN PeriodsOf(p) \ DOMAIN rows : w[i] = PeriodsOf(p)[i]
    BY DEF Over
  <2>2. PeriodsOf(p)' = w
    BY WroteView
  <2>. HIDE DEF w
  <2>3. PeriodOwn(call[p], w)
    BY <1>6, <2>1 DEF PeriodOwn
  <2>. QED BY <2>2, <2>3, Zenon
<1>9. todo'[p] \notin Asking
  BY <1>1, <1>2, NeverAsksAgain
<1>. QED BY <1>2, <1>3, <1>11, <1>5, <1>7, <1>8, <1>9, RowStep

LEMMA UpdateRow ==
  ASSUME PlanInv, RowInv, NEW p \in Requests, Update(p) \/ UpdateAfterWait(p), ~Rollback(p)
  PROVE  RowInv'
<1>1. StartsWith(todo[p], UpdateStatements)
  BY UpdateIs
<1>2. PICK S : Picked(p, S) /\ Wrote(p, UpdatedRows(p, S))
  BY UpdateIs
<1>3. InFlight(p) /\ todo[p] # << >>
  BY <1>1, Busy DEF StartsWith
<1>. DEFINE rows == UpdatedRows(p, S)
<1>4. /\ rows \in Tables /\ DOMAIN rows = S \intersect Matching(p)
      /\ Matching(p) \subseteq DOMAIN PeriodsOf(p)
  BY <1>3, UpdatedTyped
<1>5. DraftOf(call[p], draft[p], periods) /\ PeriodOwn(call[p], PeriodsOf(p))
  BY <1>3 DEF RowInv
<1>6. ASSUME NEW i \in DOMAIN rows
      PROVE  /\ rows[i].teacher = PeriodsOf(p)[i].teacher
             /\ i \in DOMAIN periods => rows[i].teacher = periods[i].teacher
             /\ rows[i].teacher # call[p].teacher =>
                  /\ i \in DOMAIN periods
                  /\ ~rows[i].open
                  /\ periods[i].open => /\ periods[i].dako = call[p].dako
                                        /\ periods[i].duty \in {call[p].duty, "NONE"}
  <2>. DEFINE r == PeriodsOf(p)[i]
  <2>1. i \in DOMAIN PeriodsOf(p) /\ Where(p, i) /\ r \in PeriodRows /\ rows[i] = Updated(p, r)
    <3>1. i \in S \intersect Matching(p)
      BY <1>4
    <3>2. rows[i] = Updated(p, r)
      BY <3>1 DEF UpdatedRows
    <3>3. Where(p, i) /\ i \in DOMAIN PeriodsOf(p)
      BY <3>1 DEF Matching
    <3>. QED BY <3>2, <3>3, ViewTyped, TableFacts DEF PlanInv
  <2>2. rows[i].teacher = r.teacher
    BY <1>1, <2>1, UpdatedIs
  <2>3. IF i \in DOMAIN draft[p] THEN r = draft[p][i] ELSE i \in DOMAIN periods /\ r = periods[i]
    BY <2>1, ViewTyped DEF PlanInv
  <2>4. i \in DOMAIN periods => r.teacher = periods[i].teacher
    BY <1>5, <2>3 DEF DraftOf
  <2>5. ASSUME r.teacher # call[p].teacher
        PROVE  /\ i \in DOMAIN periods /\ ~rows[i].open
               /\ periods[i].dako = call[p].dako /\ periods[i].duty \in {call[p].duty, "NONE"}
    <3>1. ~StartsWith(todo[p], {"closeOwn", "syncDuty"})
      BY <2>1, <2>5, WhereIs
    <3>2. ~StartsWith(todo[p], {"relabel", "correct", "correctEnd"})
      <4>1. i # call[p].period
        <5>1. i # 0
          BY <2>1, ViewTyped, TableFacts, IdsPositive DEF PlanInv
        <5>. QED BY <1>5, <2>5, <5>1 DEF PeriodOwn
      <4>. QED BY <2>1, <4>1, WhereIs
    <3>3. Starts(todo[p], "closeSlot") \/ Starts(todo[p], "closeUnlabelled")
      BY <1>1, <3>1, <3>2 DEF Starts, StartsWith, UpdateStatements
    <3>4. r.open /\ r.dako = call[p].dako /\ r.duty \in {call[p].duty, "NONE"}
      BY <2>1, <3>3, WhereIs
    <3>5. i \in DOMAIN periods /\ r = periods[i]
      BY <1>5, <2>3, <2>5, <3>4 DEF DraftOf
    <3>6. ~rows[i].open
      BY <1>1, <2>1, <3>3, UpdatedIs DEF Starts, StartsWith
    <3>. QED BY <3>4, <3>5, <3>6
  <2>. QED BY <2>2, <2>4, <2>5
<1>7. \A q \in Others(p) : DOMAIN rows \intersect DOMAIN draft[q] = {}
  BY <1>2, <1>4 DEF Picked, RowsLocked
<1>. HIDE DEF rows
<1>8. DraftOf(call[p], rows, periods)
  BY <1>6 DEF DraftOf
<1>9. Wrote(p, rows)
  BY <1>2 DEF rows
<1>. QED BY <1>3, <1>4, <1>6, <1>7, <1>8, <1>9, WroteRows

LEMMA InsertRow ==
  ASSUME PlanInv, RowInv, NEW p \in Requests, Insert(p), ~Rollback(p)
  PROVE  RowInv'
<1>1. Starts(todo[p], "insert")
  BY InsertIs
<1>2. PICK new \in Ids :
        /\ new \notin DOMAIN periods
        /\ \A q \in Requests : new \notin DOMAIN draft[q]
        /\ Wrote(p, [i \in {new} |-> NewRow(call[p])])
  BY InsertIs
<1>. DEFINE rows == [i \in {new} |-> NewRow(call[p])]
<1>3. rows \in Tables /\ DOMAIN rows = {new} /\ rows[new] = NewRow(call[p])
  BY <1>1, InsertedTyped
<1>4. new \notin DOMAIN PeriodsOf(p)
  BY <1>2, ViewTyped DEF PlanInv
<1>5. Wrote(p, rows) /\ todo[p] # << >>
  BY <1>1, <1>2 DEF Starts
<1>. HIDE DEF rows
<1>6. DraftOf(call[p], rows, periods)
  BY <1>2, <1>3 DEF DraftOf, NewRow
<1>7. \A q \in Others(p) : DOMAIN rows \intersect DOMAIN draft[q] = {}
  BY <1>2, <1>3 DEF Others
<1>. QED BY <1>3, <1>4, <1>5, <1>6, <1>7, WroteRows

\* A step that writes no period and keeps the call.
LEMMA SameRows ==
  ASSUME PlanInv, RowInv, NEW p \in Requests,
         UNCHANGED <<periods, draft>>,
         \A q \in Others(p) : Untouched(q),
         InFlight(p), call'[p] = call[p],
         todo'[p] \in Asking => draft[p] = << >>
  PROVE  RowInv'
<1>1. PeriodsOf(p)' = PeriodsOf(p) /\ draft'[p] = draft[p]
  BY DEF PeriodsOf
<1>2. /\ DraftOf(call'[p], draft'[p], periods)
      /\ PeriodOwn(call'[p], PeriodsOf(p)')
  BY <1>1, Zenon DEF RowInv
<1>3. \A q \in Others(p) : DOMAIN draft'[p] \intersect DOMAIN draft[q] = {}
  BY <1>1 DEF RowInv, RowsApart, Others
<1>. QED BY <1>1, <1>2, <1>3, RowStep

LEMMA ReadPriorRow ==
  ASSUME PlanInv, RowInv, NEW p \in Requests, ReadPrior(p)
  PROVE  RowInv'
<1>1. Starts(todo[p], "readPrior")
  BY DEF ReadPrior, At, Starts
<1>2. InFlight(p) /\ todo[p] \in Asking /\ call[p] \in Calls
  BY <1>1, Busy, ByHead, CallFacts DEF Starts, PlanInv
<1>3. draft[p] = << >> /\ PeriodOwn(call[p], PeriodsOf(p))
  BY <1>2 DEF RowInv
<1>. DEFINE u == IF call[p].duty = "NONE" THEN TeacherOf(p).duty ELSE call[p].duty
            c == [call[p] EXCEPT !.duty = u]
<1>4. /\ call' = [call EXCEPT ![p] = c] /\ todo' = [todo EXCEPT ![p] = EditPlan(TeacherOf(p), call[p])]
      /\ UNCHANGED <<periods, draft, teacherDraft, seen, candidates>>
  BY DEF ReadPrior, dbVars, ownVars
<1>5. c.period = call[p].period /\ c.teacher = call[p].teacher
  BY <1>2 DEF Calls
<1>. HIDE DEF c
<1>6. \A q \in Others(p) : Untouched(q)
  BY <1>4 DEF Others, Untouched, PlanInv, Typed
<1>7. call'[p] = c /\ draft'[p] = << >> /\ PeriodsOf(p)' = PeriodsOf(p)
  BY <1>3, <1>4 DEF PlanInv, Typed, PeriodsOf
<1>8. DraftOf(c, << >>, periods) /\ PeriodOwn(c, PeriodsOf(p))
  BY <1>3, <1>5, NoRows DEF DraftOf, PeriodOwn
<1>9. \A q \in Others(p) : DOMAIN draft'[p] \intersect DOMAIN draft[q] = {}
  BY <1>7, NoRows
<1>10. /\ DraftOf(call'[p], draft'[p], periods)
       /\ PeriodOwn(call'[p], PeriodsOf(p)')
  BY <1>7, <1>8, Zenon
<1>. QED BY <1>4, <1>6, <1>7, <1>9, <1>10, RowStep

LEMMA ReadOpenRow ==
  ASSUME PlanInv, RowInv, NEW p \in Requests, ReadOpen(p)
  PROVE  RowInv'
<1>1. Starts(todo[p], "readOpen")
  BY DEF ReadOpen, At, Starts
<1>2. InFlight(p) /\ call[p] \in Calls
  BY <1>1, Busy, CallFacts DEF Starts, PlanInv
<1>3. PICK t \in seen[p], i \in Ids \union {0} :
        LET open == {PeriodsOf(p)[j] : j \in Mine(call[p], PeriodsOf(p))}
            s == AssignPlan(t, open, call[p]) \o Tail(todo[p])
        IN /\ call' = [call EXCEPT ![p] = [call[p] EXCEPT !.period = i]]
           /\ todo' = [todo EXCEPT ![p] = s]
           /\ IF InPlace(t, open, call[p]) THEN i \in Mine(call[p], PeriodsOf(p)) ELSE i = 0
           /\ PlanOf([call[p] EXCEPT !.period = i], s, {}) /\ s \in Shapes /\ Tail(todo[p]) \in Ends
  BY ReadOpenIs, Zenon
<1>. DEFINE c == [call[p] EXCEPT !.period = i]
            open == {PeriodsOf(p)[j] : j \in Mine(call[p], PeriodsOf(p))}
            s == AssignPlan(t, open, call[p]) \o Tail(todo[p])
<1>4. c.period = i /\ c.teacher = call[p].teacher /\ c.dako = call[p].dako /\ c.duty = call[p].duty
  BY <1>2 DEF Calls
<1>5. i = 0 \/ i \in Mine(call[p], PeriodsOf(p))
  BY <1>3
<1>6. call' = [call EXCEPT ![p] = c] /\ todo' = [todo EXCEPT ![p] = s]
  BY <1>3
<1>7. s \notin Asking
  <2>1. \/ s = Tail(todo[p]) \/ s \in Staying \/ s \in Moving \/ s \in After("closeOwn", Moving)
    <3>. HIDE DEF open
    <3>1. Tail(todo[p]) \in Ends
      BY <1>3
    <3>2. CASE InPlace(t, open, call[p])
      <4>1. IF \E o \in open : o.duty = call[p].duty THEN s = Tail(todo[p]) ELSE s \in Staying
        BY <3>1, <3>2, AssignPlans
      <4>. QED BY <4>1
    <3>3. CASE ~InPlace(t, open, call[p])
      <4>1. IF t.current # NoDako THEN s \in After("closeOwn", Moving) ELSE s \in Moving
        BY <3>1, <3>3, AssignPlans
      <4>. QED BY <4>1
    <3>. QED BY <3>2, <3>3
  <2>. HIDE DEF s
  <2>. QED BY <1>3, <2>1, EndsHeads, Heads, LeavingFacts DEF Starts
<1>. HIDE DEF c, s
<1>8. UNCHANGED <<periods, draft, teacherDraft, candidates>> /\ seen' = [seen EXCEPT ![p] = {}]
  BY DEF ReadOpen, dbVars, ownVars
<1>9. \A q \in Others(p) : Untouched(q)
  BY <1>6, <1>8 DEF Others, Untouched, PlanInv, Typed
<1>10. call'[p] = c /\ todo'[p] = s /\ draft'[p] = draft[p] /\ PeriodsOf(p)' = PeriodsOf(p)
  BY <1>6, <1>8 DEF PlanInv, Typed, PeriodsOf
<1>11. DraftOf(c, draft[p], periods) /\ PeriodOwn(c, PeriodsOf(p))
  BY <1>2, <1>4, <1>5 DEF RowInv, DraftOf, PeriodOwn, Mine
<1>12. \A q \in Others(p) : DOMAIN draft'[p] \intersect DOMAIN draft[q] = {}
  BY <1>10 DEF RowInv, RowsApart, Others
<1>13. DraftOf(call'[p], draft'[p], periods) /\ PeriodOwn(call'[p], PeriodsOf(p)')
  BY <1>10, <1>11, Zenon
<1>. QED BY <1>7, <1>8, <1>9, <1>10, <1>12, <1>13, RowStep

LEMMA RollbackRow ==
  ASSUME PlanInv, RowInv, NEW p \in Requests, Rollback(p)
  PROVE  RowInv'
<1>1. /\ call' = [call EXCEPT ![p] = NoCall] /\ draft' = [draft EXCEPT ![p] = << >>]
      /\ periods' = periods
  BY DEF Rollback, End, dbVars
<1>2. \A q \in Others(p) : Untouched(q)
  BY DEF Rollback, End, Others, Untouched, PlanInv, Typed
<1>3. ~InFlight(p)' /\ draft'[p] = << >>
  BY <1>1 DEF InFlight, PlanInv, Typed
<1>. QED BY <1>1, <1>2, <1>3, NoRows, RowStep

\* What the commit of p leaves of the view of q.
CommitSeen(p, q) ==
  /\ Untouched(q)
  /\ \A i \in DOMAIN draft[q] :
       /\ i \notin DOMAIN draft[p] /\ (i \in DOMAIN periods' <=> i \in DOMAIN periods)
       /\ i \in DOMAIN periods => periods'[i] = periods[i]
       /\ i \in DOMAIN PeriodsOf(q)' /\ PeriodsOf(q)'[i] = draft[q][i]
  /\ DOMAIN PeriodsOf(q)' = DOMAIN PeriodsOf(q) \union DOMAIN draft[p]
  /\ \A i \in DOMAIN draft[p] :
       /\ PeriodsOf(q)'[i] = draft[p][i]
       /\ i \in DOMAIN PeriodsOf(q) => i \in DOMAIN periods /\ PeriodsOf(q)[i] = periods[i]
  /\ \A i \in DOMAIN PeriodsOf(q) \ DOMAIN draft[p] : PeriodsOf(q)'[i] = PeriodsOf(q)[i]

LEMMA CommitView ==
  ASSUME PlanInv, RowInv, NEW p \in Requests, Commit(p), NEW q \in Others(p)
  PROVE  CommitSeen(p, q)
<1>1. Untouched(q)
  BY CommitIs DEF Others, Untouched, PlanInv, Typed
<1>2. q \in Requests /\ DOMAIN draft[q] \intersect DOMAIN draft[p] = {}
  BY DEF Others, RowInv, RowsApart
<1>3. /\ DOMAIN periods' = DOMAIN draft[p] \union DOMAIN periods
      /\ \A i \in DOMAIN draft[p] : periods'[i] = draft[p][i]
      /\ \A i \in DOMAIN periods \ DOMAIN draft[p] : periods'[i] = periods[i]
  <2>1. periods' = PeriodsOf(p)
    BY CommitIs
  <2>2. /\ DOMAIN PeriodsOf(p) = DOMAIN draft[p] \union DOMAIN periods
        /\ \A i \in DOMAIN draft[p] : PeriodsOf(p)[i] = draft[p][i]
        /\ \A i \in DOMAIN periods \ DOMAIN draft[p] : PeriodsOf(p)[i] = periods[i]
    BY ViewTyped DEF PlanInv
  <2>. QED BY <2>1, <2>2
<1>4. /\ DOMAIN PeriodsOf(q)' = DOMAIN draft[q] \union DOMAIN periods'
      /\ \A i \in DOMAIN draft[q] : PeriodsOf(q)'[i] = draft[q][i]
      /\ \A i \in DOMAIN periods' \ DOMAIN draft[q] : PeriodsOf(q)'[i] = periods'[i]
  <2>1. PeriodsOf(q)' = Over(draft[q], periods')
    BY <1>1 DEF Untouched, PeriodsOf
  <2>. QED BY <2>1 DEF Over
<1>5. /\ DOMAIN PeriodsOf(q) = DOMAIN draft[q] \union DOMAIN periods
      /\ \A i \in DOMAIN draft[q] : PeriodsOf(q)[i] = draft[q][i]
      /\ \A i \in DOMAIN periods \ DOMAIN draft[q] : PeriodsOf(q)[i] = periods[i]
  BY <1>2, ViewTyped DEF PlanInv
<1>. QED BY <1>1, <1>2, <1>3, <1>4, <1>5 DEF CommitSeen

LEMMA CommitRow ==
  ASSUME PlanInv, RowInv, NEW p \in Requests, Commit(p)
  PROVE  RowInv'
<1>1. draft'[p] = << >> /\ ~InFlight(p)'
  BY CommitIs DEF PlanInv, Typed, InFlight
<1>2. \A q \in Others(p) : Untouched(q)
  BY CommitView DEF CommitSeen
<1>3. RowsApart'
  BY <1>1, <1>2, NoRows DEF RowInv, RowsApart, Untouched, Others
<1>4. ASSUME NEW q \in Requests, InFlight(q)'
      PROVE  /\ DraftOf(call[q], draft[q], periods)'
             /\ PeriodOwn(call[q], PeriodsOf(q))'
             /\ (todo[q] \in Asking => draft[q] = << >>)'
  <2>1. q \in Others(p)
    BY <1>1, <1>4 DEF Others
  <2>2. Untouched(q) /\ InFlight(q)
    BY <1>2, <1>4, <2>1 DEF Untouched, InFlight
  <2>3. /\ DraftOf(call[q], draft[q], periods) /\ PeriodOwn(call[q], PeriodsOf(q))
        /\ todo[q] \in Asking => draft[q] = << >>
    BY <2>2 DEF RowInv
  <2>4. DraftOf(call[p], draft[p], periods)
    BY CommitIs DEF RowInv
  <2>8. CommitSeen(p, q)
    BY <2>1, CommitView
  <2>5. DraftOf(call[q], draft[q], periods')
    BY <2>3, <2>8 DEF DraftOf, CommitSeen
  <2>6. PeriodOwn(call[q], PeriodsOf(q)')
    <3>1. ASSUME NEW i \in DOMAIN PeriodsOf(q)
          PROVE  i \in DOMAIN PeriodsOf(q)' /\ PeriodsOf(q)'[i].teacher = PeriodsOf(q)[i].teacher
      <4>1. CASE i \notin DOMAIN draft[p]
        BY <2>8, <4>1 DEF CommitSeen
      <4>2. CASE i \in DOMAIN draft[p]
        <5>1. i \in DOMAIN periods /\ PeriodsOf(q)[i] = periods[i]
          BY <2>8, <4>2 DEF CommitSeen
        <5>2. PeriodsOf(q)'[i] = draft[p][i] /\ i \in DOMAIN PeriodsOf(q)'
          BY <2>8, <4>2 DEF CommitSeen
        <5>. QED BY <2>4, <4>2, <5>1, <5>2 DEF DraftOf
      <4>. QED BY <4>1, <4>2
    <3>. QED BY <2>3, <3>1 DEF PeriodOwn
  <2>7. call'[q] = call[q] /\ draft'[q] = draft[q] /\ todo'[q] = todo[q]
    BY <2>2 DEF Untouched
  <2>. QED BY <2>3, <2>5, <2>6, <2>7, Zenon
<1>. QED BY <1>3, <1>4 DEF RowInv

LEMMA BeginsRow ==
  ASSUME PlanInv, RowInv, NEW p \in Requests, NEW c, NEW s, Begun(c, s), Start(p, c, s)
  PROVE  RowInv'
<1>1. draft[p] = << >>
  BY StartIs DEF PlanInv, Clean
<1>2. UNCHANGED <<periods, draft, teacherDraft, seen, candidates>>
  BY StartIs DEF dbVars, ownVars
<1>3. \A q \in Others(p) : Untouched(q)
  BY <1>2, StartIs DEF Others, Untouched, PlanInv, Typed
<1>4. call'[p] = c /\ draft'[p] = << >>
  BY <1>1, <1>2, StartIs DEF PlanInv, Typed
<1>5. PeriodsOf(p)' = periods
  BY <1>2, <1>4, OverNothing DEF PeriodsOf, PlanInv, Typed
<1>6. DraftOf(c, << >>, periods) /\ PeriodOwn(c, periods)
  BY NoRows DEF Begun, DraftOf, PeriodOwn
<1>7. DraftOf(call'[p], draft'[p], periods) /\ PeriodOwn(call'[p], PeriodsOf(p)')
  BY <1>4, <1>5, <1>6, Zenon
<1>. QED BY <1>2, <1>3, <1>4, <1>7, NoRows, RowStep

LEMMA NextRow ==
  ASSUME PlanInv, RowInv, Next
  PROVE  RowInv'
<1>1. PICK p \in Requests :
        \/ ReadPrior(p) \/ ReadTeacher(p) \/ ReadOpen(p)
        \/ Update(p) \/ UpdateAfterWait(p) \/ WaitForRows(p) \/ Insert(p) \/ UpdateTeacher(p)
        \/ Commit(p) \/ Rollback(p) \/ Begins(p)
  BY NextIs
<1>2. CASE ReadTeacher(p)
  <2>1. Starts(todo[p], "readTeacher")
    BY <1>2 DEF ReadTeacher, At, Starts
  <2>2. InFlight(p) /\ todo[p] \in Shapes
    BY <2>1, Busy DEF Starts
  <2>3. /\ seen' = [seen EXCEPT ![p] = {TeacherOf(p)}]
        /\ todo' = [todo EXCEPT ![p] = Tail(todo[p])]
        /\ UNCHANGED <<periods, draft, teacherDraft, call, candidates>>
    BY <1>2 DEF ReadTeacher, dbVars, ownVars
  <2>4. \A q \in Others(p) : Untouched(q)
    BY <2>3 DEF Others, Untouched, PlanInv, Typed
  <2>5. todo'[p] \notin Asking
    BY <2>1, <2>2, <2>3, NeverAsksAgain DEF PlanInv, Typed, Starts
  <2>. QED BY <2>2, <2>3, <2>4, <2>5, SameRows
<1>3. CASE WaitForRows(p)
  <2>1. StartsWith(todo[p], UpdateStatements)
    BY <1>3 DEF WaitForRows, AtOneOf, At, StartsWith
  <2>2. InFlight(p)
    BY <2>1, Busy DEF StartsWith
  <2>3. /\ candidates' = [candidates EXCEPT ![p] = Matching(p)]
        /\ UNCHANGED <<periods, draft, teacherDraft, call, seen, todo>>
    BY <1>3 DEF WaitForRows, dbVars, ownVars
  <2>4. \A q \in Others(p) : Untouched(q)
    BY <2>3 DEF Others, Untouched, PlanInv, Typed
  <2>. QED BY <2>2, <2>3, <2>4, SameRows DEF RowInv
<1>4. CASE UpdateTeacher(p)
  <2>1. StartsWith(todo[p], TeacherStatements)
    BY <1>4, UpdateTeacherIs
  <2>2. InFlight(p) /\ todo[p] \in Shapes
    BY <2>1, Busy DEF StartsWith
  <2>3. /\ teacherDraft' = [teacherDraft EXCEPT ![p] = {NewTeacher(call[p], TeacherOf(p), todo[p])}]
        /\ todo' = [todo EXCEPT ![p] = Tail(todo[p])]
        /\ UNCHANGED <<periods, draft, call, seen, candidates>>
    BY <1>4, UpdateTeacherIs DEF dbVars
  <2>4. \A q \in Others(p) : Untouched(q)
    BY <2>3 DEF Others, Untouched, PlanInv, Typed
  <2>5. todo'[p] \notin Asking
    BY <2>1, <2>2, <2>3, NeverAsksAgain DEF PlanInv, Typed, StartsWith
  <2>. QED BY <2>2, <2>3, <2>4, <2>5, SameRows
<1>5. CASE Begins(p)
  BY <1>5, BeginsIs, BeginsRow
<1>. QED BY <1>1, <1>2, <1>3, <1>4, <1>5, ReadPriorRow, ReadOpenRow, UpdateRow, InsertRow,
            CommitRow, RollbackRow

-----------------------------------------------------------------------------
(* Phase, statement by statement *)

\* A teacher without an open period agrees with everything.
LEMMA PhaseNone ==
  ASSUME NEW c, NEW t, NEW w, NEW s, NEW r, Mine(c, w) = {}, ~Starts(s, "readOpen"),
         ~Starts(s, "relabel"), StartsWith(s, {"closeSlot", "closeUnlabelled"}) => c.period = 0
  PROVE  Phase(c, t, w, s, {}, r)
<1>1. \A d, u : MineAre(c, w, d, u)
  BY DEF MineAre
<1>. QED BY <1>1 DEF Phase

\* By the first statement there can be one condition only.
LEMMA PhaseUpdate ==
  ASSUME NEW c, NEW t, NEW v, NEW s \in Shapes, NEW k, NEW r, Phase(c, t, v, s, k, r),
         PlanOf(c, s, k), StartsWith(s, UpdateStatements),
         NEW w, NEW D, D \subseteq DOMAIN v, DOMAIN w = DOMAIN v,
         \A i \in DOMAIN v \ D : w[i] = v[i],
         \A i \in D :
           /\ w[i].teacher = v[i].teacher /\ w[i].dako = v[i].dako
           /\ StartsWith(s, {"relabel", "syncDuty", "correct"}) =>
                w[i].duty = c.duty /\ w[i].open = v[i].open
           /\ StartsWith(s, {"closeOwn", "closeSlot", "closeUnlabelled", "correctEnd"}) =>
                w[i].duty = v[i].duty /\ ~w[i].open,
         StartsWith(s, {"closeOwn", "syncDuty", "relabel"}) => Mine(c, v) \subseteq D,
         StartsWith(s, {"correct", "correctEnd"}) => D \subseteq {c.period}
  PROVE  Phase(c, t, w, Tail(s), {}, r)
<1>1. Mine(c, w) \subseteq Mine(c, v)
  BY DEF Mine, StartsWith, UpdateStatements
<1>2. \A i \in Mine(c, w) : w[i].dako = v[i].dako
  BY <1>1 DEF Mine
<1>3. \A i, j \in Mine(c, w) : i = j
  BY <1>1 DEF Phase
<1>4. \A x : Starts(s, x) <=> Head(s) = x
  BY DEF Starts, StartsWith
<1>5. CASE Head(s) = "closeOwn"
  <2>1. Mine(c, w) = {}
    BY <1>1, <1>4, <1>5 DEF Mine, Starts, StartsWith
  <2>2. Tail(s) \in Moving \/ Tail(s) = <<"setCurrent">>
    BY <1>4, <1>5, ByHead, Heads
  <2>3. c.period = 0
    BY <1>4, <1>5, ByHead DEF PlanOf
  <2>4. ~Starts(Tail(s), "readOpen") /\ ~Starts(Tail(s), "relabel")
    <3>1. <<"setCurrent">> # << >> => Head(<<"setCurrent">>) = "setCurrent"
      BY Single, Names
    <3>. QED BY <2>2, <3>1, Heads DEF Starts
  <2>. QED BY <2>1, <2>3, <2>4, PhaseNone
<1>6. CASE Head(s) \in {"closeSlot", "closeUnlabelled"}
  <2>1. \/ s \in Moving \union (InsertSlot \ Inserting) /\ Tail(s) \in InsertSlot /\ c.period = 0
        \/ s \in Staying \union (RelabelSlot \ Relabelling) /\ Tail(s) \in RelabelSlot /\ c.period # 0
    BY <1>4, <1>6, ByHead, Heads DEF PlanOf, InsertSlot, RelabelSlot
  <2>2. CASE Tail(s) \in InsertSlot /\ c.period = 0
    <3>1. Mine(c, w) = {}
      BY <1>1, <1>4, <1>6, <2>2 DEF Phase, StartsWith
    <3>2. ~Starts(Tail(s), "readOpen") /\ ~Starts(Tail(s), "relabel")
      BY <2>2, Heads DEF Starts, InsertSlot
    <3>. QED BY <2>2, <3>1, <3>2, PhaseNone
  <2>3. CASE Tail(s) \in RelabelSlot /\ c.period # 0
    <3>1. /\ Mine(c, w) \subseteq {c.period} /\ t.current = c.dako
          /\ \A i \in Mine(c, w) : w[i].dako = c.dako
      BY <1>1, <1>2, <1>4, <1>6, <2>3 DEF Phase, StartsWith
    <3>2. StartsWith(Tail(s), {"closeUnlabelled", "relabel"})
      BY <2>3, Heads DEF Starts, StartsWith
    <3>. QED BY <1>3, <2>3, <3>1, <3>2 DEF Phase, Starts, StartsWith
  <2>. QED BY <2>1, <2>2, <2>3
<1>7. CASE Head(s) = "relabel"
  <2>1. Tail(s) \in Duty
    BY <1>4, <1>7, ByHead, Heads
  <2>2. Starts(Tail(s), "setDuty")
    BY <2>1, Heads
  <2>3. MineAre(c, w, c.dako, c.duty) /\ t.current = c.dako
    <3>1. Mine(c, v) \subseteq D /\ StartsWith(s, {"relabel", "syncDuty", "correct"})
      BY <1>4, <1>7 DEF Starts, StartsWith
    <3>. QED BY <1>1, <1>2, <1>4, <1>7, <3>1 DEF Phase, MineAre
  <2>. QED BY <1>3, <2>2, <2>3 DEF Phase, Starts, StartsWith
<1>8. CASE Head(s) = "syncDuty"
  <2>1. Tail(s) = <<"setDuty">>
    BY <1>4, <1>8, ByHead, Heads
  <2>2. Starts(Tail(s), "setDuty") /\ Tail(Tail(s)) # <<"setCurrent">>
    BY <2>1, Single, Names DEF Starts
  <2>3. MineAre(c, w, t.current, c.duty)
    <3>1. Mine(c, v) \subseteq D /\ StartsWith(s, {"relabel", "syncDuty", "correct"})
      BY <1>4, <1>8 DEF Starts, StartsWith
    <3>. QED BY <1>1, <1>2, <1>4, <1>8, <3>1 DEF Phase, MineAre
  <2>. QED BY <1>3, <2>2, <2>3 DEF Phase, Starts, StartsWith
<1>9. CASE Head(s) \in {"correct", "correctEnd"}
  <2>1. StartsWith(s, {"correct", "correctEnd"})
    BY <1>4, <1>9 DEF Starts, StartsWith
  <2>2. Tail(s) = << >>
    BY <2>1, ByHead, Heads
  <2>3. MineAre(c, w, t.current, t.duty)
    <3>1. \A i \in Mine(c, w) : i \notin D
      BY <1>1, <2>1 DEF Phase
    <3>2. \A i \in Mine(c, w) : i \in Mine(c, v) /\ w[i] = v[i]
      BY <1>1, <3>1 DEF Mine
    <3>3. MineAre(c, v, t.current, t.duty)
      BY <2>1 DEF Phase, StartsWith
    <3>. QED BY <3>2, <3>3 DEF MineAre
  <2>. QED BY <1>3, <2>2, <2>3 DEF Phase, Starts, StartsWith
<1>. QED BY <1>5, <1>6, <1>7, <1>8, <1>9 DEF StartsWith, UpdateStatements

LEMMA PhaseInsert ==
  ASSUME NEW c, NEW t, NEW v, NEW s \in Shapes, NEW k, NEW r, Phase(c, t, v, s, k, r),
         Starts(s, "insert"),
         NEW w, NEW n, n \notin DOMAIN v, DOMAIN w = DOMAIN v \union {n}, w[n] = NewRow(c),
         \A i \in DOMAIN v : w[i] = v[i]
  PROVE  Phase(c, t, w, Tail(s), {}, r)
<1>1. Mine(c, v) = {}
  BY DEF Phase
<1>2. Mine(c, w) = {n}
  BY <1>1 DEF Mine, NewRow
<1>3. MineAre(c, w, c.dako, c.duty)
  BY <1>2 DEF MineAre, NewRow
<1>4. Starts(Tail(s), "mirror")
  BY ByHead, Heads
<1>. QED BY <1>2, <1>3, <1>4 DEF Phase, Starts, StartsWith

LEMMA PhaseTeacher ==
  ASSUME NEW c, NEW t, NEW v, NEW s \in Shapes, NEW k, NEW r, Phase(c, t, v, s, k, r),
         StartsWith(s, TeacherStatements)
  PROVE  Phase(c, NewTeacher(c, t, s), v, Tail(s), {}, r)
<1>. DEFINE n == NewTeacher(c, t, s)
            e == Tail(s)
<1>1. \A i, j \in Mine(c, v) : i = j
  BY DEF Phase
<1>2. \A x : Starts(s, x) <=> Head(s) = x
  BY DEF Starts, StartsWith
<1>3. e \in Ends
  BY <1>2, ByHead, Heads DEF StartsWith, TeacherStatements, Ends
<1>4. e = << >> \/ e = <<"setCurrent">> \/ e = <<"setDuty">>
  BY <1>3 DEF Ends
<1>5. /\ ~Starts(<< >>, "setCurrent") /\ ~Starts(<< >>, "setDuty")
      /\ Starts(<<"setCurrent">>, "setCurrent")
      /\ Starts(<<"setDuty">>, "setDuty") /\ Tail(<<"setDuty">>) # <<"setCurrent">>
  BY Single, Names DEF Starts
<1>6. /\ n.current = IF Head(s) = "setDuty" THEN t.current ELSE c.dako
      /\ n.duty = IF Head(s) = "setCurrent" THEN t.duty ELSE c.duty
  BY <1>2 DEF NewTeacher
<1>. HIDE DEF n, e
<1>7. /\ e = << >> => MineAre(c, v, n.current, n.duty)
      /\ e = <<"setCurrent">> => MineAre(c, v, c.dako, n.duty)
      /\ e = <<"setDuty">> => MineAre(c, v, n.current, c.duty)
  <2>1. CASE Head(s) = "setCurrent"
    <3>1. MineAre(c, v, c.dako, t.duty)
      BY <1>2, <2>1 DEF Phase
    <3>2. e = << >>
      BY <1>2, <2>1, ByHead DEF e
    <3>. QED BY <1>5, <1>6, <2>1, <3>1, <3>2
  <2>2. CASE Head(s) = "setDuty"
    <3>1. MineAre(c, v, IF e = <<"setCurrent">> THEN c.dako ELSE t.current, c.duty)
      BY <1>2, <2>2 DEF Phase, e
    <3>2. << >> # <<"setCurrent">> /\ <<"setDuty">> # <<"setCurrent">>
      BY <1>5
    <3>. QED BY <1>6, <2>2, <3>1, <3>2
  <2>3. CASE Head(s) = "mirror"
    <3>1. MineAre(c, v, c.dako, c.duty)
      BY <1>2, <2>3 DEF Phase
    <3>. QED BY <1>6, <2>3, <3>1
  <2>. QED BY <2>1, <2>2, <2>3 DEF StartsWith, TeacherStatements
<1>8. Phase(c, n, v, e, {}, r)
  <2>1. CASE e = << >>
    BY <1>1, <1>7, <2>1 DEF Phase, Starts, StartsWith
  <2>2. CASE e = <<"setCurrent">>
    BY <1>1, <1>5, <1>7, <2>2 DEF Phase, Starts, StartsWith
  <2>3. CASE e = <<"setDuty">>
    BY <1>1, <1>5, <1>7, <2>3 DEF Phase, Starts, StartsWith
  <2>. QED BY <1>4, <2>1, <2>2, <2>3
<1>. QED BY <1>8 DEF n, e

\* Others may have closed the teacher's periods.
LEMMA PhaseShrinks ==
  ASSUME NEW c, NEW t, NEW v, NEW s, NEW k, NEW r, Phase(c, t, v, s, k, r),
         NEW w, Mine(c, w) \subseteq Mine(c, v), \A i \in Mine(c, w) : w[i] = v[i]
  PROVE  Phase(c, t, w, s, k, r)
BY DEF Phase, MineAre

LEMMA PhaseReadTeacher ==
  ASSUME NEW c, NEW t, NEW v, NEW s \in Shapes, NEW k, NEW r, Phase(c, t, v, s, k, r),
         Starts(s, "readTeacher")
  PROVE  Phase(c, t, v, Tail(s), {}, {t})
<1>1. Starts(Tail(s), "readOpen")
  BY ByHead, Heads
<1>2. MineAre(c, v, t.current, t.duty) /\ \A i, j \in Mine(c, v) : i = j
  BY DEF Phase, Starts, StartsWith
<1>. QED BY <1>1, <1>2 DEF Phase, Starts, StartsWith

LEMMA PhaseReadPrior ==
  ASSUME NEW c, NEW t, NEW v, NEW s, NEW k, NEW r, Phase(c, t, v, s, k, r),
         Starts(s, "readPrior"), NEW d, d.teacher = c.teacher,
         d.duty = IF c.duty = "NONE" THEN t.duty ELSE c.duty, NEW q
  PROVE  Phase(d, t, v, EditPlan(t, c), {}, q)
<1>. DEFINE e == EditPlan(t, c)
<1>1. Mine(d, v) = Mine(c, v)
  BY DEF Mine
<1>2. MineAre(d, v, t.current, t.duty) /\ \A i, j \in Mine(d, v) : i = j
  BY <1>1 DEF Phase, MineAre, Starts, StartsWith
<1>3. IF c.dako \notin {NoDako, t.current} THEN e \in Reading
      ELSE IF c.duty \notin {"NONE", t.duty} THEN e \in Syncing
      ELSE e = IF c.duty = "NONE" THEN << >> ELSE <<"setDuty">>
  BY EditPlans
<1>. HIDE DEF e
<1>4. CASE e \in Reading
  <2>1. Starts(e, "readTeacher")
    BY <1>4, Heads
  <2>. QED BY <1>2, <2>1 DEF Phase, Starts, StartsWith, e
<1>5. CASE e \in Syncing
  <2>1. Starts(e, "syncDuty")
    BY <1>5, Heads
  <2>. QED BY <1>2, <2>1 DEF Phase, MineAre, Starts, StartsWith, e
<1>6. CASE e = << >>
  BY <1>2, <1>6 DEF Phase, Starts, StartsWith, e
<1>7. CASE e = <<"setDuty">> /\ c.duty = t.duty /\ d.duty = t.duty
  <2>1. Starts(e, "setDuty") /\ Tail(e) # <<"setCurrent">>
    BY <1>7, Single, Names DEF Starts
  <2>. QED BY <1>2, <1>7, <2>1 DEF Phase, Starts, StartsWith, e
<1>. QED BY <1>3, <1>4, <1>5, <1>6, <1>7

LEMMA PhaseReadOpen ==
  ASSUME NEW c, NEW t, NEW v \in Tables, NEW s, NEW k, NEW r, Phase(c, t, v, s, k, r),
         Starts(s, "readOpen"), Tail(s) \in Ends,
         NEW x \in r, NEW i, NEW d, NEW q,
         d.teacher = c.teacher, d.dako = c.dako, d.duty = c.duty, d.period = i, 0 \notin Ids,
         LET open == {v[j] : j \in Mine(c, v)} IN
           IF InPlace(x, open, c) THEN i \in Mine(c, v) ELSE i = 0
  PROVE  Phase(d, t, v, AssignPlan(x, {v[j] : j \in Mine(c, v)}, c) \o Tail(s), {}, q)
<1>. DEFINE open == {v[j] : j \in Mine(c, v)}
            e == AssignPlan(x, open, c) \o Tail(s)
            f == Tail(s)
<1>1. x = t
  BY DEF Phase
<1>2. Mine(d, v) = Mine(c, v)
  BY DEF Mine
<1>3. MineAre(d, v, t.current, t.duty) /\ \A a, b \in Mine(d, v) : a = b
  BY <1>2 DEF Phase, MineAre, Starts, StartsWith
<1>4. CASE InPlace(t, open, c)
  <2>1. t.current = c.dako /\ i \in Mine(d, v)
    BY <1>1, <1>2, <1>4 DEF InPlace
  <2>2. IF \E o \in open : o.duty = c.duty THEN e = f ELSE e \in Staying
    <3>. HIDE DEF open
    <3>. QED BY <1>1, <1>4, AssignPlans
  <2>3. CASE \E o \in open : o.duty = c.duty
    <3>1. t.duty = c.duty
      BY <1>2, <1>3, <2>3 DEF MineAre
    <3>2. e = f /\ (f = << >> \/ f = <<"setCurrent">> \/ f = <<"setDuty">>)
      BY <2>2, <2>3 DEF Ends
    <3>. HIDE DEF e, f
    <3>3. /\ Starts(<<"setCurrent">>, "setCurrent")
          /\ Starts(<<"setDuty">>, "setDuty") /\ Tail(<<"setDuty">>) # <<"setCurrent">>
      BY Single, Names DEF Starts
    <3>4. Phase(d, t, v, e, {}, q)
      <4>1. CASE f = << >>
        BY <1>3, <3>2, <4>1 DEF Phase, Starts, StartsWith
      <4>2. CASE f = <<"setCurrent">>
        BY <1>3, <2>1, <3>2, <3>3, <4>2 DEF Phase, Starts, StartsWith
      <4>3. CASE f = <<"setDuty">>
        BY <1>3, <3>1, <3>2, <3>3, <4>3 DEF Phase, Starts, StartsWith
      <4>. QED BY <3>2, <4>1, <4>2, <4>3
    <3>. QED BY <3>4 DEF e
  <2>4. CASE ~\E o \in open : o.duty = c.duty
    <3>1. Starts(e, "closeSlot")
      BY <2>2, <2>4, Heads
    <3>2. i # 0
      BY <1>2, <2>1, TableFacts DEF Mine
    <3>3. Mine(d, v) \subseteq {i} /\ \A j \in Mine(d, v) : v[j].dako = d.dako
      BY <1>3, <2>1 DEF MineAre
    <3>. HIDE DEF e
    <3>4. Phase(d, t, v, e, {}, q)
      BY <1>3, <2>1, <3>1, <3>2, <3>3 DEF Phase, Starts, StartsWith
    <3>. QED BY <3>4 DEF e
  <2>. QED BY <2>3, <2>4
<1>5. CASE ~InPlace(t, open, c)
  <2>1. d.period = 0
    BY <1>1, <1>5
  <2>2. IF t.current # NoDako THEN e \in After("closeOwn", Moving) ELSE e \in Moving
    <3>. HIDE DEF open
    <3>. QED BY <1>1, <1>5, AssignPlans
  <2>. HIDE DEF e
  <2>3. CASE t.current # NoDako
    <3>1. Starts(e, "closeOwn")
      BY <2>2, <2>3, LeavingFacts
    <3>2. Phase(d, t, v, e, {}, q)
      BY <1>3, <3>1 DEF Phase, Starts, StartsWith
    <3>. QED BY <3>2 DEF e
  <2>4. CASE t.current = NoDako
    <3>1. Starts(e, "closeSlot")
      BY <2>2, <2>4, Heads
    <3>2. Mine(d, v) = {}
      <4>1. ASSUME NEW j \in Mine(d, v) PROVE FALSE
        <5>1. v[j].dako = NoDako /\ v[j] \in PeriodRows
          BY <1>3, <2>4, TableFacts DEF MineAre, Mine
        <5>. QED BY <5>1, NoDakoAssumption DEF PeriodRows
      <4>. QED BY <4>1
    <3>3. Phase(d, t, v, e, {}, q)
      BY <2>1, <3>1, <3>2 DEF Phase, Starts, StartsWith
    <3>. QED BY <3>3 DEF e
  <2>. QED BY <2>3, <2>4
<1>. QED BY <1>4, <1>5

-----------------------------------------------------------------------------
(* The tables mirror each other *)

LEMMA SameViews ==
  ASSUME NEW q, Untouched(q), UNCHANGED <<periods, teachers>>
  PROVE  PeriodsOf(q)' = PeriodsOf(q) /\ TeacherOf(q)' = TeacherOf(q)
<1>1. PeriodsOf(q)' = PeriodsOf(q)
  BY DEF Untouched, PeriodsOf
<1>2. TeacherOf(q)' = TeacherOf(q)
  <2>1. teacherDraft'[q] = teacherDraft[q] /\ call'[q] = call[q] /\ teachers' = teachers
    BY DEF Untouched
  <2>. QED BY <2>1, Zenon DEF TeacherOf
<1>. QED BY <1>1, <1>2

\* A step of p that leaves the committed tables: the others know what they knew.
LEMMA MirrorStep ==
  ASSUME PlanInv, MirrorInv, NEW p \in Requests, UNCHANGED <<periods, teachers, disturbed>>,
         \A q \in Others(p) : Untouched(q),
         InFlight(p)' =>
           /\ InFlight(p) /\ call'[p].teacher = call[p].teacher
           /\ Undisturbed(p) =>
                Phase(call'[p], TeacherOf(p)', PeriodsOf(p)', todo'[p], candidates'[p], seen'[p])
  PROVE  MirrorInv'
<1>1. ASSUME NEW q \in Requests, InFlight(q)'
      PROVE  InFlight(q) /\ call'[q].teacher = call[q].teacher
  <2>1. CASE q = p
    BY <1>1, <2>1
  <2>2. CASE q # p
    BY <1>1, <2>2 DEF Others, Untouched, InFlight
  <2>. QED BY <2>1, <2>2
<1>2. Alone'
  BY <1>1 DEF Alone, MirrorInv
<1>3. OnePeriodEach' /\ RelationshipMirrored'
  BY DEF OnePeriodEach, RelationshipMirrored, MirrorInv
<1>4. ASSUME NEW q \in Requests, Undisturbed(q)'
      PROVE  Phase(call'[q], TeacherOf(q)', PeriodsOf(q)', todo'[q], candidates'[q], seen'[q])
  <2>1. Undisturbed(q) /\ InFlight(q)'
    BY <1>1, <1>4 DEF Undisturbed
  <2>2. CASE q = p
    BY <2>1, <2>2
  <2>3. CASE q # p
    <3>1. Untouched(q)
      BY <2>3 DEF Others
    <3>2. PeriodsOf(q)' = PeriodsOf(q) /\ TeacherOf(q)' = TeacherOf(q)
      BY <3>1, SameViews
    <3>3. Phase(call[q], TeacherOf(q), PeriodsOf(q), todo[q], candidates[q], seen[q])
      BY <2>1 DEF MirrorInv
    <3>4. /\ call'[q] = call[q] /\ todo'[q] = todo[q]
          /\ candidates'[q] = candidates[q] /\ seen'[q] = seen[q]
      BY <3>1 DEF Untouched
    <3>. QED BY <3>2, <3>3, <3>4, Zenon
  <2>. QED BY <2>2, <2>3
<1>. QED BY <1>2, <1>3, <1>4 DEF MirrorInv

LEMMA RollbackMirror ==
  ASSUME PlanInv, MirrorInv, NEW p \in Requests, Rollback(p)
  PROVE  MirrorInv'
<1>1. UNCHANGED <<periods, teachers, disturbed>>
  BY DEF Rollback, dbVars, ghostVars
<1>2. \A q \in Others(p) : Untouched(q)
  BY DEF Rollback, End, Others, Untouched, PlanInv, Typed
<1>3. ~InFlight(p)'
  BY DEF Rollback, End, InFlight, PlanInv, Typed
<1>. QED BY <1>1, <1>2, <1>3, MirrorStep

LEMMA ReadTeacherMirror ==
  ASSUME PlanInv, MirrorInv, NEW p \in Requests, ReadTeacher(p)
  PROVE  MirrorInv'
<1>1. Starts(todo[p], "readTeacher")
  BY DEF ReadTeacher, At, Starts
<1>2. InFlight(p) /\ todo[p] \in Shapes /\ candidates[p] = {}
  BY <1>1, Busy DEF Starts, StartsWith, UpdateStatements, PlanOf
<1>3. /\ seen' = [seen EXCEPT ![p] = {TeacherOf(p)}]
      /\ todo' = [todo EXCEPT ![p] = Tail(todo[p])]
      /\ UNCHANGED <<periods, teachers, disturbed, draft, teacherDraft, call, candidates>>
  BY DEF ReadTeacher, dbVars, ownVars, ghostVars
<1>4. \A q \in Others(p) : Untouched(q)
  BY <1>3 DEF Others, Untouched, PlanInv, Typed
<1>5. /\ seen'[p] = {TeacherOf(p)} /\ todo'[p] = Tail(todo[p]) /\ candidates'[p] = {}
      /\ call'[p] = call[p]
  BY <1>2, <1>3 DEF PlanInv, Typed
<1>6. PeriodsOf(p)' = PeriodsOf(p) /\ TeacherOf(p)' = TeacherOf(p)
  <2>1. PeriodsOf(p)' = PeriodsOf(p)
    BY <1>3 DEF PeriodsOf
  <2>2. TeacherOf(p)' = TeacherOf(p)
    BY <1>3, Zenon DEF TeacherOf
  <2>. QED BY <2>1, <2>2
<1>7. ASSUME Undisturbed(p)
      PROVE  Phase(call'[p], TeacherOf(p)', PeriodsOf(p)', todo'[p], candidates'[p], seen'[p])
  <2>1. Phase(call[p], TeacherOf(p), PeriodsOf(p), todo[p], candidates[p], seen[p])
    BY <1>7 DEF MirrorInv
  <2>2. Phase(call[p], TeacherOf(p), PeriodsOf(p), Tail(todo[p]), {}, {TeacherOf(p)})
    BY <1>1, <1>2, <2>1, PhaseReadTeacher
  <2>. QED BY <1>5, <1>6, <2>2, Zenon
<1>. QED BY <1>2, <1>3, <1>4, <1>5, <1>7, MirrorStep

LEMMA ReadPriorMirror ==
  ASSUME PlanInv, MirrorInv, NEW p \in Requests, ReadPrior(p)
  PROVE  MirrorInv'
<1>1. Starts(todo[p], "readPrior")
  BY DEF ReadPrior, At, Starts
<1>2. InFlight(p) /\ todo[p] \in Shapes /\ candidates[p] = {} /\ call[p] \in Calls
  BY <1>1, Busy, CallFacts DEF Starts, StartsWith, UpdateStatements, PlanOf, PlanInv
<1>. DEFINE u == IF call[p].duty = "NONE" THEN TeacherOf(p).duty ELSE call[p].duty
            c == [call[p] EXCEPT !.duty = u]
<1>3. /\ call' = [call EXCEPT ![p] = c] /\ todo' = [todo EXCEPT ![p] = EditPlan(TeacherOf(p), call[p])]
      /\ UNCHANGED <<periods, teachers, disturbed, draft, teacherDraft, seen, candidates>>
  BY DEF ReadPrior, dbVars, ownVars, ghostVars
<1>4. c.teacher = call[p].teacher /\ c.duty = u
  BY <1>2 DEF Calls
<1>. HIDE DEF c
<1>5. \A q \in Others(p) : Untouched(q)
  BY <1>3 DEF Others, Untouched, PlanInv, Typed
<1>6. /\ call'[p] = c /\ todo'[p] = EditPlan(TeacherOf(p), call[p]) /\ candidates'[p] = {}
  BY <1>2, <1>3 DEF PlanInv, Typed
<1>7. PeriodsOf(p)' = PeriodsOf(p) /\ TeacherOf(p)' = TeacherOf(p)
  <2>1. PeriodsOf(p)' = PeriodsOf(p)
    BY <1>3 DEF PeriodsOf
  <2>2. call'[p].teacher = call[p].teacher
    BY <1>4, <1>6
  <2>3. TeacherOf(p)' = TeacherOf(p)
    BY <1>3, <2>2, Zenon DEF TeacherOf
  <2>. QED BY <2>1, <2>3
<1>8. ASSUME Undisturbed(p)
      PROVE  Phase(call'[p], TeacherOf(p)', PeriodsOf(p)', todo'[p], candidates'[p], seen'[p])
  <2>1. Phase(call[p], TeacherOf(p), PeriodsOf(p), todo[p], candidates[p], seen[p])
    BY <1>8 DEF MirrorInv
  <2>2. Phase(c, TeacherOf(p), PeriodsOf(p), EditPlan(TeacherOf(p), call[p]), {}, seen'[p])
    BY <1>1, <1>4, <2>1, PhaseReadPrior
  <2>. QED BY <1>6, <1>7, <2>2, Zenon
<1>. QED BY <1>2, <1>3, <1>4, <1>5, <1>6, <1>8, MirrorStep

LEMMA ReadOpenMirror ==
  ASSUME PlanInv, MirrorInv, NEW p \in Requests, ReadOpen(p)
  PROVE  MirrorInv'
<1>1. Starts(todo[p], "readOpen")
  BY DEF ReadOpen, At, Starts
<1>2. InFlight(p) /\ candidates[p] = {} /\ call[p] \in Calls
  BY <1>1, Busy, CallFacts DEF Starts, StartsWith, UpdateStatements, PlanOf, PlanInv
<1>3. PICK t \in seen[p], i \in Ids \union {0} :
        LET open == {PeriodsOf(p)[j] : j \in Mine(call[p], PeriodsOf(p))}
            s == AssignPlan(t, open, call[p]) \o Tail(todo[p])
        IN /\ call' = [call EXCEPT ![p] = [call[p] EXCEPT !.period = i]]
           /\ todo' = [todo EXCEPT ![p] = s]
           /\ IF InPlace(t, open, call[p]) THEN i \in Mine(call[p], PeriodsOf(p)) ELSE i = 0
           /\ Tail(todo[p]) \in Ends
  BY ReadOpenIs, Zenon
<1>. DEFINE c == [call[p] EXCEPT !.period = i]
            open == {PeriodsOf(p)[j] : j \in Mine(call[p], PeriodsOf(p))}
            s == AssignPlan(t, open, call[p]) \o Tail(todo[p])
<1>4. c.period = i /\ c.teacher = call[p].teacher /\ c.dako = call[p].dako /\ c.duty = call[p].duty
  BY <1>2 DEF Calls
<1>5. call' = [call EXCEPT ![p] = c] /\ todo' = [todo EXCEPT ![p] = s]
  BY <1>3
<1>6. UNCHANGED <<periods, teachers, disturbed, draft, teacherDraft, candidates>>
      /\ seen' = [seen EXCEPT ![p] = {}]
  BY DEF ReadOpen, dbVars, ownVars, ghostVars
<1>7. ASSUME Undisturbed(p)
      PROVE  Phase(c, TeacherOf(p), PeriodsOf(p), s, {}, {})
  <2>1. Phase(call[p], TeacherOf(p), PeriodsOf(p), todo[p], candidates[p], seen[p])
    BY <1>7 DEF MirrorInv
  <2>2. PeriodsOf(p) \in Tables
    BY ViewTyped DEF PlanInv
  <2>3. LET o == {PeriodsOf(p)[j] : j \in Mine(call[p], PeriodsOf(p))} IN
          IF InPlace(t, o, call[p]) THEN i \in Mine(call[p], PeriodsOf(p)) ELSE i = 0
    BY <1>3
  <2>4. Tail(todo[p]) \in Ends
    BY <1>3
  <2>. HIDE DEF c
  <2>. QED BY <1>1, <1>4, <2>1, <2>2, <2>3, <2>4, IdsPositive, PhaseReadOpen, Zenon
<1>. HIDE DEF c, s
<1>8. \A q \in Others(p) : Untouched(q)
  BY <1>5, <1>6 DEF Others, Untouched, PlanInv, Typed
<1>9. call'[p] = c /\ todo'[p] = s /\ candidates'[p] = {} /\ seen'[p] = {}
  BY <1>2, <1>5, <1>6 DEF PlanInv, Typed
<1>10. PeriodsOf(p)' = PeriodsOf(p) /\ TeacherOf(p)' = TeacherOf(p)
  <2>1. PeriodsOf(p)' = PeriodsOf(p)
    BY <1>6 DEF PeriodsOf
  <2>2. call'[p].teacher = call[p].teacher
    BY <1>4, <1>9
  <2>3. TeacherOf(p)' = TeacherOf(p)
    BY <1>6, <2>2, Zenon DEF TeacherOf
  <2>. QED BY <2>1, <2>3
<1>11. Undisturbed(p) =>
         Phase(call'[p], TeacherOf(p)', PeriodsOf(p)', todo'[p], candidates'[p], seen'[p])
  BY <1>7, <1>9, <1>10, Zenon
<1>. QED BY <1>2, <1>4, <1>6, <1>8, <1>9, <1>11, MirrorStep

\* An UPDATE by teacher, or of the period the call names, picks the teacher's open period.
LEMMA MineMatch ==
  ASSUME NEW p, NEW t, NEW k, NEW r, Phase(call[p], t, PeriodsOf(p), todo[p], k, r),
         StartsWith(todo[p], {"closeOwn", "relabel", "syncDuty"})
  PROVE  Mine(call[p], PeriodsOf(p)) \subseteq Matching(p)
<1>1. CASE StartsWith(todo[p], {"closeOwn", "syncDuty"})
  BY <1>1, WhereIs DEF Mine, Matching
<1>2. CASE Starts(todo[p], "relabel")
  <2>1. Mine(call[p], PeriodsOf(p)) \subseteq {call[p].period}
    BY <1>2 DEF Phase
  <2>2. StartsWith(todo[p], {"relabel", "correct", "correctEnd"})
    BY <1>2 DEF Starts, StartsWith
  <2>. QED BY <2>1, <2>2, WhereIs DEF Mine, Matching
<1>. QED BY <1>1, <1>2 DEF Starts, StartsWith

LEMMA WaitMirror ==
  ASSUME PlanInv, MirrorInv, NEW p \in Requests, WaitForRows(p)
  PROVE  MirrorInv'
<1>1. StartsWith(todo[p], UpdateStatements) /\ candidates[p] = {}
  BY DEF WaitForRows, AtOneOf, At, StartsWith
<1>2. InFlight(p)
  BY <1>1, Busy DEF StartsWith
<1>3. /\ candidates' = [candidates EXCEPT ![p] = Matching(p)]
      /\ UNCHANGED <<periods, teachers, disturbed, draft, teacherDraft, call, seen, todo>>
  BY DEF WaitForRows, dbVars, ownVars, ghostVars
<1>4. \A q \in Others(p) : Untouched(q)
  BY <1>3 DEF Others, Untouched, PlanInv, Typed
<1>5. /\ call'[p] = call[p] /\ todo'[p] = todo[p] /\ seen'[p] = seen[p]
      /\ candidates'[p] = Matching(p)
  BY <1>3 DEF PlanInv, Typed
<1>6. PeriodsOf(p)' = PeriodsOf(p) /\ TeacherOf(p)' = TeacherOf(p)
  <2>1. PeriodsOf(p)' = PeriodsOf(p)
    BY <1>3 DEF PeriodsOf
  <2>2. TeacherOf(p)' = TeacherOf(p)
    BY <1>3, Zenon DEF TeacherOf
  <2>. QED BY <2>1, <2>2
<1>7. ASSUME Undisturbed(p)
      PROVE  Phase(call[p], TeacherOf(p), PeriodsOf(p), todo[p], Matching(p), seen[p])
  <2>1. Phase(call[p], TeacherOf(p), PeriodsOf(p), todo[p], candidates[p], seen[p])
    BY <1>7 DEF MirrorInv
  <2>2. StartsWith(todo[p], {"closeOwn", "relabel", "syncDuty"}) /\ Matching(p) # {} =>
          Mine(call[p], PeriodsOf(p)) \subseteq Matching(p)
    BY <2>1, MineMatch
  <2>. QED BY <2>1, <2>2 DEF Phase
<1>8. Undisturbed(p) =>
        Phase(call'[p], TeacherOf(p)', PeriodsOf(p)', todo'[p], candidates'[p], seen'[p])
  BY <1>5, <1>6, <1>7, Zenon
<1>. QED BY <1>2, <1>3, <1>4, <1>5, <1>8, MirrorStep

LEMMA UpdateMirror ==
  ASSUME PlanInv, MirrorInv, NEW p \in Requests, Update(p) \/ UpdateAfterWait(p), ~Rollback(p)
  PROVE  MirrorInv'
<1>1. StartsWith(todo[p], UpdateStatements)
  BY UpdateIs
<1>2. PICK S : Picked(p, S) /\ Wrote(p, UpdatedRows(p, S))
  BY UpdateIs
<1>3. InFlight(p) /\ todo[p] \in Shapes /\ PlanOf(call[p], todo[p], candidates[p])
  BY <1>1, Busy DEF StartsWith
<1>. DEFINE rows == UpdatedRows(p, S)
            v == PeriodsOf(p)
            w == Over(rows, v)
            D == S \intersect Matching(p)
<1>4. DOMAIN rows = D /\ D \subseteq DOMAIN v
  BY <1>3, UpdatedTyped
<1>5. /\ DOMAIN w = DOMAIN v
      /\ \A i \in D : w[i] = rows[i]
      /\ \A i \in DOMAIN v \ D : w[i] = v[i]
  BY <1>4 DEF Over
<1>6. \A i \in D : rows[i] = Updated(p, v[i]) /\ v[i] \in PeriodRows
  <2>1. \A i \in D : rows[i] = Updated(p, v[i])
    BY DEF UpdatedRows
  <2>2. v \in Tables
    BY ViewTyped DEF PlanInv
  <2>. QED BY <1>4, <2>1, <2>2, TableFacts
<1>7. ASSUME NEW i \in D
      PROVE  /\ w[i].teacher = v[i].teacher /\ w[i].dako = v[i].dako
             /\ StartsWith(todo[p], {"relabel", "syncDuty", "correct"}) =>
                  w[i].duty = call[p].duty /\ w[i].open = v[i].open
             /\ StartsWith(todo[p], {"closeOwn", "closeSlot", "closeUnlabelled", "correctEnd"}) =>
                  w[i].duty = v[i].duty /\ ~w[i].open
  <2>1. w[i] = Updated(p, v[i]) /\ v[i] \in PeriodRows
    BY <1>5, <1>6
  <2>. HIDE DEF w, v
  <2>. QED BY <1>1, <2>1, UpdatedIs
<1>8. /\ call' = call /\ UNCHANGED <<periods, teachers, disturbed>>
      /\ todo'[p] = Tail(todo[p]) /\ candidates'[p] = {} /\ seen' = seen
  BY <1>2 DEF Wrote, PlanInv, Typed, dbVars, ghostVars
<1>9. \A q \in Others(p) : Untouched(q)
  BY <1>2 DEF Wrote, Others, Untouched, PlanInv, Typed
<1>10. PeriodsOf(p)' = w /\ TeacherOf(p)' = TeacherOf(p)
  BY <1>2, WroteView
<1>11. ASSUME Undisturbed(p)
       PROVE  Phase(call[p], TeacherOf(p), w, Tail(todo[p]), {}, seen[p])
  <2>1. Phase(call[p], TeacherOf(p), v, todo[p], candidates[p], seen[p])
    BY <1>11 DEF MirrorInv
  <2>2. StartsWith(todo[p], {"closeOwn", "syncDuty", "relabel"}) => Mine(call[p], v) \subseteq D
    <3>1. StartsWith(todo[p], {"closeOwn", "syncDuty", "relabel"}) =>
            Mine(call[p], v) \subseteq Matching(p)
      BY <2>1, MineMatch
    <3>2. StartsWith(todo[p], {"closeOwn", "syncDuty", "relabel"}) => Mine(call[p], v) \subseteq S
      BY <1>2, <2>1, <3>1 DEF Picked, Phase, StartsWith
    <3>. QED BY <3>1, <3>2
  <2>3. StartsWith(todo[p], {"correct", "correctEnd"}) => D \subseteq {call[p].period}
    <3>1. StartsWith(todo[p], {"correct", "correctEnd"}) => StartsWith(todo[p], {"relabel", "correct", "correctEnd"})
      BY DEF StartsWith
    <3>2. \A i \in D : Where(p, i)
      BY DEF Matching
    <3>. QED BY <3>1, <3>2, WhereIs
  <2>4. /\ D \subseteq DOMAIN v /\ DOMAIN w = DOMAIN v
        /\ \A i \in DOMAIN v \ D : w[i] = v[i]
    BY <1>4, <1>5
  <2>5. \A i \in D :
          /\ w[i].teacher = v[i].teacher /\ w[i].dako = v[i].dako
          /\ StartsWith(todo[p], {"relabel", "syncDuty", "correct"}) =>
               w[i].duty = call[p].duty /\ w[i].open = v[i].open
          /\ StartsWith(todo[p], {"closeOwn", "closeSlot", "closeUnlabelled", "correctEnd"}) =>
               w[i].duty = v[i].duty /\ ~w[i].open
    BY <1>7
  <2>. HIDE DEF w, v, D, rows
  <2>. QED BY <1>1, <1>3, <2>1, <2>2, <2>3, <2>4, <2>5, PhaseUpdate, Zenon
<1>. HIDE DEF w
<1>12. Undisturbed(p) =>
         Phase(call'[p], TeacherOf(p)', PeriodsOf(p)', todo'[p], candidates'[p], seen'[p])
  BY <1>8, <1>10, <1>11, Zenon
<1>. QED BY <1>3, <1>8, <1>9, <1>12, MirrorStep

LEMMA InsertMirror ==
  ASSUME PlanInv, MirrorInv, NEW p \in Requests, Insert(p), ~Rollback(p)
  PROVE  MirrorInv'
<1>1. Starts(todo[p], "insert")
  BY InsertIs
<1>2. PICK new \in Ids :
        /\ new \notin DOMAIN periods
        /\ \A q \in Requests : new \notin DOMAIN draft[q]
        /\ Wrote(p, [i \in {new} |-> NewRow(call[p])])
  BY InsertIs
<1>3. InFlight(p) /\ todo[p] \in Shapes
  BY <1>1, Busy DEF Starts
<1>. DEFINE rows == [i \in {new} |-> NewRow(call[p])]
            v == PeriodsOf(p)
            w == Over(rows, v)
<1>4. DOMAIN rows = {new} /\ rows[new] = NewRow(call[p])
  OBVIOUS
<1>5. new \notin DOMAIN v
  BY <1>2, ViewTyped DEF PlanInv
<1>. HIDE DEF rows
<1>6. DOMAIN w = DOMAIN v \union {new} /\ w[new] = NewRow(call[p]) /\ \A i \in DOMAIN v : w[i] = v[i]
  BY <1>4, <1>5 DEF Over
<1>7. Wrote(p, rows)
  BY <1>2 DEF rows
<1>8. /\ call' = call /\ UNCHANGED <<periods, teachers, disturbed>>
      /\ todo'[p] = Tail(todo[p]) /\ candidates'[p] = {} /\ seen' = seen
  BY <1>7 DEF Wrote, PlanInv, Typed, dbVars, ghostVars
<1>9. \A q \in Others(p) : Untouched(q)
  BY <1>7 DEF Wrote, Others, Untouched, PlanInv, Typed
<1>10. PeriodsOf(p)' = w /\ TeacherOf(p)' = TeacherOf(p)
  BY <1>7, WroteView
<1>. HIDE DEF w
<1>11. ASSUME Undisturbed(p)
       PROVE  Phase(call[p], TeacherOf(p), w, Tail(todo[p]), {}, seen[p])
  <2>1. Phase(call[p], TeacherOf(p), v, todo[p], candidates[p], seen[p])
    BY <1>11 DEF MirrorInv
  <2>. HIDE DEF v
  <2>. QED BY <1>1, <1>3, <1>5, <1>6, <2>1, PhaseInsert
<1>12. Undisturbed(p) =>
         Phase(call'[p], TeacherOf(p)', PeriodsOf(p)', todo'[p], candidates'[p], seen'[p])
  BY <1>8, <1>10, <1>11, Zenon
<1>. QED BY <1>3, <1>8, <1>9, <1>12, MirrorStep

LEMMA UpdateTeacherMirror ==
  ASSUME PlanInv, MirrorInv, NEW p \in Requests, UpdateTeacher(p)
  PROVE  MirrorInv'
<1>1. StartsWith(todo[p], TeacherStatements)
  BY UpdateTeacherIs
<1>2. InFlight(p) /\ todo[p] \in Shapes /\ PlanOf(call[p], todo[p], candidates[p])
  BY <1>1, Busy DEF StartsWith
<1>3. candidates[p] = {}
  BY <1>1, <1>2 DEF PlanOf, StartsWith, TeacherStatements, UpdateStatements
<1>. DEFINE n == NewTeacher(call[p], TeacherOf(p), todo[p])
<1>4. /\ teacherDraft' = [teacherDraft EXCEPT ![p] = {n}]
      /\ todo' = [todo EXCEPT ![p] = Tail(todo[p])]
      /\ UNCHANGED <<periods, teachers, draft, call, seen, candidates, disturbed>>
  BY UpdateTeacherIs DEF dbVars, ghostVars
<1>5. Undisturbed(p) => Phase(call[p], n, PeriodsOf(p), Tail(todo[p]), {}, seen[p])
  BY <1>1, <1>2, PhaseTeacher DEF MirrorInv
<1>. HIDE DEF n
<1>6. \A q \in Others(p) : Untouched(q)
  BY <1>4 DEF Others, Untouched, PlanInv, Typed
<1>7. teacherDraft'[p] = {n} /\ todo'[p] = Tail(todo[p]) /\ candidates'[p] = {} /\ PeriodsOf(p)' = PeriodsOf(p)
  BY <1>3, <1>4 DEF PlanInv, Typed, PeriodsOf
<1>8. TeacherOf(p)' = n
  BY <1>7 DEF TeacherOf
<1>9. Undisturbed(p) =>
        Phase(call'[p], TeacherOf(p)', PeriodsOf(p)', todo'[p], candidates'[p], seen'[p])
  BY <1>4, <1>5, <1>7, <1>8, Zenon
<1>. QED BY <1>2, <1>4, <1>6, <1>9, MirrorStep

\* The commit of p: what it leaves of the committed periods.
CommitLeaves(p) ==
  /\ DOMAIN periods' = DOMAIN PeriodsOf(p)
  /\ \A i \in DOMAIN periods' : periods'[i] = PeriodsOf(p)[i]
  /\ \A i \in DOMAIN periods' :
       periods'[i].open /\ periods'[i].teacher # call[p].teacher =>
         i \in DOMAIN periods \ DOMAIN draft[p] /\ periods'[i] = periods[i]

LEMMA CommitKeeps ==
  ASSUME PlanInv, RowInv, NEW p \in Requests, Commit(p)
  PROVE  CommitLeaves(p)
<1>1. periods' = PeriodsOf(p) /\ InFlight(p)
  BY CommitIs
<1>2. /\ DOMAIN PeriodsOf(p) = DOMAIN draft[p] \union DOMAIN periods
      /\ \A i \in DOMAIN draft[p] : PeriodsOf(p)[i] = draft[p][i]
      /\ \A i \in DOMAIN periods \ DOMAIN draft[p] : PeriodsOf(p)[i] = periods[i]
  BY ViewTyped DEF PlanInv
<1>3. DraftOf(call[p], draft[p], periods)
  BY <1>1 DEF RowInv
<1>. QED BY <1>1, <1>2, <1>3 DEF CommitLeaves, DraftOf

\* The commit of p, for an undisturbed request of another teacher.
LEMMA CommitOthers ==
  ASSUME PlanInv, RowInv, MirrorInv, NEW p \in Requests, Commit(p),
         NEW q \in Others(p), Undisturbed(q)
  PROVE  Phase(call'[q], TeacherOf(q)', PeriodsOf(q)', todo'[q], candidates'[q], seen'[q])
<1>1. CommitSeen(p, q) /\ InFlight(p) /\ q \in Requests /\ q # p
  BY CommitView, CommitIs DEF Others
<1>2. call[q].teacher # call[p].teacher
  BY <1>1 DEF MirrorInv, Alone, Undisturbed
<1>3. DraftOf(call[p], draft[p], periods)
  BY <1>1 DEF RowInv
<1>. DEFINE v == PeriodsOf(q)
            w == PeriodsOf(q)'
            c == call[q]
<1>4. Phase(c, TeacherOf(q), v, todo[q], candidates[q], seen[q])
  BY <1>1 DEF MirrorInv
<1>5. ASSUME NEW i \in Mine(c, w) PROVE i \in Mine(c, v) /\ w[i] = v[i]
  <2>1. i \in DOMAIN w /\ w[i].open /\ w[i].teacher = c.teacher
    BY DEF Mine
  <2>2. i \notin DOMAIN draft[p]
    <3>1. i \in DOMAIN draft[p] => w[i] = draft[p][i]
      BY <1>1 DEF CommitSeen
    <3>. QED BY <1>2, <1>3, <2>1, <3>1 DEF DraftOf
  <2>3. i \in DOMAIN v /\ w[i] = v[i]
    BY <1>1, <2>1, <2>2 DEF CommitSeen
  <2>. QED BY <2>1, <2>3 DEF Mine
<1>6. TeacherOf(q)' = TeacherOf(q)
  <2>1. Untouched(q)
    BY <1>1 DEF CommitSeen
  <2>2. teacherDraft'[q] = teacherDraft[q] /\ call'[q] = call[q]
    BY <2>1 DEF Untouched
  <2>3. teachers'[call[q].teacher] = teachers[call[q].teacher]
    <3>1. call[q].teacher \in Teachers
      BY <1>1, CallFacts DEF PlanInv, Undisturbed
    <3>2. teachers' = [teachers EXCEPT ![call[p].teacher] = TeacherOf(p)]
      BY CommitIs
    <3>. QED BY <1>2, <3>1, <3>2 DEF PlanInv, Typed
  <2>. QED BY <2>2, <2>3, Zenon DEF TeacherOf
<1>7. /\ call'[q] = call[q] /\ todo'[q] = todo[q]
      /\ candidates'[q] = candidates[q] /\ seen'[q] = seen[q]
  BY <1>1 DEF CommitSeen, Untouched
<1>8. Phase(c, TeacherOf(q), w, todo[q], candidates[q], seen[q])
  <2>. HIDE DEF v, w, c
  <2>. QED BY <1>4, <1>5, PhaseShrinks
<1>. QED BY <1>6, <1>7, <1>8, Zenon

LEMMA CommitMirror ==
  ASSUME PlanInv, RowInv, MirrorInv, NEW p \in Requests, Commit(p)
  PROVE  MirrorInv'
<1>. DEFINE c == call[p]
            t == TeacherOf(p)
            v == PeriodsOf(p)
<1>1. /\ InFlight(p) /\ todo[p] = << >> /\ disturbed' = disturbed
      /\ teachers' = [teachers EXCEPT ![c.teacher] = t]
  BY CommitIs DEF ghostVars
<1>2. CommitLeaves(p)
  BY CommitKeeps
<1>3. \A q \in Requests : InFlight(q)' => q # p /\ Untouched(q) /\ InFlight(q)
  <2>1. ~InFlight(p)'
    BY CommitIs DEF InFlight, PlanInv, Typed
  <2>2. \A q \in Others(p) : Untouched(q)
    BY CommitView DEF CommitSeen
  <2>. QED BY <2>1, <2>2 DEF Others, Untouched, InFlight
<1>4. Alone'
  BY <1>1, <1>3 DEF MirrorInv, Alone, Untouched
<1>5. c.teacher \in Teachers /\ t \in TeacherRows /\ teachers \in [Teachers -> TeacherRows]
  BY <1>1, CallFacts, TeacherTyped DEF PlanInv, Typed
<1>6. c.teacher \notin disturbed =>
        /\ \A i, j \in Mine(c, v) : i = j
        /\ MineAre(c, v, t.current, t.duty)
  BY <1>1 DEF MirrorInv, Undisturbed, Phase
<1>. HIDE DEF c, t, v
<1>7. /\ DOMAIN periods' = DOMAIN v /\ \A i \in DOMAIN v : periods'[i] = v[i]
      /\ \A i \in DOMAIN v : v[i].open /\ v[i].teacher # c.teacher =>
           i \in DOMAIN periods /\ v[i] = periods[i]
  BY <1>2 DEF CommitLeaves, c, v
<1>8. ASSUME NEW i \in DOMAIN periods', NEW j \in DOMAIN periods',
             periods'[i].open, periods'[j].open, periods'[i].teacher = periods'[j].teacher,
             periods'[i].teacher \notin disturbed
      PROVE  i = j
  <2>1. CASE v[i].teacher = c.teacher
    BY <1>6, <1>7, <1>8, <2>1 DEF Mine
  <2>2. CASE v[i].teacher # c.teacher
    <3>1. /\ i \in DOMAIN periods /\ periods[i] = periods'[i]
          /\ j \in DOMAIN periods /\ periods[j] = periods'[j]
      BY <1>7, <1>8, <2>2
    <3>. QED BY <1>8, <3>1 DEF MirrorInv, OnePeriodEach
  <2>. QED BY <2>1, <2>2
<1>9. OnePeriodEach'
  BY <1>1, <1>8 DEF OnePeriodEach
<1>10. ASSUME NEW i \in DOMAIN periods', periods'[i].open, periods'[i].teacher \notin disturbed
       PROVE  teachers'[periods'[i].teacher] =
                [current |-> periods'[i].dako, duty |-> periods'[i].duty]
  <2>1. CASE v[i].teacher = c.teacher
    <3>1. i \in Mine(c, v) /\ periods'[i] = v[i]
      BY <1>7, <1>10, <2>1 DEF Mine
    <3>2. v[i].dako = t.current /\ v[i].duty = t.duty
      BY <1>6, <1>10, <2>1, <3>1 DEF MineAre
    <3>3. teachers'[c.teacher] = t
      BY <1>1, <1>5
    <3>4. t = [current |-> t.current, duty |-> t.duty]
      BY <1>5 DEF TeacherRows
    <3>. QED BY <2>1, <3>1, <3>2, <3>3, <3>4
  <2>2. CASE v[i].teacher # c.teacher
    <3>1. i \in DOMAIN periods /\ periods[i] = periods'[i]
      BY <1>7, <1>10, <2>2
    <3>2. periods[i].teacher \in Teachers
      BY <3>1, TableFacts DEF PlanInv, Typed, PeriodRows
    <3>3. teachers'[periods[i].teacher] = teachers[periods[i].teacher]
      BY <1>1, <1>5, <1>7, <2>2, <3>1, <3>2
    <3>4. teachers[periods[i].teacher] = [current |-> periods[i].dako, duty |-> periods[i].duty]
      BY <1>10, <3>1 DEF MirrorInv, RelationshipMirrored
    <3>. QED BY <3>1, <3>3, <3>4
  <2>. QED BY <2>1, <2>2
<1>11. RelationshipMirrored'
  BY <1>1, <1>10 DEF RelationshipMirrored
<1>12. ASSUME NEW q \in Requests, Undisturbed(q)'
       PROVE  Phase(call'[q], TeacherOf(q)', PeriodsOf(q)', todo'[q], candidates'[q], seen'[q])
  <2>1. q \in Others(p) /\ Undisturbed(q)
    BY <1>1, <1>3, <1>12 DEF Undisturbed, Others, Untouched
  <2>. QED BY <2>1, CommitOthers
<1>. QED BY <1>4, <1>9, <1>11, <1>12 DEF MirrorInv

LEMMA BeginsMirror ==
  ASSUME PlanInv, MirrorInv, NEW p \in Requests, NEW c, NEW s, Begun(c, s), Start(p, c, s)
  PROVE  MirrorInv'
<1>1. /\ ~InFlight(p) /\ call' = [call EXCEPT ![p] = c] /\ todo' = [todo EXCEPT ![p] = s]
      /\ UNCHANGED <<periods, teachers, draft, teacherDraft, seen, candidates>>
      /\ disturbed' = disturbed \union
           {t \in {c.teacher} : \/ \E q \in Running : call[q].teacher = t
                                \/ c.kind = "CORRECT" /\ periods[c.period].open}
  BY StartIs DEF dbVars, ownVars
<1>2. \A q \in Others(p) : Untouched(q)
  BY <1>1 DEF Others, Untouched, PlanInv, Typed
<1>3. call'[p] = c /\ todo'[p] = s
  BY <1>1 DEF PlanInv, Typed
<1>4. /\ disturbed \subseteq disturbed'
      /\ (\E q \in Running : call[q].teacher = c.teacher) => c.teacher \in disturbed'
      /\ c.kind = "CORRECT" /\ periods[c.period].open => c.teacher \in disturbed'
  BY <1>1
<1>5. Alone'
  <2>1. ASSUME NEW q \in Requests, NEW r \in Requests, q # r, InFlight(q)', InFlight(r)',
               call'[q].teacher = call'[r].teacher
        PROVE  call'[q].teacher \in disturbed'
    <3>1. CASE q # p /\ r # p
      <4>1. Untouched(q) /\ Untouched(r)
        BY <1>2, <3>1 DEF Others
      <4>. QED BY <1>4, <2>1, <4>1 DEF Untouched, InFlight, MirrorInv, Alone
    <3>2. CASE q = p
      <4>1. Untouched(r)
        BY <1>2, <2>1, <3>2 DEF Others
      <4>. QED BY <1>3, <1>4, <2>1, <3>2, <4>1 DEF Untouched, InFlight, Running
    <3>3. CASE r = p
      <4>1. Untouched(q)
        BY <1>2, <2>1, <3>3 DEF Others
      <4>. QED BY <1>3, <1>4, <2>1, <3>3, <4>1 DEF Untouched, InFlight, Running
    <3>. QED BY <3>1, <3>2, <3>3
  <2>. QED BY <2>1 DEF Alone
<1>6. OnePeriodEach' /\ RelationshipMirrored'
  BY <1>1, <1>4 DEF OnePeriodEach, RelationshipMirrored, MirrorInv
<1>7. ASSUME NEW q \in Requests, q # p, Undisturbed(q)'
      PROVE  Phase(call'[q], TeacherOf(q)', PeriodsOf(q)', todo'[q], candidates'[q], seen'[q])
  <2>1. Untouched(q)
    BY <1>2, <1>7 DEF Others
  <2>2. Undisturbed(q)
    BY <1>4, <1>7, <2>1 DEF Undisturbed, Untouched, InFlight
  <2>3. PeriodsOf(q)' = PeriodsOf(q) /\ TeacherOf(q)' = TeacherOf(q)
    BY <1>1, <2>1, SameViews
  <2>4. Phase(call[q], TeacherOf(q), PeriodsOf(q), todo[q], candidates[q], seen[q])
    BY <2>2 DEF MirrorInv
  <2>5. /\ call'[q] = call[q] /\ todo'[q] = todo[q]
        /\ candidates'[q] = candidates[q] /\ seen'[q] = seen[q]
    BY <2>1 DEF Untouched
  <2>. QED BY <2>3, <2>4, <2>5, Zenon
<1>8. ASSUME Undisturbed(p)'
      PROVE  Phase(call'[p], TeacherOf(p)', PeriodsOf(p)', todo'[p], candidates'[p], seen'[p])
  <2>1. draft'[p] = << >> /\ teacherDraft'[p] = {} /\ candidates'[p] = {} /\ seen'[p] = {}
    BY <1>1 DEF PlanInv, Clean
  <2>2. PeriodsOf(p)' = periods
    BY <1>1, <2>1, OverNothing DEF PeriodsOf, PlanInv, Typed
  <2>3. TeacherOf(p)' = teachers[c.teacher]
    BY <1>1, <1>3, <2>1 DEF TeacherOf
  <2>4. c.teacher \notin disturbed /\ c.teacher \notin disturbed'
    BY <1>3, <1>4, <1>8 DEF Undisturbed
  <2>5. \A i, j \in Mine(c, periods) : i = j
    BY <2>4 DEF Mine, MirrorInv, OnePeriodEach
  <2>6. MineAre(c, periods, teachers[c.teacher].current, teachers[c.teacher].duty)
    <3>1. ASSUME NEW i \in Mine(c, periods)
          PROVE  teachers[c.teacher] = [current |-> periods[i].dako, duty |-> periods[i].duty]
      BY <2>4 DEF Mine, MirrorInv, RelationshipMirrored
    <3>2. ASSUME NEW i \in Mine(c, periods)
          PROVE  /\ periods[i].dako = teachers[c.teacher].current
                 /\ periods[i].duty = teachers[c.teacher].duty
      <4>1. teachers[c.teacher] = [current |-> periods[i].dako, duty |-> periods[i].duty]
        BY <3>1
      <4>. QED BY <4>1
    <3>. QED BY <3>2 DEF MineAre
  <2>7. s \in Correcting => c.period \notin Mine(c, periods)
    <3>1. s \in Correcting => c.kind = "CORRECT"
      BY DEF Begun, PlanOf
    <3>. QED BY <1>4, <2>4, <3>1 DEF Mine
  <2>8. Phase(c, teachers[c.teacher], periods, s, {}, {})
    <3>1. CASE s \in Reading
      <4>1. Starts(s, "readTeacher")
        BY <3>1, Heads
      <4>. QED BY <2>5, <2>6, <4>1 DEF Phase, Starts, StartsWith
    <3>2. CASE s \in Asking
      <4>1. Starts(s, "readPrior")
        BY <3>2, Heads
      <4>. QED BY <2>5, <2>6, <4>1 DEF Phase, Starts, StartsWith
    <3>3. CASE s \in Leaving
      <4>1. Starts(s, "closeOwn")
        BY <3>3, Heads
      <4>. QED BY <2>5, <4>1 DEF Phase, Starts, StartsWith
    <3>4. CASE s \in Correcting
      <4>1. StartsWith(s, {"correct", "correctEnd"})
        BY <3>4, Heads
      <4>. QED BY <2>5, <2>6, <2>7, <3>4, <4>1 DEF Phase, Starts, StartsWith
    <3>. QED BY <3>1, <3>2, <3>3, <3>4 DEF Begun
  <2>. QED BY <1>3, <2>1, <2>2, <2>3, <2>8, Zenon
<1>. QED BY <1>5, <1>6, <1>7, <1>8 DEF MirrorInv

LEMMA StutterMirror ==
  ASSUME LedgerInv, UNCHANGED vars
  PROVE  RowInv' /\ MirrorInv'
<1>1. /\ UNCHANGED <<teachers, periods, draft, teacherDraft, call>>
      /\ UNCHANGED <<seen, todo, candidates, disturbed>>
  BY DEF vars, dbVars, ownVars, ghostVars
<1>2. \A q : PeriodsOf(q)' = PeriodsOf(q) /\ TeacherOf(q)' = TeacherOf(q)
  BY <1>1, SameViews DEF Untouched
<1>3. RowInv'
  BY <1>1, <1>2 DEF LedgerInv, RowInv, RowsApart, InFlight
<1>4. Alone' /\ OnePeriodEach' /\ RelationshipMirrored'
  BY <1>1 DEF LedgerInv, MirrorInv, Alone, OnePeriodEach, RelationshipMirrored, InFlight
<1>5. ASSUME NEW q \in Requests, Undisturbed(q)'
      PROVE  Phase(call'[q], TeacherOf(q)', PeriodsOf(q)', todo'[q], candidates'[q], seen'[q])
  <2>1. Undisturbed(q)
    BY <1>1, <1>5 DEF Undisturbed, InFlight
  <2>2. Phase(call[q], TeacherOf(q), PeriodsOf(q), todo[q], candidates[q], seen[q])
    BY <2>1 DEF LedgerInv, MirrorInv
  <2>. QED BY <1>1, <1>2, <2>2, Zenon
<1>. QED BY <1>3, <1>4, <1>5 DEF MirrorInv

LEMMA NextMirror ==
  ASSUME LedgerInv, Next
  PROVE  MirrorInv'
<1>1. PICK p \in Requests :
        \/ ReadPrior(p) \/ ReadTeacher(p) \/ ReadOpen(p)
        \/ Update(p) \/ UpdateAfterWait(p) \/ WaitForRows(p) \/ Insert(p) \/ UpdateTeacher(p)
        \/ Commit(p) \/ Rollback(p) \/ Begins(p)
  BY NextIs
<1>2. CASE Begins(p)
  BY <1>2, BeginsIs, BeginsMirror DEF LedgerInv
<1>. QED BY <1>1, <1>2, ReadPriorMirror, ReadTeacherMirror, ReadOpenMirror, UpdateMirror,
            WaitMirror, InsertMirror, UpdateTeacherMirror, CommitMirror, RollbackMirror
         DEF LedgerInv

-----------------------------------------------------------------------------
(* The first state *)

LEMMA InitInv == Init => LedgerInv
<1>. SUFFICES ASSUME Init PROVE LedgerInv
  OBVIOUS
<1>1. /\ teachers \in [Teachers -> TeacherRows]
      /\ \A p \in Requests : /\ draft[p] = << >> /\ teacherDraft[p] = {} /\ call[p] = NoCall
                             /\ seen[p] = {} /\ todo[p] = << >> /\ candidates[p] = {}
      /\ draft \in [Requests -> {<< >>}] /\ teacherDraft \in [Requests -> {{}}]
      /\ call \in [Requests -> {NoCall}] /\ seen \in [Requests -> {{}}]
      /\ todo \in [Requests -> {<< >>}] /\ candidates \in [Requests -> {{}}]
  BY DEF Init
<1>2. \A p \in Requests : ~InFlight(p)
  BY <1>1 DEF InFlight
<1>. DEFINE table(h, f) ==
              [i \in 1..Cardinality(h) |->
                LET t == CHOOSE s \in h : f[s] = i
                IN [teacher |-> t, dako |-> teachers[t].current,
                    duty |-> teachers[t].duty, open |-> TRUE]]
<1>3. PICK held \in SUBSET {t \in Teachers : teachers[t].current # NoDako} :
        \E f \in Bijection(held, 1..Cardinality(held)) : periods = table(held, f)
  BY DEF Init
<1>13. PICK id \in Bijection(held, 1..Cardinality(held)) : periods = table(held, id)
  BY <1>3
<1>. DEFINE n == Cardinality(held)
            holder(i) == CHOOSE s \in held : id[s] = i
<1>4. n \in Nat /\ n <= Cardinality(Teachers) /\ Cardinality(Teachers) \in Nat
  BY TeachersAssumption, FS_Subset, FS_CardinalityType
<1>5. id \in [held -> 1..n] /\ \A i \in 1..n : \E s \in held : id[s] = i
  BY DEF Bijection, Injection, Surjection
<1>6. \A i \in 1..n : holder(i) \in held /\ id[holder(i)] = i
  BY <1>5
<1>7. /\ DOMAIN periods = 1..n
      /\ \A i \in 1..n :
           periods[i] = [teacher |-> holder(i), dako |-> teachers[holder(i)].current,
                         duty |-> teachers[holder(i)].duty, open |-> TRUE]
  BY <1>13
<1>. HIDE DEF n, holder
<1>8. ASSUME NEW i \in 1..n
      PROVE  /\ periods[i] \in PeriodRows /\ periods[i].teacher = holder(i)
             /\ periods[i].dako = teachers[holder(i)].current
             /\ periods[i].duty = teachers[holder(i)].duty
             /\ holder(i) \in Teachers
  <2>. DEFINE t == holder(i)
  <2>1. t \in Teachers /\ teachers[t].current # NoDako
    BY <1>6
  <2>2. teachers[t] \in TeacherRows
    BY <1>1, <2>1
  <2>3. teachers[t].current \in Dakos /\ teachers[t].duty \in DutyValues
    BY <2>1, <2>2 DEF TeacherRows
  <2>4. periods[i] = [teacher |-> t, dako |-> teachers[t].current,
                      duty |-> teachers[t].duty, open |-> TRUE]
    BY <1>7
  <2>. HIDE DEF t
  <2>5. periods[i] \in PeriodRows
    BY <2>1, <2>3, <2>4 DEF PeriodRows
  <2>. QED BY <2>1, <2>4, <2>5 DEF t
<1>9. periods \in Tables
  <2>1. 1..n \in SUBSET Ids
    BY <1>4, CallsAssumption DEF Ids
  <2>2. periods = [i \in 1..n |-> periods[i]]
    BY <1>13 DEF n
  <2>3. periods \in [1..n -> PeriodRows]
    BY <1>8, <2>2
  <2>. QED BY <2>1, <2>3 DEF Tables
<1>10. PlanInv
  <2>1. Typed
    <3>1. << >> \in Shapes
      BY DEF Shapes, Ends
    <3>. QED BY <1>1, <1>9, <3>1, NoRows DEF Typed
  <2>. QED BY <1>1, <1>2, <2>1 DEF PlanInv, Clean
<1>11. RowInv
  BY <1>1, <1>2, NoRows DEF RowInv, RowsApart
<1>12. MirrorInv
  <2>1. OnePeriodEach
    BY <1>6, <1>7, <1>8 DEF OnePeriodEach
  <2>2. RelationshipMirrored
    <3>1. ASSUME NEW i \in 1..n
          PROVE  teachers[periods[i].teacher] = [current |-> periods[i].dako, duty |-> periods[i].duty]
      <4>1. teachers[holder(i)] \in TeacherRows
        BY <1>1, <1>8
      <4>2. teachers[holder(i)] = [current |-> teachers[holder(i)].current,
                                   duty |-> teachers[holder(i)].duty]
        BY <4>1 DEF TeacherRows
      <4>. QED BY <1>8, <4>2
    <3>. QED BY <1>7, <3>1 DEF RelationshipMirrored
  <2>. QED BY <1>2, <2>1, <2>2 DEF MirrorInv, Alone, Undisturbed
<1>. QED BY <1>10, <1>11, <1>12 DEF LedgerInv

-----------------------------------------------------------------------------
(* The theorems *)

LEMMA LedgerStep == LedgerInv /\ [Next]_vars => LedgerInv'
<1>. SUFFICES ASSUME LedgerInv, [Next]_vars PROVE LedgerInv'
  OBVIOUS
<1>1. CASE Next
  BY <1>1, NextPlan, NextRow, NextMirror DEF LedgerInv
<1>2. CASE UNCHANGED vars
  BY <1>2, StutterPlan, StutterMirror DEF LedgerInv
<1>. QED BY <1>1, <1>2

LEMMA LedgerKept == Spec => []LedgerInv
BY InitInv, LedgerStep, PTL DEF Spec

\* TablesAgree, for any number of requests that overlap: the rows are what the schema
\* allows, and the two columns of every teacher whose own requests never overlapped say what
\* the open period says, however often others displace that teacher meanwhile.
THEOREM MirrorIsKept == Spec => []TablesAgree
<1>1. LedgerInv => TablesAgree
  <2>. SUFFICES ASSUME LedgerInv PROVE TablesAgree
    OBVIOUS
  <2>1. DOMAIN periods \subseteq Ids /\ \A i \in DOMAIN periods : periods[i] \in PeriodRows
    BY TableFacts DEF LedgerInv, PlanInv, Typed
  <2>2. \A p \in Requests :
          /\ DOMAIN draft[p] \subseteq Ids
          /\ \A i \in DOMAIN draft[p] : draft[p][i] \in PeriodRows
    BY TableFacts DEF LedgerInv, PlanInv, Typed
  <2>3. /\ teachers \in [Teachers -> TeacherRows]
        /\ \A p \in Requests :
             /\ teacherDraft[p] \subseteq TeacherRows /\ seen[p] \subseteq TeacherRows
             /\ candidates[p] \subseteq DOMAIN PeriodsOf(p)
             /\ ~InFlight(p) => todo[p] = << >>
    BY DEF LedgerInv, PlanInv, Typed, Clean
  <2>. QED BY <2>1, <2>2, <2>3 DEF TablesAgree, TypeOK, LedgerInv, MirrorInv
<1>. QED BY <1>1, LedgerKept, PTL

\* What a commit of p does to the periods of others, as a step.
EndsOwnSlot(p) ==
  Commits(p) =>
    \A i \in DOMAIN periods :
      periods[i].open /\ ~periods'[i].open /\ periods[i].teacher # call[p].teacher
        => /\ periods[i].dako = call[p].dako
           /\ periods[i].duty \in {call[p].duty, "NONE"}

LEMMA OnlyOwnSlot ==
  ASSUME LedgerInv, [Next]_vars, NEW p \in Requests
  PROVE  EndsOwnSlot(p)
<1>. SUFFICES ASSUME Commits(p) PROVE EndsOwnSlot(p)
  BY DEF EndsOwnSlot
<1>1. dbVars' # dbVars /\ InFlight(p) /\ ~InFlight(p)'
  BY DEF Commits
<1>2. PICK q \in Requests :
        \/ ReadPrior(q) \/ ReadTeacher(q) \/ ReadOpen(q)
        \/ Update(q) \/ UpdateAfterWait(q) \/ WaitForRows(q) \/ Insert(q) \/ UpdateTeacher(q)
        \/ Commit(q) \/ Rollback(q) \/ Begins(q)
  BY <1>1, NextIs DEF vars
<1>3. Commit(q)
  <2>1. CASE Update(q) \/ UpdateAfterWait(q) \/ Insert(q)
    <3>1. Rollback(q) \/ \E rows : Wrote(q, rows)
      BY <2>1, UpdateIs, InsertIs DEF LedgerInv
    <3>. QED BY <1>1, <3>1 DEF Rollback, Wrote
  <2>2. CASE Begins(q)
    BY <1>1, <2>2, BeginsIs DEF Start, LedgerInv
  <2>3. CASE UpdateTeacher(q)
    BY <1>1, <2>3 DEF UpdateTeacher
  <2>4. CASE ReadPrior(q) \/ ReadTeacher(q) \/ ReadOpen(q) \/ WaitForRows(q) \/ Rollback(q)
    BY <1>1, <2>4 DEF ReadPrior, ReadTeacher, ReadOpen, WaitForRows, Rollback
  <2>. QED BY <1>2, <2>1, <2>2, <2>3, <2>4
<1>4. p = q
  <2>1. q # p => InFlight(p)'
    BY <1>1, <1>3, CommitIs DEF InFlight, LedgerInv, PlanInv, Typed
  <2>. QED BY <1>1, <2>1
<1>5. DraftOf(call[p], draft[p], periods)
  BY <1>1 DEF LedgerInv, RowInv
<1>6. periods' = PeriodsOf(p)
  BY <1>3, <1>4, CommitIs DEF LedgerInv
<1>7. ASSUME NEW i \in DOMAIN periods, periods[i].open, ~periods'[i].open,
             periods[i].teacher # call[p].teacher
      PROVE  periods[i].dako = call[p].dako /\ periods[i].duty \in {call[p].duty, "NONE"}
  <2>1. i \in DOMAIN draft[p] /\ periods'[i] = draft[p][i]
    BY <1>6, <1>7, ViewTyped DEF LedgerInv, PlanInv
  <2>. QED BY <1>5, <1>7, <2>1 DEF DraftOf
<1>. QED BY <1>7 DEF EndsOwnSlot

\* DisplacesOwnSlotOnly, whoever else is in flight: a request ends another teacher's period
\* only at the dako of the call, and only under the same duty or none.
THEOREM OnlyOwnSlotIsTaken == Spec => DisplacesOwnSlotOnly
<1>1. LedgerInv /\ [Next]_vars =>
        \A p \in Requests : Commits(p) =>
          \A i \in DOMAIN periods :
            periods[i].open /\ ~periods'[i].open /\ periods[i].teacher # call[p].teacher
              => /\ periods[i].dako = call[p].dako
                 /\ periods[i].duty \in {call[p].duty, "NONE"}
  BY OnlyOwnSlot DEF EndsOwnSlot
<1>. QED BY <1>1, LedgerKept, PTL DEF Spec, DisplacesOwnSlotOnly
=============================================================================
