------------------------ MODULE CampaignTimeline_proofs ------------------------
(***************************************************************************)
(* Theorems about CampaignTimeline, for every set of changes, suggestions  *)
(* and days:                                                               *)
(*   TimelineTypes      rows keep their types;                             *)
(*   TimelineLineage    an interval has one successor at most;             *)
(*   TimelinePreserved  only a correction takes a confirmed interval away; *)
(*   TimelineNoOverlap  confirmed intervals overlap only after a race;     *)
(*   TimelineEvents     events follow the intervals unless overtaken.      *)
(***************************************************************************)
EXTENDS CampaignTimeline, TLAPS

Answered == {"idle", "done", "refused"}
Pcs == Answered \union {"validate", "insert", "mark", "find", "take", "derive", "commit"}
Kinds == {"add", "confirm", "reject", "correct", "status"}
Request == [pc : Pcs, kind : Kinds \union {None}, target : Ids \union {None},
            row : Interval \union {None}, status : Statuses \union {None},
            found : SUBSET Event, new : SUBSET Event, overtaken : BOOLEAN]

Types == TypeOK /\ change \in [Changes -> Request]

Succeeds(q) == q.kind \in {"confirm", "correct"}
Resolves(q) == Succeeds(q) \/ q.kind = "reject"

\* What a request carries, by its kind; its row is not there before it commits.
Carries(q) ==
  /\ q.kind \in Kinds
  /\ q.kind = "add" => q.target = None /\ q.row \in Interval /\ q.row.supersedes = None
  /\ Succeeds(q) => /\ q.row \in Interval /\ q.row.status = "CONFIRMED"
                    /\ q.row.supersedes = q.target
  /\ q.kind = "reject" => q.row = None
  /\ q.kind = "status" => q.target = None /\ q.row = None /\ q.status \in Statuses
  /\ q.pc = "validate" => q.kind # "reject"
  /\ q.pc = "insert" => Succeeds(q)
  /\ q.pc = "mark" => q.kind # "add"
Fits(c) ==
  /\ change[c].pc # "done" => interval[c] = None
  /\ InTransaction(c) => Carries(change[c])
  /\ change[c].pc \in {"find", "take", "derive"} => Syncs(c)

\* The interval it resolves or corrects: nobody else has, unless it was overtaken.
Targets(c) ==
  LET q == change[c]
  IN InTransaction(c) /\ Resolves(q) =>
       /\ q.target \in Ids /\ interval[q.target] # None
       /\ q.kind # "correct" => interval[q.target].status # "CONFIRMED"
       /\ q.overtaken \/ ~Superseded(interval, q.target)

\* Its successor's column is unique.
Free(c) == Inserted(c) =>
  /\ ~Superseded(interval, change[c].target)
  /\ \A o \in Others(c) : Inserted(o) => change[o].target # change[c].target

\* What it has validated holds until it is overtaken.
Excluded(c) == IF change[c].kind = "correct" THEN change[c].target ELSE None
Checked(c) ==
  LET q == change[c]
  IN InTransaction(c) /\ q.pc # "validate" /\ q.row # None /\ ~q.overtaken =>
       (q.row.status = "CONFIRMED" => ~Conflict(q.row, Excluded(c)))

\* And so does what it has read of the events and derived from the intervals.
Derived(c) == {[by |-> c, is |-> e] : e \in EventsOf(View(c), StatusIn(c))}
Reads(c) ==
  LET q == change[c]
  IN InTransaction(c) =>
     IF Syncs(c)
     THEN ~q.overtaken => /\ q.pc \in {"take", "derive", "commit"} =>
                               q.found = events /\ q.status = StatusIn(c)
                          /\ q.pc = "commit" => q.new = Derived(c)
     ELSE q.found = {} /\ q.new = {}

\* A row another one supersedes is there.
Rows == \A i, j \in Ids : Supersedes(interval, j, i) => interval[i] # None

Sound(c) == Fits(c) /\ Targets(c) /\ Free(c) /\ Checked(c) /\ Reads(c)
IInv == /\ Types /\ Rows /\ LineageIsLinear /\ NoOverlapUnlessRaced /\ EventsAgree
        /\ \A c \in Changes : Sound(c)

-----------------------------------------------------------------------------
(* Rows and events *)

\* Interval rows that agree on what is confirmed and on what supersedes what.
Authority(rows, i) == rows[i] # None /\ rows[i].status = "CONFIRMED"
Alike(rows1, rows2) == \A i \in Ids :
  /\ Authority(rows1, i) \/ Authority(rows2, i) => rows1[i] = rows2[i]
  /\ \A j \in Ids : Supersedes(rows1, i, j) <=> Supersedes(rows2, i, j)

LEMMA AlikeConfirmed ==
  ASSUME NEW rows1, NEW rows2, Alike(rows1, rows2)
  PROVE  /\ Confirmed(rows1) = Confirmed(rows2)
         /\ \A i \in Confirmed(rows1) : rows1[i] = rows2[i]
<1>1. \A i \in Ids : Superseded(rows1, i) <=> Superseded(rows2, i) BY DEF Alike, Superseded
<1>2. \A i \in Ids : Authority(rows1, i) \/ Authority(rows2, i) => rows1[i] = rows2[i] BY DEF Alike
<1>3. \A i \in Ids : Authority(rows1, i) <=> Authority(rows2, i) BY <1>2 DEF Authority
<1> QED BY <1>1, <1>2, <1>3 DEF Confirmed, Authority

\* The same events are derived from them.
LEMMA AlikeEvents ==
  ASSUME NEW rows1, NEW rows2, Alike(rows1, rows2), NEW s
  PROVE  EventsOf(rows1, s) = EventsOf(rows2, s)
<1> DEFINE I == Confirmed(rows1)
<1>1. I = Confirmed(rows2) /\ \A i \in I : rows1[i] = rows2[i] BY AlikeConfirmed
<1>2. \A i \in I : (\A j \in I : rows1[i].start <= rows1[j].start)
                   <=> (\A j \in I : rows2[i].start <= rows2[j].start)
  BY <1>1
<1>3. \A i \in I : (\A j \in I : rows1[j].start <= rows1[i].start)
                   <=> (\A j \in I : rows2[j].start <= rows2[i].start)
  BY <1>1
<1>4. \A i \in I : StartOf(rows1, i) = StartOf(rows2, i) BY <1>1, <1>2 DEF StartOf
<1>5. \A i \in I : EndOf(rows1, i, s) = EndOf(rows2, i, s) BY <1>1, <1>3 DEF EndOf
<1>6. {i \in I : rows1[i].end # Open} = {i \in Confirmed(rows2) : rows2[i].end # Open} BY <1>1
<1>7. {StartOf(rows1, i) : i \in I} = {StartOf(rows2, i) : i \in Confirmed(rows2)} BY <1>1, <1>4
<1> DEFINE E1 == {i \in I : rows1[i].end # Open}
           E2 == {i \in Confirmed(rows2) : rows2[i].end # Open}
<1>8. {EndOf(rows1, i, s) : i \in E1} = {EndOf(rows2, i, s) : i \in E2}
  <2>1. E1 = E2 /\ \A i \in E1 : EndOf(rows1, i, s) = EndOf(rows2, i, s) BY <1>5, <1>6
  <2> HIDE DEF E1, E2
  <2> QED BY <2>1
<1> QED BY <1>7, <1>8 DEF EventsOf

\* Events are of confirmed intervals and of their days.
LEMMA EventsType ==
  ASSUME NEW rows \in [Ids -> Interval \union {None}], NEW s
  PROVE  EventsOf(rows, s) \subseteq Lifecycle
<1>1. \A i \in Confirmed(rows) : rows[i] \in Interval BY DEF Confirmed
<1>2. \A i \in Confirmed(rows) : i \in Ids /\ rows[i].start \in Days
                                 /\ (rows[i].end # Open => rows[i].end \in Days)
  BY <1>1 DEF Interval, Confirmed
<1>3. \A i \in Confirmed(rows) : StartOf(rows, i) \in Lifecycle BY <1>2 DEF StartOf, Lifecycle
<1>4. \A i \in Confirmed(rows) : rows[i].end # Open => EndOf(rows, i, s) \in Lifecycle
  BY <1>2 DEF EndOf, Lifecycle
<1> QED BY <1>3, <1>4 DEF EventsOf

-----------------------------------------------------------------------------
(* Init *)

LEMMA InitIInv == Init => IInv
<1> SUFFICES ASSUME Init PROVE IInv
  OBVIOUS
<1>1. Idle \in Request BY DEF Idle, Request, Pcs, Answered
<1>2. \A c \in Changes : change[c] = Idle /\ change[c].pc = "idle" /\ ~InTransaction(c) /\ ~Inserted(c)
  BY DEF Init, Idle, InTransaction, Inserted
<1>3. Types BY <1>1, <1>2 DEF Init, Types, TypeOK, Statuses
<1>4. \A i \in Ids : interval[i] = None BY DEF Init
<1>5. Confirmed(interval) = {} /\ \A i, j \in Ids : ~Supersedes(interval, j, i)
  BY <1>4 DEF Confirmed, Supersedes
<1>6. Rows /\ LineageIsLinear /\ NoOverlapUnlessRaced
  BY <1>5 DEF Rows, LineageIsLinear, NoOverlapUnlessRaced, Superseded
<1>7. EventsAgree BY <1>5 DEF Init, EventsAgree, EventsOf
<1>8. \A c \in Changes : Sound(c)
  BY <1>2, <1>4 DEF Sound, Fits, Targets, Free, Checked, Reads, Ids
<1> QED BY <1>3, <1>6, <1>7, <1>8 DEF IInv
-----------------------------------------------------------------------------
(* Steps of one request before its commit *)

\* What is said of a request depends on nothing but it and the rows.
LEMMA OthersKeep ==
  ASSUME IInv, NEW c \in Changes, NEW q,
         change' = [change EXCEPT ![c] = q], UNCHANGED <<campaign, interval, events>>,
         NEW o \in Others(c)
  PROVE  Fits(o)' /\ Targets(o)' /\ Checked(o)' /\ Reads(o)'
<1>1. o \in Changes /\ o # c BY DEF Others
<1>2. change \in [Changes -> Request] BY DEF IInv, Types
<1>3. change'[o] = change[o] BY <1>1, <1>2
<1>4. interval' = interval /\ campaign' = campaign /\ events' = events OBVIOUS
<1>5. Fits(o) /\ Targets(o) /\ Checked(o) /\ Reads(o) BY <1>1 DEF IInv, Sound
<1>6. View(o)' = View(o) /\ StatusIn(o)' = StatusIn(o) BY <1>3, <1>4 DEF View, StatusIn
<1>7. Fits(o)' BY <1>3, <1>4, <1>5 DEF Fits, InTransaction, Syncs
<1>8. Targets(o)'
  BY <1>3, <1>4, <1>5 DEF Targets, InTransaction, Resolves, Succeeds, Superseded, Supersedes
<1>9. Checked(o)'
  BY <1>3, <1>4, <1>5 DEF Checked, InTransaction, Conflict, Excluded, Confirmed, Superseded, Supersedes
<1>10. Derived(o)' = Derived(o)
  BY <1>6 DEF Derived, EventsOf, StartOf, EndOf, Confirmed, Superseded, Supersedes
<1>11. Reads(o)' BY <1>3, <1>4, <1>5, <1>6, <1>10 DEF Reads, InTransaction, Syncs
<1> QED BY <1>7, <1>8, <1>9, <1>11

LEMMA LocalStep ==
  ASSUME IInv, NEW c \in Changes, NEW q \in Request, Set(c, q),
         Fits(c)', Targets(c)', Free(c)', Checked(c)', Reads(c)'
  PROVE  IInv'
<1>1. change' = [change EXCEPT ![c] = q] /\ UNCHANGED <<campaign, interval, events, raced, stale>>
  BY DEF Set
<1>2. change \in [Changes -> Request] BY DEF IInv, Types
<1>3. change' \in [Changes -> Request] BY <1>1, <1>2
<1>4. Types' BY <1>1, <1>3 DEF IInv, Types, TypeOK
<1>5. Rows' BY <1>1 DEF IInv, Rows, Supersedes
<1>6. LineageIsLinear' BY <1>1 DEF IInv, LineageIsLinear, Superseded, Supersedes
<1>7. NoOverlapUnlessRaced'
  BY <1>1 DEF IInv, NoOverlapUnlessRaced, Confirmed, Superseded, Supersedes
<1>8. EventsAgree'
  BY <1>1 DEF IInv, EventsAgree, EventsOf, StartOf, EndOf, Confirmed, Superseded, Supersedes
<1>9. \A o \in Others(c) : Free(o)'
  <2> SUFFICES ASSUME NEW o \in Others(c), Inserted(o)' PROVE Free(o)'
    BY DEF Free
  <2>1. o \in Changes /\ o # c BY DEF Others
  <2>2. \A x \in Others(c) : change'[x] = change[x] BY <1>1, <1>2 DEF Others
  <2>3. \A x \in Others(c) : Inserted(x)' <=> Inserted(x) BY <2>2 DEF Inserted
  <2>4. Free(o) /\ Inserted(o) BY <2>1, <2>3 DEF IInv, Sound
  <2>5. ~Superseded(interval, change[o].target)' BY <1>1, <2>2, <2>4 DEF Free, Superseded, Supersedes
  <2>6. ASSUME NEW x \in Others(o), Inserted(x)' PROVE change'[x].target # change'[o].target
    <3>1. CASE x = c BY <2>1, <3>1, <2>6 DEF Free, Others
    <3>2. CASE x # c
      <4>1. x \in Others(c) BY <3>2 DEF Others
      <4> QED BY <2>2, <2>3, <2>4, <2>6, <4>1 DEF Free
    <3> QED BY <3>1, <3>2
  <2> QED BY <2>5, <2>6 DEF Free, Others
<1>10. \A o \in Changes : Sound(o)'
  <2>1. Sound(c)' BY DEF Sound
  <2>2. \A o \in Others(c) : Sound(o)' BY <1>1, <1>9, OthersKeep DEF Sound
  <2> QED BY <2>1, <2>2 DEF Others
<1> QED BY <1>4, <1>5, <1>6, <1>7, <1>8, <1>10 DEF IInv

-----------------------------------------------------------------------------
(* The owner's requests *)

LEMMA BeginStep ==
  ASSUME IInv, NEW c \in Changes, NEW q \in Request, NEW pc \in {"validate", "mark"},
         Begin(c, q, pc), Carries([q EXCEPT !.pc = pc]), q.found = {}, q.new = {},
         pc = "mark" => q.row = None,
         ~q.overtaken,
         Resolves(q) =>
           /\ q.target \in Ids /\ interval[q.target] # None
           /\ q.kind # "correct" => interval[q.target].status # "CONFIRMED"
           /\ ~Superseded(interval, q.target)
  PROVE  IInv'
<1> DEFINE n == [q EXCEPT !.pc = pc]
<1>1. change[c].pc = "idle" /\ Set(c, n) BY DEF Begin
<1>2. n \in Request /\ n.pc = pc BY DEF Request, Pcs
<1>3. change'[c] = n /\ UNCHANGED <<interval, campaign, events>>
  BY <1>1 DEF Set, IInv, Types
<1>4. n.kind = q.kind /\ n.target = q.target /\ n.found = {} /\ n.new = {} /\ n.row = q.row
      /\ ~n.overtaken /\ n.status = q.status
  BY DEF Request
<1>5. interval[c] = None BY <1>1 DEF IInv, Sound, Fits
<1>6. Carries(n) OBVIOUS
<1> HIDE DEF n
<1>7. Fits(c)' BY <1>2, <1>3, <1>5, <1>6 DEF Fits
<1>8. Targets(c)' BY <1>3, <1>4 DEF Targets, Resolves, Succeeds, Superseded, Supersedes
<1>9. Free(c)'
  <2>1. CASE pc = "validate" BY <1>2, <1>3, <2>1 DEF Free, Inserted
  <2>2. CASE pc = "mark"
    <3>1. ~Inserted(c)' BY <1>2, <1>3, <1>4, <1>6, <2>2, TimelineConstants DEF Carries, Succeeds, Inserted
    <3> QED BY <3>1 DEF Free
  <2> QED BY <2>1, <2>2
<1>10. Checked(c)' BY <1>2, <1>3, <1>4 DEF Checked
<1>11. Reads(c)' BY <1>2, <1>3, <1>4 DEF Reads
<1> QED BY <1>1, <1>2, <1>7, <1>8, <1>9, <1>10, <1>11, LocalStep

LEMMA RowType ==
  ASSUME NEW w \in Spans, NEW s \in Confirmation, NEW i \in Ids \union {None}
  PROVE  Row(w[1], w[2], s, i) \in Interval
BY DEF Row, Interval, Spans

LEMMA BeginSteps ==
  ASSUME IInv, NEW c \in Changes,
         Add(c) \/ ConfirmSuggestion(c) \/ RejectSuggestion(c) \/ Correct(c) \/ UpdateCampaign(c)
  PROVE  IInv'
<1>1. Idle \in Request /\ Idle.found = {} /\ Idle.new = {} /\ ~Idle.overtaken
  BY DEF Idle, Request, Pcs, Answered
<1>2. CASE Add(c)
  <2>1. PICK w \in Spans, s \in {"CONFIRMED", "SUGGESTED"} :
          Begin(c, [Idle EXCEPT !.kind = "add", !.row = Row(w[1], w[2], s, None)], "validate")
    BY <1>2 DEF Add
  <2> DEFINE row == Row(w[1], w[2], s, None)
             q == [Idle EXCEPT !.kind = "add", !.row = row]
  <2>2. row \in Interval /\ row.supersedes = None BY RowType DEF Confirmation, Row
  <2> HIDE DEF row
  <2>3. q \in Request BY <1>1, <2>2 DEF Request, Kinds
  <2>4. Carries([q EXCEPT !.pc = "validate"]) BY <1>1, <2>2 DEF Carries, Succeeds, Kinds, Idle
  <2>5. q.kind = "add" /\ q.found = {} /\ q.new = {} /\ ~q.overtaken BY <1>1 DEF Idle
  <2>6. Begin(c, q, "validate") BY <2>1 DEF row
  <2> HIDE DEF q
  <2> QED BY <2>3, <2>4, <2>5, <2>6, BeginStep DEF Resolves, Succeeds
<1>3. CASE ConfirmSuggestion(c)
  <2>1. PICK i \in Ids, w \in Spans :
          /\ Resolvable(i)
          /\ Begin(c, [Idle EXCEPT !.kind = "confirm", !.target = i,
                                   !.row = Row(w[1], w[2], "CONFIRMED", i)], "validate")
    BY <1>3 DEF ConfirmSuggestion
  <2> DEFINE row == Row(w[1], w[2], "CONFIRMED", i)
             q == [Idle EXCEPT !.kind = "confirm", !.target = i, !.row = row]
  <2>2. row \in Interval /\ row.supersedes = i /\ row.status = "CONFIRMED"
    BY RowType DEF Confirmation, Row
  <2>3. interval[i] # None /\ interval[i].status # "CONFIRMED" /\ ~Superseded(interval, i)
    BY <2>1 DEF Resolvable
  <2> HIDE DEF row
  <2>4. q \in Request BY <1>1, <2>2 DEF Request, Kinds
  <2>5. Carries([q EXCEPT !.pc = "validate"]) BY <1>1, <2>2 DEF Carries, Succeeds, Kinds, Idle
  <2>6. q.kind = "confirm" /\ q.target = i /\ q.found = {} /\ q.new = {} /\ ~q.overtaken
    BY <1>1 DEF Idle
  <2>7. Begin(c, q, "validate") BY <2>1 DEF row
  <2> HIDE DEF q
  <2> QED BY <2>3, <2>4, <2>5, <2>6, <2>7, BeginStep
<1>4. CASE RejectSuggestion(c)
  <2>1. PICK i \in Ids : /\ Resolvable(i)
                         /\ Begin(c, [Idle EXCEPT !.kind = "reject", !.target = i], "mark")
    BY <1>4 DEF RejectSuggestion
  <2> DEFINE q == [Idle EXCEPT !.kind = "reject", !.target = i]
  <2>2. interval[i] # None /\ interval[i].status # "CONFIRMED" /\ ~Superseded(interval, i)
    BY <2>1 DEF Resolvable
  <2>3. q \in Request BY <1>1 DEF Request, Kinds
  <2>4. Carries([q EXCEPT !.pc = "mark"]) BY <1>1 DEF Carries, Succeeds, Kinds, Idle
  <2>5. /\ q.kind = "reject" /\ q.target = i /\ q.found = {} /\ q.new = {} /\ ~q.overtaken
        /\ q.row = None
    BY <1>1 DEF Idle
  <2>6. Begin(c, q, "mark") BY <2>1
  <2> HIDE DEF q
  <2> QED BY <2>2, <2>3, <2>4, <2>5, <2>6, BeginStep
<1>5. CASE Correct(c)
  <2>1. PICK i \in Confirmed(interval), w \in Spans :
          Begin(c, [Idle EXCEPT !.kind = "correct", !.target = i,
                                !.row = Row(w[1], w[2], "CONFIRMED", i)], "validate")
    BY <1>5 DEF Correct
  <2> DEFINE row == Row(w[1], w[2], "CONFIRMED", i)
             q == [Idle EXCEPT !.kind = "correct", !.target = i, !.row = row]
  <2>2. i \in Ids /\ interval[i] # None /\ ~Superseded(interval, i) BY DEF Confirmed
  <2>3. row \in Interval /\ row.supersedes = i /\ row.status = "CONFIRMED"
    BY <2>2, RowType DEF Confirmation, Row
  <2> HIDE DEF row
  <2>4. q \in Request BY <1>1, <2>2, <2>3 DEF Request, Kinds
  <2>5. Carries([q EXCEPT !.pc = "validate"]) BY <1>1, <2>3 DEF Carries, Succeeds, Kinds, Idle
  <2>6. q.kind = "correct" /\ q.target = i /\ q.found = {} /\ q.new = {} /\ ~q.overtaken
    BY <1>1 DEF Idle
  <2>7. Begin(c, q, "validate") BY <2>1 DEF row
  <2> HIDE DEF q
  <2> QED BY <2>2, <2>4, <2>5, <2>6, <2>7, BeginStep
<1>6. CASE UpdateCampaign(c)
  <2>1. PICK s \in Statuses : Begin(c, [Idle EXCEPT !.kind = "status", !.status = s],
                                    IF s = campaign THEN "mark" ELSE "validate")
    BY <1>6 DEF UpdateCampaign
  <2> DEFINE q == [Idle EXCEPT !.kind = "status", !.status = s]
             pc == IF s = campaign THEN "mark" ELSE "validate"
  <2>2. q \in Request BY <1>1 DEF Request, Kinds
  <2>3. Carries([q EXCEPT !.pc = pc]) BY <1>1 DEF Carries, Succeeds, Kinds, Idle
  <2>4. q.kind = "status" /\ q.found = {} /\ q.new = {} /\ ~q.overtaken /\ q.row = None
    BY <1>1 DEF Idle
  <2>5. Begin(c, q, pc) /\ pc \in {"validate", "mark"} BY <2>1
  <2> HIDE DEF q, pc
  <2> QED BY <2>2, <2>3, <2>4, <2>5, BeginStep DEF Resolves, Succeeds
<1> QED BY <1>2, <1>3, <1>4, <1>5, <1>6

-----------------------------------------------------------------------------
(* Statements of a request before its commit *)

LEMMA RefuseStep ==
  ASSUME IInv, NEW c \in Changes, InTransaction(c), Refuse(c)
  PROVE  IInv'
<1> DEFINE n == [Idle EXCEPT !.pc = "refused"]
<1>1. n \in Request /\ n.pc = "refused" BY DEF Idle, Request, Pcs, Answered
<1>2. Set(c, n) BY DEF Refuse
<1> HIDE DEF n
<1>3. change'[c] = n /\ interval' = interval BY <1>2 DEF Set, IInv, Types
<1>4. interval[c] = None BY DEF InTransaction, IInv, Sound, Fits
<1>5. ~InTransaction(c)' /\ ~Inserted(c)' BY <1>1, <1>3 DEF InTransaction, Inserted
<1>6. Fits(c)' BY <1>1, <1>3, <1>4, <1>5 DEF Fits
<1>7. Targets(c)' /\ Free(c)' /\ Checked(c)' /\ Reads(c)'
  BY <1>5 DEF Targets, Free, Checked, Reads
<1> QED BY <1>1, <1>2, <1>6, <1>7, LocalStep

LEMMA OnwardStep ==
  ASSUME IInv, NEW c \in Changes, InTransaction(c), NEW q \in Request, Set(c, q),
         q.kind = change[c].kind, q.target = change[c].target, q.row = change[c].row,
         q.overtaken = change[c].overtaken,
         q.kind = "status" => q.status = change[c].status,
         q.pc \in {"insert", "mark", "find", "take", "derive", "commit"},
         q.pc = "insert" => Succeeds(q),
         q.pc = "mark" => q.kind # "add",
         q.pc \in {"find", "take", "derive"} => Syncs(c),
         Inserted(c) \/ Free(c)',
         change[c].pc # "validate" \/ Checked(c)',
         Reads(c)'
  PROVE  IInv'
<1>1. change'[c] = q /\ UNCHANGED <<campaign, interval, events>>
  BY DEF Set, IInv, Types
<1>2. Sound(c) BY DEF IInv
<1>3. InTransaction(c)' BY <1>1 DEF InTransaction
<1>4. Carries(q) BY <1>2 DEF Sound, Fits, Carries, Succeeds
<1>5. Syncs(c)' <=> Syncs(c) BY <1>1 DEF Syncs
<1>6. interval[c] = None BY <1>2 DEF Sound, Fits, InTransaction
<1>7. Fits(c)' BY <1>1, <1>4, <1>5, <1>6 DEF Fits
<1>8. Targets(c)' BY <1>1, <1>2 DEF Sound, Targets, Resolves, Succeeds, Superseded, Supersedes
<1>9. Free(c)'
  <2> SUFFICES ASSUME Inserted(c), Inserted(c)' PROVE Free(c)'
    BY DEF Free
  <2>1. \A o \in Others(c) : change'[o] = change[o] BY DEF Set, IInv, Types, Others
  <2>2. \A o \in Others(c) : Inserted(o)' <=> Inserted(o) BY <2>1 DEF Inserted
  <2>3. Free(c) BY <1>2 DEF Sound
  <2> QED BY <1>1, <2>1, <2>2, <2>3 DEF Free, Superseded, Supersedes, Others
<1>10. Checked(c)'
  <2>1. CASE change[c].pc # "validate"
    <3>1. q.row = change[c].row /\ q.overtaken = change[c].overtaken /\ Checked(c)
      BY <1>2 DEF Sound
    <3>2. Excluded(c)' = Excluded(c) BY <1>1 DEF Excluded
    <3>3. \A i, x : Conflict(i, x)' <=> Conflict(i, x)
      BY <1>1 DEF Conflict, Confirmed, Superseded, Supersedes
    <3> QED BY <1>1, <2>1, <3>1, <3>2, <3>3 DEF Checked
  <2> QED BY <2>1
<1> QED BY <1>7, <1>8, <1>9, <1>10, LocalStep

LEMMA GotoStep ==
  ASSUME IInv, NEW c \in Changes, InTransaction(c),
         NEW pc \in {"insert", "mark", "find", "commit"}, Goto(c, pc),
         pc = "insert" => Succeeds(change[c]),
         pc = "mark" => change[c].kind # "add",
         pc = "find" => Syncs(c),
         pc = "commit" => ~Syncs(c),
         Inserted(c) \/ Free(c)',
         change[c].pc # "validate" \/ Checked(c)'
  PROVE  IInv'
<1> DEFINE n == [change[c] EXCEPT !.pc = pc]
<1>1. change[c] \in Request BY DEF IInv, Types
<1>2. /\ n \in Request /\ n.pc = pc /\ n.kind = change[c].kind /\ n.target = change[c].target
      /\ n.row = change[c].row /\ n.status = change[c].status /\ n.found = change[c].found
      /\ n.new = change[c].new /\ n.overtaken = change[c].overtaken
  BY <1>1 DEF Request, Pcs
<1>3. Set(c, n) BY DEF Goto
<1> HIDE DEF n
<1>4. change'[c] = n BY <1>3 DEF Set, IInv, Types
<1>5. Syncs(c)' <=> Syncs(c) BY <1>2, <1>4 DEF Syncs
<1>6. Reads(c)'
  <2>1. Reads(c) BY DEF IInv, Sound
  <2>2. CASE Syncs(c) BY <1>2, <1>4, <1>5, <2>2 DEF Reads
  <2>3. CASE ~Syncs(c) BY <1>2, <1>4, <1>5, <2>1, <2>3 DEF Reads
  <2> QED BY <2>2, <2>3
<1> QED BY <1>2, <1>3, <1>6, OnwardStep DEF Succeeds

LEMMA ValidateStep == ASSUME IInv, NEW c \in Changes, Validate(c) PROVE IInv'
<1> DEFINE q == change[c]
           refused == \/ q.kind = "status" /\ ~StatusAllowed(q.status)
                      \/ /\ q.kind # "status" /\ q.row.status = "CONFIRMED"
                         /\ Conflict(q.row, IF q.kind = "correct" THEN q.target ELSE None)
           pc == IF q.kind = "status" THEN "mark"
                 ELSE IF q.target # None THEN "insert"
                 ELSE IF Syncs(c) THEN "find" ELSE "commit"
<1>1. q.pc = "validate" /\ (IF refused THEN Refuse(c) ELSE Goto(c, pc))
  BY DEF Validate
<1>2. InTransaction(c) /\ ~Inserted(c) BY <1>1 DEF InTransaction, Inserted
<1>3. CASE refused BY <1>1, <1>2, <1>3, RefuseStep
<1>4. CASE ~refused
  <2>1. Carries(q) /\ Targets(c) BY <1>2 DEF IInv, Sound, Fits
  <2>2. pc \in {"insert", "mark", "find", "commit"} OBVIOUS
  <2>3. q.kind = "status" \/ q.target = None => ~Succeeds(q)
    BY <1>2, <2>1, TimelineConstants DEF Targets, Resolves, Succeeds
  <2>4. q.target # None => Succeeds(q) \/ q.kind = "status"
    BY <1>1, <2>1 DEF Carries, Kinds, Succeeds
  <2>5. change'[c] = [q EXCEPT !.pc = pc] /\ interval' = interval
    BY <1>1, <1>4 DEF Goto, Set, IInv, Types
  <2>6. q \in Request BY DEF IInv, Types
  <2>7. change'[c].pc = pc /\ change'[c].kind = q.kind /\ change'[c].row = q.row
        /\ change'[c].target = q.target
    BY <2>5, <2>6 DEF Request
  <2>8. Free(c)'
    <3>1. ~Inserted(c)' BY <2>3, <2>7 DEF Inserted, Succeeds
    <3> QED BY <3>1 DEF Free
  <2>9. Checked(c)'
    <3>1. q.row # None => q.kind # "status" BY <2>1 DEF Carries
    <3>2. Conflict(q.row, Excluded(c)) <=> Conflict(q.row, Excluded(c))'
      BY <2>5, <2>7 DEF Conflict, Excluded, Confirmed, Superseded, Supersedes
    <3>3. q.row # None /\ q.row.status = "CONFIRMED" => ~Conflict(q.row, Excluded(c))
      BY <1>4, <3>1 DEF Excluded
    <3> QED BY <2>7, <3>2, <3>3 DEF Checked
  <2>10. pc = "mark" => q.kind # "add" BY <2>1 DEF Carries
  <2>11. /\ pc = "insert" => Succeeds(q)
         /\ pc = "find" => Syncs(c)
         /\ pc = "commit" => ~Syncs(c)
    BY <2>4
  <2>12. Goto(c, pc) BY <1>1, <1>4
  <2> HIDE DEF pc, q, refused
  <2> QED BY <1>2, <2>2, <2>8, <2>9, <2>10, <2>11, <2>12, GotoStep DEF q
<1> QED BY <1>3, <1>4

LEMMA InsertStep == ASSUME IInv, NEW c \in Changes, Insert(c) PROVE IInv'
<1>1. change[c].pc = "insert" /\ InTransaction(c) BY DEF Insert, InTransaction
<1>2. CASE Superseded(interval, change[c].target) BY <1>1, <1>2, RefuseStep DEF Insert
<1>3. CASE ~Superseded(interval, change[c].target)
  <2>1. Goto(c, "mark") BY <1>3 DEF Insert
  <2>2. /\ change' = [change EXCEPT ![c] = [change[c] EXCEPT !.pc = "mark"]]
        /\ interval' = interval /\ change \in [Changes -> Request]
    BY <2>1 DEF Goto, Set, IInv, Types
  <2>3. change'[c].target = change[c].target BY <2>2 DEF Request
  <2>4. \A o \in Others(c) : change'[o] = change[o] /\ (Inserted(o)' <=> Inserted(o))
    BY <2>2 DEF Others, Inserted
  <2>5. \A o \in Others(c) : Inserted(o) => change[o].target # change[c].target BY DEF Insert
  <2>6. Free(c)' BY <1>3, <2>2, <2>3, <2>4, <2>5 DEF Free, Superseded, Supersedes, Others
  <2>7. Succeeds(change[c]) BY <1>1 DEF IInv, Sound, Fits, Carries
  <2> QED BY <1>1, <2>1, <2>6, <2>7, GotoStep DEF Succeeds
<1> QED BY <1>2, <1>3

LEMMA MarkStep == ASSUME IInv, NEW c \in Changes, Mark(c) PROVE IInv'
<1>1. change[c].pc = "mark" /\ InTransaction(c) BY DEF Mark, InTransaction
<1> DEFINE pc == IF Syncs(c) THEN "find" ELSE "commit"
<1>2. Goto(c, pc) BY DEF Mark
<1>3. change[c] \in Request /\ change'[c] = [change[c] EXCEPT !.pc = pc]
  BY <1>2 DEF Goto, Set, IInv, Types
<1>4. Inserted(c) \/ Free(c)'
  <2>1. ~Inserted(c) => ~Inserted(c)' BY <1>1, <1>3 DEF Inserted, Request
  <2> QED BY <2>1 DEF Free
<1> QED BY <1>1, <1>2, <1>4, GotoStep

\* What the transaction sees depends on what it writes and on the rows.
LEMMA SameView ==
  ASSUME NEW c \in Changes, UNCHANGED <<campaign, interval>>,
         change'[c].kind = change[c].kind, change'[c].target = change[c].target,
         change'[c].row = change[c].row
  PROVE  View(c)' = View(c)
BY DEF View

LEMMA FindEventsStep == ASSUME IInv, NEW c \in Changes, FindEvents(c) PROVE IInv'
<1> DEFINE q == [change[c] EXCEPT !.pc = "take", !.found = events, !.status = StatusIn(c)]
<1>1. change[c].pc = "find" /\ InTransaction(c) /\ Set(c, q)
  BY DEF FindEvents, InTransaction
<1>2. change[c] \in Request /\ TypeOK BY DEF IInv, Types
<1>3. Fits(c) /\ Syncs(c) BY <1>1 DEF IInv, Sound, Fits
<1>4. StatusIn(c) \in Statuses BY <1>1, <1>2, <1>3 DEF StatusIn, Fits, Carries, TypeOK
<1>5. /\ q \in Request /\ q.pc = "take" /\ q.kind = change[c].kind /\ q.target = change[c].target
      /\ q.row = change[c].row /\ q.status = StatusIn(c) /\ q.found = events
      /\ q.overtaken = change[c].overtaken
  BY <1>2, <1>4 DEF Request, Pcs, TypeOK
<1> HIDE DEF q
<1>6. change'[c] = q /\ UNCHANGED <<campaign, events>> BY <1>1 DEF Set, IInv, Types
<1>7. StatusIn(c)' = StatusIn(c) BY <1>5, <1>6 DEF StatusIn
<1>8. Syncs(c)' BY <1>3, <1>5, <1>6 DEF Syncs
<1>9. Reads(c)' BY <1>5, <1>6, <1>7, <1>8 DEF Reads
<1>10. Inserted(c) \/ Free(c)'
  <2>1. ~Inserted(c) => ~Inserted(c)' BY <1>1, <1>5, <1>6 DEF Inserted
  <2> QED BY <2>1 DEF Free
<1> QED BY <1>1, <1>3, <1>5, <1>9, <1>10, OnwardStep DEF StatusIn

LEMMA TakeEventsStep == ASSUME IInv, NEW c \in Changes, TakeEvents(c) PROVE IInv'
<1> DEFINE q == [change[c] EXCEPT !.pc = "derive", !.found = @ \intersect events]
<1>1. change[c].pc = "take" /\ InTransaction(c) /\ Set(c, q)
  BY DEF TakeEvents, InTransaction
<1>2. change[c] \in Request /\ TypeOK BY DEF IInv, Types
<1>3. Fits(c) /\ Syncs(c) /\ Reads(c) BY <1>1 DEF IInv, Sound, Fits
<1>4. /\ q \in Request /\ q.pc = "derive" /\ q.kind = change[c].kind /\ q.target = change[c].target
      /\ q.row = change[c].row /\ q.status = change[c].status
      /\ q.found = change[c].found \intersect events /\ q.overtaken = change[c].overtaken
  BY <1>2 DEF Request, Pcs
<1> HIDE DEF q
<1>5. change'[c] = q /\ UNCHANGED <<campaign, events>> BY <1>1 DEF Set, IInv, Types
<1>6. StatusIn(c)' = StatusIn(c) BY <1>4, <1>5 DEF StatusIn
<1>7. Syncs(c)' BY <1>3, <1>4, <1>5 DEF Syncs
<1>8. Reads(c)' BY <1>1, <1>3, <1>4, <1>5, <1>6, <1>7 DEF Reads
<1>9. Inserted(c) \/ Free(c)'
  <2>1. ~Inserted(c) => ~Inserted(c)' BY <1>1, <1>4, <1>5 DEF Inserted
  <2> QED BY <2>1 DEF Free
<1> QED BY <1>1, <1>3, <1>4, <1>8, <1>9, OnwardStep

\* What a transaction sees: its row, its mark, and everything else as it is.
LEMMA ViewRows ==
  ASSUME IInv, NEW c \in Changes, InTransaction(c)
  PROVE  LET q == change[c]
         IN /\ View(c) \in [Ids -> Interval \union {None}]
            /\ View(c)[c] = q.row
            /\ \A i \in Ids \ {c} :
                 IF Resolves(q) /\ i = q.target
                 THEN /\ interval[i] # None /\ View(c)[i] \in Interval
                      /\ View(c)[i].supersedes = interval[i].supersedes
                      /\ View(c)[i].status = IF q.kind = "reject" THEN "REJECTED" ELSE "SUPERSEDED"
                 ELSE View(c)[i] = interval[i]
<1> DEFINE q == change[c]
<1>1. Fits(c) /\ Targets(c) /\ q \in Request BY DEF IInv, Types, Sound
<1>2. interval \in [Ids -> Interval \union {None}] BY DEF IInv, Types, TypeOK
<1>3. c \in Ids /\ interval[c] = None BY <1>1 DEF Fits, InTransaction, Ids
<1>4. Carries(q) BY <1>1 DEF Fits
<1>5. CASE Resolves(q)
  <2> DEFINE mark == IF q.kind = "reject" THEN "REJECTED" ELSE "SUPERSEDED"
             marked == [interval[q.target] EXCEPT !.status = mark]
  <2>1. q.target \in Ids /\ q.target # c /\ interval[q.target] \in Interval
    BY <1>1, <1>2, <1>3, <1>5, TimelineConstants DEF Targets
  <2>2. mark \in Confirmation BY DEF Confirmation
  <2>3. marked \in Interval /\ marked.supersedes = interval[q.target].supersedes
        /\ marked.status = mark
    BY <2>1, <2>2 DEF Interval
  <2>4. View(c) = [i \in Ids |-> IF i = c /\ q.row # None THEN q.row
                                ELSE IF i = q.target THEN marked ELSE interval[i]]
    BY <1>5, TimelineConstants DEF View, Resolves, Succeeds
  <2>5. interval[q.target] # None BY <2>1, TimelineConstants
  <2>6. View(c)[c] = q.row BY <1>3, <2>1, <2>4
  <2>7. \A i \in Ids \ {c} : View(c)[i] = IF i = q.target THEN marked ELSE interval[i] BY <2>4
  <2>8. View(c) \in [Ids -> Interval \union {None}]
    <3>1. \A i \in Ids : (IF i = c /\ q.row # None THEN q.row
                          ELSE IF i = q.target THEN marked ELSE interval[i]) \in Interval \union {None}
      BY <1>1, <1>2, <2>3 DEF Request
    <3> HIDE DEF marked
    <3> QED BY <2>4, <3>1
  <2> HIDE DEF marked
  <2> HIDE DEF q, mark
  <2>9. ASSUME NEW i \in Ids \ {c}
        PROVE  IF i = q.target
               THEN /\ interval[i] # None /\ View(c)[i] \in Interval
                    /\ View(c)[i].supersedes = interval[i].supersedes /\ View(c)[i].status = mark
               ELSE View(c)[i] = interval[i]
    BY <2>3, <2>5, <2>7
  <2> QED BY <1>5, <2>6, <2>8, <2>9 DEF q, mark
<1>6. CASE ~Resolves(q)
  <2>1. q.target = None BY <1>4, <1>6 DEF Carries, Kinds, Resolves, Succeeds
  <2>2. View(c) = [i \in Ids |-> IF i = c /\ q.row # None THEN q.row ELSE interval[i]]
    BY <1>6, <2>1, TimelineConstants DEF View, Resolves, Succeeds
  <2>3. \A i \in Ids \ {c} : View(c)[i] = interval[i] BY <2>2
  <2>4. View(c)[c] = q.row BY <1>3, <2>2
  <2>5. View(c) \in [Ids -> Interval \union {None}]
    <3>1. q.row \in Interval \union {None} BY <1>1 DEF Request
    <3> QED BY <1>2, <2>2, <3>1
  <2> QED BY <1>6, <2>3, <2>4, <2>5
<1> QED BY <1>5, <1>6

LEMMA DeriveEventsStep == ASSUME IInv, NEW c \in Changes, DeriveEvents(c) PROVE IInv'
<1> DEFINE new == {[by |-> c, is |-> e] : e \in EventsOf(View(c), change[c].status)}
           q == [change[c] EXCEPT !.pc = "commit", !.new = new]
<1>1. change[c].pc = "derive" /\ InTransaction(c) /\ Set(c, q)
  BY DEF DeriveEvents, InTransaction
<1>2. change[c] \in Request /\ TypeOK BY DEF IInv, Types
<1>3. Fits(c) /\ Syncs(c) /\ Reads(c) BY <1>1 DEF IInv, Sound, Fits
<1>4. new \subseteq Event
  <2>1. EventsOf(View(c), change[c].status) \subseteq Lifecycle BY <1>1, ViewRows, EventsType
  <2> QED BY <2>1 DEF Event
<1> HIDE DEF new
<1>5. /\ q \in Request /\ q.pc = "commit" /\ q.kind = change[c].kind /\ q.target = change[c].target
      /\ q.row = change[c].row /\ q.status = change[c].status /\ q.new = new
      /\ q.found = change[c].found /\ q.overtaken = change[c].overtaken
  BY <1>2, <1>4 DEF Request, Pcs
<1> HIDE DEF q
<1>6. change'[c] = q /\ UNCHANGED <<campaign, interval, events>> BY <1>1 DEF Set, IInv, Types
<1>7. StatusIn(c)' = StatusIn(c) /\ View(c)' = View(c) BY <1>5, <1>6, SameView DEF StatusIn
<1>8. Syncs(c)' BY <1>3, <1>5, <1>6 DEF Syncs
<1>9. ~q.overtaken => new = Derived(c)'
  <2>1. Derived(c)' = {[by |-> c, is |-> e] : e \in EventsOf(View(c), StatusIn(c))}
    BY <1>6, <1>7 DEF Derived, EventsOf, StartOf, EndOf, Confirmed, Superseded, Supersedes
  <2>2. ~q.overtaken => change[c].status = StatusIn(c) BY <1>1, <1>3, <1>5 DEF Reads
  <2> QED BY <2>1, <2>2 DEF new
<1>10. Reads(c)' BY <1>1, <1>3, <1>5, <1>6, <1>7, <1>8, <1>9 DEF Reads
<1>11. Inserted(c) \/ Free(c)'
  <2>1. ~Inserted(c) => ~Inserted(c)' BY <1>1, <1>5, <1>6 DEF Inserted
  <2> QED BY <2>1 DEF Free
<1> QED BY <1>1, <1>3, <1>5, <1>10, <1>11, OnwardStep

-----------------------------------------------------------------------------
(* Suggestions *)

LEMMA SuggestRows ==
  ASSUME IInv, NEW s \in Suggestions, Suggest(s)
  PROVE  /\ interval' \in [Ids -> Interval \union {None}]
         /\ s \in Ids \ Changes /\ interval[s] = None
         /\ interval'[s].status = "SUGGESTED" /\ interval'[s].supersedes = None
         /\ \A i \in Ids \ {s} :
              \/ interval'[i] = interval[i]
              \/ /\ interval[i] \in Interval /\ interval[i].status = "SUGGESTED"
                 /\ ~Superseded(interval, i)
                 /\ interval'[i] = [interval[i] EXCEPT !.status = "SUPERSEDED"]
<1>1. interval \in [Ids -> Interval \union {None}] BY DEF IInv, Types, TypeOK
<1>2. s \in Ids \ Changes BY TimelineConstants DEF Ids
<1> DEFINE row == Row(Window[s][1], Window[s][2], "SUGGESTED", None)
<1>3. row \in Interval /\ row.status = "SUGGESTED" /\ row.supersedes = None
  <2>1. Window[s] \in Days \X Days BY TimelineConstants
  <2> QED BY <2>1 DEF Row, Interval, Confirmation
<1>4. PICK old \in Suggestions \union {None} :
        interval' = [i \in Ids |->
            CASE i = s -> row
              [] i # s /\ i = old /\ Resolvable(old) -> [interval[i] EXCEPT !.status = "SUPERSEDED"]
              [] OTHER -> interval[i]]
  BY DEF Suggest
<1> HIDE DEF row
<1>5. interval'[s] = row BY <1>2, <1>4
<1>6. ASSUME NEW i \in Ids \ {s}
      PROVE  \/ interval'[i] = interval[i]
             \/ /\ interval[i] \in Interval /\ interval[i].status = "SUGGESTED"
                /\ ~Superseded(interval, i)
                /\ interval'[i] = [interval[i] EXCEPT !.status = "SUPERSEDED"]
  <2>1. CASE i = old /\ Resolvable(old)
    <3>1. interval'[i] = [interval[i] EXCEPT !.status = "SUPERSEDED"] BY <1>4, <2>1
    <3>2. interval[i] # None /\ interval[i].status = "SUGGESTED" /\ ~Superseded(interval, i)
      BY <2>1 DEF Resolvable
    <3> QED BY <1>1, <3>1, <3>2
  <2>2. CASE ~(i = old /\ Resolvable(old)) BY <1>4, <2>2
  <2> QED BY <2>1, <2>2
<1>7. ASSUME NEW i \in Ids PROVE interval'[i] \in Interval \union {None}
  <2>1. CASE i = s BY <1>3, <1>5, <2>1
  <2>2. CASE i # s /\ interval'[i] = interval[i] BY <1>1, <2>2
  <2>3. CASE i # s /\ interval'[i] # interval[i]
    <3>1. interval[i] \in Interval /\ interval'[i] = [interval[i] EXCEPT !.status = "SUPERSEDED"]
      BY <1>6, <2>3
    <3> QED BY <3>1 DEF Interval, Confirmation
  <2> QED BY <2>1, <2>2, <2>3
<1>8. interval' \in [Ids -> Interval \union {None}] BY <1>4, <1>7
<1>9. interval[s] = None BY DEF Suggest
<1> QED BY <1>2, <1>3, <1>5, <1>6, <1>8, <1>9

LEMMA SuggestAlike ==
  ASSUME IInv, NEW s \in Suggestions, Suggest(s)
  PROVE  Alike(interval, interval')
<1> SUFFICES ASSUME NEW i \in Ids
             PROVE  /\ Authority(interval, i) \/ Authority(interval', i) => interval[i] = interval'[i]
                    /\ \A j \in Ids : Supersedes(interval, i, j) <=> Supersedes(interval', i, j)
  BY DEF Alike
<1>1. CASE i = s
  <2>1. interval[i] = None /\ interval'[i].status = "SUGGESTED" /\ interval'[i].supersedes = None
    BY <1>1, SuggestRows
  <2> QED BY <2>1, TimelineConstants DEF Authority, Supersedes
<1>2. CASE i # s /\ interval'[i] = interval[i] BY <1>2 DEF Authority, Supersedes
<1>3. CASE i # s /\ interval'[i] # interval[i]
  <2>1. interval[i] \in Interval /\ interval[i].status = "SUGGESTED"
        /\ interval'[i] = [interval[i] EXCEPT !.status = "SUPERSEDED"]
    BY <1>3, SuggestRows
  <2>2. interval'[i] \in Interval /\ interval'[i].status = "SUPERSEDED"
        /\ interval'[i].supersedes = interval[i].supersedes
    BY <2>1 DEF Interval, Confirmation
  <2>3. interval[i] # None /\ interval'[i] # None BY <2>1, <2>2, TimelineConstants
  <2> QED BY <2>1, <2>2, <2>3 DEF Authority, Supersedes
<1> QED BY <1>1, <1>2, <1>3

LEMMA SuggestView ==
  ASSUME IInv, NEW s \in Suggestions, Suggest(s), NEW c \in Changes, InTransaction(c)
  PROVE  Alike(View(c), View(c)')
<1> DEFINE q == change[c]
           mark == IF q.kind = "reject" THEN "REJECTED" ELSE "SUPERSEDED"
<1>1. change' = change BY DEF Suggest
<1>2. \A i \in Ids : View(c)[i] = IF i = c /\ q.row # None THEN q.row
        ELSE IF i = q.target THEN [interval[i] EXCEPT !.status = mark] ELSE interval[i]
  BY DEF View
<1>3. \A i \in Ids : View(c)'[i] = IF i = c /\ q.row # None THEN q.row
        ELSE IF i = q.target THEN [interval'[i] EXCEPT !.status = mark] ELSE interval'[i]
  BY <1>1 DEF View
<1> HIDE DEF mark
<1>4. Alike(interval, interval') BY SuggestAlike
<1>5. ASSUME NEW i \in Ids, View(c)[i] # View(c)'[i]
      PROVE  View(c)[i] = interval[i] /\ View(c)'[i] = interval'[i]
  <2>1. CASE i = c /\ q.row # None BY <1>2, <1>3, <1>5, <2>1
  <2>2. CASE ~(i = c /\ q.row # None) /\ i = q.target
    <3>1. interval[i] = interval'[i] => FALSE BY <1>2, <1>3, <1>5, <2>2
    <3>2. i # s
      <4>1. Fits(c) /\ Targets(c) BY DEF IInv, Sound
      <4>2. q.target \in Ids => Resolves(q)
        BY <4>1, TimelineConstants DEF Fits, Carries, Kinds, Resolves, Succeeds
      <4>3. interval[i] # None BY <2>2, <4>1, <4>2 DEF Targets
      <4> QED BY <4>3, SuggestRows
    <3>3. interval[i] \in Interval /\ interval'[i] = [interval[i] EXCEPT !.status = "SUPERSEDED"]
      BY <3>1, <3>2, SuggestRows
    <3>4. [interval'[i] EXCEPT !.status = mark] = [interval[i] EXCEPT !.status = mark]
      BY <3>3 DEF Interval
    <3> QED BY <1>2, <1>3, <1>5, <2>2, <3>4
  <2>3. CASE ~(i = c /\ q.row # None) /\ i # q.target BY <1>2, <1>3, <2>3
  <2> QED BY <2>1, <2>2, <2>3
<1>6. \A i \in Ids : View(c)[i] = View(c)'[i] \/ (View(c)[i] = interval[i] /\ View(c)'[i] = interval'[i])
  BY <1>5
<1> QED BY <1>4, <1>6 DEF Alike, Authority, Supersedes

LEMMA SuggestStep == ASSUME IInv, NEW s \in Suggestions, Suggest(s) PROVE IInv'
<1>1. UNCHANGED <<campaign, events, change, raced, stale>> BY DEF Suggest
<1>2. Alike(interval, interval') BY SuggestAlike
<1>3. \A i, j \in Ids : Supersedes(interval, j, i) <=> Supersedes(interval', j, i) BY <1>2 DEF Alike
<1>4. \A i \in Ids : Superseded(interval, i) <=> Superseded(interval', i) BY <1>3 DEF Superseded
<1>5. Confirmed(interval) = Confirmed(interval')
      /\ \A i \in Confirmed(interval) : interval[i] = interval'[i]
  BY <1>2, AlikeConfirmed
<1>6. ASSUME NEW i \in Ids, interval[i] # None PROVE interval'[i] # None
  <2>1. i # s BY <1>6, SuggestRows
  <2>2. CASE interval'[i] = interval[i] BY <1>6, <2>2
  <2>3. CASE interval'[i] # interval[i]
    <3>1. interval[i] \in Interval /\ interval'[i] = [interval[i] EXCEPT !.status = "SUPERSEDED"]
      BY <2>1, <2>3, SuggestRows
    <3>2. interval'[i] \in Interval BY <3>1 DEF Interval, Confirmation
    <3> QED BY <3>2, TimelineConstants
  <2> QED BY <2>2, <2>3
<1>7. Types' BY <1>1, SuggestRows DEF IInv, Types, TypeOK
<1>8. Rows' BY <1>3, <1>6 DEF IInv, Rows
<1>9. LineageIsLinear'
  <2> SUFFICES ASSUME NEW i \in Ids, Superseded(interval', i)
               PROVE  /\ \A j, k \in Ids : Supersedes(interval', j, i) /\ Supersedes(interval', k, i) => j = k
                      /\ interval'[i].status \in {"SUPERSEDED", "REJECTED"}
                      /\ interval'[i].status = "REJECTED" => raced'
    BY DEF LineageIsLinear
  <2>1. Superseded(interval, i) BY <1>4
  <2>2. i # s /\ interval'[i] = interval[i]
    <3>1. interval[i] # None BY <2>1 DEF IInv, Rows, Superseded
    <3> QED BY <2>1, <3>1, SuggestRows
  <2> QED BY <1>1, <1>3, <2>1, <2>2 DEF IInv, LineageIsLinear
<1>10. NoOverlapUnlessRaced'
  BY <1>1, <1>5 DEF IInv, NoOverlapUnlessRaced, Overlap, EndsBefore
<1>11. EventsAgree'
  <2>1. EventsOf(interval', campaign) = EventsOf(interval, campaign) BY <1>2, AlikeEvents
  <2> QED BY <1>1, <2>1 DEF IInv, EventsAgree
<1>12. ASSUME NEW c \in Changes PROVE Sound(c)'
  <2>1. Sound(c) /\ c # s BY SuggestRows DEF IInv
  <2>2. InTransaction(c)' = InTransaction(c) /\ Syncs(c)' = Syncs(c) /\ Inserted(c)' = Inserted(c)
        /\ StatusIn(c)' = StatusIn(c)
    BY <1>1 DEF InTransaction, Syncs, Inserted, StatusIn
  <2>3. interval[c] = None => interval'[c] = None
    BY <2>1, SuggestRows, TimelineConstants DEF Ids
  <2>4. Fits(c)' BY <1>1, <2>1, <2>2, <2>3 DEF Sound, Fits
  <2>5. Targets(c)'
    <3> DEFINE i == change[c].target
    <3> SUFFICES ASSUME InTransaction(c), Resolves(change[c])
                 PROVE  /\ i \in Ids /\ interval'[i] # None
                        /\ change[c].kind # "correct" => interval'[i].status # "CONFIRMED"
                        /\ change[c].overtaken \/ ~Superseded(interval', i)
      BY <1>1, <2>2 DEF Targets
    <3>1. /\ i \in Ids /\ interval[i] # None
          /\ change[c].kind # "correct" => interval[i].status # "CONFIRMED"
          /\ change[c].overtaken \/ ~Superseded(interval, i)
      BY <2>1 DEF Sound, Targets
    <3>2. interval'[i] # None BY <1>6, <3>1
    <3>3. Authority(interval', i) => interval'[i] = interval[i] BY <1>2, <3>1 DEF Alike
    <3> QED BY <1>4, <3>1, <3>2, <3>3 DEF Authority
  <2>6. Free(c)'
    <3>1. Inserted(c) => Resolves(change[c]) /\ InTransaction(c)
      BY DEF Inserted, Resolves, Succeeds, InTransaction
    <3>2. Inserted(c) => change[c].target \in Ids BY <2>1, <3>1 DEF Sound, Targets
    <3>3. \A o \in Changes : Inserted(o)' = Inserted(o) BY <1>1 DEF Inserted
    <3> QED BY <1>1, <1>4, <2>1, <3>2, <3>3 DEF Sound, Free, Others
  <2>7. Checked(c)'
    <3>1. Excluded(c)' = Excluded(c) BY <1>1 DEF Excluded
    <3>2. \A r, x : Conflict(r, x)' <=> Conflict(r, x)
      BY <1>5 DEF Conflict, Overlap, EndsBefore
    <3> QED BY <1>1, <2>1, <2>2, <3>1, <3>2 DEF Sound, Checked
  <2>8. Reads(c)'
    <3>1. InTransaction(c) => Derived(c)' = Derived(c)
      <4>1. InTransaction(c) => EventsOf(View(c)', StatusIn(c)) = EventsOf(View(c), StatusIn(c))
        BY SuggestView, AlikeEvents
      <4>2. Derived(c)' = {[by |-> c, is |-> e] : e \in EventsOf(View(c)', StatusIn(c))}
        BY <2>2 DEF Derived, EventsOf, StartOf, EndOf, Confirmed, Superseded, Supersedes
      <4> QED BY <4>1, <4>2 DEF Derived
    <3> QED BY <1>1, <2>1, <2>2, <3>1 DEF Sound, Reads
  <2> QED BY <2>4, <2>5, <2>6, <2>7, <2>8 DEF Sound
<1> QED BY <1>7, <1>8, <1>9, <1>10, <1>11, <1>12 DEF IInv

-----------------------------------------------------------------------------
(* Commit *)

LEMMA CommitRows ==
  ASSUME IInv, NEW c \in Changes, Commit(c)
  PROVE  LET q == change[c]
         IN /\ InTransaction(c) /\ c \in Ids /\ interval[c] = None /\ interval'[c] = q.row
            /\ interval' \in [Ids -> Interval \union {None}]
            /\ Succeeds(q) => q.row # None /\ q.row.status = "CONFIRMED" /\ Inserted(c)
            /\ Resolves(q) => q.target \in Ids \ {c}
            /\ \A i \in Ids \ {c} :
                 /\ interval[i] # None => interval'[i] # None
                 /\ IF Resolves(q) /\ i = q.target
                    THEN /\ interval[i] # None /\ interval'[i] # None
                         /\ interval'[i].supersedes = interval[i].supersedes
                         /\ interval'[i].status = IF q.kind = "reject" THEN "REJECTED" ELSE "SUPERSEDED"
                    ELSE interval'[i] = interval[i]
            /\ \A i, j \in Ids : Supersedes(interval', j, i)
                 <=> Supersedes(interval, j, i) \/ (j = c /\ Succeeds(q) /\ i = q.target)
<1> DEFINE q == change[c]
<1>1. q.pc = "commit" /\ InTransaction(c) /\ interval' = View(c) BY DEF Commit, InTransaction
<1>2. Fits(c) /\ Targets(c) /\ q \in Request BY DEF IInv, Types, Sound
<1>3. c \in Ids /\ interval[c] = None BY <1>1, <1>2 DEF Fits, Ids
<1>4. Carries(q) BY <1>1, <1>2 DEF Fits
<1>5. Succeeds(q) => /\ q.row \in Interval /\ q.row # None /\ q.row.status = "CONFIRMED"
                     /\ Inserted(c)
  BY <1>1, <1>4, TimelineConstants DEF Carries, Inserted, Succeeds
<1>6. Resolves(q) => q.target \in Ids \ {c} BY <1>1, <1>2, <1>3 DEF Targets
<1>7. /\ interval' \in [Ids -> Interval \union {None}]
      /\ interval'[c] = q.row
      /\ \A i \in Ids \ {c} :
           IF Resolves(q) /\ i = q.target
           THEN /\ interval[i] # None /\ interval'[i] \in Interval
                /\ interval'[i].supersedes = interval[i].supersedes
                /\ interval'[i].status = IF q.kind = "reject" THEN "REJECTED" ELSE "SUPERSEDED"
           ELSE interval'[i] = interval[i]
  BY <1>1, ViewRows
<1> HIDE DEF q
<1>8. ASSUME NEW i \in Ids \ {c}
      PROVE  /\ interval[i] # None => interval'[i] # None
             /\ IF Resolves(q) /\ i = q.target
                THEN /\ interval[i] # None /\ interval'[i] # None
                     /\ interval'[i].supersedes = interval[i].supersedes
                     /\ interval'[i].status = IF q.kind = "reject" THEN "REJECTED" ELSE "SUPERSEDED"
                ELSE interval'[i] = interval[i]
  BY <1>7, TimelineConstants
<1>9. ASSUME NEW i \in Ids, NEW j \in Ids
      PROVE  Supersedes(interval', j, i)
             <=> Supersedes(interval, j, i) \/ (j = c /\ Succeeds(q) /\ i = q.target)
  <2>1. CASE j # c BY <1>8, <2>1 DEF Supersedes
  <2>2. CASE j = c
    <3>1. ~Supersedes(interval, j, i) BY <1>3, <2>2 DEF Supersedes
    <3>2. Supersedes(interval', j, i) <=> q.row # None /\ q.row.supersedes = i
      BY <1>7, <2>2 DEF Supersedes
    <3>3. q.row # None /\ q.row.supersedes = i => Succeeds(q) /\ i = q.target
      BY <1>4, TimelineConstants DEF Carries, Kinds, Succeeds
    <3>4. Succeeds(q) /\ i = q.target => q.row # None /\ q.row.supersedes = i
      BY <1>4, <1>5 DEF Carries
    <3> QED BY <2>2, <3>1, <3>2, <3>3, <3>4
  <2> QED BY <2>1, <2>2
<1> QED BY <1>1, <1>3, <1>5, <1>6, <1>7, <1>8, <1>9 DEF q

LEMMA CommitSuperseded ==
  ASSUME IInv, NEW c \in Changes, Commit(c), NEW i \in Ids
  PROVE  Superseded(interval', i)
         <=> Superseded(interval, i) \/ (Succeeds(change[c]) /\ i = change[c].target)
<1>1. c \in Ids BY DEF Ids
<1> QED BY <1>1, CommitRows DEF Superseded

\* The new row joins the confirmed intervals and the target leaves them.
LEMMA CommitConfirmed ==
  ASSUME IInv, NEW c \in Changes, Commit(c), NEW i \in Confirmed(interval')
  PROVE  \/ i = c /\ change[c].row # None /\ change[c].row.status = "CONFIRMED"
         \/ /\ i # c /\ i \in Confirmed(interval) /\ interval'[i] = interval[i]
            /\ ~(Resolves(change[c]) /\ i = change[c].target)
<1>1. i \in Ids /\ interval'[i] # None /\ interval'[i].status = "CONFIRMED" /\ ~Superseded(interval', i)
  BY DEF Confirmed
<1>2. CASE i = c BY <1>1, <1>2, CommitRows
<1>3. CASE i # c
  <2>1. ~(Resolves(change[c]) /\ i = change[c].target) BY <1>1, <1>3, CommitRows
  <2>2. interval'[i] = interval[i] BY <1>1, <1>3, <2>1, CommitRows
  <2>3. ~Superseded(interval, i) BY <1>1, CommitSuperseded
  <2> QED BY <1>1, <1>3, <2>1, <2>2, <2>3 DEF Confirmed
<1> QED BY <1>2, <1>3

LEMMA CommitTypes == ASSUME IInv, NEW c \in Changes, Commit(c) PROVE Types'
<1>1. TypeOK /\ change \in [Changes -> Request] BY DEF IInv, Types
<1>2. Carries(change[c]) BY CommitRows DEF IInv, Sound, Fits
<1>3. campaign' \in Statuses
  <2>1. campaign' = StatusIn(c) BY DEF Commit
  <2> QED BY <1>1, <1>2, <2>1 DEF StatusIn, Carries, TypeOK
<1>4. interval' \in [Ids -> Interval \union {None}] BY CommitRows
<1>5. events' \subseteq Event
  <2>1. change[c].new \subseteq Event BY <1>1 DEF Request
  <2> QED BY <1>1, <2>1 DEF Commit, TypeOK
<1>6. raced' \in BOOLEAN /\ stale' \in BOOLEAN
  <2>1. change[c].overtaken \in BOOLEAN BY <1>1 DEF Request
  <2> QED BY <1>1, <2>1 DEF Commit, TypeOK
<1>7. change' \in [Changes -> Request]
  <2>1. [Idle EXCEPT !.pc = "done"] \in Request BY DEF Idle, Request, Pcs, Answered
  <2>2. \A o \in Changes : [change[o] EXCEPT !.overtaken = TRUE] \in Request BY <1>1 DEF Request
  <2>3. \A o \in Changes : change[o] \in Request BY <1>1
  <2> HIDE DEF Request, Idle
  <2> QED BY <2>1, <2>2, <2>3 DEF Commit
<1> QED BY <1>3, <1>4, <1>5, <1>6, <1>7 DEF Types, TypeOK

LEMMA CommitLineage == ASSUME IInv, NEW c \in Changes, Commit(c) PROVE Rows' /\ LineageIsLinear'
<1> DEFINE q == change[c]
<1>1. Targets(c) /\ Free(c) BY DEF IInv, Sound
<1>2. ASSUME NEW i \in Ids, NEW j \in Ids, Supersedes(interval', j, i)
      PROVE  interval'[i] # None
  <2>1. CASE Supersedes(interval, j, i)
    <3>1. interval[i] # None BY <2>1 DEF IInv, Rows
    <3> QED BY <3>1, CommitRows
  <2>2. CASE Succeeds(q) /\ i = q.target BY <2>2, CommitRows DEF Resolves
  <2> QED BY <1>2, <2>1, <2>2, CommitRows
<1>3. ASSUME NEW i \in Ids, Superseded(interval', i)
      PROVE  /\ \A j, k \in Ids : Supersedes(interval', j, i) /\ Supersedes(interval', k, i) => j = k
             /\ interval'[i].status \in {"SUPERSEDED", "REJECTED"}
             /\ interval'[i].status = "REJECTED" => raced'
  <2>1. CASE Succeeds(q) /\ i = q.target
    <3>1. ~Superseded(interval, i) BY <1>1, <2>1, CommitRows DEF Free
    <3>2. \A j \in Ids : Supersedes(interval', j, i) => j = c
      BY <3>1, CommitRows DEF Superseded
    <3>3. interval'[i].status = "SUPERSEDED"
      BY <2>1, CommitRows DEF Resolves, Succeeds
    <3> QED BY <3>2, <3>3
  <2>2. CASE ~(Succeeds(q) /\ i = q.target)
    <3>1. Superseded(interval, i) BY <1>3, <2>2, CommitSuperseded
    <3>2. \A j \in Ids : Supersedes(interval', j, i) => Supersedes(interval, j, i)
      BY <2>2, CommitRows
    <3>3. i # c
      <4>1. interval[i] # None BY <3>1 DEF IInv, Rows, Superseded
      <4> QED BY <4>1, CommitRows
    <3>4. /\ \A j, k \in Ids : Supersedes(interval, j, i) /\ Supersedes(interval, k, i) => j = k
          /\ interval[i].status \in {"SUPERSEDED", "REJECTED"}
          /\ interval[i].status = "REJECTED" => raced
      BY <3>1 DEF IInv, LineageIsLinear
    <3>5. CASE Resolves(q) /\ i = q.target
      <4>1. q.kind = "reject" BY <2>2, <3>5 DEF Resolves
      <4>2. interval'[i].status = "REJECTED" BY <3>3, <3>5, <4>1, CommitRows
      <4>3. q.overtaken BY <1>1, <3>1, <3>5, CommitRows DEF Targets
      <4>4. raced' BY <4>3 DEF Commit
      <4> QED BY <3>2, <3>4, <4>2, <4>4
    <3>6. CASE ~(Resolves(q) /\ i = q.target)
      <4>1. interval'[i] = interval[i] BY <3>3, <3>6, CommitRows
      <4>2. raced => raced' BY DEF Commit
      <4> QED BY <3>2, <3>4, <4>1, <4>2
    <3> QED BY <3>5, <3>6
  <2> QED BY <2>1, <2>2
<1> QED BY <1>2, <1>3 DEF Rows, LineageIsLinear

LEMMA CommitNoOverlap == ASSUME IInv, NEW c \in Changes, Commit(c) PROVE NoOverlapUnlessRaced'
<1> DEFINE q == change[c]
<1> SUFFICES ASSUME ~raced', NEW i \in Confirmed(interval'), NEW j \in Confirmed(interval'), i # j
             PROVE  ~Overlap(interval'[i], interval'[j])
  BY DEF NoOverlapUnlessRaced
<1>1. ~raced /\ ~q.overtaken /\ q.pc = "commit" BY DEF Commit
<1>2. \A a, b : Overlap(a, b) <=> Overlap(b, a) BY DEF Overlap
<1>3. ASSUME NEW k \in Confirmed(interval), q.row # None, q.row.status = "CONFIRMED",
             ~(Resolves(q) /\ k = q.target)
      PROVE  ~Overlap(interval[k], q.row)
  <2>1. ~Conflict(q.row, Excluded(c)) BY <1>1, <1>3, CommitRows DEF IInv, Sound, Checked
  <2>2. k # Excluded(c)
    <3>1. k \in Ids BY DEF Confirmed
    <3> QED BY <1>3, <3>1, TimelineConstants DEF Excluded, Resolves, Succeeds
  <2> QED BY <2>1, <2>2 DEF Conflict
<1>4. CASE i = c
  <2>1. j # c /\ j \in Confirmed(interval) /\ interval'[j] = interval[j]
        /\ ~(Resolves(q) /\ j = q.target)
    BY <1>4, CommitConfirmed
  <2>2. q.row # None /\ q.row.status = "CONFIRMED" /\ interval'[i] = q.row
    BY <1>4, CommitConfirmed, CommitRows
  <2> QED BY <1>2, <1>3, <2>1, <2>2
<1>5. CASE j = c
  <2>1. i # c /\ i \in Confirmed(interval) /\ interval'[i] = interval[i]
        /\ ~(Resolves(q) /\ i = q.target)
    BY <1>5, CommitConfirmed
  <2>2. q.row # None /\ q.row.status = "CONFIRMED" /\ interval'[j] = q.row
    BY <1>5, CommitConfirmed, CommitRows
  <2> QED BY <1>3, <2>1, <2>2
<1>6. CASE i # c /\ j # c
  <2>1. /\ i \in Confirmed(interval) /\ interval'[i] = interval[i]
        /\ j \in Confirmed(interval) /\ interval'[j] = interval[j]
    BY <1>6, CommitConfirmed
  <2> QED BY <1>1, <2>1 DEF IInv, NoOverlapUnlessRaced
<1> QED BY <1>4, <1>5, <1>6

\* A commit that does not derive the events leaves the confirmed intervals alone.
LEMMA CommitAlike ==
  ASSUME IInv, NEW c \in Changes, Commit(c), ~Syncs(c)
  PROVE  Alike(interval, interval')
<1> DEFINE q == change[c]
<1>1. Fits(c) /\ Targets(c) /\ InTransaction(c) BY CommitRows DEF IInv, Sound
<1>2. Carries(q) BY <1>1 DEF Fits
<1>3. ~Succeeds(q) /\ (q.kind = "reject" \/ (q.kind = "add" /\ q.row.status # "CONFIRMED"))
  BY DEF Syncs, Succeeds
<1> SUFFICES ASSUME NEW i \in Ids
             PROVE  /\ Authority(interval, i) \/ Authority(interval', i) => interval[i] = interval'[i]
                    /\ \A j \in Ids : Supersedes(interval, i, j) <=> Supersedes(interval', i, j)
  BY DEF Alike
<1>4. \A j \in Ids : Supersedes(interval, i, j) <=> Supersedes(interval', i, j) BY <1>3, CommitRows
<1>5. CASE i = c
  <2>1. interval[i] = None /\ interval'[i] = q.row BY <1>5, CommitRows
  <2>2. q.kind = "reject" => q.row = None BY <1>2 DEF Carries
  <2> QED BY <1>3, <1>4, <2>1, <2>2 DEF Authority
<1>6. CASE i # c /\ Resolves(q) /\ i = q.target
  <2>1. q.kind = "reject" BY <1>3, <1>6 DEF Resolves
  <2>2. interval[i].status # "CONFIRMED" BY <1>1, <1>6, <2>1 DEF Targets
  <2>3. interval'[i].status = "REJECTED" BY <1>6, <2>1, CommitRows
  <2> QED BY <1>4, <2>2, <2>3 DEF Authority
<1>7. CASE i # c /\ ~(Resolves(q) /\ i = q.target)
  <2>1. interval'[i] = interval[i] BY <1>7, CommitRows
  <2> QED BY <1>4, <2>1
<1> QED BY <1>5, <1>6, <1>7

LEMMA CommitEvents == ASSUME IInv, NEW c \in Changes, Commit(c) PROVE EventsAgree'
<1> DEFINE q == change[c]
<1> SUFFICES ASSUME ~stale'
             PROVE  /\ {e.is : e \in events'} = EventsOf(interval', campaign')
                    /\ \A e, f \in events' : e.is = f.is => e = f
  BY DEF EventsAgree
<1>1. q.pc = "commit" /\ interval' = View(c) /\ campaign' = StatusIn(c)
      /\ events' = (events \ q.found) \union q.new
  BY DEF Commit
<1>2. ~q.overtaken /\ (Syncs(c) \/ ~stale) BY DEF Commit
<1>3. Reads(c) /\ InTransaction(c) BY CommitRows DEF IInv, Sound
<1>4. CASE Syncs(c)
  <2>1. q.found = events /\ q.new = Derived(c) BY <1>1, <1>2, <1>3, <1>4 DEF Reads
  <2>2. events' = Derived(c) BY <1>1, <2>1
  <2> DEFINE E == EventsOf(interval', campaign')
  <2>3. Derived(c) = {[by |-> c, is |-> e] : e \in E} BY <1>1 DEF Derived
  <2> HIDE DEF E
  <2>4. {e.is : e \in events'} = E
    <3>1. \A e \in events' : e.is \in E BY <2>2, <2>3
    <3>2. ASSUME NEW l \in E PROVE l \in {e.is : e \in events'}
      <4>1. [by |-> c, is |-> l] \in events' BY <2>2, <2>3
      <4> QED BY <4>1
    <3> QED BY <3>1, <3>2
  <2>5. \A e, f \in events' : e.is = f.is => e = f BY <2>2, <2>3
  <2> QED BY <2>4, <2>5 DEF E
<1>5. CASE ~Syncs(c)
  <2>1. events' = events BY <1>1, <1>3, <1>5 DEF Reads
  <2>2. StatusIn(c) = campaign BY <1>5 DEF StatusIn, Syncs
  <2>3. EventsOf(interval', campaign) = EventsOf(interval, campaign)
    BY <1>5, CommitAlike, AlikeEvents
  <2> QED BY <1>1, <1>2, <1>5, <2>1, <2>2, <2>3 DEF IInv, EventsAgree
<1> QED BY <1>4, <1>5

\* Whoever is in a transaction is overtaken by the commit.
LEMMA CommitOthers ==
  ASSUME IInv, NEW c \in Changes, Commit(c), NEW o \in Changes
  PROVE  Sound(o)'
<1> DEFINE q == change[c]
<1>1. \A x \in Others(c) : change'[x] = IF InTransaction(x) THEN [change[x] EXCEPT !.overtaken = TRUE]
                                       ELSE change[x]
  BY DEF Commit, Others
<1>2. change'[c].pc = "done" BY DEF Commit, Idle
<1>3. ~InTransaction(c)' /\ ~Inserted(c)' BY <1>2 DEF InTransaction, Inserted
<1>4. ASSUME NEW x \in Others(c)
      PROVE  /\ change'[x].pc = change[x].pc /\ change'[x].kind = change[x].kind
             /\ change'[x].target = change[x].target /\ change'[x].row = change[x].row
             /\ change'[x].status = change[x].status /\ change'[x].found = change[x].found
             /\ change'[x].new = change[x].new
             /\ InTransaction(x) => change'[x].overtaken
  <2>1. change[x] \in Request BY DEF IInv, Types, Others
  <2> QED BY <1>1, <2>1 DEF Request
<1>5. ASSUME NEW x \in Others(c)
      PROVE  /\ InTransaction(x)' <=> InTransaction(x)
             /\ Inserted(x)' <=> Inserted(x)
             /\ Syncs(x)' <=> Syncs(x)
  <2>1. change'[x].pc = change[x].pc /\ change'[x].kind = change[x].kind
        /\ change'[x].row = change[x].row
    BY <1>4
  <2> QED BY <2>1 DEF InTransaction, Inserted, Syncs
<1>6. CASE o = c
  <2>1. Fits(o)' BY <1>2, <1>3, <1>6 DEF Fits
  <2> QED BY <1>3, <1>6, <2>1 DEF Sound, Targets, Free, Checked, Reads
<1>7. CASE o # c
  <2>1. o \in Others(c) /\ o \in Ids /\ Sound(o) BY <1>7 DEF Others, Ids, IInv
  <2> DEFINE n == change'[o]
             p == change[o]
  <2>2. /\ n.pc = p.pc /\ n.kind = p.kind /\ n.target = p.target /\ n.row = p.row
        /\ n.status = p.status /\ n.found = p.found /\ n.new = p.new
        /\ InTransaction(o) => n.overtaken
    BY <1>4, <2>1
  <2>3. (InTransaction(o)' <=> InTransaction(o)) /\ (Inserted(o)' <=> Inserted(o))
        /\ (Syncs(o)' <=> Syncs(o))
    BY <1>5, <2>1
  <2>4. Fits(o)'
    <3>1. interval[o] = None => interval'[o] = None BY <1>7, <2>1, CommitRows
    <3>2. Carries(change[o]) => Carries(change'[o]) BY <2>2 DEF Carries, Succeeds
    <3> QED BY <2>2, <2>3, <2>1, <3>1, <3>2 DEF Sound, Fits
  <2>5. Targets(o)'
    <3> DEFINE t == change[o].target
    <3> SUFFICES ASSUME InTransaction(o), Resolves(change[o])
                 PROVE  /\ t \in Ids /\ interval'[t] # None
                        /\ change[o].kind # "correct" => interval'[t].status # "CONFIRMED"
      BY <2>2, <2>3, <2>1 DEF Targets, Resolves, Succeeds
    <3>1. /\ t \in Ids /\ interval[t] # None
          /\ change[o].kind # "correct" => interval[t].status # "CONFIRMED"
      BY <2>1 DEF Sound, Targets
    <3>2. t # c BY <3>1, CommitRows
    <3>3. interval'[t] # None BY <3>1, <3>2, CommitRows
    <3>4. interval'[t] = interval[t] \/ interval'[t].status # "CONFIRMED" BY <3>1, <3>2, CommitRows
    <3> QED BY <3>1, <3>3, <3>4
  <2>6. Free(o)'
    <3> DEFINE t == change[o].target
    <3> SUFFICES ASSUME Inserted(o)
                 PROVE  /\ ~Superseded(interval', t)
                        /\ \A x \in Others(o) : Inserted(x)' => change'[x].target # t
      BY <2>2, <2>3, <2>1 DEF Free, Others
    <3>1. t \in Ids
      <4>1. InTransaction(o) /\ Resolves(change[o]) BY DEF Inserted, InTransaction, Resolves, Succeeds
      <4> QED BY <2>1, <4>1 DEF Sound, Targets
    <3>2. ~Superseded(interval, t) /\ \A x \in Others(o) : Inserted(x) => change[x].target # t
      BY <2>1 DEF Sound, Free
    <3>3. Succeeds(q) => t # q.target
      BY <1>7, <3>2, CommitRows DEF Others
    <3>4. ~Superseded(interval', t) BY <3>1, <3>2, <3>3, CommitSuperseded
    <3>5. ASSUME NEW x \in Others(o), Inserted(x)' PROVE change'[x].target # t
      <4>1. x \in Others(c) BY <1>3, <3>5 DEF Others
      <4>2. Inserted(x) /\ change'[x].target = change[x].target BY <1>4, <1>5, <3>5, <4>1
      <4> QED BY <3>2, <4>2
    <3> QED BY <3>4, <3>5
  <2>7. Checked(o)' BY <2>2, <2>3, <2>1 DEF Checked
  <2>8. Reads(o)' BY <2>2, <2>3, <2>1 DEF Sound, Reads
  <2> QED BY <2>4, <2>5, <2>6, <2>7, <2>8 DEF Sound
<1> QED BY <1>6, <1>7

LEMMA CommitStep == ASSUME IInv, NEW c \in Changes, Commit(c) PROVE IInv'
BY CommitTypes, CommitLineage, CommitNoOverlap, CommitEvents, CommitOthers DEF IInv

-----------------------------------------------------------------------------
(* The theorems *)

LEMMA NextIInv == IInv /\ [Next]_vars => IInv'
<1> SUFFICES ASSUME IInv, [Next]_vars PROVE IInv'
  OBVIOUS
<1>1. CASE UNCHANGED vars
  <2>1. UNCHANGED <<campaign, interval, events, change, raced, stale>> BY <1>1 DEF vars
  <2>2. Types' BY <2>1 DEF IInv, Types, TypeOK
  <2>3. Rows' BY <2>1 DEF IInv, Rows, Supersedes
  <2>4. LineageIsLinear' BY <2>1 DEF IInv, LineageIsLinear, Superseded, Supersedes
  <2>5. NoOverlapUnlessRaced'
    BY <2>1 DEF IInv, NoOverlapUnlessRaced, Confirmed, Superseded, Supersedes
  <2>6. EventsAgree'
    BY <2>1 DEF IInv, EventsAgree, EventsOf, StartOf, EndOf, Confirmed, Superseded, Supersedes
  <2>7. ASSUME NEW c \in Changes PROVE Sound(c)'
    <3>1. Sound(c) BY DEF IInv
    <3>2. Fits(c)' BY <2>1, <3>1 DEF Sound, Fits, InTransaction, Syncs
    <3>3. Targets(c)' BY <2>1, <3>1 DEF Sound, Targets, InTransaction, Superseded, Supersedes
    <3>4. Free(c)' BY <2>1, <3>1 DEF Sound, Free, Inserted, Superseded, Supersedes
    <3>5. Checked(c)'
      BY <2>1, <3>1 DEF Sound, Checked, InTransaction, Conflict, Excluded, Confirmed, Superseded, Supersedes
    <3>6. View(c)' = View(c) /\ StatusIn(c)' = StatusIn(c) BY <2>1 DEF View, StatusIn
    <3>7. Derived(c)' = Derived(c)
      BY <3>6 DEF Derived, EventsOf, StartOf, EndOf, Confirmed, Superseded, Supersedes
    <3>8. Reads(c)' BY <2>1, <3>1, <3>6, <3>7 DEF Sound, Reads, InTransaction, Syncs
    <3> QED BY <3>2, <3>3, <3>4, <3>5, <3>8 DEF Sound
  <2> QED BY <2>2, <2>3, <2>4, <2>5, <2>6, <2>7 DEF IInv
<1>2. CASE \E c \in Changes : Add(c) \/ ConfirmSuggestion(c) \/ RejectSuggestion(c) \/ Correct(c)
                              \/ UpdateCampaign(c)
  BY <1>2, BeginSteps
<1>3. CASE \E c \in Changes : Validate(c) BY <1>3, ValidateStep
<1>4. CASE \E c \in Changes : Insert(c) BY <1>4, InsertStep
<1>5. CASE \E c \in Changes : Mark(c) BY <1>5, MarkStep
<1>6. CASE \E c \in Changes : FindEvents(c) BY <1>6, FindEventsStep
<1>7. CASE \E c \in Changes : TakeEvents(c) BY <1>7, TakeEventsStep
<1>8. CASE \E c \in Changes : DeriveEvents(c) BY <1>8, DeriveEventsStep
<1>9. CASE \E c \in Changes : Commit(c) BY <1>9, CommitStep
<1>10. CASE \E c \in Changes : Abort(c) BY <1>10, RefuseStep DEF Abort
<1>11. CASE \E s \in Suggestions : Suggest(s) BY <1>11, SuggestStep
<1> QED BY <1>1, <1>2, <1>3, <1>4, <1>5, <1>6, <1>7, <1>8, <1>9, <1>10, <1>11 DEF Next

LEMMA Invariance == Spec => []IInv
<1>1. Init => IInv BY InitIInv
<1>2. IInv /\ [Next]_vars => IInv' BY NextIInv
<1> QED BY <1>1, <1>2, PTL DEF Spec

\* Rows, events and the campaign keep their types (the tables of the timeline).
THEOREM TimelineTypes == Spec => []TypeOK
<1>1. IInv => TypeOK BY DEF IInv, Types
<1> QED BY <1>1, Invariance, PTL

\* However confirmations, rejections, corrections and suggestions interleave, an
\* interval has one successor at most, and one that has a successor was resolved.
THEOREM TimelineLineage == Spec => []LineageIsLinear
<1>1. IInv => LineageIsLinear BY DEF IInv
<1> QED BY <1>1, Invariance, PTL

\* The overlap check is enough for every history of changes none of which commits
\* on top of one it could not see.
THEOREM TimelineNoOverlap == Spec => []NoOverlapUnlessRaced
<1>1. IInv => NoOverlapUnlessRaced BY DEF IInv
<1> QED BY <1>1, Invariance, PTL

\* The lifecycle events follow the confirmed intervals and the status; a change that
\* is not overtaken repairs what one that was has left (syncIntervalEvents).
THEOREM TimelineEvents == Spec => []EventsAgree
<1>1. IInv => EventsAgree BY DEF IInv
<1> QED BY <1>1, Invariance, PTL

LEMMA Preserved ==
  ASSUME IInv, Next, NEW i \in Confirmed(interval)
  PROVE  \/ interval'[i] = interval[i]
         \/ \E j \in Ids : Supersedes(interval', j, i) /\ interval'[j].status = "CONFIRMED"
<1>1. i \in Ids /\ interval[i] # None /\ interval[i].status = "CONFIRMED" BY DEF Confirmed
<1>2. CASE interval' = interval BY <1>2
<1>3. CASE \E s \in Suggestions : Suggest(s)
  <2>1. Alike(interval, interval') BY <1>3, SuggestAlike
  <2> QED BY <1>1, <2>1 DEF Alike, Authority
<1>4. ASSUME NEW c \in Changes, Commit(c)
      PROVE  \/ interval'[i] = interval[i]
             \/ \E j \in Ids : Supersedes(interval', j, i) /\ interval'[j].status = "CONFIRMED"
  <2> DEFINE q == change[c]
  <2>1. i # c BY <1>1, <1>4, CommitRows
  <2>2. CASE ~(Resolves(q) /\ i = q.target) BY <1>1, <1>4, <2>1, <2>2, CommitRows
  <2>3. CASE Resolves(q) /\ i = q.target
    <3>1. q.kind = "correct" BY <1>1, <1>4, <2>3, CommitRows DEF IInv, Sound, Targets
    <3>2. c \in Ids /\ Succeeds(q) BY <3>1 DEF Ids, Succeeds
    <3>3. Supersedes(interval', c, i) BY <1>1, <1>4, <2>3, <3>2, CommitRows
    <3>4. interval'[c].status = "CONFIRMED" BY <1>4, <3>2, CommitRows
    <3> QED BY <3>2, <3>3, <3>4
  <2> QED BY <2>2, <2>3
<1>5. (\E c \in Changes : Commit(c)) \/ (\E s \in Suggestions : Suggest(s)) \/ interval' = interval
  BY DEF Next, Add, ConfirmSuggestion, RejectSuggestion, Correct, UpdateCampaign, Begin, Validate,
     Insert, Mark, FindEvents, TakeEvents, DeriveEvents, Abort, Refuse, Goto, Set
<1> QED BY <1>2, <1>3, <1>4, <1>5

\* Only a correction, which puts another interval in its place, takes a confirmed
\* interval away; a rejection or a suggestion that arrives late never does.
THEOREM TimelinePreserved == Spec => ConfirmedIsPreserved
<1>1. IInv /\ [Next]_vars =>
        [\A i \in Confirmed(interval) :
          \/ interval'[i] = interval[i]
          \/ \E j \in Ids : Supersedes(interval', j, i) /\ interval'[j].status = "CONFIRMED"]_vars
  BY Preserved
<1> QED BY <1>1, Invariance, PTL DEF Spec, ConfirmedIsPreserved
=============================================================================
