--------------------------- MODULE CampaignTimeline ---------------------------
(***************************************************************************)
(* The timeline of one promotion campaign: the owner adds, confirms,       *)
(* rejects and corrects intervals and changes the campaign's status, while *)
(* suggestions come and go.  Every change is a transaction that ends by    *)
(* deriving the lifecycle events from the intervals again; a step is one   *)
(* statement under READ COMMITTED, written rows stay locked to the end.    *)
(* Source: lib/analytics/campaign-timeline-service.ts.                     *)
(*                                                                         *)
(* Left out: names, notes and time zones, the audit rows, and the events   *)
(* the owner enters, which nothing else reads.                             *)
(***************************************************************************)
EXTENDS Integers

CONSTANTS
  Changes,      \* requests of the owner; the interval one creates bears its name
  Suggestions,  \* generated suggestions
  Window,       \* the first and last day each one suggests
  Days,         \* calendar days: an interval of integers
  Open,         \* the end of an interval that has none
  None

Ids == Changes \union Suggestions
Statuses == {"DRAFT", "ACTIVE", "PAUSED", "ENDED", "ARCHIVED"}
Confirmation == {"SUGGESTED", "CONFIRMED", "REJECTED", "SUPERSEDED"}

VARIABLES
  campaign,  \* its status
  interval,  \* CampaignActiveInterval rows, or None
  events,    \* the confirmed events of SYSTEM_INTERVAL_SYNC
  change,    \* the request of each name and how far it has come
  raced,     \* history: did a change commit on top of one it could not see?
  stale      \* history: and was there no other change of the confirmed rows since?

vars == <<campaign, interval, events, change, raced, stale>>

Interval == [start : Days, end : Days \union {Open}, status : Confirmation,
             supersedes : Ids \union {None}]

ASSUME TimelineConstants ==
  /\ Days \subseteq Nat
  /\ Changes \intersect Suggestions = {}
  /\ Window \in [Suggestions -> {w \in Days \X Days : w[1] <= w[2]}]
  /\ Open \notin Days /\ None \notin Ids \union Interval

Lifecycle == [of : Ids, type : {"STARTED", "RESUMED", "PAUSED", "ENDED"}, day : Days]
Event == [by : Changes, is : Lifecycle]  \* a row, and the change that wrote it

\* status: for a change of status the new one, for others the one syncIntervalEvents
\* reads; overtaken: did another change commit since this one began?
Idle == [pc |-> "idle", kind |-> None, target |-> None, row |-> None, status |-> None,
         found |-> {}, new |-> {}, overtaken |-> FALSE]

Init ==
  /\ campaign = "DRAFT"
  /\ interval = [i \in Ids |-> None]
  /\ events = {}
  /\ change = [c \in Changes |-> Idle]
  /\ raced = FALSE /\ stale = FALSE

Row(start, end, status, supersedes) ==
  [start |-> start, end |-> end, status |-> status, supersedes |-> supersedes]
Spans == {w \in Days \X (Days \union {Open}) : w[2] = Open \/ w[1] <= w[2]}

-----------------------------------------------------------------------------
(* Intervals *)

Supersedes(rows, j, i) == rows[j] # None /\ rows[j].supersedes = i
Superseded(rows, i) == \E j \in Ids : Supersedes(rows, j, i)
\* The authoritative ones: confirmed, and nothing supersedes them.
Confirmed(rows) == {i \in Ids : /\ rows[i] # None /\ rows[i].status = "CONFIRMED"
                                /\ ~Superseded(rows, i)}

EndsBefore(a, b) == a.end # Open /\ a.end < b.start
Overlap(a, b) == ~EndsBefore(a, b) /\ ~EndsBefore(b, a)

\* Mutant: only the first day is looked at.
ConflictAtStart(row, excluded) ==
  \E i \in Confirmed(interval) \ {excluded} :
    interval[i].start <= row.start /\ ~EndsBefore(interval[i], row)

\* validateIntervalConflict; identical intervals overlap, and so do two open ones.
Conflict(row, excluded) ==
  \E i \in Confirmed(interval) \ {excluded} : Overlap(interval[i], row)

\* syncIntervalEvents: the first interval starts the campaign, later ones resume it;
\* the last one ends it when the campaign has ended. Two that start on one day, which
\* takes a race, are told apart by their random ids there and are both first here.
StartOf(rows, i) ==
  [of |-> i, day |-> rows[i].start,
   type |-> IF \A j \in Confirmed(rows) : rows[i].start <= rows[j].start
            THEN "STARTED" ELSE "RESUMED"]
EndOf(rows, i, status) ==
  [of |-> i, day |-> rows[i].end,
   type |-> IF status = "ENDED" /\ \A j \in Confirmed(rows) : rows[j].start <= rows[i].start
            THEN "ENDED" ELSE "PAUSED"]
EventsOf(rows, status) ==
  {StartOf(rows, i) : i \in Confirmed(rows)}
  \union {EndOf(rows, i, status) : i \in {j \in Confirmed(rows) : rows[j].end # Open}}

-----------------------------------------------------------------------------
(* Transactions *)

\* Mutants: the row is marked with the name of the action; the confirmed suggestion
\* is not marked.
ViewNamesAction(c) ==
  LET q == change[c]
  IN [i \in Ids |->
       IF i = c /\ q.row # None THEN q.row
       ELSE IF i = q.target THEN [interval[i] EXCEPT !.status = q.kind]
       ELSE interval[i]]

ViewKeepsSuggestion(c) ==
  LET q == change[c]
  IN [i \in Ids |->
       IF i = c /\ q.row # None THEN q.row
       ELSE IF i = q.target /\ q.kind # "confirm"
       THEN [interval[i] EXCEPT !.status = IF q.kind = "reject" THEN "REJECTED" ELSE "SUPERSEDED"]
       ELSE interval[i]]

\* The rows as the open transaction of c sees them: its new row, its target marked.
View(c) ==
  LET q == change[c]
  IN [i \in Ids |->
       IF i = c /\ q.row # None THEN q.row
       ELSE IF i = q.target
       THEN [interval[i] EXCEPT !.status = IF q.kind = "reject" THEN "REJECTED" ELSE "SUPERSEDED"]
       ELSE interval[i]]
StatusIn(c) == IF change[c].kind = "status" THEN change[c].status ELSE campaign

Inserted(c) == change[c].kind \in {"confirm", "correct"}
               /\ change[c].pc \in {"mark", "find", "take", "derive", "commit"}
Holds(c, i) == change[c].target = i /\ change[c].pc \in {"find", "take", "derive", "commit"}
HoldsCampaign(c) == change[c].kind = "status"
                    /\ change[c].pc \in {"find", "take", "derive", "commit"}
HoldsEvents(c, e) == change[c].pc \in {"derive", "commit"} /\ e \in change[c].found
Others(c) == Changes \ {c}

Set(c, q) == /\ change' = [change EXCEPT ![c] = q]
             /\ UNCHANGED <<campaign, interval, events, raced, stale>>
Goto(c, pc) == Set(c, [change[c] EXCEPT !.pc = pc])
Refuse(c) == Set(c, [Idle EXCEPT !.pc = "refused"])
InTransaction(c) == change[c].pc \notin {"idle", "done", "refused"}
\* Mutant: a correction does not derive the events again.
SyncsNotAfterCorrection(c) ==
  change[c].kind \notin {"reject", "correct"}
  /\ (change[c].kind = "add" => change[c].row.status = "CONFIRMED")

\* All but a rejection and the addition of a suggestion end with syncIntervalEvents.
Syncs(c) == change[c].kind # "reject" /\ (change[c].kind = "add" => change[c].row.status = "CONFIRMED")

\* COMMIT. Whoever is in a transaction now may have read what this changes.
Commit(c) ==
  /\ change[c].pc = "commit"
  /\ interval' = View(c)
  /\ campaign' = StatusIn(c)
  /\ events' = (events \ change[c].found) \union change[c].new
  /\ raced' = (raced \/ change[c].overtaken)
  /\ stale' = (change[c].overtaken \/ (stale /\ ~Syncs(c)))
  /\ change' = [o \in Changes |->
       IF o = c THEN [Idle EXCEPT !.pc = "done"]
       ELSE IF InTransaction(o) THEN [change[o] EXCEPT !.overtaken = TRUE] ELSE change[o]]

\* Any error: the transaction is rolled back.
Abort(c) == InTransaction(c) /\ Refuse(c)

-----------------------------------------------------------------------------
(* The owner's requests, up to what they write *)

Begin(c, q, pc) == /\ change[c].pc = "idle" /\ campaign # "ARCHIVED"
                   /\ Set(c, [q EXCEPT !.pc = pc])

\* A request may also add a rejected or superseded row, which nothing acts on.
Add(c) == \E span \in Spans, s \in {"CONFIRMED", "SUGGESTED"} :
  Begin(c, [Idle EXCEPT !.kind = "add", !.row = Row(span[1], span[2], s, None)], "validate")

\* Mutant: whatever has no successor can be resolved.
ResolvableAny(i) == interval[i] # None /\ ~Superseded(interval, i)

\* The target is read after the campaign: only a suggestion nobody resolved can
\* be resolved, only a current confirmed interval can be corrected.
Resolvable(i) == interval[i] # None /\ interval[i].status = "SUGGESTED" /\ ~Superseded(interval, i)

ConfirmSuggestion(c) == \E i \in Ids, span \in Spans :
  Resolvable(i)
  /\ Begin(c, [Idle EXCEPT !.kind = "confirm", !.target = i,
                           !.row = Row(span[1], span[2], "CONFIRMED", i)], "validate")

RejectSuggestion(c) == \E i \in Ids :
  Resolvable(i) /\ Begin(c, [Idle EXCEPT !.kind = "reject", !.target = i], "mark")

Correct(c) == \E i \in Confirmed(interval), span \in Spans :
  Begin(c, [Idle EXCEPT !.kind = "correct", !.target = i,
                        !.row = Row(span[1], span[2], "CONFIRMED", i)], "validate")

\* A request that leaves the status alone writes back the one it has read.
UpdateCampaign(c) == \E s \in Statuses :
  Begin(c, [Idle EXCEPT !.kind = "status", !.status = s],
        IF s = campaign THEN "mark" ELSE "validate")

StatusAllowed(s) ==
  LET open == {i \in Confirmed(interval) : interval[i].end = Open}
  IN CASE s = "ACTIVE" -> open # {}
       [] s \in {"PAUSED", "ENDED"} -> open = {} /\ Confirmed(interval) # {}
       [] OTHER -> TRUE

\* An addition goes on with its insert, which concerns nobody before it commits.
Validate(c) ==
  LET q == change[c]
  IN /\ q.pc = "validate"
     /\ IF \/ q.kind = "status" /\ ~StatusAllowed(q.status)
           \/ /\ q.kind # "status" /\ q.row.status = "CONFIRMED"
              /\ Conflict(q.row, IF q.kind = "correct" THEN q.target ELSE None)
        THEN Refuse(c)
        ELSE Goto(c, IF q.kind = "status" THEN "mark"
                     ELSE IF q.target # None THEN "insert"
                     ELSE IF Syncs(c) THEN "find" ELSE "commit")

-----------------------------------------------------------------------------
(* What they write *)

\* The insert of a successor waits for an open one that supersedes the same
\* interval, and fails when there is a committed one (supersedesIntervalId is unique).
Insert(c) ==
  LET t == change[c].target
  IN /\ change[c].pc = "insert"
     /\ \A o \in Others(c) : Inserted(o) => change[o].target # t
     /\ IF Superseded(interval, t) THEN Refuse(c) ELSE Goto(c, "mark")

\* The update of the target, or of the campaign, by id.
Mark(c) ==
  /\ change[c].pc = "mark"
  /\ \A o \in Others(c) : IF change[c].kind = "status" THEN ~HoldsCampaign(o)
                          ELSE ~Holds(o, change[c].target)
  /\ Goto(c, IF Syncs(c) THEN "find" ELSE "commit")

\* syncIntervalEvents: supersede the events found, once nobody else holds one of
\* them; those another change has superseded meanwhile are left to it.
FindEvents(c) ==
  /\ change[c].pc = "find"
  /\ Set(c, [change[c] EXCEPT !.pc = "take", !.found = events,
                              !.status = StatusIn(c)])

TakeEvents(c) ==
  /\ change[c].pc = "take"
  /\ \A o \in Others(c), e \in change[c].found : ~HoldsEvents(o, e)
  /\ Set(c, [change[c] EXCEPT !.pc = "derive", !.found = @ \intersect events])

DeriveEvents(c) ==
  /\ change[c].pc = "derive"
  /\ Set(c, [change[c] EXCEPT !.pc = "commit",
       !.new = {[by |-> c, is |-> e] : e \in EventsOf(View(c), change[c].status)}])

-----------------------------------------------------------------------------
(* generateMetaIntervalSuggestions, see MetaSuggestions: one transaction *)

\* A new suggestion, and perhaps the end of an earlier one that nobody resolved.
Suggest(s) ==
  /\ interval[s] = None
  /\ \E old \in Suggestions \union {None} :
       /\ old # None => interval[old] # None /\ \A c \in Changes : ~Holds(c, old)
       /\ interval' = [i \in Ids |->
            CASE i = s -> Row(Window[s][1], Window[s][2], "SUGGESTED", None)
              [] i # s /\ i = old /\ Resolvable(old) -> [interval[i] EXCEPT !.status = "SUPERSEDED"]
              [] OTHER -> interval[i]]
  /\ UNCHANGED <<campaign, events, change, raced, stale>>

-----------------------------------------------------------------------------
Next ==
  \/ \E c \in Changes :
       \/ Add(c) \/ ConfirmSuggestion(c) \/ RejectSuggestion(c) \/ Correct(c) \/ UpdateCampaign(c)
       \/ Validate(c) \/ Insert(c) \/ Mark(c)
       \/ FindEvents(c) \/ TakeEvents(c) \/ DeriveEvents(c) \/ Commit(c) \/ Abort(c)
  \/ \E s \in Suggestions : Suggest(s)

Spec == Init /\ [][Next]_vars

-----------------------------------------------------------------------------
(* Properties *)

\* Rows have the declared shape.
TypeOK ==
  /\ campaign \in Statuses
  /\ interval \in [Ids -> Interval \union {None}]
  /\ events \subseteq Event
  /\ raced \in BOOLEAN /\ stale \in BOOLEAN

\* Confirmed intervals never overlap, and at most one of them is open, whatever is
\* added, confirmed and corrected in whatever order, as long as no change commits
\* on top of one it could not see.
NoOverlapUnlessRaced == raced \/
  \A i, j \in Confirmed(interval) : i = j \/ ~Overlap(interval[i], interval[j])

\* The lifecycle events are those of the confirmed intervals and the status, each
\* once; a change that is not overtaken repairs them after one that was.
EventsAgree == stale \/
  /\ {e.is : e \in events} = EventsOf(interval, campaign)
  /\ \A e, f \in events : e.is = f.is => e = f

\* An interval has one successor at most, and is then neither confirmed nor open to
\* be resolved; without overtaking it was not rejected either.
LineageIsLinear == \A i \in Ids : Superseded(interval, i) =>
  /\ \A j, k \in Ids : Supersedes(interval, j, i) /\ Supersedes(interval, k, i) => j = k
  /\ interval[i].status \in {"SUPERSEDED", "REJECTED"}
  /\ interval[i].status = "REJECTED" => raced

\* A confirmed interval keeps its days and stays confirmed until a correction has
\* put another in its place: no suggestion, no rejection and no race removes it.
ConfirmedIsPreserved == [][\A i \in Confirmed(interval) :
  \/ interval'[i] = interval[i]
  \/ \E j \in Ids : Supersedes(interval', j, i) /\ interval'[j].status = "CONFIRMED"]_vars
=============================================================================
