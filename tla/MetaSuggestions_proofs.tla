------------------------- MODULE MetaSuggestions_proofs -------------------------
(***************************************************************************)
(* Theorems about MetaImport and MetaSuggestions, for every set of         *)
(* requests, previews, exports and days, with or without faults:           *)
(*   MetaTypes      rows keep their types, requests name rows there are;   *)
(*   MetaAnswers    what callers are told is true;                         *)
(*   MetaRawFiles   every missing or left over file has a named cause;     *)
(*   MetaCanonical  resolutions name the canonical batch unless raced;     *)
(*   MetaSynced     SYNCED means the suggestions the facts call for;       *)
(*   MetaWinners    resolutions name batches that report the day.          *)
(***************************************************************************)
EXTENDS MetaSuggestions, FiniteSetTheorems, TLAPS

USE DEF files

-----------------------------------------------------------------------------
(* Every set of observations has a first one *)

LEMMA LeastNat ==
  ASSUME NEW T, T \subseteq Nat, T # {}
  PROVE  \E x \in T : \A y \in T : x <= y
<1> DEFINE R == OpToRel(<, Nat)
<1>1. IsWellFoundedOn(R, Nat) BY NatLessThanWellFounded
<1>2. \A x, y \in Nat : y < x => <<y, x>> \in R BY DEF OpToRel
<1> HIDE DEF R
<1>3. PICK x \in T : \A y \in T : ~ (<<y, x>> \in R) BY <1>1, WFMin
<1>4. \A y \in T : ~(y < x) BY <1>2, <1>3
<1> QED BY <1>3, <1>4

LEMMA Highest ==
  ASSUME NEW S, S # {}, NEW f \in [S -> Nat], NEW n \in Nat, \A c \in S : f[c] <= n
  PROVE  \E c \in S : \A e \in S : f[e] <= f[c]
<1> DEFINE T == {n - f[c] : c \in S}
<1>1. T \subseteq Nat /\ T # {} OBVIOUS
<1> HIDE DEF T
<1>2. PICK x \in T : \A y \in T : x <= y BY <1>1, LeastNat
<1> USE DEF T
<1>3. PICK c \in S : x = n - f[c] BY <1>2
<1>4. ASSUME NEW e \in S PROVE f[e] <= f[c]
  <2>1. n - f[c] <= n - f[e] BY <1>2, <1>3
  <2>2. f[c] \in Nat /\ f[e] \in Nat OBVIOUS
  <2> QED BY <2>1, <2>2
<1> QED BY <1>4

\* Batches of different arrivals.
Ranked(B) ==
  /\ B \in [Commits -> Batch \union {None}]
  /\ \E n \in Nat : \A c \in Commits : B[c] # None => B[c].at <= n
  /\ \A c, e \in Commits : B[c] # None /\ B[e] # None /\ c # e => B[c].at # B[e].at

First(B, d, c) == c \in Observed(B, d) /\ \A e \in Observed(B, d) \ {c} : Beats(B, c, e)

LEMMA RankType ==
  ASSUME NEW B, Ranked(B), NEW c \in Commits, B[c] # None
  PROVE  /\ B[c] \in Batch /\ B[c].file \in Files /\ B[c].at \in Nat
         /\ Export[B[c].file].trust \in 1..4
         /\ (IF Export[B[c].file].trust = 2 THEN B[c].at ELSE Export[B[c].file].asOf) \in Nat
         /\ (IF Export[B[c].file].trust = 2 THEN B[c].at ELSE Export[B[c].file].asOf) <= B[c].at + 2
<1>1. B[c] \in Batch BY DEF Ranked
<1>2. B[c].file \in Files /\ B[c].at \in Nat BY <1>1 DEF Batch
<1>3. Export[B[c].file] \in Exports BY <1>2, MetaConstants
<1>4. Export[B[c].file].trust \in 1..4 /\ Export[B[c].file].asOf \in 0..2 BY <1>3 DEF Exports
<1> QED BY <1>1, <1>2, <1>4

LEMMA FirstExists ==
  ASSUME NEW B, Ranked(B), NEW d, Observed(B, d) # {}
  PROVE  \E c \in Commits : First(B, d, c)
<1> DEFINE S == Observed(B, d)
           T(c) == Export[B[c].file].trust
           A(c) == IF Export[B[c].file].trust = 2 THEN B[c].at ELSE Export[B[c].file].asOf
           W(c) == B[c].at
<1>1. \A c \in S : c \in Commits /\ B[c] # None BY DEF Observed
<1>2. PICK n \in Nat : \A c \in S : W(c) <= n BY <1>1 DEF Ranked
<1>3. \A c \in S : /\ T(c) \in Nat /\ T(c) <= 4
                   /\ A(c) \in Nat /\ A(c) <= n + 2
                   /\ W(c) \in Nat /\ W(c) <= n
  <2> SUFFICES ASSUME NEW c \in S
               PROVE  /\ T(c) \in Nat /\ T(c) <= 4
                      /\ A(c) \in Nat /\ A(c) <= n + 2
                      /\ W(c) \in Nat /\ W(c) <= n
    OBVIOUS
  <2>1. T(c) \in 1..4 /\ A(c) \in Nat /\ A(c) <= W(c) + 2 /\ W(c) \in Nat BY <1>1, RankType
  <2>2. W(c) <= n BY <1>2
  <2> HIDE DEF T, A, W
  <2> QED BY <2>1, <2>2
<1>4. \A c, e \in S : c # e => W(c) # W(e) BY <1>1 DEF Ranked
<1>5. \A c, e \in S :
        Beats(B, c, e) <=> \/ T(c) > T(e)
                           \/ T(c) = T(e) /\ A(c) > A(e)
                           \/ T(c) = T(e) /\ A(c) = A(e) /\ W(c) > W(e)
  BY DEF Beats, Rank, Above
<1>6. S # {} /\ S \subseteq Commits BY <1>1
<1> HIDE DEF S, T, A, W
<1>7. PICK a \in S : \A e \in S : T(e) <= T(a)
  <2> DEFINE f == [c \in S |-> T(c)]
  <2>1. f \in [S -> Nat] /\ \A c \in S : f[c] <= 4 BY <1>3
  <2>2. \A c \in S : f[c] = T(c) OBVIOUS
  <2> HIDE DEF f
  <2>3. \E c \in S : \A e \in S : f[e] <= f[c] BY <1>6, <2>1, Highest
  <2> QED BY <2>2, <2>3
<1> DEFINE S1 == {c \in S : T(c) = T(a)}
<1>8. PICK b \in S1 : \A e \in S1 : A(e) <= A(b)
  <2> DEFINE f == [c \in S1 |-> A(c)]
  <2>1. f \in [S1 -> Nat] /\ \A c \in S1 : f[c] <= n + 2 BY <1>3
  <2>2. \A c \in S1 : f[c] = A(c) OBVIOUS
  <2>3. S1 # {} /\ n + 2 \in Nat BY <1>7
  <2> HIDE DEF f, S1
  <2>4. \E c \in S1 : \A e \in S1 : f[e] <= f[c] BY <2>1, <2>3, Highest
  <2> QED BY <2>2, <2>4
<1> DEFINE S2 == {c \in S1 : A(c) = A(b)}
<1>9. PICK w \in S2 : \A e \in S2 : W(e) <= W(w)
  <2> DEFINE f == [c \in S2 |-> W(c)]
  <2>1. f \in [S2 -> Nat] /\ \A c \in S2 : f[c] <= n BY <1>3
  <2>2. \A c \in S2 : f[c] = W(c) OBVIOUS
  <2>3. S2 # {} BY <1>8
  <2> HIDE DEF f, S2
  <2>4. \E c \in S2 : \A e \in S2 : f[e] <= f[c] BY <2>1, <2>3, Highest
  <2> QED BY <2>2, <2>4
<1>10. ASSUME NEW e \in S \ {w} PROVE Beats(B, w, e)
  <2>1. w \in S /\ T(w) = T(a) /\ A(w) = A(b) BY <1>9
  <2>2. W(w) # W(e) BY <1>4, <2>1
  <2>3. T(e) <= T(w) BY <1>7, <2>1
  <2>4. T(e) = T(w) => A(e) <= A(w) BY <1>8, <2>1
  <2>5. T(e) = T(w) /\ A(e) = A(w) => W(e) <= W(w) BY <1>9, <2>1
  <2>6. /\ T(e) \in Nat /\ T(w) \in Nat /\ A(e) \in Nat /\ A(w) \in Nat
        /\ W(e) \in Nat /\ W(w) \in Nat
    BY <1>3, <2>1
  <2>7. \/ T(w) > T(e)
        \/ T(w) = T(e) /\ A(w) > A(e)
        \/ T(w) = T(e) /\ A(w) = A(e) /\ W(w) > W(e)
    BY <2>2, <2>3, <2>4, <2>5, <2>6
  <2> QED BY <1>5, <2>1, <2>7
<1>11. w \in S BY <1>9
<1> QED BY <1>6, <1>10, <1>11 DEF First, S

LEMMA FirstUnique ==
  ASSUME NEW B, Ranked(B), NEW d, NEW c, NEW e, First(B, d, c), First(B, d, e)
  PROVE  c = e
<1>1. c \in Commits /\ B[c] # None /\ e \in Commits /\ B[e] # None BY DEF First, Observed
<1> SUFFICES ASSUME c # e PROVE FALSE
  OBVIOUS
<1>2. Beats(B, c, e) /\ Beats(B, e, c) BY DEF First
<1> DEFINE T(x) == Export[B[x].file].trust
           A(x) == IF Export[B[x].file].trust = 2 THEN B[x].at ELSE Export[B[x].file].asOf
           W(x) == B[x].at
<1>3. /\ T(c) \in 1..4 /\ A(c) \in Nat /\ W(c) \in Nat
      /\ T(e) \in 1..4 /\ A(e) \in Nat /\ W(e) \in Nat
  BY <1>1, RankType
<1>4. /\ \/ T(c) > T(e)
         \/ T(c) = T(e) /\ A(c) > A(e)
         \/ T(c) = T(e) /\ A(c) = A(e) /\ W(c) > W(e)
      /\ \/ T(e) > T(c)
         \/ T(e) = T(c) /\ A(e) > A(c)
         \/ T(e) = T(c) /\ A(e) = A(c) /\ W(e) > W(c)
  BY <1>2 DEF Beats, Rank, Above
<1> HIDE DEF T, A, W
<1> QED BY <1>3, <1>4

LEMMA WinnerIs ==
  ASSUME NEW B, Ranked(B), NEW d
  PROVE  IF Observed(B, d) = {} THEN Winner(B, d) = None
         ELSE First(B, d, Winner(B, d)) /\ Winner(B, d) \in Commits /\ Winner(B, d) # None
<1>1. CASE Observed(B, d) = {} BY <1>1 DEF Winner
<1>2. CASE Observed(B, d) # {}
  <2>1. \E c \in Observed(B, d) : \A e \in Observed(B, d) \ {c} : Beats(B, c, e)
    BY <1>2, FirstExists DEF First
  <2>2. Winner(B, d) = CHOOSE c \in Observed(B, d) : \A e \in Observed(B, d) \ {c} : Beats(B, c, e)
    BY <1>2 DEF Winner
  <2>3. First(B, d, Winner(B, d)) BY <2>1, <2>2 DEF First
  <2>4. Winner(B, d) \in Commits BY <2>3 DEF First, Observed
  <2>5. Winner(B, d) # None BY <2>4, MetaConstants DEF Requests
  <2> QED BY <1>2, <2>3, <2>4, <2>5
<1> QED BY <1>1, <1>2

\* Batches that differ only where they say nothing about a day have its winner in common.
Silent(row, d) == row # None => d \notin DaysOf(row.file)

LEMMA WinnerSame ==
  ASSUME NEW B1, NEW B2, Ranked(B1), Ranked(B2), NEW d,
         \A c \in Commits : B1[c] = B2[c] \/ (Silent(B1[c], d) /\ Silent(B2[c], d))
  PROVE  Winner(B1, d) = Winner(B2, d)
<1>1. Observed(B1, d) = Observed(B2, d) BY DEF Observed, Silent
<1>2. \A c \in Observed(B1, d) : B1[c] = B2[c] BY DEF Observed, Silent
<1>3. \A c, e \in Observed(B1, d) : Beats(B1, c, e) <=> Beats(B2, c, e) BY <1>2 DEF Beats
<1>4. \A c : First(B1, d, c) <=> First(B2, d, c) BY <1>1, <1>3 DEF First
<1>5. CASE Observed(B1, d) = {} BY <1>1, <1>5, WinnerIs
<1>6. CASE Observed(B1, d) # {}
  <2>1. First(B1, d, Winner(B1, d)) /\ First(B2, d, Winner(B2, d)) BY <1>1, <1>6, WinnerIs
  <2>2. First(B2, d, Winner(B1, d)) BY <1>4, <2>1
  <2> QED BY <2>1, <2>2, FirstUnique
<1> QED BY <1>5, <1>6
-----------------------------------------------------------------------------
(* The invariant *)

CommitPcs == {"idle", "replayed", "files", "check", "target", "store", "create", "replace",
              "observe", "existing", "write", "cleanup", "committed", "failed", "conflict",
              "refused", "dead"}
WithdrawalPcs == {"idle", "update", "observe", "existing", "write", "withdrawn", "refused",
                  "conflict", "failed", "dead"}
Request == [pc : CommitPcs \union WithdrawalPcs, token : Previews \union {None},
            key : Keys \union {None}, target : Commits \union {None}, at : Nat,
            seen : [Days -> Commits \union {None}],
            existing : [Days -> Resolution \union {None}]]

Types == /\ MetaTypeOK
         /\ request \in [Requests -> Request] /\ arrivals \in Nat
         /\ \A c \in Commits : request[c].pc \in CommitPcs
         /\ \A w \in Withdrawals : request[w].pc \in WithdrawalPcs

\* What a request has read names rows that stay.
Known(r) ==
  LET q == request[r]
  IN /\ r \in Commits /\ q.pc # "idle" =>
          /\ q.token \in Previews /\ preview[q.token] # None
          /\ q.key \in Keys /\ q.at <= arrivals
     /\ q.target # None => batch[q.target] # None
     /\ q.pc = "replace" \/ (r \in Withdrawals /\ q.pc # "idle") => q.target # None

\* Whether it has created its batch and stored its file.
Ended == {"cleanup", "committed", "failed", "dead"}
Owns(r) == r \in Commits =>
  LET q == request[r]
  IN /\ q.pc \notin Ended => batch[r] = None
     /\ q.pc \in {"cleanup", "committed"} => batch[r] # None
     /\ batch[r] # None => batch[r].key = q.key /\ batch[r].at = q.at /\ q.pc # "idle"
     /\ q.pc \in InTransaction => r \in raw
     /\ r \in orphans => q.pc \in {"conflict", "failed"}

\* Arrivals differ.
Alone(r) == r \in Commits /\ request[r].pc # "idle" =>
  \A o \in Commits \ {r} : request[o].pc # "idle" => request[o].at # request[r].at

\* The batch it has marked is its own until it ends.
Marks(r) == \A b \in Commits : Holds(r, b) =>
  /\ Free(r, b)
  /\ r \in Commits => batch[b].state = "ACCEPTED"

\* What it has computed is right for the days nobody else has touched.
Fresh(r) ==
  LET q == request[r]
  IN \A d \in Affected(r) \ passed[r] :
       /\ q.pc \in {"existing", "write"} => q.seen[d] = Winner(View(r), d)
       /\ q.pc = "write" => q.existing[d] = resolution[d]

Answer(r) ==
  LET q == request[r]
  IN /\ q.pc = "committed" => batch[r] # None /\ batch[r].key = q.key
     /\ q.pc = "replayed" => \E b \in Batches : batch[b].key = q.key
     /\ q.pc = "withdrawn" => batch[q.target].state = "WITHDRAWN"
     /\ r \in Commits /\ q.pc \in {"refused", "conflict", "replayed"} => batch[r] = None
Stored(r) == r \in Commits =>
  /\ batch[r] # None /\ r \notin raw => request[r].pc = "failed"
  /\ batch[r] = None /\ r \in raw =>
       request[r].pc \in InTransaction \union {"dead"} \/ r \in orphans

Good(r) == Known(r) /\ Owns(r) /\ Alone(r) /\ Marks(r) /\ Fresh(r) /\ Answer(r) /\ Stored(r)
MInv == Types /\ CanonicalUnlessRaced /\ \A r \in Requests : Good(r)

LEMMA Kinds ==
  ASSUME NEW r \in Requests
  PROVE  /\ r \in Commits <=> r \notin Withdrawals
         /\ r # None
BY MetaConstants DEF Requests

LEMMA InitMInv == MetaInit => MInv
<1> SUFFICES ASSUME MetaInit PROVE MInv
  OBVIOUS
<1>1. Idle \in Request BY DEF Idle, Request, CommitPcs
<1>2. \A r \in Requests : request[r] = Idle /\ request[r].pc = "idle" /\ request[r].target = None
  BY DEF MetaInit, Idle
<1>3. Types
  <2>1. request \in [Requests -> Request] BY <1>1 DEF MetaInit
  <2>2. MetaTypeOK BY DEF MetaInit, MetaTypeOK
  <2> QED BY <1>2, <2>1, <2>2 DEF Types, MetaInit, CommitPcs, WithdrawalPcs, Requests
<1>4. \A c \in Commits : batch[c] = None BY DEF MetaInit
<1>5. CanonicalUnlessRaced
  <2> SUFFICES ASSUME NEW d \in Days PROVE Canonical(d)
    BY DEF CanonicalUnlessRaced
  <2>1. Winner(batch, d) = None BY <1>4 DEF Winner, Observed
  <2> QED BY <2>1 DEF Canonical, MetaInit
<1>6. ASSUME NEW r \in Requests PROVE Good(r)
  <2>1. Known(r) /\ Owns(r) /\ Alone(r) /\ Fresh(r) /\ Answer(r)
    BY <1>2, <1>4, Kinds DEF Known, Owns, Alone, Fresh, Answer, InTransaction, MetaInit
  <2>2. Marks(r) BY <1>2 DEF Marks, Holds
  <2>3. Stored(r) BY <1>4 DEF Stored, MetaInit
  <2> QED BY <2>1, <2>2, <2>3 DEF Good
<1> QED BY <1>3, <1>5, <1>6 DEF MInv

-----------------------------------------------------------------------------
(* The batches as a transaction sees them *)

LEMMA BatchRanked == ASSUME MInv PROVE Ranked(batch)
<1>1. batch \in [Commits -> Batch \union {None}] /\ arrivals \in Nat BY DEF MInv, Types, MetaTypeOK
<1>2. \A c \in Commits : c \in Requests /\ Known(c) /\ Owns(c) /\ Alone(c)
  BY DEF MInv, Good, Requests
<1>3. \A c \in Commits : batch[c] # None => /\ batch[c].at = request[c].at
                                           /\ request[c].pc # "idle" /\ batch[c].at <= arrivals
  BY <1>2 DEF Known, Owns
<1>4. \A c, e \in Commits : batch[c] # None /\ batch[e] # None /\ c # e => batch[c].at # batch[e].at
  BY <1>2, <1>3 DEF Alone
<1> QED BY <1>1, <1>3, <1>4 DEF Ranked

LEMMA ViewRows ==
  ASSUME MInv, NEW r \in Requests, request[r].pc \in InTransaction
  PROVE  /\ Ranked(View(r))
         /\ r \in Commits => /\ View(r)[r] = NewBatch(r) /\ NewBatch(r) \in Batch
                             /\ NewBatch(r) # None /\ NewBatch(r).file = FileOf(r)
                             /\ NewBatch(r).key = request[r].key /\ NewBatch(r).at = request[r].at
                             /\ batch[r] = None /\ request[r].target # r
         /\ \A c \in Commits \ {r} :
              IF c = request[r].target
              THEN /\ batch[c] # None /\ View(r)[c] # None
                   /\ View(r)[c].file = batch[c].file /\ View(r)[c].key = batch[c].key
                   /\ View(r)[c].at = batch[c].at /\ View(r)[c].state = MarkedAs(r)
              ELSE View(r)[c] = batch[c]
<1> DEFINE q == request[r]
           t == request[r].target
<1>1. /\ batch \in [Commits -> Batch \union {None}] /\ arrivals \in Nat
      /\ preview \in [Previews -> Preview \union {None}] /\ q \in Request
  BY DEF MInv, Types, MetaTypeOK
<1>2. Known(r) /\ Owns(r) /\ Alone(r) BY DEF MInv, Good
<1>3. q.pc # "idle" /\ q.pc \notin Ended BY DEF InTransaction, Ended
<1>4. t \in Commits \union {None} /\ (t # None => batch[t] # None)
  BY <1>1, <1>2 DEF Known, Request
<1>5. \A c \in Commits : c # None BY Kinds DEF Requests
<1>6. r \in Commits => /\ NewBatch(r) \in Batch /\ NewBatch(r) # None
                       /\ NewBatch(r).file = FileOf(r)
                       /\ NewBatch(r).key = q.key /\ NewBatch(r).at = q.at
                       /\ batch[r] = None /\ t # r /\ q.at <= arrivals /\ q.at \in Nat
  <2> SUFFICES ASSUME r \in Commits
               PROVE  /\ NewBatch(r) \in Batch /\ NewBatch(r) # None
                      /\ NewBatch(r).file = FileOf(r)
                      /\ NewBatch(r).key = q.key /\ NewBatch(r).at = q.at
                      /\ batch[r] = None /\ t # r /\ q.at <= arrivals /\ q.at \in Nat
    OBVIOUS
  <2>1. q.token \in Previews /\ preview[q.token] # None /\ q.key \in Keys /\ q.at <= arrivals
    BY <1>2, <1>3 DEF Known
  <2>2. FileOf(r) \in Files BY <1>1, <2>1 DEF FileOf, Preview
  <2>3. q.at \in Nat /\ q.target \in Commits \union {None} BY <1>1 DEF Request
  <2>4. NewBatch(r) \in Batch BY <2>1, <2>2, <2>3 DEF NewBatch, Batch, States
  <2>5. batch[r] = None BY <1>2, <1>3 DEF Owns
  <2>6. NewBatch(r) # None BY <2>4, MetaConstants
  <2> QED BY <1>4, <1>5, <2>1, <2>3, <2>4, <2>5, <2>6 DEF NewBatch
<1>7. MarkedAs(r) \in States BY DEF MarkedAs, States
<1>8. ASSUME NEW c \in Commits \ {r}
      PROVE  IF c = t
             THEN /\ batch[c] # None /\ View(r)[c] \in Batch /\ View(r)[c] # None
                  /\ View(r)[c].file = batch[c].file /\ View(r)[c].key = batch[c].key
                  /\ View(r)[c].at = batch[c].at /\ View(r)[c].state = MarkedAs(r)
             ELSE View(r)[c] = batch[c]
  <2>1. CASE c = t
    <3>1. View(r)[c] = [batch[c] EXCEPT !.state = MarkedAs(r)] BY <2>1 DEF View
    <3>2. batch[c] \in Batch /\ batch[c] # None BY <1>1, <1>4, <1>5, <2>1
    <3>3. View(r)[c] \in Batch /\ View(r)[c].state = MarkedAs(r)
          /\ View(r)[c].file = batch[c].file /\ View(r)[c].key = batch[c].key
          /\ View(r)[c].at = batch[c].at
      BY <1>7, <3>1, <3>2 DEF Batch
    <3>4. View(r)[c] # None BY <3>3, MetaConstants
    <3> QED BY <2>1, <3>2, <3>3, <3>4
  <2>2. CASE c # t BY <2>2 DEF View
  <2> QED BY <2>1, <2>2
<1>9. r \in Commits => View(r)[r] = NewBatch(r) BY DEF View
<1>10. View(r) \in [Commits -> Batch \union {None}]
  <2>1. \A c \in Commits : View(r)[c] \in Batch \union {None} BY <1>1, <1>6, <1>8, <1>9
  <2>2. View(r) = [c \in Commits |-> View(r)[c]] BY DEF View
  <2> QED BY <2>1, <2>2
<1>11. Ranked(batch) BY BatchRanked
<1>12. \A c \in Commits : View(r)[c] # None =>
         /\ View(r)[c].at = request[c].at /\ request[c].pc # "idle" /\ View(r)[c].at <= arrivals
  <2> SUFFICES ASSUME NEW c \in Commits, View(r)[c] # None
               PROVE  View(r)[c].at = request[c].at /\ request[c].pc # "idle"
                      /\ View(r)[c].at <= arrivals
    OBVIOUS
  <2>1. CASE c = r BY <1>3, <1>6, <1>9, <2>1
  <2>2. CASE c # r
    <3>1. batch[c] # None /\ View(r)[c].at = batch[c].at BY <1>8, <2>2
    <3>2. Known(c) /\ Owns(c) BY DEF MInv, Good, Requests
    <3> QED BY <3>1, <3>2 DEF Known, Owns
  <2> QED BY <2>1, <2>2
<1>13. \A c, e \in Commits : View(r)[c] # None /\ View(r)[e] # None /\ c # e
                             => View(r)[c].at # View(r)[e].at
  <2>1. \A c \in Commits : Alone(c) BY DEF MInv, Good, Requests
  <2> QED BY <1>12, <2>1 DEF Alone
<1>14. Ranked(View(r)) BY <1>1, <1>10, <1>12, <1>13 DEF Ranked
<1> QED BY <1>6, <1>8, <1>9, <1>14
LEMMA SameView ==
  ASSUME MInv, NEW o \in Requests, request[o].pc \in InTransaction, batch' = batch,
         request'[o].token = request[o].token, request'[o].key = request[o].key,
         request'[o].target = request[o].target, request'[o].at = request[o].at,
         \A p \in Previews : preview[p] # None => preview'[p] # None /\ preview'[p].file = preview[p].file
  PROVE  View(o)' = View(o) /\ Affected(o)' = Affected(o)
<1>1. o \in Commits => FileOf(o)' = FileOf(o)
  <2>1. Known(o) /\ request[o].pc # "idle" BY DEF MInv, Good, InTransaction
  <2> QED BY <2>1 DEF Known, FileOf
<1>2. o \in Commits => NewBatch(o)' = NewBatch(o) BY <1>1 DEF NewBatch
<1>3. Affected(o)' = Affected(o) BY <1>1 DEF Affected
<1>4. View(o)' = View(o)
  <2>1. CASE o \in Commits BY <1>2, <2>1 DEF View
  <2>2. CASE o \notin Commits
    <3>1. View(o) = [c \in Commits |-> IF c = request[o].target
                       THEN [batch[c] EXCEPT !.state = MarkedAs(o)] ELSE batch[c]]
      BY <2>2 DEF View
    <3>2. View(o)' = [c \in Commits |-> IF c = request[o].target
                       THEN [batch[c] EXCEPT !.state = MarkedAs(o)] ELSE batch[c]]
      BY <2>2 DEF View
    <3> QED BY <3>1, <3>2
  <2> QED BY <2>1, <2>2
<1> QED BY <1>3, <1>4

-----------------------------------------------------------------------------
(* Steps that leave the tables alone *)

LEMMA LocalStep ==
  ASSUME MInv, NEW r \in Requests, NEW q \in Request, request' = [request EXCEPT ![r] = q],
         UNCHANGED <<batch, resolution, raced>>, arrivals' \in Nat, arrivals <= arrivals',
         preview' \in [Previews -> Preview \union {None}],
         \A p \in Previews : preview[p] # None => preview'[p] # None /\ preview'[p].file = preview[p].file,
         raw' \subseteq Commits, \A c \in Commits \ {r} : c \in raw' <=> c \in raw,
         orphans' \subseteq Commits, \A c \in Commits \ {r} : c \in orphans' <=> c \in orphans,
         passed' \in [Requests -> SUBSET Days], \A o \in Requests \ {r} : passed'[o] = passed[o],
         r \in Commits => q.pc \in CommitPcs, r \in Withdrawals => q.pc \in WithdrawalPcs,
         Known(r)', Owns(r)', Alone(r)', Marks(r)', Fresh(r)', Answer(r)', Stored(r)'
  PROVE  MInv'
<1>1. request \in [Requests -> Request] /\ arrivals \in Nat BY DEF MInv, Types
<1>2. request' \in [Requests -> Request] BY <1>1
<1>3. request'[r] = q /\ \A o \in Requests \ {r} : request'[o] = request[o] BY <1>1
<1>4. Commits \subseteq Requests /\ Withdrawals \subseteq Requests BY DEF Requests
<1>5. Types'
  <2>1. \A c \in Commits : request'[c].pc \in CommitPcs BY <1>3, <1>4 DEF MInv, Types
  <2>2. \A w \in Withdrawals : request'[w].pc \in WithdrawalPcs BY <1>3, <1>4 DEF MInv, Types
  <2>3. MetaTypeOK' BY DEF MInv, Types, MetaTypeOK
  <2> QED BY <1>2, <2>1, <2>2, <2>3 DEF Types
<1>6. CanonicalUnlessRaced' BY DEF MInv, CanonicalUnlessRaced, Canonical
<1>7. ASSUME NEW o \in Requests \ {r} PROVE Good(o)'
  <2>1. /\ Known(o) /\ Owns(o) /\ Alone(o) /\ Marks(o) /\ Fresh(o) /\ Answer(o) /\ Stored(o)
        /\ request'[o] = request[o] /\ request[o] \in Request
    BY <1>1, <1>3 DEF MInv, Good
  <2>2. Known(o)' BY <1>1, <2>1 DEF Known, Request
  <2>3. Owns(o)' BY <2>1 DEF Owns
  <2>4. Alone(o)'
    <3> SUFFICES ASSUME o \in Commits, request[o].pc # "idle", NEW x \in Commits \ {o},
                        request'[x].pc # "idle"
                 PROVE  request'[x].at # request[o].at
      BY <2>1 DEF Alone
    <3>1. CASE x = r BY <2>1, <3>1 DEF Alone
    <3>2. CASE x # r BY <1>3, <1>4, <2>1, <3>2 DEF Alone
    <3> QED BY <3>1, <3>2
  <2>5. Marks(o)'
    <3> SUFFICES ASSUME NEW b \in Commits, Holds(o, b)
                 PROVE  Free(o, b)' /\ (o \in Commits => batch[b].state = "ACCEPTED")
      BY <2>1 DEF Marks, Holds
    <3>1. Free(o, b) /\ (o \in Commits => batch[b].state = "ACCEPTED") BY <2>1 DEF Marks
    <3>2. Holds(o, b)' BY <2>1 DEF Holds
    <3>3. ~Holds(r, b)' BY <3>2 DEF Marks, Free
    <3>4. \A x \in Requests \ {o, r} : ~Holds(x, b)' BY <1>3, <3>1 DEF Free, Holds
    <3> QED BY <3>1, <3>3, <3>4 DEF Free
  <2>6. Fresh(o)'
    <3>1. CASE request[o].pc \in InTransaction
      <4>1. View(o)' = View(o) /\ Affected(o)' = Affected(o) BY <2>1, <3>1, SameView
      <4> QED BY <2>1, <4>1 DEF Fresh
    <3>2. CASE request[o].pc \notin InTransaction BY <2>1, <3>2 DEF Fresh, InTransaction
    <3> QED BY <3>1, <3>2
  <2>7. Answer(o)' BY <2>1 DEF Answer, Batches
  <2>8. Stored(o)' BY <2>1 DEF Stored
  <2> QED BY <2>2, <2>3, <2>4, <2>5, <2>6, <2>7, <2>8 DEF Good
<1>8. Good(r)' BY DEF Good
<1> QED BY <1>5, <1>6, <1>7, <1>8 DEF MInv

\* One that goes on with what it has.
Same(q, p) == q.token = p.token /\ q.key = p.key /\ q.target = p.target /\ q.at = p.at

LEMMA OnwardStep ==
  ASSUME MInv, NEW r \in Requests, NEW q \in Request, request' = [request EXCEPT ![r] = q],
         UNCHANGED <<batch, resolution, raced, arrivals, preview>>,
         Same(q, request[r]), request[r].pc # "idle", request[r].pc \notin Ended, q.pc # "idle",
         q.pc \notin {"cleanup", "committed", "replayed", "withdrawn"},
         raw' \subseteq Commits, \A c \in Commits \ {r} : c \in raw' <=> c \in raw,
         orphans' \subseteq Commits, \A c \in Commits \ {r} : c \in orphans' <=> c \in orphans,
         passed' \in [Requests -> SUBSET Days], \A o \in Requests \ {r} : passed'[o] = passed[o],
         r \in Commits => q.pc \in CommitPcs, r \in Withdrawals => q.pc \in WithdrawalPcs,
         q.pc = "replace" => q.target # None,
         r \in Commits /\ q.pc \in InTransaction => r \in raw',
         r \in Commits /\ q.pc \notin InTransaction \union {"dead"} => r \notin raw' \/ r \in orphans',
         r \in orphans' => q.pc \in {"conflict", "failed"},
         \A b \in Commits : q.target = b /\ q.pc \in {"observe", "existing", "write"} =>
           Free(r, b) /\ (r \in Commits => batch[b].state = "ACCEPTED"),
         Fresh(r)'
  PROVE  MInv'
<1>1. request \in [Requests -> Request] /\ preview \in [Previews -> Preview \union {None}]
      /\ arrivals \in Nat
  BY DEF MInv, Types, MetaTypeOK
<1>2. request'[r] = q /\ \A o \in Requests \ {r} : request'[o] = request[o] BY <1>1
<1>3. Known(r) /\ Owns(r) /\ Alone(r) BY DEF MInv, Good
<1>4. Known(r)' BY <1>2, <1>3 DEF Known, Same
<1>5. r \in Commits => batch[r] = None BY <1>3 DEF Owns
<1>6. Owns(r)' BY <1>2, <1>5 DEF Owns
<1>7. Alone(r)'
  <2> SUFFICES ASSUME r \in Commits, NEW o \in Commits \ {r}, request'[o].pc # "idle"
               PROVE  request'[o].at # q.at
    BY <1>2 DEF Alone
  <2>1. request'[o] = request[o] BY <1>2 DEF Requests
  <2> QED BY <1>3, <2>1 DEF Alone, Same
<1>8. Marks(r)'
  <2> SUFFICES ASSUME NEW b \in Commits, Holds(r, b)'
               PROVE  Free(r, b)' /\ (r \in Commits => batch[b].state = "ACCEPTED")
    BY DEF Marks
  <2>1. Free(r, b) /\ (r \in Commits => batch[b].state = "ACCEPTED") BY <1>2 DEF Holds
  <2> QED BY <1>2, <2>1 DEF Free, Holds
<1>9. Answer(r)' BY <1>2, <1>5 DEF Answer
<1>10. Stored(r)' BY <1>2, <1>5 DEF Stored
<1>11. arrivals' \in Nat /\ arrivals <= arrivals' /\ preview' \in [Previews -> Preview \union {None}]
  BY <1>1
<1>12. \A p \in Previews : preview[p] # None => preview'[p] # None /\ preview'[p].file = preview[p].file
  OBVIOUS
<1>13. UNCHANGED <<batch, resolution, raced>> OBVIOUS
<1> QED BY <1>4, <1>6, <1>7, <1>8, <1>9, <1>10, <1>11, <1>12, <1>13, LocalStep

\* A failed request deletes its file, or leaves it as an orphan.
LEMMA Discarded ==
  ASSUME MInv, NEW r \in Requests, Discard(r)
  PROVE  /\ raw' \subseteq Commits /\ \A c \in Commits \ {r} : c \in raw' <=> c \in raw
         /\ orphans' \subseteq Commits /\ \A c \in Commits \ {r} : c \in orphans' <=> c \in orphans
         /\ r \in raw' => r \in orphans'
<1>1. raw \subseteq Commits /\ orphans \subseteq Commits BY DEF MInv, Types, MetaTypeOK
<1> QED BY <1>1 DEF Discard

\* One statement that writes nothing others see.
LEMMA StepOn ==
  ASSUME MInv, NEW r \in Requests, NEW pc, NEW next, Step(r, pc, next),
         pc \in {"files", "check", "target", "create", "replace", "update"},
         next \in {"refused", "check", "target", "store", "replace", "observe"},
         r \in Commits => next \in CommitPcs, r \in Withdrawals => next \in WithdrawalPcs,
         next = "replace" => request[r].target # None,
         next \in InTransaction <=> pc \in InTransaction,
         \A b \in Commits : request[r].target = b /\ next = "observe" =>
           Free(r, b) /\ (r \in Commits => batch[b].state = "ACCEPTED")
  PROVE  MInv'
<1> DEFINE q == [request[r] EXCEPT !.pc = next]
<1>1. request[r] \in Request /\ passed \in [Requests -> SUBSET Days] /\ raw \subseteq Commits
      /\ orphans \subseteq Commits
  BY DEF MInv, Types, MetaTypeOK
<1>2. /\ q \in Request /\ q.pc = next /\ q.token = request[r].token /\ q.key = request[r].key
      /\ q.target = request[r].target /\ q.at = request[r].at
  BY <1>1 DEF Request, CommitPcs
<1>3. request' = [request EXCEPT ![r] = q] /\ request[r].pc = pc
      /\ UNCHANGED <<batch, resolution, raced, preview, files, arrivals, passed>>
  BY DEF Step, Goto, Unwritten
<1> HIDE DEF q
<1>4. request'[r] = q BY <1>3 DEF MInv, Types
<1>5. Fresh(r)' BY <1>2, <1>4 DEF Fresh
<1>6. r \in Commits /\ pc \in InTransaction => r \in raw BY <1>3 DEF MInv, Good, Owns
<1>7. r \notin orphans
  BY <1>1, <1>3 DEF MInv, Good, Owns
<1>8. r \in Commits /\ pc \notin InTransaction => r \notin raw
  <2> SUFFICES ASSUME r \in Commits, pc \notin InTransaction PROVE r \notin raw
    OBVIOUS
  <2>1. Stored(r) /\ Owns(r) BY DEF MInv, Good
  <2>2. batch[r] = None BY <1>3, <2>1 DEF Owns, Ended
  <2> QED BY <1>7, <1>3, <2>1, <2>2 DEF Stored
<1>9. Same(q, request[r]) /\ request[r].pc # "idle" /\ request[r].pc \notin Ended
  BY <1>2, <1>3 DEF Same, Ended
<1>10. q.pc \notin {"idle", "cleanup", "committed", "replayed", "withdrawn", "dead"} BY <1>2
<1>11. \A b \in Commits : q.target = b /\ q.pc \in {"observe", "existing", "write"} =>
         Free(r, b) /\ (r \in Commits => batch[b].state = "ACCEPTED")
  BY <1>2
<1>12. /\ r \in Commits /\ q.pc \in InTransaction => r \in raw'
       /\ r \in Commits /\ q.pc \notin InTransaction \union {"dead"} => r \notin raw'
       /\ r \notin orphans'
  BY <1>7, <1>2, <1>3, <1>6, <1>8
<1>13. UNCHANGED <<batch, resolution, raced, preview, raw, orphans, arrivals, passed>> BY <1>3
<1> QED BY <1>1, <1>2, <1>3, <1>5, <1>9, <1>10, <1>11, <1>12, <1>13, OnwardStep

LEMMA RollbackStep ==
  ASSUME MInv, NEW r \in Requests, NEW answer \in {"conflict", "failed"}, Rollback(r, answer),
         request[r].pc \in InTransaction
  PROVE  MInv'
<1> DEFINE q == [request[r] EXCEPT !.pc = answer]
<1>1. request[r] \in Request /\ passed \in [Requests -> SUBSET Days] /\ raw \subseteq Commits
      /\ orphans \subseteq Commits
  BY DEF MInv, Types, MetaTypeOK
<1>2. /\ q \in Request /\ q.pc = answer /\ q.token = request[r].token /\ q.key = request[r].key
      /\ q.target = request[r].target /\ q.at = request[r].at
  BY <1>1 DEF Request, CommitPcs
<1>3. request' = [request EXCEPT ![r] = q] /\ Discard(r) /\ passed' = [passed EXCEPT ![r] = {}]
      /\ UNCHANGED <<batch, resolution, raced, preview, arrivals>>
  BY DEF Rollback, Goto, Unwritten
<1> HIDE DEF q
<1>4. request'[r] = q BY <1>3 DEF MInv, Types
<1>5. Fresh(r)' BY <1>2, <1>4 DEF Fresh
<1>6. Same(q, request[r]) /\ request[r].pc # "idle" /\ request[r].pc \notin Ended
  BY <1>2 DEF Same, Ended, InTransaction
<1>7. q.pc \in CommitPcs /\ q.pc \in WithdrawalPcs BY <1>2 DEF CommitPcs, WithdrawalPcs
<1>8. q.pc \notin InTransaction BY <1>2 DEF InTransaction
<1>9. passed' \in [Requests -> SUBSET Days] /\ \A o \in Requests \ {r} : passed'[o] = passed[o]
  BY <1>1, <1>3
<1>10. /\ raw' \subseteq Commits /\ \A c \in Commits \ {r} : c \in raw' <=> c \in raw
       /\ orphans' \subseteq Commits /\ \A c \in Commits \ {r} : c \in orphans' <=> c \in orphans
       /\ r \in raw' => r \in orphans'
  BY <1>3, Discarded
<1> HIDE DEF Discard
<1> QED BY <1>1, <1>2, <1>3, <1>5, <1>6, <1>7, <1>8, <1>9, <1>10, OnwardStep

LEMMA DieStep == ASSUME MInv, NEW r \in Requests, Die(r) PROVE MInv'
<1> DEFINE q == [request[r] EXCEPT !.pc = "dead"]
<1>1. /\ request[r] \in Request /\ passed \in [Requests -> SUBSET Days] /\ raw \subseteq Commits
      /\ orphans \subseteq Commits
      /\ preview \in [Previews -> Preview \union {None}] /\ arrivals \in Nat
  BY DEF MInv, Types, MetaTypeOK
<1>2. /\ q \in Request /\ q.pc = "dead" /\ q.token = request[r].token /\ q.key = request[r].key
      /\ q.target = request[r].target /\ q.at = request[r].at
  BY <1>1 DEF Request, CommitPcs
<1>3. request' = [request EXCEPT ![r] = q] /\ passed' = [passed EXCEPT ![r] = {}]
      /\ UNCHANGED <<batch, resolution, raced, files, preview, arrivals>>
      /\ request[r].pc # "idle" /\ request[r].pc \notin {"failed", "conflict"}
  BY DEF Die, Goto, Unwritten, Answers
<1> HIDE DEF q
<1>4. request'[r] = q /\ \A o \in Requests \ {r} : request'[o] = request[o]
  BY <1>3 DEF MInv, Types
<1>5. Known(r) /\ Owns(r) /\ Alone(r) /\ Stored(r) BY DEF MInv, Good
<1>6. Known(r)' BY <1>2, <1>3, <1>4, <1>5 DEF Known
<1>7. Owns(r)' BY <1>2, <1>3, <1>4, <1>5 DEF Owns, Ended, InTransaction
<1>8. Alone(r)' BY <1>2, <1>3, <1>4, <1>5 DEF Alone, Requests
<1>9. Marks(r)' /\ Fresh(r)' /\ Answer(r)' BY <1>2, <1>4 DEF Marks, Holds, Fresh, Answer
<1>10. Stored(r)' BY <1>2, <1>3, <1>4, <1>5 DEF Stored
<1>11. q.pc \in CommitPcs /\ q.pc \in WithdrawalPcs BY <1>2 DEF CommitPcs, WithdrawalPcs
<1>12. passed' \in [Requests -> SUBSET Days] /\ \A o \in Requests \ {r} : passed'[o] = passed[o]
  BY <1>1, <1>3
<1>13. \A p \in Previews : preview[p] # None => preview'[p] # None /\ preview'[p].file = preview[p].file
  BY <1>3
<1>14. /\ arrivals' \in Nat /\ arrivals <= arrivals' /\ raw' \subseteq Commits /\ orphans' \subseteq Commits
       /\ \A c \in Commits \ {r} : (c \in raw' <=> c \in raw) /\ (c \in orphans' <=> c \in orphans)
       /\ preview' \in [Previews -> Preview \union {None}]
  BY <1>1, <1>3
<1>15. request' = [request EXCEPT ![r] = q] /\ UNCHANGED <<batch, resolution, raced>> BY <1>3
<1> QED
  BY <1>2, <1>6, <1>7, <1>8, <1>9, <1>10, <1>11, <1>12, <1>13, <1>14, <1>15, LocalStep

LEMMA AbortStep == ASSUME MInv, NEW r \in Requests, Abort(r) PROVE MInv'
BY RollbackStep DEF Abort

LEMMA ObserveStep == ASSUME MInv, NEW r \in Requests, Observe(r) PROVE MInv'
<1> DEFINE seen == [d \in Days |-> IF d \in Affected(r) THEN Winner(View(r), d) ELSE None]
           q == [request[r] EXCEPT !.pc = "existing", !.seen = seen]
<1>1. /\ request[r] \in Request /\ passed \in [Requests -> SUBSET Days] /\ raw \subseteq Commits
      /\ orphans \subseteq Commits
      /\ preview \in [Previews -> Preview \union {None}]
  BY DEF MInv, Types, MetaTypeOK
<1>2. request[r].pc = "observe" /\ request[r].pc \in InTransaction BY DEF Observe, InTransaction
<1>3. seen \in [Days -> Commits \union {None}]
  <2>1. Ranked(View(r)) BY <1>2, ViewRows
  <2>2. \A d \in Days : Winner(View(r), d) \in Commits \union {None} BY <2>1, WinnerIs
  <2> QED BY <2>2
<1>4. request' = [request EXCEPT ![r] = q] /\ passed' = [passed EXCEPT ![r] = {}]
      /\ UNCHANGED <<batch, resolution, raced, files, preview, arrivals>>
  BY DEF Observe, Unwritten
<1>5. \A d \in Days : d \in Affected(r) => seen[d] = Winner(View(r), d) OBVIOUS
<1> HIDE DEF seen
<1>6. /\ q \in Request /\ q.pc = "existing" /\ q.seen = seen
      /\ q.token = request[r].token /\ q.key = request[r].key
      /\ q.target = request[r].target /\ q.at = request[r].at
  BY <1>1, <1>3 DEF Request, CommitPcs
<1> HIDE DEF q
<1>7. request'[r] = q BY <1>4 DEF MInv, Types
<1>8. View(r)' = View(r) /\ Affected(r)' = Affected(r)
  BY <1>2, <1>4, <1>6, <1>7, SameView
<1>9. Affected(r) \subseteq Days BY DEF Affected, DaysOf
<1>10. Fresh(r)' BY <1>5, <1>6, <1>7, <1>8, <1>9 DEF Fresh
<1>11. Same(q, request[r]) /\ request[r].pc # "idle" /\ request[r].pc \notin Ended
  BY <1>2, <1>6 DEF Same, Ended
<1>12. q.pc \in CommitPcs /\ q.pc \in WithdrawalPcs /\ q.pc \in InTransaction
  BY <1>6 DEF CommitPcs, WithdrawalPcs, InTransaction
<1>13. passed' \in [Requests -> SUBSET Days] /\ \A o \in Requests \ {r} : passed'[o] = passed[o]
  BY <1>1, <1>4
<1>14. r \in Commits => r \in raw /\ r \notin orphans BY <1>2 DEF MInv, Good, Owns
<1>15. \A b \in Commits : q.target = b => Free(r, b) /\ (r \in Commits => batch[b].state = "ACCEPTED")
  BY <1>2, <1>6 DEF MInv, Good, Marks, Holds
<1>16. UNCHANGED <<batch, resolution, raced, preview, raw, orphans, arrivals>> BY <1>4
<1> QED BY <1>1, <1>4, <1>6, <1>10, <1>11, <1>12, <1>13, <1>14, <1>15, <1>16, OnwardStep

LEMMA ReadExistingStep == ASSUME MInv, NEW r \in Requests, ReadExisting(r) PROVE MInv'
<1> DEFINE existing == [d \in Days |-> IF d \in Affected(r) THEN resolution[d] ELSE None]
           q == [request[r] EXCEPT !.pc = "write", !.existing = existing]
<1>1. /\ request[r] \in Request /\ passed \in [Requests -> SUBSET Days] /\ raw \subseteq Commits
      /\ orphans \subseteq Commits
      /\ resolution \in [Days -> Resolution \union {None}]
  BY DEF MInv, Types, MetaTypeOK
<1>2. request[r].pc = "existing" /\ request[r].pc \in InTransaction BY DEF ReadExisting, InTransaction
<1>3. existing \in [Days -> Resolution \union {None}] BY <1>1
<1>4. request' = [request EXCEPT ![r] = q]
      /\ UNCHANGED <<batch, resolution, raced, files, preview, arrivals, passed>>
  BY DEF ReadExisting, Unwritten
<1>5. \A d \in Days : d \in Affected(r) => existing[d] = resolution[d] OBVIOUS
<1> HIDE DEF existing
<1>6. /\ q \in Request /\ q.pc = "write" /\ q.existing = existing /\ q.seen = request[r].seen
      /\ q.token = request[r].token /\ q.key = request[r].key
      /\ q.target = request[r].target /\ q.at = request[r].at
  BY <1>1, <1>3 DEF Request, CommitPcs
<1> HIDE DEF q
<1>7. request'[r] = q BY <1>4 DEF MInv, Types
<1>8. View(r)' = View(r) /\ Affected(r)' = Affected(r)
  BY <1>2, <1>4, <1>6, <1>7, SameView
<1>9. Affected(r) \subseteq Days BY DEF Affected, DaysOf
<1>10. \A d \in Affected(r) \ passed[r] : request[r].seen[d] = Winner(View(r), d)
  BY <1>2 DEF MInv, Good, Fresh
<1>11. Fresh(r)' BY <1>4, <1>5, <1>6, <1>7, <1>8, <1>9, <1>10 DEF Fresh
<1>12. Same(q, request[r]) /\ request[r].pc # "idle" /\ request[r].pc \notin Ended
  BY <1>2, <1>6 DEF Same, Ended
<1>13. q.pc \in CommitPcs /\ q.pc \in WithdrawalPcs /\ q.pc \in InTransaction
  BY <1>6 DEF CommitPcs, WithdrawalPcs, InTransaction
<1>14. r \in Commits => r \in raw /\ r \notin orphans BY <1>2 DEF MInv, Good, Owns
<1>15. \A b \in Commits : q.target = b => Free(r, b) /\ (r \in Commits => batch[b].state = "ACCEPTED")
  BY <1>2, <1>6 DEF MInv, Good, Marks, Holds
<1>16. UNCHANGED <<batch, resolution, raced, preview, raw, orphans, arrivals>> BY <1>4
<1> QED BY <1>1, <1>4, <1>6, <1>11, <1>12, <1>13, <1>14, <1>15, <1>16, OnwardStep

-----------------------------------------------------------------------------
(* createMetaImportPreview, and the requests up to their transactions *)

LEMMA CreatePreviewStep == ASSUME MInv, NEW p \in Previews, CreatePreview(p) PROVE MInv'
<1>1. preview \in [Previews -> Preview \union {None}] BY DEF MInv, Types, MetaTypeOK
<1>2. PICK f \in Files : preview[p] = None /\ preview' = [preview EXCEPT ![p] = [file |-> f, stored |-> TRUE]]
  BY DEF CreatePreview
<1>3. UNCHANGED <<batch, resolution, raced, files, request, arrivals, passed>>
  BY DEF CreatePreview, Unwritten
<1>4. preview' \in [Previews -> Preview \union {None}] BY <1>1, <1>2 DEF Preview
<1>5. \A x \in Previews : preview[x] # None => preview'[x] # None /\ preview'[x].file = preview[x].file
  BY <1>1, <1>2
<1>6. Types' BY <1>3, <1>4 DEF MInv, Types, MetaTypeOK
<1>7. CanonicalUnlessRaced' BY <1>3 DEF MInv, CanonicalUnlessRaced, Canonical
<1>8. ASSUME NEW o \in Requests PROVE Good(o)'
  <2>1. Good(o) BY DEF MInv
  <2>2. Known(o)' BY <1>3, <1>5, <2>1 DEF Good, Known
  <2>3. Owns(o)' /\ Alone(o)' /\ Answer(o)' /\ Stored(o)'
    BY <1>3, <2>1 DEF Good, Owns, Alone, Answer, Stored, Batches
  <2>4. Marks(o)' BY <1>3, <2>1 DEF Good, Marks, Holds, Free
  <2>5. Fresh(o)'
    <3>1. CASE request[o].pc \in InTransaction
      <4>1. View(o)' = View(o) /\ Affected(o)' = Affected(o) BY <1>3, <1>5, <3>1, SameView
      <4> QED BY <1>3, <2>1, <4>1 DEF Good, Fresh
    <3>2. CASE request[o].pc \notin InTransaction BY <1>3, <3>2 DEF Fresh, InTransaction
    <3> QED BY <3>1, <3>2
  <2> QED BY <2>2, <2>3, <2>4, <2>5 DEF Good
<1> QED BY <1>6, <1>7, <1>8 DEF MInv

LEMMA StartStep == ASSUME MInv, NEW c \in Commits, Start(c) PROVE MInv'
<1>1. PICK p \in Previews, k \in Keys, t \in Batches \union {None} :
        /\ preview[p] # None
        /\ request' = [request EXCEPT ![c] = [@ EXCEPT
             !.pc = IF \E b \in Batches : batch[b].key = k THEN "replayed" ELSE "files",
             !.token = p, !.key = k, !.target = t, !.at = arrivals + 1]]
  BY DEF Start
<1> DEFINE pc == IF \E b \in Batches : batch[b].key = k THEN "replayed" ELSE "files"
           q == [request[c] EXCEPT !.pc = pc, !.token = p, !.key = k, !.target = t, !.at = arrivals + 1]
<1>2. c \in Requests BY DEF Requests
<1>3. /\ request[c] \in Request /\ passed \in [Requests -> SUBSET Days] /\ raw \subseteq Commits
      /\ orphans \subseteq Commits
      /\ preview \in [Previews -> Preview \union {None}] /\ arrivals \in Nat
  BY <1>2 DEF MInv, Types, MetaTypeOK
<1>4. pc \in {"replayed", "files"} /\ (pc = "replayed" => \E b \in Batches : batch[b].key = k) OBVIOUS
<1>5. t \in Commits \union {None} /\ (t # None => batch[t] # None) BY DEF Batches
<1>6. request' = [request EXCEPT ![c] = q] BY <1>1
<1> HIDE DEF pc
<1>7. q \in Request /\ q.pc = pc /\ q.token = p /\ q.key = k /\ q.target = t /\ q.at = arrivals + 1
  <2>1. /\ pc \in CommitPcs \union WithdrawalPcs /\ arrivals + 1 \in Nat
        /\ p \in Previews \union {None} /\ k \in Keys \union {None} /\ t \in Commits \union {None}
    BY <1>3, <1>4, <1>5 DEF CommitPcs
  <2> DEFINE n == arrivals + 1
  <2>2. q = [request[c] EXCEPT !.pc = pc, !.token = p, !.key = k, !.target = t, !.at = n] OBVIOUS
  <2> HIDE DEF n, q
  <2> QED BY <1>3, <2>1, <2>2 DEF Request, n
<1> HIDE DEF q
<1>8. request'[c] = q /\ \A o \in Requests \ {c} : request'[o] = request[o]
  BY <1>2, <1>6 DEF MInv, Types
<1>9. request[c].pc = "idle" /\ arrivals' = arrivals + 1
      /\ UNCHANGED <<batch, resolution, raced, files, preview, passed>>
  BY DEF Start, Unwritten
<1>10. batch[c] = None /\ c \notin raw /\ c \notin orphans
  BY <1>2, <1>9 DEF MInv, Good, Owns, Stored, Ended, InTransaction
<1>11. Known(c)' BY <1>1, <1>3, <1>4, <1>5, <1>7, <1>8, <1>9, <1>2, Kinds DEF Known
<1>12. Owns(c)' BY <1>4, <1>7, <1>8, <1>9, <1>10 DEF Owns, Ended, InTransaction
<1>13. Alone(c)'
  <2> SUFFICES ASSUME NEW o \in Commits \ {c}, request'[o].pc # "idle"
               PROVE  request'[o].at # q.at
    BY <1>8 DEF Alone
  <2>1. o \in Requests /\ request'[o] = request[o] BY <1>8 DEF Requests
  <2>2. request[o].at <= arrivals /\ request[o].at \in Nat
    BY <2>1 DEF MInv, Good, Known, Types, Request
  <2> QED BY <1>3, <1>7, <2>1, <2>2
<1>14. Marks(c)' /\ Fresh(c)' BY <1>4, <1>7, <1>8 DEF Marks, Holds, Fresh
<1>15. Answer(c)' BY <1>4, <1>7, <1>8, <1>9, <1>10 DEF Answer, Batches
<1>16. Stored(c)' BY <1>9, <1>10 DEF Stored
<1>17. q.pc \in CommitPcs /\ c \notin Withdrawals BY <1>2, <1>4, <1>7, Kinds DEF CommitPcs
<1>18. arrivals' \in Nat /\ arrivals <= arrivals' BY <1>3, <1>9
<1>19. /\ \A x \in Previews : preview[x] # None => preview'[x] # None /\ preview'[x].file = preview[x].file
       /\ preview' \in [Previews -> Preview \union {None}] /\ raw' \subseteq Commits
       /\ \A o \in Commits \ {c} : (o \in raw' <=> o \in raw) /\ (o \in orphans' <=> o \in orphans)
       /\ orphans' \subseteq Commits
       /\ passed' \in [Requests -> SUBSET Days] /\ \A o \in Requests \ {c} : passed'[o] = passed[o]
  BY <1>3, <1>9
<1>20. UNCHANGED <<batch, resolution, raced>> BY <1>9
<1> QED
  BY <1>2, <1>6, <1>7, <1>11, <1>12, <1>13, <1>14, <1>15, <1>16, <1>17, <1>18, <1>19, <1>20, LocalStep

LEMMA CheckSteps ==
  ASSUME MInv, NEW c \in Commits,
         Refuse(c) \/ ReadFiles(c) \/ CheckDuplicates(c) \/ ReadTarget(c)
  PROVE  MInv'
<1>1. c \in Requests /\ c \notin Withdrawals BY Kinds DEF Requests
<1>2. PICK pc \in {"files", "check", "target"}, next \in {"refused", "check", "target", "store"} :
        Step(c, pc, next)
  BY DEF Refuse, ReadFiles, CheckDuplicates, ReadTarget
<1>3. next \in CommitPcs /\ ~(next \in InTransaction) /\ ~(pc \in InTransaction)
  BY <1>2 DEF CommitPcs, InTransaction
<1> QED BY <1>1, <1>2, <1>3, StepOn

LEMMA StoreRawStep == ASSUME MInv, NEW c \in Commits, StoreRaw(c) PROVE MInv'
<1>1. c \in Requests /\ c \notin Withdrawals BY Kinds DEF Requests
<1>2. PICK next \in {"create", "failed"} :
        /\ Goto(c, next)
        /\ \/ next = "create" /\ raw' = raw \union {c} /\ UNCHANGED orphans
           \/ /\ next = "failed"
              /\ \E kept \in SUBSET {c} : raw' = raw \union kept /\ orphans' = orphans \union kept
  BY DEF StoreRaw
<1> DEFINE q == [request[c] EXCEPT !.pc = next]
<1>3. request[c] \in Request /\ passed \in [Requests -> SUBSET Days] /\ raw \subseteq Commits
      /\ orphans \subseteq Commits
  BY <1>1 DEF MInv, Types, MetaTypeOK
<1>4. /\ q \in Request /\ q.pc = next /\ q.token = request[c].token /\ q.key = request[c].key
      /\ q.target = request[c].target /\ q.at = request[c].at
  BY <1>3 DEF Request, CommitPcs
<1>5. request' = [request EXCEPT ![c] = q] /\ request[c].pc = "store"
      /\ UNCHANGED <<batch, resolution, raced, preview, arrivals, passed>>
  BY <1>2 DEF StoreRaw, Goto, Unwritten
<1> HIDE DEF q
<1>6. request'[c] = q BY <1>1, <1>5 DEF MInv, Types
<1>7. Fresh(c)' BY <1>4, <1>6 DEF Fresh
<1>8. Same(q, request[c]) /\ request[c].pc # "idle" /\ request[c].pc \notin Ended
  BY <1>4, <1>5 DEF Same, Ended
<1>9. q.pc \in CommitPcs /\ (q.pc = "create" <=> q.pc \in InTransaction)
  BY <1>4 DEF CommitPcs, InTransaction
<1>10. c \notin raw /\ c \notin orphans
  BY <1>1, <1>5 DEF MInv, Good, Owns, Stored, Ended, InTransaction
<1>11. /\ raw' \subseteq Commits /\ orphans' \subseteq Commits
       /\ \A o \in Commits \ {c} : (o \in raw' <=> o \in raw) /\ (o \in orphans' <=> o \in orphans)
       /\ next = "create" => c \in raw' /\ c \notin orphans'
       /\ next = "failed" => c \notin raw' \/ c \in orphans'
  <2>1. CASE next = "create" BY <1>2, <1>3, <1>10, <2>1
  <2>2. CASE next = "failed" BY <1>2, <1>3, <1>10, <2>2
  <2> QED BY <2>1, <2>2
<1> QED BY <1>1, <1>3, <1>4, <1>5, <1>7, <1>8, <1>9, <1>11, OnwardStep

LEMMA CreateStep == ASSUME MInv, NEW c \in Commits, Create(c) PROVE MInv'
<1>1. c \in Requests /\ c \notin Withdrawals BY Kinds DEF Requests
<1>2. request[c].pc = "create" /\ request[c].pc \in InTransaction BY DEF Create, InTransaction
<1>3. CASE Rollback(c, "conflict") BY <1>1, <1>2, <1>3, RollbackStep
<1>4. CASE Step(c, "create", IF request[c].target = None THEN "observe" ELSE "replace")
  <2>1. "observe" \in CommitPcs /\ "replace" \in CommitPcs /\ "create" \in InTransaction
        /\ "observe" \in InTransaction /\ "replace" \in InTransaction
    BY DEF CommitPcs, InTransaction
  <2>2. \A b \in Commits : b # None BY Kinds DEF Requests
  <2>3. CASE request[c].target = None
    <3>1. Step(c, "create", "observe") BY <1>4, <2>3
    <3> QED BY <1>1, <2>1, <2>2, <2>3, <3>1, StepOn
  <2>4. CASE request[c].target # None
    <3>1. Step(c, "create", "replace") BY <1>4, <2>4
    <3> QED BY <1>1, <2>1, <2>4, <3>1, StepOn
  <2> QED BY <2>3, <2>4
<1> QED BY <1>3, <1>4 DEF Create

LEMMA ReplaceStep == ASSUME MInv, NEW c \in Commits, Replace(c) PROVE MInv'
<1>1. c \in Requests /\ c \notin Withdrawals BY Kinds DEF Requests
<1>2. request[c].pc = "replace" /\ request[c].pc \in InTransaction BY DEF Replace, InTransaction
<1>3. CASE Rollback(c, "conflict") BY <1>1, <1>2, <1>3, RollbackStep
<1>4. CASE /\ batch[request[c].target].state = "ACCEPTED" /\ Free(c, request[c].target)
           /\ Step(c, "replace", "observe")
  <2>1. "observe" \in CommitPcs /\ "observe" \in InTransaction /\ "replace" \in InTransaction
    BY DEF CommitPcs, InTransaction
  <2> QED BY <1>1, <1>4, <2>1, StepOn
<1> QED BY <1>3, <1>4 DEF Replace

LEMMA UpdateStep == ASSUME MInv, NEW w \in Withdrawals, Update(w) PROVE MInv'
<1>1. w \in Requests /\ w \notin Commits BY Kinds DEF Requests
<1>2. "observe" \in WithdrawalPcs /\ "observe" \in InTransaction /\ "update" \in InTransaction
  BY DEF WithdrawalPcs, InTransaction
<1> QED BY <1>1, <1>2, StepOn DEF Update

LEMMA CleanupStep == ASSUME MInv, NEW c \in Commits, Cleanup(c) PROVE MInv'
<1> DEFINE q == [request[c] EXCEPT !.pc = "committed"]
           p == request[c].token
<1>1. c \in Requests /\ c \notin Withdrawals BY Kinds DEF Requests
<1>2. /\ request[c] \in Request /\ passed \in [Requests -> SUBSET Days] /\ raw \subseteq Commits
      /\ orphans \subseteq Commits
      /\ preview \in [Previews -> Preview \union {None}] /\ arrivals \in Nat
  BY <1>1 DEF MInv, Types, MetaTypeOK
<1>3. /\ q \in Request /\ q.pc = "committed" /\ q.token = p /\ q.key = request[c].key
      /\ q.target = request[c].target /\ q.at = request[c].at
  BY <1>2 DEF Request, CommitPcs
<1>4. request' = [request EXCEPT ![c] = q] /\ request[c].pc = "cleanup"
      /\ preview' = [preview EXCEPT ![p].stored = FALSE]
      /\ UNCHANGED <<batch, resolution, raced, files, arrivals, passed>>
  BY DEF Cleanup, Goto, Unwritten
<1>5. Known(c) /\ Owns(c) /\ Alone(c) /\ Stored(c) BY <1>1 DEF MInv, Good
<1>6. p \in Previews /\ preview[p] \in Preview
  BY <1>2, <1>4, <1>5 DEF Known
<1>7. [preview[p] EXCEPT !.stored = FALSE] \in Preview
      /\ [preview[p] EXCEPT !.stored = FALSE].file = preview[p].file
  BY <1>6 DEF Preview
<1>8. /\ preview' \in [Previews -> Preview \union {None}]
      /\ \A x \in Previews : preview[x] # None => preview'[x] # None /\ preview'[x].file = preview[x].file
  <2> DEFINE v == [preview[p] EXCEPT !.stored = FALSE]
  <2>1. preview' = [preview EXCEPT ![p] = v] BY <1>4
  <2>2. v \in Preview /\ v # None /\ v.file = preview[p].file BY <1>7, MetaConstants
  <2> HIDE DEF v
  <2> QED BY <1>2, <2>1, <2>2
<1> HIDE DEF q
<1>9. request'[c] = q /\ \A o \in Requests \ {c} : request'[o] = request[o]
  BY <1>1, <1>4 DEF MInv, Types
<1>10. Known(c)' BY <1>1, <1>3, <1>4, <1>5, <1>6, <1>8, <1>9 DEF Known
<1>11. Owns(c)' BY <1>3, <1>4, <1>5, <1>9 DEF Owns, Ended, InTransaction
<1>12. Alone(c)' BY <1>3, <1>4, <1>5, <1>9 DEF Alone, Requests
<1>13. Marks(c)' /\ Fresh(c)' BY <1>3, <1>9 DEF Marks, Holds, Fresh
<1>14. Answer(c)' BY <1>3, <1>4, <1>5, <1>9 DEF Answer, Owns
<1>15. Stored(c)' BY <1>3, <1>4, <1>5, <1>9 DEF Stored, Owns
<1>16. q.pc \in CommitPcs BY <1>3 DEF CommitPcs
<1>17. /\ arrivals' \in Nat /\ arrivals <= arrivals' /\ raw' \subseteq Commits
       /\ \A o \in Commits \ {c} : (o \in raw' <=> o \in raw) /\ (o \in orphans' <=> o \in orphans)
       /\ orphans' \subseteq Commits
       /\ passed' \in [Requests -> SUBSET Days] /\ \A o \in Requests \ {c} : passed'[o] = passed[o]
  BY <1>2, <1>4
<1>18. UNCHANGED <<batch, resolution, raced>> BY <1>4
<1> QED
  BY <1>1, <1>3, <1>4, <1>8, <1>10, <1>11, <1>12, <1>13, <1>14, <1>15, <1>16, <1>17, <1>18, LocalStep

LEMMA ReadBatchStep == ASSUME MInv, NEW w \in Withdrawals, ReadBatch(w) PROVE MInv'
<1>1. w \in Requests /\ w \notin Commits BY Kinds DEF Requests
<1>2. PICK b \in Batches : request' = [request EXCEPT ![w] = [@ EXCEPT !.target = b,
        !.pc = IF batch[b].state = "ACCEPTED" THEN "update" ELSE "refused"]]
  BY DEF ReadBatch
<1> DEFINE pc == IF batch[b].state = "ACCEPTED" THEN "update" ELSE "refused"
           q == [request[w] EXCEPT !.target = b, !.pc = pc]
<1>3. /\ request[w] \in Request /\ passed \in [Requests -> SUBSET Days] /\ raw \subseteq Commits
      /\ orphans \subseteq Commits
      /\ preview \in [Previews -> Preview \union {None}] /\ arrivals \in Nat
  BY <1>1 DEF MInv, Types, MetaTypeOK
<1>4. pc \in {"update", "refused"} /\ b \in Commits /\ batch[b] # None /\ b # None
  BY Kinds DEF Batches, Requests
<1>5. request' = [request EXCEPT ![w] = q] BY <1>2
<1> HIDE DEF pc
<1>6. q \in Request /\ q.pc = pc /\ q.target = b BY <1>3, <1>4 DEF Request, WithdrawalPcs, CommitPcs
<1> HIDE DEF q
<1>7. request'[w] = q BY <1>1, <1>5 DEF MInv, Types
<1>8. UNCHANGED <<batch, resolution, raced, preview, files, arrivals, passed>>
  BY DEF ReadBatch, Unwritten
<1>9. Known(w)' BY <1>1, <1>4, <1>6, <1>7, <1>8 DEF Known
<1>10. Owns(w)' /\ Alone(w)' /\ Stored(w)' BY <1>1 DEF Owns, Alone, Stored
<1>11. Marks(w)' /\ Fresh(w)' /\ Answer(w)'
  BY <1>1, <1>4, <1>6, <1>7 DEF Marks, Holds, Fresh, Answer
<1>12. q.pc \in WithdrawalPcs BY <1>4, <1>6 DEF WithdrawalPcs
<1>13. /\ arrivals' \in Nat /\ arrivals <= arrivals' /\ raw' \subseteq Commits
       /\ \A o \in Commits \ {w} : (o \in raw' <=> o \in raw) /\ (o \in orphans' <=> o \in orphans)
       /\ orphans' \subseteq Commits
       /\ passed' \in [Requests -> SUBSET Days] /\ \A o \in Requests \ {w} : passed'[o] = passed[o]
       /\ preview' \in [Previews -> Preview \union {None}]
       /\ \A x \in Previews : preview[x] # None => preview'[x] # None /\ preview'[x].file = preview[x].file
  BY <1>3, <1>8
<1>14. UNCHANGED <<batch, resolution, raced>> BY <1>8
<1> QED BY <1>1, <1>5, <1>6, <1>9, <1>10, <1>11, <1>12, <1>13, <1>14, LocalStep
-----------------------------------------------------------------------------
(* The end of a transaction *)

LEMMA WriteRows ==
  ASSUME MInv, NEW r \in Requests, Write(r)
  PROVE  /\ request[r].pc = "write" /\ request[r].pc \in InTransaction /\ batch' = View(r)
         /\ \A c \in Commits :
              /\ batch[c] # None => /\ batch'[c] # None /\ batch'[c].file = batch[c].file
                                    /\ batch'[c].key = batch[c].key /\ batch'[c].at = batch[c].at
              /\ batch[c] = None /\ c # r => batch'[c] = None
              /\ batch'[c] = batch[c] \/ (c = r /\ batch[c] = None)
                 \/ (c # r /\ c = request[r].target /\ batch'[c].state = MarkedAs(r))
<1>1. request[r].pc = "write" /\ request[r].pc \in InTransaction /\ batch' = View(r)
  BY DEF Write, InTransaction
<1>2. ASSUME NEW c \in Commits
      PROVE  /\ batch[c] # None => /\ batch'[c] # None /\ batch'[c].file = batch[c].file
                                   /\ batch'[c].key = batch[c].key /\ batch'[c].at = batch[c].at
             /\ batch[c] = None /\ c # r => batch'[c] = None
             /\ batch'[c] = batch[c] \/ (c = r /\ batch[c] = None)
                \/ (c # r /\ c = request[r].target /\ batch'[c].state = MarkedAs(r))
  <2>1. CASE c = r BY <1>1, <2>1, ViewRows
  <2>2. CASE c # r /\ c = request[r].target BY <1>1, <2>2, ViewRows
  <2>3. CASE c # r /\ c # request[r].target
    <3>1. batch'[c] = batch[c] BY <1>1, <2>3, ViewRows
    <3> QED BY <2>3, <3>1
  <2> QED BY <2>1, <2>2, <2>3
<1> QED BY <1>1, <1>2

\* It says nothing new about the days it does not recalculate.
LEMMA WriteSilent ==
  ASSUME MInv, NEW r \in Requests, Write(r), NEW d, d \notin Affected(r), NEW c \in Commits
  PROVE  batch'[c] = batch[c] \/ (Silent(batch[c], d) /\ Silent(batch'[c], d))
<1>1. request[r].pc \in InTransaction /\ batch' = View(r) BY WriteRows
<1>2. CASE c = r
  <2>1. batch[c] = None /\ batch'[c].file = FileOf(r) BY <1>1, <1>2, ViewRows
  <2>2. d \notin DaysOf(FileOf(r)) BY <1>2 DEF Affected
  <2> QED BY <2>1, <2>2 DEF Silent
<1>3. CASE c # r /\ c = request[r].target
  <2>1. batch'[c].file = batch[c].file BY <1>1, <1>3, ViewRows
  <2>2. c # None BY Kinds DEF Requests
  <2>3. d \notin DaysOf(batch[c].file) BY <1>3, <2>2 DEF Affected
  <2> QED BY <2>1, <2>3 DEF Silent
<1>4. CASE c # r /\ c # request[r].target BY <1>1, <1>4, ViewRows
<1> QED BY <1>2, <1>3, <1>4

LEMMA Rewritten ==
  ASSUME NEW row \in Resolution, NEW seen \in Commits, NEW k \in BOOLEAN
  PROVE  LET new == [row EXCEPT !.winner = seen, !.version = IF k THEN @ + 1 ELSE @]
         IN new \in Resolution /\ new.winner = seen
<1> DEFINE v == IF k THEN row.version + 1 ELSE row.version
           one == [row EXCEPT !.winner = seen]
           new == [row EXCEPT !.winner = seen, !.version = IF k THEN @ + 1 ELSE @]
<1>1. /\ row.id \in Requests /\ row.version \in Nat
      /\ row = [id |-> row.id, winner |-> row.winner, version |-> row.version]
  BY DEF Resolution
<1>2. v \in Nat BY <1>1
<1>3. one = [id |-> row.id, winner |-> seen, version |-> row.version] BY <1>1
<1>4. one \in Resolution /\ one.version = row.version BY <1>1, <1>3 DEF Resolution
<1>5. new = [one EXCEPT !.version = v]
  <2>1. new = [one EXCEPT !.version = IF k THEN @ + 1 ELSE @] OBVIOUS
  <2> HIDE DEF one, new
  <2> QED BY <1>3, <1>4, <2>1
<1> HIDE DEF v, one
<1>6. new = [id |-> row.id, winner |-> seen, version |-> v]
  <2> HIDE DEF new
  <2> QED BY <1>3, <1>5
<1> QED BY <1>1, <1>2, <1>6 DEF Resolution

LEMMA WriteTypes ==
  ASSUME MInv, NEW r \in Requests, Write(r)
  PROVE  /\ batch' \in [Commits -> Batch \union {None}]
         /\ resolution' \in [Days -> Resolution \union {None}]
         /\ raced' \subseteq Days /\ passed' \in [Requests -> SUBSET Days]
<1>1. /\ request[r] \in Request /\ resolution \in [Days -> Resolution \union {None}]
      /\ raced \subseteq Days /\ passed \in [Requests -> SUBSET Days]
  BY DEF MInv, Types, MetaTypeOK
<1>2. batch' \in [Commits -> Batch \union {None}]
  <2>1. Ranked(View(r)) BY WriteRows, ViewRows
  <2> QED BY <2>1, WriteRows DEF Ranked
<1>3. ASSUME NEW d \in Days PROVE Written(r, d) \in Resolution \union {None}
  <2> DEFINE seen == request[r].seen[d]
             row == resolution[d]
  <2>1. seen \in Commits \union {None} /\ row \in Resolution \union {None} BY <1>1 DEF Request
  <2>2. seen # None => [id |-> r, winner |-> seen, version |-> 1] \in Resolution
    BY <2>1 DEF Resolution
  <2>3. ASSUME NEW k \in BOOLEAN, seen # None, row # None
        PROVE  [row EXCEPT !.winner = seen, !.version = IF k THEN @ + 1 ELSE @] \in Resolution
    <3>1. row \in Resolution /\ seen \in Commits BY <2>1, <2>3
    <3> HIDE DEF seen, row
    <3> QED BY <3>1, Rewritten
  <2> HIDE DEF seen, row
  <2> QED BY <2>1, <2>2, <2>3 DEF Written, seen, row
<1>4. resolution' \in [Days -> Resolution \union {None}]
  <2>1. resolution' = [d \in Days |-> IF d \in Affected(r) THEN Written(r, d) ELSE resolution[d]]
    BY DEF Write
  <2> QED BY <1>1, <1>3, <2>1
<1>5. Affected(r) \subseteq Days BY DEF Affected, DaysOf
<1>6. raced' \subseteq Days /\ passed' \in [Requests -> SUBSET Days] BY <1>1, <1>5 DEF Write
<1> QED BY <1>2, <1>4, <1>6

LEMMA WriteCanonical ==
  ASSUME MInv, NEW r \in Requests, Write(r)
  PROVE  CanonicalUnlessRaced'
<1> SUFFICES ASSUME NEW d \in Days, d \notin raced' PROVE Canonical(d)'
  BY DEF CanonicalUnlessRaced
<1>1. request[r].pc = "write" /\ request[r].pc \in InTransaction /\ batch' = View(r) BY WriteRows
<1>2. Ranked(batch) /\ Ranked(batch') BY <1>1, BatchRanked, ViewRows
<1>3. /\ resolution \in [Days -> Resolution \union {None}]
      /\ resolution' \in [Days -> Resolution \union {None}]
  BY WriteTypes DEF MInv, Types, MetaTypeOK
<1>4. resolution'[d] = IF d \in Affected(r) THEN Written(r, d) ELSE resolution[d] BY DEF Write
<1>5. CASE d \notin Affected(r)
  <2>1. d \notin raced BY <1>5 DEF Write
  <2>2. Canonical(d) BY <2>1 DEF MInv, CanonicalUnlessRaced
  <2>3. \A c \in Commits : batch[c] = batch'[c] \/ (Silent(batch[c], d) /\ Silent(batch'[c], d))
    BY <1>5, WriteSilent
  <2>4. Winner(batch, d) = Winner(batch', d) BY <1>2, <2>3, WinnerSame
  <2> QED BY <1>4, <1>5, <2>2, <2>4 DEF Canonical
<1>6. CASE d \in Affected(r)
  <2> DEFINE w == Winner(batch', d)
  <2>1. d \notin passed[r] BY <1>6 DEF Write
  <2>2. request[r].seen[d] = w /\ request[r].existing[d] = resolution[d]
    BY <1>1, <1>6, <2>1 DEF MInv, Good, Fresh
  <2>3. resolution'[d] = Written(r, d) BY <1>4, <1>6
  <2>4. CASE w = None
    <3>1. resolution'[d] = None BY <2>2, <2>3, <2>4 DEF Written
    <3> QED BY <2>4, <3>1 DEF Canonical
  <2>5. CASE w # None /\ resolution[d] = None
    <3>1. resolution'[d] = [id |-> r, winner |-> w, version |-> 1] BY <2>2, <2>3, <2>5 DEF Written
    <3>2. w \in Commits BY <1>2, <2>5, WinnerIs
    <3>3. resolution'[d] \in Resolution BY <3>1, <3>2 DEF Resolution
    <3>4. resolution'[d] # None BY <3>3, MetaConstants
    <3> QED BY <2>5, <3>1, <3>4 DEF Canonical
  <2>6. CASE w # None /\ resolution[d] # None
    <3>1. PICK k \in BOOLEAN : resolution'[d] = [resolution[d] EXCEPT !.winner = w,
                                                  !.version = IF k THEN @ + 1 ELSE @]
      <4> DEFINE k == w # resolution[d].winner
      <4>1. Written(r, d) = [resolution[d] EXCEPT !.winner = w, !.version = IF k THEN @ + 1 ELSE @]
        BY <2>2, <2>6 DEF Written
      <4>2. k \in BOOLEAN OBVIOUS
      <4> HIDE DEF k
      <4> QED BY <2>3, <4>1, <4>2
    <3>2. resolution[d] \in Resolution BY <1>3, <2>6
    <3>3. w \in Commits BY <1>2, <2>6, WinnerIs
    <3> HIDE DEF w
    <3>4. resolution'[d] \in Resolution /\ resolution'[d].winner = w
      <4> DEFINE row == resolution[d]
                 new == resolution'[d]
      <4>1. new = [row EXCEPT !.winner = w, !.version = IF k THEN @ + 1 ELSE @] BY <3>1
      <4>2. row \in Resolution BY <3>2
      <4> HIDE DEF row, new
      <4>3. new \in Resolution /\ new.winner = w BY <3>3, <4>1, <4>2, Rewritten
      <4> QED BY <4>3 DEF new
    <3>5. resolution'[d] # None BY <3>4, MetaConstants
    <3> QED BY <2>6, <3>4, <3>5 DEF Canonical, w
  <2> QED BY <2>4, <2>5, <2>6
<1> QED BY <1>5, <1>6

\* The others find what they have computed overtaken on the days it has written.
LEMMA WriteFresh ==
  ASSUME MInv, NEW r \in Requests, Write(r), NEW o \in Requests \ {r},
         request'[o] = request[o], preview' = preview
  PROVE  Fresh(o)'
<1>1. CASE request[o].pc \notin {"existing", "write"} BY <1>1 DEF Fresh
<1>2. CASE request[o].pc \in {"existing", "write"}
  <2>1. request[o].pc \in InTransaction /\ Known(o) /\ request[o] \in Request
    BY <1>2 DEF InTransaction, MInv, Good, Types
  <2>2. passed'[o] = passed[o] \union Affected(r) BY <1>2 DEF Write
  <2> DEFINE t == request[o].target
  <2>3. t \in Commits \union {None} /\ (t # None => batch[t] # None) BY <2>1 DEF Known, Request
  <2>4. Affected(o)' = Affected(o)
    <3>1. FileOf(o)' = FileOf(o) BY DEF FileOf
    <3>2. t # None => batch'[t].file = batch[t].file BY <2>3, WriteRows
    <3> QED BY <3>1, <3>2 DEF Affected
  <2> SUFFICES ASSUME NEW d \in Affected(o) \ passed[o], d \notin Affected(r)
               PROVE  /\ request[o].seen[d] = Winner(View(o)', d)
                      /\ request[o].pc = "write" => request[o].existing[d] = resolution'[d]
    BY <2>2, <2>4 DEF Fresh
  <2>5. request[o].seen[d] = Winner(View(o), d)
        /\ (request[o].pc = "write" => request[o].existing[d] = resolution[d])
    BY <1>2 DEF MInv, Good, Fresh
  <2>6. d \in Days BY DEF Affected, DaysOf
  <2>7. resolution'[d] = resolution[d] BY <2>6 DEF Write
  <2>8. NewBatch(o)' = NewBatch(o) BY DEF NewBatch, FileOf
  <2>9. ASSUME NEW c \in Commits
        PROVE  View(o)[c] = View(o)'[c] \/ (Silent(View(o)[c], d) /\ Silent(View(o)'[c], d))
    <3>1. CASE c = o BY <2>8, <3>1 DEF View
    <3>2. CASE c # o /\ c # t
      <4>1. View(o)[c] = batch[c] /\ View(o)'[c] = batch'[c] BY <3>2 DEF View
      <4> QED BY <4>1, WriteSilent
    <3>3. CASE c # o /\ c = t
      <4>1. View(o)[c] = [batch[c] EXCEPT !.state = MarkedAs(o)]
            /\ View(o)'[c] = [batch'[c] EXCEPT !.state = MarkedAs(o)]
        BY <3>3 DEF View
      <4>2. CASE batch'[c] = batch[c] BY <4>1, <4>2
      <4>3. CASE batch'[c] # batch[c]
        <5>1. Silent(batch[c], d) /\ Silent(batch'[c], d) BY <4>3, WriteSilent
        <5>2. batch[c] # None /\ batch'[c] # None
          BY <2>3, <3>3, Kinds, WriteRows DEF Requests
        <5>3. batch[c] \in Batch /\ batch'[c] \in Batch
          BY <5>2, WriteTypes DEF MInv, Types, MetaTypeOK
        <5>4. View(o)[c].file = batch[c].file /\ View(o)'[c].file = batch'[c].file
          BY <4>1, <5>3 DEF Batch
        <5> QED BY <5>1, <5>2, <5>4 DEF Silent
      <4> QED BY <4>2, <4>3
    <3> QED BY <3>1, <3>2, <3>3
  <2>10. Ranked(View(o)) BY <2>1, ViewRows
  <2>11. Ranked(View(o)')
    <3>1. Ranked(batch') BY WriteRows, ViewRows
    <3>2. ASSUME NEW c \in Commits
          PROVE  /\ View(o)'[c] \in Batch \union {None}
                 /\ View(o)'[c] # None => /\ View(o)'[c].at = request[c].at /\ request[c].pc # "idle"
                                          /\ request[c].at <= arrivals
      <4>1. CASE c = o
        <5>1. View(o)'[c] = NewBatch(o) BY <2>8, <4>1 DEF View
        <5>2. NewBatch(o) \in Batch /\ NewBatch(o).at = request[o].at BY <2>1, <4>1, ViewRows
        <5>3. request[c].pc # "idle" /\ request[c].at <= arrivals
          BY <2>1, <4>1 DEF Known, InTransaction
        <5> QED BY <4>1, <5>1, <5>2, <5>3
      <4>2. CASE c # o
        <5>1. batch'[c] # None => batch'[c] \in Batch /\ batch'[c].at = request[c].at
                                  /\ request[c].pc # "idle" /\ request[c].at <= arrivals
          <6> SUFFICES ASSUME batch'[c] # None
                       PROVE  batch'[c] \in Batch /\ batch'[c].at = request[c].at
                              /\ request[c].pc # "idle" /\ request[c].at <= arrivals
            OBVIOUS
          <6>1. batch'[c] \in Batch BY WriteTypes
          <6>2. Known(c) /\ Owns(c) BY DEF MInv, Good, Requests
          <6>3. CASE c = r
            <7>1. batch'[c].at = request[c].at BY <6>3, WriteRows, ViewRows
            <7>2. request[c].pc # "idle" BY <6>3, WriteRows
            <7> QED BY <6>1, <6>2, <7>1, <7>2 DEF Known
          <6>4. CASE c # r
            <7>1. batch[c] # None /\ batch'[c].at = batch[c].at BY <6>4, WriteRows
            <7> QED BY <6>1, <6>2, <7>1 DEF Known, Owns
          <6> QED BY <6>3, <6>4
        <5>2. CASE c # t
          <6>1. View(o)'[c] = batch'[c] BY <4>2, <5>2 DEF View
          <6> QED BY <5>1, <6>1
        <5>3. CASE c = t
          <6>1. View(o)'[c] = [batch'[c] EXCEPT !.state = MarkedAs(o)] BY <4>2, <5>3 DEF View
          <6>2. batch'[c] # None BY <2>3, <5>3, Kinds, WriteRows DEF Requests
          <6>3. MarkedAs(o) \in States BY DEF MarkedAs, States
          <6>4. View(o)'[c] \in Batch /\ View(o)'[c].at = batch'[c].at
            BY <5>1, <6>1, <6>2, <6>3 DEF Batch
          <6> QED BY <5>1, <6>2, <6>4
        <5> QED BY <5>2, <5>3
      <4> QED BY <4>1, <4>2
    <3>3. View(o)' \in [Commits -> Batch \union {None}]
      <4>1. View(o)' = [c \in Commits |-> View(o)'[c]] BY DEF View
      <4> QED BY <3>2, <4>1
    <3>4. \A c, e \in Commits : View(o)'[c] # None /\ View(o)'[e] # None /\ c # e
                                => View(o)'[c].at # View(o)'[e].at
      <4>1. \A c \in Commits : Alone(c) BY DEF MInv, Good, Requests
      <4> QED BY <3>2, <4>1 DEF Alone
    <3>5. arrivals \in Nat BY DEF MInv, Types
    <3> QED BY <3>2, <3>3, <3>4, <3>5 DEF Ranked
  <2>12. Winner(View(o), d) = Winner(View(o)', d) BY <2>9, <2>10, <2>11, WinnerSame
  <2> QED BY <2>5, <2>7, <2>12
<1> QED BY <1>1, <1>2

LEMMA WriteStep ==
  ASSUME MInv, NEW r \in Requests, Write(r), NEW next, Goto(r, next), preview' = preview,
         next = "failed" \/ next = (IF r \in Commits THEN "cleanup" ELSE "withdrawn"),
         UNCHANGED files \/ (next = "failed" /\ Discard(r))
  PROVE  MInv'
<1>1. /\ request \in [Requests -> Request] /\ raw \subseteq Commits /\ orphans \subseteq Commits
      /\ arrivals \in Nat
      /\ preview \in [Previews -> Preview \union {None}]
      /\ \A c \in Commits : request[c].pc \in CommitPcs
      /\ \A w \in Withdrawals : request[w].pc \in WithdrawalPcs
  BY DEF MInv, Types, MetaTypeOK
<1>2. next \in {"failed", "cleanup", "withdrawn"} OBVIOUS
<1> DEFINE q == [request[r] EXCEPT !.pc = next]
<1>3. /\ q \in Request /\ q.pc = next /\ q.token = request[r].token /\ q.key = request[r].key
      /\ q.target = request[r].target /\ q.at = request[r].at
  BY <1>1, <1>2 DEF Request, CommitPcs, WithdrawalPcs
<1>4. request' = [request EXCEPT ![r] = q] BY DEF Goto
<1> HIDE DEF q
<1>5. request'[r] = q /\ \A o \in Requests \ {r} : request'[o] = request[o] BY <1>1, <1>4
<1>6. arrivals' = arrivals BY DEF Write
<1>7. Commits \subseteq Requests /\ Withdrawals \subseteq Requests BY DEF Requests
<1>8. Known(r) /\ Owns(r) /\ Alone(r) /\ Marks(r) /\ request[r].pc = "write"
  BY WriteRows DEF MInv, Good
<1>9. request[r].target \in Commits \union {None} /\ \A b \in Commits : b # None
  BY <1>1, Kinds DEF Request, Requests
<1>10. /\ raw' \subseteq Commits /\ orphans' \subseteq Commits
       /\ \A c \in Commits \ {r} : (c \in raw' <=> c \in raw) /\ (c \in orphans' <=> c \in orphans)
       /\ r \in raw' \/ next = "failed" \/ r \notin Commits
       /\ r \in orphans' => next = "failed"
  <2>1. r \in Commits => r \in raw /\ r \notin orphans BY <1>8 DEF Owns, InTransaction
  <2>2. CASE UNCHANGED files BY <1>1, <2>1, <2>2
  <2>3. CASE next = "failed" /\ Discard(r) BY <1>1, <2>3, Discarded
  <2> QED BY <2>2, <2>3
<1>11. Types'
  <2>1. request' \in [Requests -> Request] BY <1>1, <1>3, <1>4
  <2>2. \A c \in Commits : request'[c].pc \in CommitPcs
    BY <1>1, <1>3, <1>5, <1>7, Kinds DEF CommitPcs
  <2>3. \A w \in Withdrawals : request'[w].pc \in WithdrawalPcs
    BY <1>1, <1>3, <1>5, <1>7, Kinds DEF WithdrawalPcs
  <2> QED BY <1>1, <1>6, <1>10, <2>1, <2>2, <2>3, WriteTypes DEF Types, MetaTypeOK
<1>12. Good(r)'
  <2>1. Known(r)' BY <1>2, <1>3, <1>5, <1>6, <1>8, <1>9, WriteRows DEF Known
  <2>2. r \in Commits => batch'[r] # None /\ batch'[r].key = q.key /\ batch'[r].at = q.at
    BY <1>3, WriteRows, ViewRows
  <2>3. Owns(r)' BY <1>2, <1>3, <1>5, <1>10, <2>2, Kinds DEF Owns, Ended, InTransaction
  <2>4. Alone(r)' BY <1>3, <1>5, <1>7, <1>8 DEF Alone
  <2>5. Marks(r)' /\ Fresh(r)' BY <1>2, <1>3, <1>5 DEF Marks, Holds, Fresh
  <2>6. Answer(r)'
    <3>1. CASE next # "withdrawn" BY <1>2, <1>3, <1>5, <3>1 DEF Answer
    <3>2. CASE next = "withdrawn"
      <4>1. r \in Withdrawals /\ r \notin Commits BY <3>2, Kinds
      <4>2. request[r].target \in Commits BY <1>8, <1>9, <4>1 DEF Known
      <4>3. batch'[request[r].target].state = "WITHDRAWN"
        BY <4>1, <4>2, WriteRows, ViewRows DEF MarkedAs
      <4> QED BY <1>3, <1>5, <3>2, <4>1, <4>3 DEF Answer
    <3> QED BY <3>1, <3>2
  <2>7. Stored(r)' BY <1>3, <1>5, <1>10, <2>2 DEF Stored
  <2> QED BY <2>1, <2>3, <2>4, <2>5, <2>6, <2>7 DEF Good
<1>13. ASSUME NEW o \in Requests \ {r} PROVE Good(o)'
  <2>1. /\ Known(o) /\ Owns(o) /\ Alone(o) /\ Marks(o) /\ Answer(o) /\ Stored(o)
        /\ request'[o] = request[o] /\ request[o] \in Request
    BY <1>1, <1>5 DEF MInv, Good
  <2>2. request[o].target \in Commits \union {None} BY <2>1 DEF Request
  <2>3. Known(o)' BY <1>6, <2>1, <2>2, WriteRows DEF Known
  <2>4. o \in Commits => /\ batch'[o] = None <=> batch[o] = None
                         /\ batch[o] # None => batch'[o].key = batch[o].key /\ batch'[o].at = batch[o].at
                         /\ (o \in raw' <=> o \in raw) /\ (o \in orphans' <=> o \in orphans)
    BY <1>10, WriteRows
  <2>5. Owns(o)' BY <2>1, <2>4 DEF Owns
  <2>6. Alone(o)'
    <3> SUFFICES ASSUME o \in Commits, request[o].pc # "idle", NEW x \in Commits \ {o},
                        request'[x].pc # "idle"
                 PROVE  request'[x].at # request[o].at
      BY <2>1 DEF Alone
    <3>1. request'[x].at = request[x].at /\ request[x].pc # "idle"
      BY <1>3, <1>5, <1>7, <1>8
    <3> QED BY <2>1, <3>1 DEF Alone
  <2>7. Marks(o)'
    <3> SUFFICES ASSUME NEW b \in Commits, Holds(o, b)
                 PROVE  Free(o, b)' /\ (o \in Commits => batch'[b].state = "ACCEPTED")
      BY <2>1 DEF Marks, Holds
    <3>1. Free(o, b) /\ (o \in Commits => batch[b].state = "ACCEPTED") BY <2>1 DEF Marks
    <3>2. ~Holds(r, b)' BY <1>2, <1>3, <1>5 DEF Holds
    <3>3. \A x \in Requests \ {o, r} : ~Holds(x, b)' BY <1>5, <3>1 DEF Free, Holds
    <3>4. Free(o, b)' BY <3>2, <3>3 DEF Free
    <3>5. b # request[r].target BY <1>8, <3>1 DEF Free, Holds
    <3>6. batch[b] # None BY <1>9, <2>1 DEF Known, Holds
    <3>7. batch'[b] = batch[b] BY <3>5, <3>6, WriteRows
    <3> QED BY <3>1, <3>4, <3>7
  <2>8. Fresh(o)' BY <2>1, WriteFresh
  <2>9. Answer(o)'
    <3>1. request[o].pc = "committed" => o \in Commits
      BY <1>1, <1>7, Kinds DEF WithdrawalPcs
    <3>2. request[o].pc = "committed" => batch'[o] # None /\ batch'[o].key = request[o].key
      BY <2>1, <2>4, <3>1 DEF Answer
    <3>3. request[o].pc = "replayed" => \E b \in Commits : batch'[b] # None /\ batch'[b].key = request[o].key
      BY <2>1, WriteRows DEF Answer, Batches
    <3>4. ASSUME request[o].pc = "withdrawn" PROVE batch'[request[o].target].state = "WITHDRAWN"
      <4> DEFINE b == request[o].target
      <4>1. o \in Withdrawals BY <1>1, <3>4, Kinds DEF CommitPcs
      <4>2. b \in Commits /\ batch[b] # None BY <2>1, <2>2, <3>4, <4>1 DEF Known
      <4>3. batch[b].state = "WITHDRAWN" BY <2>1, <3>4 DEF Answer
      <4>4. CASE batch'[b] = batch[b] BY <4>3, <4>4
      <4>5. CASE batch'[b] # batch[b]
        <5>1. b # r /\ b = request[r].target /\ batch'[b].state = MarkedAs(r)
          BY <4>2, <4>5, WriteRows
        <5>2. r \notin Commits BY <1>8, <4>2, <4>3, <5>1 DEF Marks, Holds
        <5> QED BY <5>1, <5>2 DEF MarkedAs
      <4> QED BY <4>4, <4>5
    <3>5. o \in Commits /\ request[o].pc \in {"refused", "conflict", "replayed"} => batch'[o] = None
      BY <2>1, <2>4 DEF Answer
    <3> QED BY <2>1, <3>2, <3>3, <3>4, <3>5 DEF Answer, Batches
  <2>10. Stored(o)' BY <2>1, <2>4 DEF Stored
  <2> QED BY <2>3, <2>5, <2>6, <2>7, <2>8, <2>9, <2>10 DEF Good
<1>14. CanonicalUnlessRaced' BY WriteCanonical
<1>15. \A o \in Requests : Good(o)' BY <1>12, <1>13
<1> QED BY <1>11, <1>14, <1>15 DEF MInv

LEMMA MetaStep == ASSUME MInv, MetaNext PROVE MInv'
<1>1. CASE \E p \in Previews : CreatePreview(p) BY <1>1, CreatePreviewStep
<1>2. CASE \E c \in Commits : Start(c) BY <1>2, StartStep
<1>3. CASE \E c \in Commits : Refuse(c) \/ ReadFiles(c) \/ CheckDuplicates(c) \/ ReadTarget(c)
  BY <1>3, CheckSteps
<1>4. CASE \E c \in Commits : StoreRaw(c) BY <1>4, StoreRawStep
<1>5. CASE \E c \in Commits : Create(c) BY <1>5, CreateStep
<1>6. CASE \E c \in Commits : Replace(c) BY <1>6, ReplaceStep
<1>7. CASE \E c \in Commits : Cleanup(c) BY <1>7, CleanupStep
<1>8. CASE \E w \in Withdrawals : ReadBatch(w) BY <1>8, ReadBatchStep
<1>9. CASE \E w \in Withdrawals : Update(w) BY <1>9, UpdateStep
<1>10. CASE \E r \in Requests : Observe(r) BY <1>10, ObserveStep
<1>11. CASE \E r \in Requests : ReadExisting(r) BY <1>11, ReadExistingStep
<1>12. ASSUME NEW r \in Requests, Finish(r) PROVE MInv'
  <2>1. Write(r) /\ Goto(r, IF r \in Commits THEN "cleanup" ELSE "withdrawn")
        /\ UNCHANGED <<preview, files>>
    BY <1>12 DEF Finish
  <2> QED BY <2>1, WriteStep
<1>13. ASSUME NEW r \in Requests, AckLost(r) PROVE MInv'
  <2>1. Write(r) /\ Goto(r, "failed") /\ Discard(r) /\ preview' = preview
    BY <1>13 DEF AckLost
  <2> QED BY <2>1, WriteStep
<1>14. CASE \E r \in Requests : Abort(r) BY <1>14, AbortStep
<1>15. CASE \E r \in Requests : Die(r) BY <1>15, DieStep
<1> QED
  BY <1>1, <1>2, <1>3, <1>4, <1>5, <1>6, <1>7, <1>8, <1>9, <1>10, <1>11, <1>12, <1>13, <1>14, <1>15
  DEF MetaNext

LEMMA MetaStutter == ASSUME MInv, UNCHANGED metaVars PROVE MInv'
<1>1. UNCHANGED <<batch, resolution, preview, files, request, arrivals, raced, passed>>
  BY DEF metaVars
<1>2. Types' BY <1>1 DEF MInv, Types, MetaTypeOK
<1>3. CanonicalUnlessRaced' BY <1>1 DEF MInv, CanonicalUnlessRaced, Canonical
<1>4. ASSUME NEW o \in Requests PROVE Good(o)'
  <2>1. Good(o) BY DEF MInv
  <2>2. Known(o)' /\ Owns(o)' /\ Alone(o)' /\ Answer(o)' /\ Stored(o)'
    BY <1>1, <2>1 DEF Good, Known, Owns, Alone, Answer, Stored, Batches
  <2>3. Marks(o)' BY <1>1, <2>1 DEF Good, Marks, Holds, Free
  <2>4. Fresh(o)'
    <3>1. View(o)' = View(o) /\ Affected(o)' = Affected(o)
      BY <1>1 DEF View, Affected, NewBatch, FileOf
    <3> QED BY <1>1, <2>1, <3>1 DEF Good, Fresh
  <2> QED BY <2>2, <2>3, <2>4 DEF Good
<1> QED BY <1>2, <1>3, <1>4 DEF MInv
-----------------------------------------------------------------------------
(* The theorems about imports *)

LEMMA MetaInvariance == Spec => []MInv
<1>1. Init => MInv BY InitMInv DEF Init
<1>2. MInv /\ [Next]_vars => MInv'
  <2> SUFFICES ASSUME MInv, [Next]_vars PROVE MInv'
    OBVIOUS
  <2>1. CASE MetaNext BY <2>1, MetaStep
  <2>2. CASE UNCHANGED metaVars BY <2>2, MetaStutter
  <2>3. \A g \in Generations : ReadFacts(g) \/ ReadEvidence(g) \/ WriteWindow(g) \/ Retire(g) \/ Fail(g)
                               => UNCHANGED metaVars
    BY DEF ReadFacts, ReadEvidence, WriteWindow, Retire, Fail, Untouched
  <2> QED BY <2>1, <2>2, <2>3 DEF Next, vars
<1> QED BY <1>1, <1>2, PTL DEF Spec

\* What commitMetaImport and withdrawMetaImport answer is true of the batches.
THEOREM MetaAnswers == Spec => []AnswersAreTrue
<1>1. MInv => AnswersAreTrue BY DEF MInv, Good, Answer, AnswersAreTrue
<1> QED BY <1>1, MetaInvariance, PTL

\* commitMetaImport leaves a batch without its file only when it has answered that
\* the import failed, and a file without a batch only when it was interrupted, got
\* no answer to the upload, or could not delete the file.
THEOREM MetaRawFiles == Spec => []RawFilesAgree
<1>1. MInv => RawFilesAgree BY DEF MInv, Good, Stored, RawFilesAgree, Requests
<1> QED BY <1>1, MetaInvariance, PTL

\* recalculateMetaDailyResolutions leaves every day with the winner that the
\* accepted batches give it, unless it was overtaken.
THEOREM MetaCanonical == Spec => []CanonicalUnlessRaced
<1>1. MInv => CanonicalUnlessRaced BY DEF MInv
<1> QED BY <1>1, MetaInvariance, PTL
-----------------------------------------------------------------------------
(* Generations: while no two run at once, the one that writes leaves its own   *)
(* windows under the keys it is done with and what it read under the others    *)

GenPcs == {"off", "evidence", "write", "synced", "retry"}
Shape(q) ==
  /\ q = [pc |-> q.pc, facts |-> q.facts, prior |-> q.prior, done |-> q.done]
  /\ q.pc \in GenPcs /\ q.done \in Nat
  /\ q.pc \in {"off", "evidence"} => q.done = 0
Pair(e) == e = <<e[1], e[2]>> /\ e[1] \in Nat \ {0}
OnePerKey(S) == \A e, f \in S : e[1] = f[1] => e = f
\* The first n windows are written, the rest of S is what was read.
Wrote(S, prior, facts, n) ==
  \A e : e \in S <=> (\E i \in 1..n : e = <<i, facts>>) \/ (e \in prior /\ e[1] > n)
WritesNext(T, S, prior, facts, n) ==
  \A e : e \in T <=> (e \in S /\ ~(e \in prior /\ e[1] = n + 1)) \/ e = <<n + 1, facts>>
Progress(q, S) ==
  q.pc = "write" => q.done <= Windows(q.facts) /\ Wrote(S, q.prior, q.facts, q.done)

SInv ==
  /\ gen = [g \in Generations |-> gen[g]]
  /\ \A g \in Generations : Shape(gen[g]) /\ \A e \in gen[g].prior : Pair(e)
  /\ \A e \in current : Pair(e)
  /\ overlapped \in BOOLEAN
  /\ ~overlapped => /\ \A g, h \in Generations : Running(g) /\ Running(h) => g = h
                    /\ OnePerKey(current)
                    /\ \A g \in Generations : Progress(gen[g], current)

LEMMA WindowsNat == ASSUME NEW facts PROVE Windows(facts) \in Nat
<1>1. Starts(facts) \subseteq Days BY DEF Starts, Spent
<1>2. IsFiniteSet(Starts(facts)) BY <1>1, FS_Subset, MetaConstants
<1> QED BY <1>2, FS_CardinalityType DEF Windows

LEMMA InitSInv == Init => SInv
<1> SUFFICES ASSUME Init PROVE SInv
  OBVIOUS
<1>1. gen = [g \in Generations |-> [pc |-> "off", facts |-> NoFacts, prior |-> {}, done |-> 0]]
      /\ current = {} /\ overlapped = FALSE
  BY DEF Init
<1>2. \A g \in Generations : gen[g] = [pc |-> "off", facts |-> NoFacts, prior |-> {}, done |-> 0]
  BY <1>1
<1>3. \A g \in Generations : Shape(gen[g]) /\ gen[g].prior = {} /\ gen[g].pc = "off"
  BY <1>2 DEF Shape, GenPcs
<1> QED BY <1>1, <1>3 DEF SInv, Running, OnePerKey, Progress

LEMMA Others ==
  ASSUME SInv, NEW g \in Generations, Running(g), ~overlapped
  PROVE  \A h \in Generations \ {g} : ~Running(h)
BY DEF SInv

LEMMA GenStep ==
  ASSUME SInv, NEW g \in Generations, NEW q, Shape(q), gen' = [gen EXCEPT ![g] = q],
         overlapped' \in BOOLEAN,
         ~overlapped' => ~overlapped /\ \A h \in Generations \ {g} : ~Running(h),
         \A e \in q.prior : Pair(e), \A e \in current' : Pair(e),
         ~overlapped' => OnePerKey(current') /\ Progress(q, current')
  PROVE  SInv'
<1>1. gen = [h \in Generations |-> gen[h]] BY DEF SInv
<1>2. gen'[g] = q /\ \A h \in Generations \ {g} : gen'[h] = gen[h] BY <1>1
<1>3. gen' = [h \in Generations |-> gen'[h]] BY <1>1
<1>4. \A h \in Generations : Shape(gen'[h]) /\ \A e \in gen'[h].prior : Pair(e)
  BY <1>2 DEF SInv
<1>5. ASSUME ~overlapped'
      PROVE  /\ \A h, k \in Generations : Running(h)' /\ Running(k)' => h = k
             /\ \A h \in Generations : Progress(gen'[h], current')
  <2>1. \A h \in Generations \ {g} : ~Running(h)' /\ gen'[h].pc # "write"
    BY <1>2, <1>5 DEF Running
  <2> QED BY <1>2, <1>5, <2>1 DEF Progress
<1> QED BY <1>3, <1>4, <1>5 DEF SInv

LEMMA ReadFactsStep == ASSUME SInv, NEW g \in Generations, ReadFacts(g) PROVE SInv'
<1> DEFINE q == [gen[g] EXCEPT !.pc = "evidence", !.facts = Facts]
<1>1. Shape(gen[g]) /\ gen[g].pc = "off" /\ \A e \in gen[g].prior : Pair(e)
  BY DEF SInv, ReadFacts
<1>2. q = [pc |-> "evidence", facts |-> Facts, prior |-> gen[g].prior, done |-> gen[g].done]
  <2> DEFINE one == [gen[g] EXCEPT !.pc = "evidence"]
  <2>1. one = [pc |-> "evidence", facts |-> gen[g].facts, prior |-> gen[g].prior, done |-> gen[g].done]
    BY <1>1 DEF Shape
  <2>2. q = [one EXCEPT !.facts = Facts] OBVIOUS
  <2> HIDE DEF one, q
  <2> QED BY <2>1, <2>2
<1>3. gen' = [gen EXCEPT ![g] = q] BY DEF ReadFacts
<1> HIDE DEF q
<1>4. Shape(q) /\ q.prior = gen[g].prior /\ q.pc = "evidence" BY <1>1, <1>2 DEF Shape, GenPcs
<1>5. /\ overlapped' \in BOOLEAN
      /\ ~overlapped' => ~overlapped /\ \A h \in Generations \ {g} : ~Running(h)
      /\ current' = current
  BY DEF ReadFacts
<1>6. (\A e \in current' : Pair(e)) /\ (~overlapped' => OnePerKey(current'))
  BY <1>5 DEF SInv
<1>7. Progress(q, current') BY <1>4 DEF Progress
<1> QED BY <1>1, <1>3, <1>4, <1>5, <1>6, <1>7, GenStep

LEMMA ReadEvidenceStep == ASSUME SInv, NEW g \in Generations, ReadEvidence(g) PROVE SInv'
<1> DEFINE q == [gen[g] EXCEPT !.pc = "write", !.prior = current]
<1>1. Shape(gen[g]) /\ gen[g].pc = "evidence" /\ gen[g].done = 0 /\ Running(g)
  BY DEF SInv, ReadEvidence, Shape, Running
<1>2. q = [pc |-> "write", facts |-> gen[g].facts, prior |-> current, done |-> gen[g].done]
  <2> DEFINE one == [gen[g] EXCEPT !.pc = "write"]
  <2>1. one = [pc |-> "write", facts |-> gen[g].facts, prior |-> gen[g].prior, done |-> gen[g].done]
    BY <1>1 DEF Shape
  <2>2. q = [one EXCEPT !.prior = current] OBVIOUS
  <2> HIDE DEF one, q
  <2> QED BY <2>1, <2>2
<1>3. gen' = [gen EXCEPT ![g] = q] BY DEF ReadEvidence
<1> HIDE DEF q
<1>4. Shape(q) /\ q.prior = current /\ q.done = 0 BY <1>1, <1>2 DEF Shape, GenPcs
<1>5. /\ overlapped' \in BOOLEAN
      /\ ~overlapped' => ~overlapped /\ \A h \in Generations \ {g} : ~Running(h)
      /\ current' = current
  BY <1>1, Others DEF ReadEvidence, SInv
<1>6. (\A e \in current' : Pair(e)) /\ (~overlapped' => OnePerKey(current'))
  BY <1>5 DEF SInv
<1>7. Progress(q, current')
  <2>1. \A e \in current : e[1] \in Nat /\ e[1] > 0 BY DEF SInv, Pair
  <2>2. Windows(q.facts) \in Nat BY WindowsNat
  <2> QED BY <1>4, <1>5, <2>1, <2>2 DEF Progress, Wrote
<1> QED BY <1>3, <1>4, <1>5, <1>6, <1>7, GenStep

\* An end that writes nothing.
LEMMA EndStep ==
  ASSUME SInv, NEW g \in Generations, Running(g), NEW answer, answer \in {"synced", "retry"},
         End(g, answer), UNCHANGED <<current, overlapped>>
  PROVE  SInv'
<1> DEFINE q == [gen[g] EXCEPT !.pc = answer, !.prior = {}]
<1>1. Shape(gen[g]) BY DEF SInv
<1>2. q = [pc |-> answer, facts |-> gen[g].facts, prior |-> {}, done |-> gen[g].done]
  <2> DEFINE one == [gen[g] EXCEPT !.pc = answer]
  <2>1. one = [pc |-> answer, facts |-> gen[g].facts, prior |-> gen[g].prior, done |-> gen[g].done]
    BY <1>1 DEF Shape
  <2>2. q = [one EXCEPT !.prior = {}] OBVIOUS
  <2> HIDE DEF one, q
  <2> QED BY <2>1, <2>2
<1>3. gen' = [gen EXCEPT ![g] = q] BY DEF End
<1> HIDE DEF q
<1>4. Shape(q) /\ q.prior = {} /\ q.pc = answer BY <1>1, <1>2 DEF Shape, GenPcs
<1>5. /\ overlapped' \in BOOLEAN
      /\ ~overlapped' => ~overlapped /\ \A h \in Generations \ {g} : ~Running(h)
  BY Others DEF SInv
<1>6. (\A e \in current' : Pair(e)) /\ (~overlapped' => OnePerKey(current'))
  BY DEF SInv
<1>7. Progress(q, current') BY <1>4 DEF Progress
<1> QED BY <1>3, <1>4, <1>5, <1>6, <1>7, GenStep

\* What a written window does to the suggestions.
LEMMA WindowWritten ==
  ASSUME NEW S, NEW prior, NEW facts, NEW n \in Nat, NEW T, Wrote(S, prior, facts, n),
         \A e \in S : Pair(e), \A e \in prior : Pair(e), OnePerKey(S),
         WritesNext(T, S, prior, facts, n)
  PROVE  OnePerKey(T) /\ Wrote(T, prior, facts, n + 1)
<1> DEFINE new == <<n + 1, facts>>
           Old(e) == e \in prior /\ e[1] = n + 1
<1>1. Pair(new) /\ new[1] = n + 1 BY DEF Pair
<1>2. \A e : e \in T <=> (e \in S /\ ~Old(e)) \/ e = new BY DEF WritesNext
<1>3. \A e : e \in S <=> (\E i \in 1..n : e = <<i, facts>>) \/ (e \in prior /\ e[1] > n)
  BY DEF Wrote
<1>4. ASSUME NEW e \in S, ~Old(e) PROVE e[1] # n + 1
  <2>1. CASE \E i \in 1..n : e = <<i, facts>> BY <2>1
  <2>2. CASE e \in prior BY <1>4, <2>2
  <2> QED BY <1>3, <2>1, <2>2
<1>5. OnePerKey(T)
  <2> SUFFICES ASSUME NEW e \in T, NEW f \in T, e[1] = f[1] PROVE e = f
    BY DEF OnePerKey
  <2> HIDE DEF new
  <2>1. CASE e = new \/ f = new BY <1>1, <1>2, <1>4, <2>1
  <2>2. CASE e # new /\ f # new BY <1>2, <2>2 DEF OnePerKey
  <2> QED BY <2>1, <2>2
<1>6. ASSUME NEW e
      PROVE  e \in T <=> (\E i \in 1..(n + 1) : e = <<i, facts>>) \/ (e \in prior /\ e[1] > n + 1)
  <2>1. (\E i \in 1..(n + 1) : e = <<i, facts>>) <=> (\E i \in 1..n : e = <<i, facts>>) \/ e = new
    OBVIOUS
  <2>2. (\E i \in 1..n : e = <<i, facts>>) => ~Old(e) BY DEF Pair
  <2>3. e \in prior => e[1] \in Nat BY DEF Pair
  <2>4. e \in prior /\ e[1] > n + 1 => ~Old(e) /\ e[1] > n BY <2>3
  <2>5. e \in prior /\ e[1] > n /\ ~Old(e) => e[1] > n + 1 BY <2>3
  <2> HIDE DEF new, Old
  <2> QED BY <1>2, <1>3, <2>1, <2>2, <2>4, <2>5
<1> QED BY <1>5, <1>6 DEF Wrote

LEMMA WriteWindowStep == ASSUME SInv, NEW g \in Generations, WriteWindow(g) PROVE SInv'
<1> DEFINE i == gen[g].done + 1
           evidence == <<i, gen[g].facts>>
           under == {e \in gen[g].prior : e[1] = i}
<1>1. /\ Shape(gen[g]) /\ gen[g].pc = "write" /\ Running(g) /\ gen[g].done \in Nat
      /\ overlapped' = overlapped /\ overlapped \in BOOLEAN /\ i <= Windows(gen[g].facts)
      /\ \A e \in gen[g].prior : Pair(e)
      /\ \A e \in current : Pair(e)
  BY DEF WriteWindow, SInv, Running, Shape
<1>2. ~overlapped' => ~overlapped /\ \A h \in Generations \ {g} : ~Running(h) BY <1>1, Others
<1>3. PICK prior \in IF under = {} THEN {{}} ELSE {{e} : e \in under} :
       \/ /\ prior = {evidence}
          /\ gen' = [gen EXCEPT ![g].done = i] /\ UNCHANGED <<current, superseded>>
       \/ /\ prior # {evidence} /\ evidence \notin current \union superseded
          /\ current' = (current \ prior) \union {evidence}
          /\ superseded' = superseded \union prior
          /\ gen' = [gen EXCEPT ![g].done = i]
       \/ /\ prior # {evidence} /\ evidence \in current \union superseded
          /\ End(g, "retry") /\ UNCHANGED <<current, superseded>>
  BY DEF WriteWindow
<1>4. prior \subseteq under BY <1>3
<1>5. CASE End(g, "retry") /\ UNCHANGED <<current, superseded>> BY <1>1, <1>5, EndStep
<1>6. CASE /\ gen' = [gen EXCEPT ![g].done = i]
           /\ \/ prior = {evidence} /\ current' = current
              \/ current' = (current \ prior) \union {evidence}
  <2> DEFINE q == [gen[g] EXCEPT !.done = i]
  <2>1. q = [pc |-> "write", facts |-> gen[g].facts, prior |-> gen[g].prior, done |-> i]
    BY <1>1 DEF Shape
  <2>2. gen' = [gen EXCEPT ![g] = q] BY <1>6
  <2> HIDE DEF q
  <2>3. Shape(q) /\ q.prior = gen[g].prior /\ q.facts = gen[g].facts /\ q.done = i
    BY <1>1, <2>1 DEF Shape, GenPcs
  <2>4. Pair(evidence) BY <1>1 DEF Pair
  <2> HIDE DEF evidence
  <2>5. \A e \in current' : Pair(e) BY <1>1, <1>6, <2>4
  <2>6. ASSUME ~overlapped' PROVE OnePerKey(current') /\ Progress(q, current')
    <3>1. OnePerKey(current) /\ Progress(gen[g], current) BY <1>1, <2>6 DEF SInv
    <3>2. Wrote(current, gen[g].prior, gen[g].facts, gen[g].done) BY <1>1, <3>1 DEF Progress
    <3>3. under \subseteq current
      <4> SUFFICES ASSUME NEW e \in under PROVE e \in current
        OBVIOUS
      <4>1. e \in gen[g].prior /\ e[1] > gen[g].done BY <1>1
      <4> QED BY <3>2, <4>1 DEF Wrote
    <3>4. prior = under
      <4>1. \A e, f \in under : e = f BY <3>1, <3>3 DEF OnePerKey
      <4> QED BY <1>3, <4>1
    <3>5. current' = (current \ under) \union {evidence}
      <4>1. CASE prior = {evidence} /\ current' = current BY <3>3, <3>4, <4>1
      <4>2. CASE current' = (current \ prior) \union {evidence} BY <3>4, <4>2
      <4> QED BY <1>6, <4>1, <4>2
    <3> USE DEF evidence
    <3> DEFINE facts == gen[g].facts
               n == gen[g].done
               read == gen[g].prior
    <3>6. current' = (current \ under) \union {<<n + 1, facts>>} BY <3>5
    <3>7. OnePerKey(current') /\ Wrote(current', read, facts, n + 1)
      <4>1. WritesNext(current', current, read, facts, n) BY <3>6 DEF WritesNext
      <4>2. Wrote(current, read, facts, n) BY <3>2
      <4>3. n \in Nat /\ (\A e \in read : Pair(e)) /\ (\A e \in current : Pair(e)) BY <1>1
      <4>4. OnePerKey(current) BY <3>1
      <4> HIDE DEF facts, n, read
      <4> QED BY <4>1, <4>2, <4>3, <4>4, WindowWritten
    <3> QED BY <1>1, <2>1, <2>3, <3>7 DEF Progress
  <2> QED BY <1>1, <1>2, <2>2, <2>3, <2>5, <2>6, GenStep
<1> QED BY <1>3, <1>5, <1>6

LEMMA RetireStep == ASSUME SInv, NEW g \in Generations, Retire(g) PROVE SInv'
<1> DEFINE stale == {e \in gen[g].prior : e[1] > Windows(gen[g].facts)}
<1>1. /\ Shape(gen[g]) /\ gen[g].pc = "write" /\ Running(g) /\ gen[g].done = Windows(gen[g].facts)
      /\ gen[g].done \in Nat /\ overlapped' = overlapped /\ overlapped \in BOOLEAN
      /\ \A e \in gen[g].prior : Pair(e)
      /\ \A e \in current : Pair(e)
  BY DEF Retire, SInv, Running, Shape
<1>2. ~overlapped' => ~overlapped /\ \A h \in Generations \ {g} : ~Running(h) BY <1>1, Others
<1>3. CASE stale = {}
  <2>1. End(g, "synced") /\ current' = current BY <1>3 DEF Retire
  <2> QED BY <1>1, <2>1, EndStep
<1>4. CASE stale # {}
  <2>1. PICK x \in stale : current' = current \ {x} /\ gen' = [gen EXCEPT ![g].prior = @ \ {x}]
    BY <1>4 DEF Retire
  <2> DEFINE q == [gen[g] EXCEPT !.prior = gen[g].prior \ {x}]
  <2>2. q = [pc |-> "write", facts |-> gen[g].facts, prior |-> gen[g].prior \ {x},
             done |-> gen[g].done]
    BY <1>1 DEF Shape
  <2>3. gen' = [gen EXCEPT ![g] = q] BY <2>1
  <2> HIDE DEF q
  <2>4. /\ Shape(q) /\ q.prior = gen[g].prior \ {x} /\ q.facts = gen[g].facts
        /\ q.done = gen[g].done
    BY <1>1, <2>2 DEF Shape, GenPcs
  <2>5. x \in gen[g].prior /\ x[1] > gen[g].done BY <1>1
  <2>6. ASSUME ~overlapped' PROVE OnePerKey(current') /\ Progress(q, current')
    <3>1. OnePerKey(current) /\ Progress(gen[g], current) BY <1>1, <2>6 DEF SInv
    <3>2. OnePerKey(current') BY <2>1, <3>1 DEF OnePerKey
    <3>3. ASSUME NEW e
          PROVE  e \in current' <=> \/ \E i \in 1..q.done : e = <<i, q.facts>>
                                    \/ e \in q.prior /\ e[1] > q.done
      <4>1. e \in current <=> \/ \E i \in 1..gen[g].done : e = <<i, gen[g].facts>>
                              \/ e \in gen[g].prior /\ e[1] > gen[g].done
        BY <1>1, <3>1 DEF Progress, Wrote
      <4>2. \A i \in 1..gen[g].done : <<i, gen[g].facts>> # x
        <5> SUFFICES ASSUME NEW i \in 1..gen[g].done, <<i, gen[g].facts>> = x PROVE FALSE
          OBVIOUS
        <5>1. x[1] = i OBVIOUS
        <5> QED BY <1>1, <2>5, <5>1
      <4> QED BY <2>1, <2>4, <4>1, <4>2
    <3> QED BY <1>1, <2>4, <3>1, <3>2, <3>3 DEF Progress, Wrote
  <2>7. (\A e \in q.prior : Pair(e)) /\ (\A e \in current' : Pair(e)) BY <1>1, <2>1, <2>4
  <2> QED BY <1>1, <1>2, <2>3, <2>4, <2>6, <2>7, GenStep
<1> QED BY <1>3, <1>4

LEMMA SStep == ASSUME SInv, [Next]_vars PROVE SInv'
<1>1. CASE UNCHANGED suggestionVars
  BY <1>1 DEF suggestionVars, SInv, Running
<1>2. ASSUME NEW g \in Generations, Fail(g) PROVE SInv'
  <2>1. Running(g) /\ End(g, "retry") /\ UNCHANGED <<current, overlapped>> BY <1>2 DEF Fail
  <2> QED BY <2>1, EndStep
<1> QED BY <1>1, <1>2, ReadFactsStep, ReadEvidenceStep, WriteWindowStep, RetireStep DEF Next, vars

\* generateMetaIntervalSuggestions answers SYNCED only with exactly the windows
\* of its facts current, while generations do not overlap.
THEOREM MetaSynced == Spec => SyncedIsTrue
<1>1. Init => SInv BY InitSInv
<1>2. SInv /\ [Next]_vars => SInv' BY SStep
<1>3. SInv /\ [Next]_vars =>
        [\A g \in Generations :
           /\ ~overlapped /\ gen[g].pc = "write" /\ gen'[g].pc = "synced"
           => current' = Desired(gen[g].facts)]_vars
  <2> SUFFICES ASSUME SInv, Next, NEW g \in Generations,
                      ~overlapped, gen[g].pc = "write", gen'[g].pc = "synced"
               PROVE  current' = Desired(gen[g].facts)
    BY DEF vars, suggestionVars
  <2>1. gen = [h \in Generations |-> gen[h]] /\ Shape(gen[g]) BY DEF SInv
  <2>2. ~UNCHANGED gen BY DEF SInv
  <2>3. PICK h \in Generations : ReadFacts(h) \/ ReadEvidence(h) \/ WriteWindow(h)
                                 \/ Retire(h) \/ Fail(h)
    BY <2>2 DEF Next, suggestionVars
  <2>4. \A k \in Generations \ {h} : gen'[k] = gen[k]
    BY <2>1, <2>3 DEF ReadFacts, ReadEvidence, WriteWindow, Retire, Fail, End
  <2>5. h = g BY <2>4
  <2>6. Shape(gen[g]) => /\ gen[g].done \in Nat
                         /\ [gen[g] EXCEPT !.pc = "retry", !.prior = {}].pc = "retry"
                         /\ \A i : [gen[g] EXCEPT !.done = i].pc = gen[g].pc
                         /\ \A s : [gen[g] EXCEPT !.prior = s].pc = gen[g].pc
    BY DEF Shape
  <2>7. ~ReadFacts(g) /\ ~ReadEvidence(g) BY DEF ReadFacts, ReadEvidence
  <2>8. ~Fail(g) BY <2>1, <2>6 DEF Fail, End
  <2>9. ~WriteWindow(g)
    <3> DEFINE i == gen[g].done + 1
    <3>1. gen' # [gen EXCEPT ![g].done = i]
      <4> SUFFICES ASSUME gen' = [gen EXCEPT ![g].done = i] PROVE FALSE
        OBVIOUS
      <4>1. gen'[g] = [gen[g] EXCEPT !.done = i] BY <2>1
      <4> HIDE DEF i
      <4> QED BY <2>1, <2>6, <4>1
    <3>2. ~End(g, "retry")
      <4> SUFFICES ASSUME End(g, "retry") PROVE FALSE
        OBVIOUS
      <4>1. gen'[g] = [gen[g] EXCEPT !.pc = "retry", !.prior = {}] BY <2>1 DEF End
      <4> QED BY <2>1, <2>6, <4>1
    <3> QED BY <3>1, <3>2 DEF WriteWindow
  <2>10. Retire(g) BY <2>3, <2>5, <2>7, <2>8, <2>9
  <2> DEFINE stale == {e \in gen[g].prior : e[1] > Windows(gen[g].facts)}
  <2>11. stale = {} /\ current' = current
    <3>1. CASE stale = {} BY <2>10, <3>1 DEF Retire
    <3>2. CASE stale # {}
      <4>1. PICK x \in stale : gen' = [gen EXCEPT ![g].prior = @ \ {x}] BY <2>10, <3>2 DEF Retire
      <4>2. gen'[g] = [gen[g] EXCEPT !.prior = gen[g].prior \ {x}] BY <2>1, <4>1
      <4> QED BY <2>1, <2>6, <4>2
    <3> QED BY <3>1, <3>2
  <2>12. gen[g].done = Windows(gen[g].facts) BY <2>10 DEF Retire
  <2>13. \A e : e \in current <=> \/ \E i \in 1..gen[g].done : e = <<i, gen[g].facts>>
                                  \/ e \in gen[g].prior /\ e[1] > gen[g].done
    BY DEF SInv, Progress, Wrote
  <2>14. \A e : e \in current <=> \E i \in 1..Windows(gen[g].facts) : e = <<i, gen[g].facts>>
    BY <2>11, <2>12, <2>13
  <2> QED BY <2>11, <2>14 DEF Desired
<1> QED BY <1>1, <1>2, <1>3, PTL DEF Spec, SyncedIsTrue

-----------------------------------------------------------------------------
(* What suggestions name: winners that there are, with the days they report *)

\* The batch of c as the transaction of r sees it.
There(r, c) == c = r \/ batch[c] # None
FileAs(r, c) == IF c = r THEN FileOf(r) ELSE batch[c].file

\* A resolution, and what a transaction is about to write into one, names a
\* batch that reports the day, raced or not.
WinnersExist == \A d \in Days : resolution[d] # None =>
  batch[resolution[d].winner] # None /\ d \in DaysOf(batch[resolution[d].winner].file)
SeenExist == \A r \in Requests : request[r].pc \in {"existing", "write"} =>
  \A d \in Days : request[r].seen[d] # None =>
    /\ request[r].seen[d] \in Commits /\ There(r, request[r].seen[d])
    /\ d \in DaysOf(FileAs(r, request[r].seen[d]))

\* What has been imported or previewed keeps its file.
LEMMA FilesStay ==
  ASSUME MInv, MetaNext
  PROVE  /\ \A c \in Commits : batch[c] # None => batch'[c] # None /\ batch'[c].file = batch[c].file
         /\ \A p \in Previews : preview[p] # None => preview'[p] # None /\ preview'[p].file = preview[p].file
         /\ resolution' = resolution \/ \E r \in Requests : Write(r)
<1>1. preview \in [Previews -> Preview \union {None}] BY DEF MInv, Types, MetaTypeOK
<1>2. CASE \E p \in Previews : CreatePreview(p)
  BY <1>1, <1>2, MetaConstants DEF CreatePreview, Unwritten
<1>3. CASE \E c \in Commits : Cleanup(c)
  <2>1. PICK c \in Commits : Cleanup(c) BY <1>3
  <2>2. \A p \in Previews : preview[p] # None =>
          [preview[p] EXCEPT !.stored = FALSE] \in Preview
          /\ [preview[p] EXCEPT !.stored = FALSE].file = preview[p].file
    BY <1>1 DEF Preview
  <2>3. \A p \in Previews : preview[p] # None => preview'[p] # None /\ preview'[p].file = preview[p].file
    BY <1>1, <2>1, <2>2, MetaConstants DEF Cleanup
  <2> QED BY <2>1, <2>3 DEF Cleanup, Unwritten
<1>4. CASE \E r \in Requests : Finish(r) \/ AckLost(r)
  BY <1>4, WriteRows DEF Finish, AckLost
<1>5. CASE \E c \in Commits : \/ Start(c) \/ Refuse(c) \/ ReadFiles(c) \/ CheckDuplicates(c)
                              \/ ReadTarget(c) \/ StoreRaw(c) \/ Create(c) \/ Replace(c)
  BY <1>5 DEF Start, Refuse, ReadFiles, CheckDuplicates, ReadTarget, StoreRaw, Create, Replace, Step,
    Rollback, Unwritten
<1>6. CASE \E w \in Withdrawals : ReadBatch(w) \/ Update(w)
  BY <1>6 DEF ReadBatch, Update, Step, Unwritten
<1>7. CASE \E r \in Requests : Observe(r) \/ ReadExisting(r) \/ Abort(r) \/ Die(r)
  BY <1>7 DEF Observe, ReadExisting, Abort, Rollback, Die, Unwritten
<1> QED BY <1>2, <1>3, <1>4, <1>5, <1>6, <1>7 DEF MetaNext

\* Who is past its observations has made them now, or had.
LEMMA SeenStays ==
  ASSUME MInv, MetaNext, NEW o \in Requests, request'[o].pc \in {"existing", "write"}
  PROVE  \/ Observe(o)
         \/ /\ request[o].pc \in {"existing", "write"} /\ request'[o].token = request[o].token
            /\ request'[o].seen = request[o].seen
<1> DEFINE Kept == /\ request[o].pc \in {"existing", "write"} /\ request'[o].token = request[o].token
                   /\ request'[o].seen = request[o].seen
<1>1. request \in [Requests -> Request] BY DEF MInv, Types
<1>2. \A n : \A q \in Request : /\ [q EXCEPT !.pc = n].pc = n
                               /\ [q EXCEPT !.pc = n].token = q.token
                               /\ [q EXCEPT !.pc = n].seen = q.seen
  BY DEF Request
<1>3. ASSUME NEW x \in Requests, NEW n, Goto(x, n), n \notin {"existing", "write"} PROVE Kept
  <2>1. x # o BY <1>1, <1>2, <1>3 DEF Goto
  <2> QED BY <1>1, <1>3, <2>1 DEF Goto
<1>4. ASSUME NEW x \in Requests, NEW p, NEW n, Step(x, p, n), n \notin {"existing", "write"} PROVE Kept
  BY <1>3, <1>4 DEF Step
<1>5. ASSUME NEW x \in Requests, NEW n, Rollback(x, n), n \notin {"existing", "write"} PROVE Kept
  BY <1>3, <1>5 DEF Rollback
<1>6. Commits \subseteq Requests /\ Withdrawals \subseteq Requests BY DEF Requests
<1>7. CASE UNCHANGED request BY <1>7
<1>8. ASSUME NEW c \in Commits, Start(c) PROVE Kept
  <2>1. PICK p \in Previews, k \in Keys, t \in Batches \union {None},
             n \in {"replayed", "files"} :
          request' = [request EXCEPT ![c] = [@ EXCEPT !.pc = n, !.token = p, !.key = k,
                                                      !.target = t, !.at = arrivals + 1]]
    BY <1>8 DEF Start
  <2>2. request'[c].pc = n BY <1>1, <1>6, <2>1 DEF Request
  <2> QED BY <1>1, <2>1, <2>2
<1>9. ASSUME NEW w \in Withdrawals, ReadBatch(w) PROVE Kept
  <2>1. PICK b \in Batches, n \in {"update", "refused"} :
          request' = [request EXCEPT ![w] = [@ EXCEPT !.target = b, !.pc = n]]
    BY <1>9 DEF ReadBatch
  <2>2. request'[w].pc = n BY <1>1, <1>6, <2>1 DEF Request
  <2> QED BY <1>1, <2>1, <2>2
<1>10. ASSUME NEW x \in Requests, Observe(x) PROVE Observe(o) \/ Kept
  BY <1>1, <1>10 DEF Observe
<1>11. ASSUME NEW x \in Requests, ReadExisting(x) PROVE Kept
  <2> DEFINE old == request[x]
  <2>1. PICK f : request' = [request EXCEPT ![x] = [@ EXCEPT !.pc = "write", !.existing = f]]
    BY <1>11 DEF ReadExisting
  <2>2. request'[x] = [old EXCEPT !.pc = "write", !.existing = f] BY <1>1, <2>1
  <2>3. old \in Request /\ old.pc = "existing" BY <1>1, <1>11 DEF ReadExisting
  <2>4. request'[x].token = old.token /\ request'[x].seen = old.seen BY <2>2, <2>3 DEF Request
  <2> QED BY <1>1, <2>1, <2>3, <2>4
<1>12. ASSUME NEW c \in Commits,
              \/ Refuse(c) \/ ReadFiles(c) \/ CheckDuplicates(c) \/ ReadTarget(c) \/ Replace(c)
       PROVE  Kept
  BY <1>4, <1>5, <1>6, <1>12 DEF Refuse, ReadFiles, CheckDuplicates, ReadTarget, Replace
<1>13. ASSUME NEW c \in Commits, StoreRaw(c) \/ Create(c) \/ Cleanup(c) PROVE Kept
  BY <1>3, <1>4, <1>5, <1>6, <1>13 DEF StoreRaw, Create, Cleanup
<1>14. ASSUME NEW w \in Withdrawals, Update(w) PROVE Kept BY <1>4, <1>6, <1>14 DEF Update
<1>15. ASSUME NEW x \in Requests, Finish(x) \/ AckLost(x) \/ Abort(x) \/ Die(x) PROVE Kept
  BY <1>3, <1>5, <1>15 DEF Finish, AckLost, Abort, Die
<1>16. ASSUME NEW p \in Previews, CreatePreview(p) PROVE Kept BY <1>7, <1>16 DEF CreatePreview
<1> QED BY <1>8, <1>9, <1>10, <1>11, <1>12, <1>13, <1>14, <1>15, <1>16 DEF MetaNext

\* The winner a transaction computes is one it sees.
LEMMA WinnerThere ==
  ASSUME MInv, NEW r \in Requests, request[r].pc \in InTransaction, NEW d \in Days,
         Winner(View(r), d) # None
  PROVE  /\ Winner(View(r), d) \in Commits /\ There(r, Winner(View(r), d))
         /\ d \in DaysOf(FileAs(r, Winner(View(r), d)))
<1> DEFINE c == Winner(View(r), d)
<1>1. First(View(r), d, c) /\ c \in Commits BY ViewRows, WinnerIs
<1>2. View(r)[c] # None /\ d \in DaysOf(View(r)[c].file) BY <1>1 DEF First, Observed
<1> HIDE DEF c
<1>3. There(r, c) /\ FileAs(r, c) = View(r)[c].file
  <2>1. CASE c = r BY <1>1, <2>1, ViewRows DEF There, FileAs
  <2>2. CASE c # r /\ c = request[r].target BY <1>1, <2>2, ViewRows DEF There, FileAs
  <2>3. CASE c # r /\ c # request[r].target
    <3>1. View(r)[c] = batch[c] BY <1>1, <2>3, ViewRows
    <3> QED BY <1>2, <2>3, <3>1 DEF There, FileAs
  <2> QED BY <2>1, <2>2, <2>3
<1> QED BY <1>1, <1>2, <1>3 DEF c

LEMMA SeenStep == ASSUME MInv, SeenExist, MetaNext PROVE SeenExist'
<1> SUFFICES ASSUME NEW o \in Requests, request'[o].pc \in {"existing", "write"},
                    NEW d \in Days, request'[o].seen[d] # None, NEW c, c = request'[o].seen[d]
             PROVE  c \in Commits /\ There(o, c)' /\ d \in DaysOf(FileAs(o, c)')
  BY DEF SeenExist, There, FileAs
<1>1. request[o] \in Request /\ Known(o) /\ (request[o].pc # "idle" => (o \in Commits => request[o].token \in Previews))
  BY DEF MInv, Types, Good, Known
<1>3. /\ c \in Commits /\ There(o, c) /\ d \in DaysOf(FileAs(o, c))
      /\ request[o].pc # "idle" /\ request'[o].token = request[o].token
  <2>1. CASE Observe(o)
    <3>1. PICK f : f = [e \in Days |-> IF e \in Affected(o) THEN Winner(View(o), e) ELSE None]
      OBVIOUS
    <3>2. request' = [request EXCEPT ![o] = [@ EXCEPT !.pc = "existing", !.seen = f]]
          /\ request[o].pc = "observe"
      BY <2>1, <3>1 DEF Observe
    <3>3. request'[o] = [request[o] EXCEPT !.pc = "existing", !.seen = f]
      BY <3>2 DEF MInv, Types
    <3>4. request'[o].seen = f /\ request'[o].token = request[o].token BY <1>1, <3>3 DEF Request
    <3>5. c = Winner(View(o), d) /\ c # None BY <3>1, <3>4
    <3>6. request[o].pc \in InTransaction BY <3>2 DEF InTransaction
    <3> QED BY <3>2, <3>4, <3>5, <3>6, WinnerThere
  <2>2. CASE /\ request[o].pc \in {"existing", "write"} /\ request'[o].token = request[o].token
             /\ request'[o].seen = request[o].seen
    BY <2>2 DEF SeenExist
  <2> QED BY <2>1, <2>2, SeenStays
<1>4. There(o, c)' /\ FileAs(o, c)' = FileAs(o, c)
  <2>1. CASE c = o
    <3>1. o \in Commits /\ request[o].token \in Previews /\ preview[request[o].token] # None
      BY <1>1, <1>3, <2>1 DEF Known
    <3>2. FileOf(o)' = FileOf(o) BY <1>3, <3>1, FilesStay DEF FileOf
    <3> QED BY <2>1, <3>2 DEF There, FileAs
  <2>2. CASE c # o
    <3>1. batch[c] # None BY <1>3, <2>2 DEF There
    <3> QED BY <1>3, <2>2, <3>1, FilesStay DEF There, FileAs
  <2> QED BY <2>1, <2>2
<1> QED BY <1>3, <1>4

LEMMA WinnersStep == ASSUME MInv, SeenExist, WinnersExist, MetaNext PROVE WinnersExist'
<1> SUFFICES ASSUME NEW d \in Days, resolution'[d] # None
             PROVE  /\ batch'[resolution'[d].winner] # None
                    /\ d \in DaysOf(batch'[resolution'[d].winner].file)
  BY DEF WinnersExist
<1>1. resolution \in [Days -> Resolution \union {None}] BY DEF MInv, Types, MetaTypeOK
<1>2. CASE resolution[d] # None /\ resolution'[d].winner = resolution[d].winner
  <2>1. resolution[d].winner \in Commits BY <1>1, <1>2 DEF Resolution
  <2> QED BY <1>2, <2>1, FilesStay DEF WinnersExist
<1>3. ASSUME NEW r \in Requests, Write(r), request[r].seen[d] # None,
             resolution'[d].winner = request[r].seen[d]
      PROVE  /\ batch'[resolution'[d].winner] # None
             /\ d \in DaysOf(batch'[resolution'[d].winner].file)
  <2>1. PICK c \in Commits : c = request[r].seen[d] /\ There(r, c) /\ d \in DaysOf(FileAs(r, c))
    BY <1>3, WriteRows DEF SeenExist
  <2>2. CASE c = r
    <3>1. batch' = View(r) /\ request[r].pc \in InTransaction BY <1>3, WriteRows
    <3>2. batch'[r] # None /\ batch'[r].file = FileOf(r) BY <2>2, <3>1, ViewRows
    <3> QED BY <1>3, <2>1, <2>2, <3>2 DEF FileAs
  <2>3. CASE c # r BY <1>3, <2>1, <2>3, FilesStay DEF There, FileAs
  <2> QED BY <2>2, <2>3
<1>4. ASSUME NEW r \in Requests, Write(r)
      PROVE  \/ resolution[d] # None /\ resolution'[d].winner = resolution[d].winner
             \/ request[r].seen[d] # None /\ resolution'[d].winner = request[r].seen[d]
  <2> DEFINE seen == request[r].seen[d]
             row == resolution[d]
  <2>1. resolution'[d] = IF d \in Affected(r) THEN Written(r, d) ELSE row BY <1>4 DEF Write
  <2>2. CASE d \notin Affected(r) \/ Written(r, d) = row BY <2>1, <2>2
  <2>3. CASE /\ d \in Affected(r)
             /\ seen # None /\ Written(r, d) = [id |-> r, winner |-> seen, version |-> 1]
    BY <2>1, <2>3
  <2>4. ASSUME NEW k \in BOOLEAN, d \in Affected(r), seen # None, row # None,
               Written(r, d) = [row EXCEPT !.winner = seen, !.version = IF k THEN @ + 1 ELSE @]
        PROVE  resolution'[d].winner = seen
    <3>1. row \in Resolution /\ seen \in Commits
      BY <1>1, <1>4, <2>4, WriteRows DEF SeenExist
    <3> HIDE DEF seen, row
    <3> QED BY <2>1, <2>4, <3>1, Rewritten
  <2>5. \/ Written(r, d) = row \/ Written(r, d) = None
        \/ seen # None /\ Written(r, d) = [id |-> r, winner |-> seen, version |-> 1]
        \/ /\ seen # None /\ row # None
           /\ \E k \in BOOLEAN :
                Written(r, d) = [row EXCEPT !.winner = seen, !.version = IF k THEN @ + 1 ELSE @]
    <3> HIDE DEF seen, row
    <3> QED BY DEF Written, seen, row
  <2> QED BY <2>1, <2>2, <2>3, <2>4, <2>5
<1> QED BY <1>2, <1>3, <1>4, FilesStay

LEMMA WinnersInvariance == Spec => [](MInv /\ SeenExist /\ WinnersExist)
<1> DEFINE Inv == MInv /\ SeenExist /\ WinnersExist
<1>1. Init => Inv
  <2>1. Init => SeenExist /\ WinnersExist
    BY DEF Init, MetaInit, Idle, SeenExist, WinnersExist
  <2> QED BY <2>1, InitMInv DEF Init
<1>2. Inv /\ [Next]_vars => Inv'
  <2> SUFFICES ASSUME MInv, SeenExist, WinnersExist, [Next]_vars PROVE Inv'
    OBVIOUS
  <2>1. CASE MetaNext BY <2>1, MetaStep, SeenStep, WinnersStep
  <2>2. CASE UNCHANGED metaVars
    BY <2>2, MetaStutter DEF metaVars, SeenExist, WinnersExist, There, FileAs, FileOf
  <2>3. \A g \in Generations : ReadFacts(g) \/ ReadEvidence(g) \/ WriteWindow(g) \/ Retire(g) \/ Fail(g)
                               => UNCHANGED metaVars
    BY DEF ReadFacts, ReadEvidence, WriteWindow, Retire, Fail, Untouched
  <2> QED BY <2>1, <2>2, <2>3 DEF Next, vars
<1> QED BY <1>1, <1>2, PTL DEF Spec

\* The facts a generation reads, and the evidence it leaves.
FactsOK(f) == \A d \in Days : f[d] \in Fact \union {None}
NamedBy(e) == e[1] \in 1..Cardinality(Days) /\ FactsOK(e[2])
EInv ==
  /\ \A g \in Generations : FactsOK(gen[g].facts) /\ \A e \in gen[g].prior : NamedBy(e)
  /\ \A e \in current \union superseded : NamedBy(e)

LEMMA FactsFine == ASSUME MInv, WinnersExist PROVE FactsOK(Facts)
<1> SUFFICES ASSUME NEW d \in Days PROVE Facts[d] \in Fact \union {None}
  BY DEF FactsOK
<1>1. resolution[d] \in Resolution \union {None} /\ batch \in [Commits -> Batch \union {None}]
  BY DEF MInv, Types, MetaTypeOK
<1>2. CASE resolution[d] = None BY <1>2 DEF Facts
<1>3. CASE resolution[d] # None
  <2> DEFINE row == resolution[d]
             b == batch[row.winner]
  <2>1. row \in Resolution BY <1>1, <1>3
  <2>2. row.id \in Requests /\ row.version \in Nat /\ row.winner \in Commits
    BY <2>1 DEF Resolution
  <2>3. b \in Batch /\ d \in DaysOf(b.file) BY <1>1, <1>3, <2>2 DEF WinnersExist
  <2>4. Export[b.file] \in Exports BY <2>3, MetaConstants DEF Batch
  <2>5. Export[b.file].spend[d] \in {0, 1} BY <2>3, <2>4 DEF DaysOf, Exports
  <2>6. [id |-> row.id, version |-> row.version, winner |-> row.winner,
         spend |-> Export[b.file].spend[d]] \in Fact
    BY <2>2, <2>5 DEF Fact
  <2>7. Facts[d] \in {None, [id |-> row.id, version |-> row.version, winner |-> row.winner,
                             spend |-> Export[b.file].spend[d]]}
    BY <1>3 DEF Facts
  <2> QED BY <2>6, <2>7
<1> QED BY <1>2, <1>3

LEMMA WindowsBound == ASSUME NEW facts PROVE Windows(facts) <= Cardinality(Days)
<1>1. Starts(facts) \subseteq Days BY DEF Starts, Spent
<1> QED BY <1>1, FS_Subset, MetaConstants DEF Windows

LEMMA EStep == ASSUME MInv, WinnersExist, SInv, EInv, [Next]_vars PROVE EInv'
<1>0. gen = [h \in Generations |-> gen[h]] /\ \A h \in Generations : Shape(gen[h])
  BY DEF SInv
<1>1. CASE UNCHANGED suggestionVars BY <1>1 DEF suggestionVars, EInv
<1>2. ASSUME NEW g \in Generations, NEW q, gen' = [gen EXCEPT ![g] = q],
             FactsOK(q.facts), \A e \in q.prior : NamedBy(e),
             \A e \in current' \union superseded' : NamedBy(e)
      PROVE  EInv'
  <2>1. gen'[g] = q /\ \A h \in Generations \ {g} : gen'[h] = gen[h] BY <1>0, <1>2
  <2> QED BY <1>2, <2>1 DEF EInv
<1>3. ASSUME NEW g \in Generations, ReadFacts(g) PROVE EInv'
  <2> DEFINE q == [gen[g] EXCEPT !.pc = "evidence", !.facts = Facts]
  <2>1. q.facts = Facts /\ q.prior = gen[g].prior
    <3> DEFINE one == [gen[g] EXCEPT !.pc = "evidence"]
    <3>1. one = [pc |-> "evidence", facts |-> gen[g].facts, prior |-> gen[g].prior, done |-> gen[g].done]
      BY <1>0 DEF Shape
    <3>2. q = [one EXCEPT !.facts = Facts] OBVIOUS
    <3> HIDE DEF one, q
    <3> QED BY <3>1, <3>2
  <2>2. gen' = [gen EXCEPT ![g] = q] BY <1>3 DEF ReadFacts
  <2> HIDE DEF q
  <2>3. UNCHANGED <<current, superseded>> BY <1>3 DEF ReadFacts
  <2> QED BY <1>2, <2>1, <2>2, <2>3, FactsFine DEF EInv
<1>4. ASSUME NEW g \in Generations, ReadEvidence(g) PROVE EInv'
  <2> DEFINE q == [gen[g] EXCEPT !.pc = "write", !.prior = current]
  <2>1. q.facts = gen[g].facts /\ q.prior = current
    <3> DEFINE one == [gen[g] EXCEPT !.pc = "write"]
    <3>1. one = [pc |-> "write", facts |-> gen[g].facts, prior |-> gen[g].prior, done |-> gen[g].done]
      BY <1>0 DEF Shape
    <3>2. q = [one EXCEPT !.prior = current] OBVIOUS
    <3> HIDE DEF one, q
    <3> QED BY <3>1, <3>2
  <2>2. gen' = [gen EXCEPT ![g] = q] BY <1>4 DEF ReadEvidence
  <2> HIDE DEF q
  <2>3. UNCHANGED <<current, superseded>> BY <1>4 DEF ReadEvidence
  <2> QED BY <1>2, <2>1, <2>2, <2>3 DEF EInv
<1>5. ASSUME NEW g \in Generations, NEW answer, End(g, answer), UNCHANGED <<current, superseded>>
      PROVE  EInv'
  <2> DEFINE q == [gen[g] EXCEPT !.pc = answer, !.prior = {}]
  <2>1. q.facts = gen[g].facts /\ q.prior = {}
    <3> DEFINE one == [gen[g] EXCEPT !.pc = answer]
    <3>1. one = [pc |-> answer, facts |-> gen[g].facts, prior |-> gen[g].prior, done |-> gen[g].done]
      BY <1>0 DEF Shape
    <3>2. q = [one EXCEPT !.prior = {}] OBVIOUS
    <3> HIDE DEF one, q
    <3> QED BY <3>1, <3>2
  <2>2. gen' = [gen EXCEPT ![g] = q] BY <1>5 DEF End
  <2> HIDE DEF q
  <2> QED BY <1>2, <1>5, <2>1, <2>2 DEF EInv
<1>6. ASSUME NEW g \in Generations, WriteWindow(g) PROVE EInv'
  <2> DEFINE i == gen[g].done + 1
             evidence == <<i, gen[g].facts>>
             q == [gen[g] EXCEPT !.done = i]
  <2>1. NamedBy(evidence)
    <3>1. gen[g].done \in Nat BY <1>0 DEF Shape
    <3>2. i <= Windows(gen[g].facts) BY <1>6 DEF WriteWindow
    <3>3. Windows(gen[g].facts) <= Cardinality(Days) /\ Windows(gen[g].facts) \in Nat
      BY WindowsBound, WindowsNat
    <3>4. Cardinality(Days) \in Nat BY MetaConstants, FS_CardinalityType
    <3>5. i \in 1..Cardinality(Days) BY <3>1, <3>2, <3>3, <3>4
    <3> QED BY <3>5 DEF NamedBy, EInv
  <2>2. q.facts = gen[g].facts /\ q.prior = gen[g].prior
    <3>1. q = [pc |-> gen[g].pc, facts |-> gen[g].facts, prior |-> gen[g].prior, done |-> i]
      BY <1>0 DEF Shape
    <3> HIDE DEF q
    <3> QED BY <3>1
  <2>3. CASE End(g, "retry") /\ UNCHANGED <<current, superseded>> BY <1>5, <2>3
  <2>4. CASE /\ gen' = [gen EXCEPT ![g].done = i]
             /\ \E prior \in SUBSET gen[g].prior :
                  /\ current' \subseteq current \union {evidence}
                  /\ superseded' \subseteq superseded \union prior
    <3>1. gen' = [gen EXCEPT ![g] = q] BY <2>4
    <3> HIDE DEF q, evidence
    <3> QED BY <1>2, <2>1, <2>2, <2>4, <3>1 DEF EInv
  <2>5. \/ End(g, "retry") /\ UNCHANGED <<current, superseded>>
        \/ /\ gen' = [gen EXCEPT ![g].done = i]
           /\ \E prior \in SUBSET gen[g].prior :
                /\ current' \subseteq current \union {evidence}
                /\ superseded' \subseteq superseded \union prior
    <3> HIDE DEF q
    <3> QED BY <1>6 DEF WriteWindow
  <2> QED BY <2>3, <2>4, <2>5
<1>7. ASSUME NEW g \in Generations, Retire(g) PROVE EInv'
  <2>1. CASE End(g, "synced") /\ UNCHANGED <<current, superseded>> BY <1>5, <2>1
  <2>2. CASE \E e \in gen[g].prior :
               /\ current' = current \ {e} /\ superseded' = superseded \union {e}
               /\ gen' = [gen EXCEPT ![g].prior = @ \ {e}]
    <3>1. PICK e \in gen[g].prior :
               /\ current' = current \ {e} /\ superseded' = superseded \union {e}
               /\ gen' = [gen EXCEPT ![g].prior = @ \ {e}]
      BY <2>2
    <3> DEFINE q == [gen[g] EXCEPT !.prior = gen[g].prior \ {e}]
    <3>5. PICK rest : rest = gen[g].prior \ {e} OBVIOUS
    <3>6. [gen[g] EXCEPT !.prior = rest] =
            [pc |-> gen[g].pc, facts |-> gen[g].facts, prior |-> rest, done |-> gen[g].done]
      BY <1>0 DEF Shape
    <3>2. q = [pc |-> gen[g].pc, facts |-> gen[g].facts, prior |-> gen[g].prior \ {e},
               done |-> gen[g].done]
      BY <3>5, <3>6
    <3>3. gen' = [gen EXCEPT ![g] = q] BY <3>1
    <3> HIDE DEF q
    <3>4. q.facts = gen[g].facts /\ q.prior = gen[g].prior \ {e} BY <3>2
    <3> QED BY <1>2, <3>1, <3>3, <3>4 DEF EInv
  <2> QED BY <1>7, <2>1, <2>2 DEF Retire
<1>8. ASSUME NEW g \in Generations, Fail(g) PROVE EInv' BY <1>5, <1>8 DEF Fail
<1> QED BY <1>1, <1>3, <1>4, <1>6, <1>7, <1>8 DEF Next, vars

\* Rows and suggestions keep their types, and no request names a batch, a preview
\* or a key that there is not.
THEOREM MetaTypes == Spec => [](TypeOK /\ \A r \in Requests : Known(r))
<1>1. Init => SInv /\ EInv
  <2>1. Init => EInv
    <3> SUFFICES ASSUME Init PROVE EInv
      OBVIOUS
    <3>1. \A g \in Generations : gen[g].facts = NoFacts /\ gen[g].prior = {} BY DEF Init
    <3>2. FactsOK(NoFacts) BY DEF FactsOK, NoFacts
    <3> QED BY <3>1, <3>2 DEF Init, EInv
  <2> QED BY <2>1, InitSInv
<1>2. MInv /\ WinnersExist /\ SInv /\ EInv /\ [Next]_vars => SInv' /\ EInv' BY SStep, EStep
<1>3. MInv /\ SInv /\ EInv => TypeOK /\ \A r \in Requests : Known(r)
  BY DEF MInv, Good, Types, SInv, EInv, NamedBy, FactsOK, TypeOK
<1> QED BY <1>1, <1>2, <1>3, WinnersInvariance, PTL DEF Spec

\* Even of a day whose last recalculation was overtaken, the resolution names a
\* batch that was imported and reports the day.
THEOREM MetaWinners == Spec => []WinnersExist
<1> QED BY WinnersInvariance, PTL
=============================================================================
