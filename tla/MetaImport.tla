------------------------------ MODULE MetaImport ------------------------------
(***************************************************************************)
(* Importing Meta ad exports: a commit of a reviewed preview, perhaps as   *)
(* the replacement of an earlier batch, and withdrawals, each with the     *)
(* transaction that recalculates the canonical spend of every day it       *)
(* touches.  A step is one statement of a transaction under READ           *)
(* COMMITTED; what a transaction writes is seen by others when it commits. *)
(* Sources: lib/ads/meta-import-service.ts, meta-evidence-contract.ts.     *)
(*                                                                         *)
(* A bundle is one file, a day one identity key (an ad's spend on a day).  *)
(* File rows, reports and audit rows are written with the batch and never  *)
(* read again here.                                                        *)
(***************************************************************************)
EXTENDS Integers, FiniteSets

CONSTANTS
  Commits,      \* commit requests; the batch a request creates bears its name
  Withdrawals,  \* withdrawal requests
  Previews,     \* preview tokens
  Files, Keys,  \* exports and idempotency keys
  Days,         \* the days an export may report on
  Export,       \* what each file holds
  None,
  Faults        \* may a request die, a transaction abort, an acknowledgement be lost?

Requests == Commits \union Withdrawals

VARIABLES
  batch,        \* AdImportBatch rows with their observations, or None
  resolution,   \* MetaDailyResolution row of each day, or None
  preview,      \* what each token names, and whether its object in ads-preview has
                \* not been deleted, or tried to
  raw,          \* batches whose file is in ads-raw
  orphans,      \* history: files that were kept though not answered for, or that
                \* a request failed to delete
  request,
  arrivals,     \* how many commits have arrived: the clock of acceptedAt
  raced, passed \* history: days whose last recalculation was overtaken, and by whom

metaVars == <<batch, resolution, preview, raw, orphans, request, arrivals, raced, passed>>
files == <<raw, orphans>>

\* A day of a file with spend None is one the export does not report.
Exports == [spend : [Days -> {0, 1, None}], trust : 1..4, asOf : 0..2, eligible : BOOLEAN]
States == {"ACCEPTED", "REPLACED", "WITHDRAWN"}
Batch == [file : Files, key : Keys, replaces : Commits \union {None}, at : Nat, state : States]
\* id: the request that created the row.
Resolution == [id : Requests, winner : Commits, version : Nat]

Preview == [file : Files, stored : BOOLEAN]

ASSUME MetaConstants ==
  /\ Export \in [Files -> Exports]
  /\ Faults \in BOOLEAN
  /\ Commits \intersect Withdrawals = {}
  /\ Days \subseteq Int /\ IsFiniteSet(Days)
  /\ None \notin Requests \union Preview \union Resolution \union Batch \union {0, 1}

Idle == [pc |-> "idle", token |-> None, key |-> None, target |-> None, at |-> 0,
         seen |-> [d \in Days |-> None], existing |-> [d \in Days |-> None]]

MetaInit ==
  /\ batch = [c \in Commits |-> None]
  /\ resolution = [d \in Days |-> None]
  /\ preview = [p \in Previews |-> None] /\ raw = {} /\ orphans = {}
  /\ request = [r \in Requests |-> Idle]
  /\ arrivals = 0
  /\ raced = {} /\ passed = [r \in Requests |-> {}]

DaysOf(f) == {d \in Days : Export[f].spend[d] # None}
Batches == {c \in Commits : batch[c] # None}

-----------------------------------------------------------------------------
(* The canonical source of a day *)

\* resolveCanonicalDaily's order: the trust in the origin of sourceAsOf, then
\* sourceAsOf (the arrival when the export has none), then acceptedAt.
Rank(f, at) == <<Export[f].trust, IF Export[f].trust = 2 THEN at ELSE Export[f].asOf, at>>
Above(a, b) == \/ a[1] > b[1]
               \/ a[1] = b[1] /\ a[2] > b[2]
               \/ a[1] = b[1] /\ a[2] = b[2] /\ a[3] > b[3]

\* The observations of day d that count among the batches B, and the first of them.
Observed(B, d) ==
  {c \in Commits : /\ B[c] # None
                   /\ B[c].state = "ACCEPTED" /\ Export[B[c].file].eligible
                   /\ d \in DaysOf(B[c].file)}
Beats(B, c, e) == Above(Rank(B[c].file, B[c].at), Rank(B[e].file, B[e].at))
Winner(B, d) ==
  IF Observed(B, d) = {} THEN None
  ELSE CHOOSE c \in Observed(B, d) : \A e \in Observed(B, d) \ {c} : Beats(B, c, e)

-----------------------------------------------------------------------------
(* Transactions *)

InTransaction == {"create", "replace", "update", "observe", "existing", "write"}
\* The rows an open transaction keeps others from: the key and the target of a
\* batch it has inserted, the batch it has marked.
Inserted(r) == r \in Commits /\ request[r].pc \in {"replace", "observe", "existing", "write"}
Holds(r, b) == request[r].target = b /\ request[r].pc \in {"observe", "existing", "write"}
Free(r, b) == \A o \in Requests \ {r} : ~Holds(o, b)

\* The batches as the transaction of r sees them, its own writes included.
FileOf(r) == preview[request[r].token].file
NewBatch(r) == [file |-> FileOf(r), key |-> request[r].key,
                replaces |-> request[r].target, at |-> request[r].at, state |-> "ACCEPTED"]
MarkedAs(r) == IF r \in Commits THEN "REPLACED" ELSE "WITHDRAWN"
View(r) == [c \in Commits |->
  CASE c = r -> NewBatch(r)
    [] c # r /\ c = request[r].target -> [batch[c] EXCEPT !.state = MarkedAs(r)]
    [] OTHER -> batch[c]]

\* Mutant: the days of the batch that is taken back are forgotten.
AffectedByFileOnly(r) ==
  IF r \in Commits THEN DaysOf(FileOf(r))
  ELSE DaysOf(batch[request[r].target].file)

\* The days whose resolution the transaction recalculates.
Affected(r) ==
  (IF r \in Commits THEN DaysOf(FileOf(r)) ELSE {})
  \union (IF request[r].target = None THEN {} ELSE DaysOf(batch[request[r].target].file))

Goto(r, pc) == request' = [request EXCEPT ![r].pc = pc]
Unwritten == UNCHANGED <<batch, resolution, raced>>

\* recalculateMetaDailyResolutions: the observations, then the existing rows.
Observe(r) ==
  /\ request[r].pc = "observe"
  /\ request' = [request EXCEPT ![r] = [@ EXCEPT !.pc = "existing",
       !.seen = [d \in Days |-> IF d \in Affected(r) THEN Winner(View(r), d) ELSE None]]]
  /\ passed' = [passed EXCEPT ![r] = {}]
  /\ Unwritten /\ UNCHANGED <<preview, files, arrivals>>

ReadExisting(r) ==
  /\ request[r].pc = "existing"
  /\ request' = [request EXCEPT ![r] = [@ EXCEPT !.pc = "write",
       !.existing = [d \in Days |-> IF d \in Affected(r) THEN resolution[d] ELSE None]]]
  /\ Unwritten /\ UNCHANGED <<preview, files, arrivals, passed>>

\* A row to create that exists by now (identityKey is unique), and an event for
\* a row that does not exist any more (its foreign key): either aborts.
Aborts(r) == \E d \in Affected(r) :
  LET seen == request[r].seen[d]  existing == request[r].existing[d]  row == resolution[d]
  IN /\ seen # None
     /\ \/ existing = None /\ row # None
        \/ /\ existing # None /\ seen # existing.winner
           /\ ~(row # None /\ row.id = existing.id)

\* Mutant: a day nothing is known of any more gets a row without a winner.
WrittenBlank(r, d) ==
  LET seen == request[r].seen[d]  existing == request[r].existing[d]  row == resolution[d]
      changed == seen # existing.winner
  IN CASE seen = None -> [id |-> r, winner |-> None, version |-> 1]
       [] seen # None /\ existing = None ->
            [id |-> r, winner |-> seen, version |-> 1]
       [] seen # None /\ existing # None /\ row = None -> None
       [] OTHER -> [row EXCEPT !.winner = seen, !.version = IF changed THEN @ + 1 ELSE @]

\* Deletes go by row id, updates by identityKey alone.
Written(r, d) ==
  LET seen == request[r].seen[d]  existing == request[r].existing[d]  row == resolution[d]
      changed == seen # existing.winner
  IN CASE seen = None -> IF existing # None /\ row # None /\ row.id = existing.id
                         THEN None ELSE row
       [] seen # None /\ existing = None ->
            [id |-> r, winner |-> seen, version |-> 1]
       [] seen # None /\ existing # None /\ row = None -> None
       [] OTHER -> [row EXCEPT !.winner = seen, !.version = IF changed THEN @ + 1 ELSE @]

\* The writes and COMMIT: a waiting writer of the same row goes on after it.
Write(r) ==
  /\ request[r].pc = "write" /\ ~Aborts(r)
  /\ batch' = View(r)
  /\ resolution' = [d \in Days |-> IF d \in Affected(r) THEN Written(r, d) ELSE resolution[d]]
  /\ raced' = (raced \ Affected(r)) \union (Affected(r) \intersect passed[r])
  /\ passed' = [o \in Requests |->
       IF o # r /\ request[o].pc \in {"existing", "write"} THEN passed[o] \union Affected(r)
       ELSE {}]
  /\ UNCHANGED arrivals

Finish(r) == /\ Write(r) /\ Goto(r, IF r \in Commits THEN "cleanup" ELSE "withdrawn")
             /\ UNCHANGED <<preview, files>>

\* The stored file of a request that fails is deleted; an error of the storage is
\* ignored.
Discard(r) ==
  \/ raw' = raw \ {r} /\ UNCHANGED orphans
  \/ Faults /\ UNCHANGED raw /\ orphans' = orphans \union (raw \intersect {r})

\* The rows are there, the caller is told that they are not: every error of the
\* transaction is taken for a rollback.
AckLost(r) == /\ Faults /\ Write(r) /\ Goto(r, "failed")
              /\ Discard(r) /\ UNCHANGED preview

\* Mutant: the catch does not delete the stored file.
RollbackKeepsFile(r, answer) ==
  /\ Goto(r, answer)
  /\ passed' = [passed EXCEPT ![r] = {}]
  /\ Unwritten /\ UNCHANGED <<preview, files, arrivals>>

Rollback(r, answer) ==
  /\ Goto(r, answer) /\ Discard(r)
  /\ passed' = [passed EXCEPT ![r] = {}]
  /\ Unwritten /\ UNCHANGED <<preview, arrivals>>

Abort(r) ==
  /\ request[r].pc \in InTransaction
  /\ \/ request[r].pc = "write" /\ Aborts(r) /\ Rollback(r, "conflict")
     \/ Faults /\ Rollback(r, "failed")

-----------------------------------------------------------------------------
(* createMetaImportPreview and commitMetaImport *)

Imported(f) == \E b \in Batches : batch[b].file = f

CreatePreview(p) ==
  /\ preview[p] = None
  /\ \E f \in Files : ~Imported(f) /\ preview' = [preview EXCEPT ![p] = [file |-> f, stored |-> TRUE]]
  /\ Unwritten /\ UNCHANGED <<files, request, arrivals, passed>>

\* The request arrives and looks for a batch with its idempotency key.
Start(c) ==
  /\ request[c].pc = "idle"
  /\ \E p \in Previews, k \in Keys, t \in Batches \union {None} :
       /\ preview[p] # None
       /\ request' = [request EXCEPT ![c] = [@ EXCEPT
            !.pc = IF \E b \in Batches : batch[b].key = k THEN "replayed" ELSE "files",
            !.token = p, !.key = k, !.target = t, !.at = arrivals + 1]]
  /\ arrivals' = arrivals + 1
  /\ Unwritten /\ UNCHANGED <<preview, files, passed>>

Step(c, pc, next) == /\ request[c].pc = pc /\ Goto(c, next)
                     /\ Unwritten /\ UNCHANGED <<preview, files, arrivals, passed>>

\* Expired token, unacknowledged warnings, missing confirmation or release.
Refuse(c) == Step(c, "files", "refused")

\* An object that was to be deleted may be found all the same.
ReadFiles(c) ==
  LET stored == preview[request[c].token].stored
  IN \/ Step(c, "files", "check") /\ (stored \/ Faults)
     \/ Step(c, "files", "refused") /\ ~stored

CheckDuplicates(c) == Step(c, "check", IF Imported(FileOf(c)) THEN "refused" ELSE "target")

ReadTarget(c) ==
  LET t == request[c].target
  IN Step(c, "target", IF t = None THEN "store"
                       ELSE IF batch[t].state = "ACCEPTED" THEN "store" ELSE "refused")

\* An upload that is not answered is not among those the request deletes.
StoreRaw(c) ==
  /\ request[c].pc = "store"
  /\ \/ Goto(c, "create") /\ raw' = raw \union {c} /\ UNCHANGED orphans
     \/ /\ Faults /\ Goto(c, "failed")
        /\ \E kept \in SUBSET {c} : raw' = raw \union kept /\ orphans' = orphans \union kept
  /\ Unwritten /\ UNCHANGED <<preview, arrivals, passed>>

\* The insert waits for an open transaction with the same key or the same
\* target, and fails when a committed batch has one of them.
Unique(b, c) == b.key = request[c].key \/ (b.replaces # None /\ b.replaces = request[c].target)
Create(c) ==
  /\ request[c].pc = "create"
  /\ \A o \in Commits \ {c} : Inserted(o) => ~Unique(NewBatch(o), c)
  /\ IF \E b \in Batches : Unique(batch[b], c) THEN Rollback(c, "conflict")
     ELSE Step(c, "create", IF request[c].target = None THEN "observe" ELSE "replace")

\* Mutant: the target is updated whatever its state is by now.
ReplaceBlind(c) == /\ request[c].pc = "replace" /\ Free(c, request[c].target)
                   /\ Step(c, "replace", "observe")

\* updateMany of the target, if it is still accepted.
Replace(c) ==
  /\ request[c].pc = "replace" /\ Free(c, request[c].target)
  /\ IF batch[request[c].target].state = "ACCEPTED" THEN Step(c, "replace", "observe")
     ELSE Rollback(c, "conflict")

\* The preview object is deleted after the transaction; an error of the storage is
\* ignored again, see ReadFiles.
Cleanup(c) ==
  /\ request[c].pc = "cleanup" /\ Goto(c, "committed")
  /\ preview' = [preview EXCEPT ![request[c].token].stored = FALSE]
  /\ Unwritten /\ UNCHANGED <<files, arrivals, passed>>

-----------------------------------------------------------------------------
(* withdrawMetaImport *)

ReadBatch(w) ==
  /\ request[w].pc = "idle"
  /\ \E b \in Batches : request' = [request EXCEPT ![w] = [@ EXCEPT !.target = b,
       !.pc = IF batch[b].state = "ACCEPTED" THEN "update" ELSE "refused"]]
  /\ Unwritten /\ UNCHANGED <<preview, files, arrivals, passed>>

\* The update goes by id, whatever the state is by now.
Update(w) == Free(w, request[w].target) /\ Step(w, "update", "observe")

-----------------------------------------------------------------------------
Answers == {"replayed", "refused", "conflict", "failed", "committed", "withdrawn", "dead"}

\* The process dies; an open transaction is rolled back, a stored file stays.
Die(r) ==
  /\ Faults /\ request[r].pc \notin Answers \union {"idle"}
  /\ Goto(r, "dead") /\ passed' = [passed EXCEPT ![r] = {}]
  /\ Unwritten /\ UNCHANGED <<preview, files, arrivals>>

MetaNext ==
  \/ \E p \in Previews : CreatePreview(p)
  \/ \E c \in Commits : \/ Start(c) \/ Refuse(c) \/ ReadFiles(c) \/ CheckDuplicates(c)
                        \/ ReadTarget(c) \/ StoreRaw(c) \/ Create(c) \/ Replace(c) \/ Cleanup(c)
  \/ \E w \in Withdrawals : ReadBatch(w) \/ Update(w)
  \/ \E r \in Requests : \/ Observe(r) \/ ReadExisting(r) \/ Finish(r)
                         \/ AckLost(r) \/ Abort(r) \/ Die(r)

MetaSpec == MetaInit /\ [][MetaNext]_metaVars

-----------------------------------------------------------------------------
(* Properties *)

\* Rows have the declared shape.
MetaTypeOK ==
  /\ batch \in [Commits -> Batch \union {None}]
  /\ resolution \in [Days -> Resolution \union {None}]
  /\ preview \in [Previews -> Preview \union {None}]
  /\ raw \subseteq Commits /\ orphans \subseteq Commits
  /\ raced \subseteq Days /\ passed \in [Requests -> SUBSET Days]

Canonical(d) ==
  LET w == Winner(batch, d)
  IN IF w = None THEN resolution[d] = None
     ELSE resolution[d] # None /\ resolution[d].winner = w

\* A day's resolution is the canonical winner among the accepted batches, after
\* any chain of commits, replacements and withdrawals, unless the last
\* transaction that recalculated it was overtaken by another one of that day.
CanonicalUnlessRaced == \A d \in Days \ raced : Canonical(d)

\* A caller who is told "committed" or "replayed" finds a batch with its key, one
\* who is told "withdrawn" finds it withdrawn, and a refusal or a conflict has
\* created nothing.
AnswersAreTrue == \A r \in Requests :
  LET q == request[r]
  IN /\ q.pc = "committed" => batch[r] # None /\ batch[r].key = q.key
     /\ q.pc = "replayed" => \E b \in Batches : batch[b].key = q.key
     /\ q.pc = "withdrawn" => batch[q.target].state = "WITHDRAWN"
     /\ r \in Commits /\ q.pc \in {"refused", "conflict", "replayed"} => batch[r] = None

\* The stored file of a batch is only missing when its caller was told that the
\* import failed, and one without a batch belongs to a request that still runs
\* or has died, was stored without an answer, or could not be deleted.
RawFilesAgree == \A c \in Commits :
  /\ batch[c] # None /\ c \notin raw => request[c].pc = "failed"
  /\ batch[c] = None /\ c \in raw =>
       request[c].pc \in InTransaction \union {"dead"} \/ c \in orphans
=============================================================================
