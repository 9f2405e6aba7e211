---------------------------- MODULE SpotifyImport ----------------------------
(***************************************************************************)
(* The Spotify export import (lib/analytics/spotify-import-service.ts) and *)
(* the storage maintenance that runs beside it (retention-cleanup.ts).     *)
(*                                                                         *)
(* A preview parses an upload, keeps its bytes as a temporary object and   *)
(* hands the browser an encrypted token; a commit request carrying that    *)
(* token re-checks everything, copies the bytes to a permanent object and  *)
(* writes the import in one database transaction. Every await is a step of *)
(* its own, so requests, withdrawals and sweeps interleave between them.   *)
(***************************************************************************)
EXTENDS Integers, FiniteSets

CONSTANTS
  Requests,     \* commit requests; the import a request creates carries its name
  Previews,     \* preview requests; a preview's token and temporary object carry its name
  Withdrawals,  \* withdraw requests
  Sweeps,       \* maintenance runs that may overlap (the cron route and the manual script)
  Users, Hashes, Keys, Scopes, None,
  PreviewTTL,        \* SPOTIFY_PREVIEW_TTL_MS
  PreviewRetention,  \* ANALYTICS_PREVIEW_RETENTION_HOURS
  OrphanRetention,   \* ANALYTICS_ORPHAN_RETENTION_DAYS
  RawRetention,      \* ANALYTICS_RAW_RETENTION_DAYS
  MaxRun,            \* ticks the platform lets one request live
  BatchSize,         \* ANALYTICS_CLEANUP_BATCH_SIZE
  CommitAckLost,     \* may the database commit and the client see an error?
  MaxClock           \* bound on the clock

VARIABLES
  clock,
  imports,     \* table AnalyticsImport
  raw,         \* private objects "analytics-raw": creation time, or None
  temp,        \* private objects "analytics-preview": creation time, or None
  preview, request, withdrawal, sweep

vars == <<clock, imports, raw, temp, preview, request, withdrawal, sweep>>
stored == <<imports, raw, temp>>
actors == <<preview, request, withdrawal, sweep>>

Time == Nat \union {None}

Import == [hash : Hashes, key : Keys, scope : Scopes,
           status : {"IMPORTED", "WITHDRAWN", "REPLACED"},
           replacedBy : Requests \union {None},
           rawExpiresAt : Nat, rawDeleted : BOOLEAN]

(* The preview object outlives the token and the commit it admitted; the     *)
(* orphan threshold outlives any request. The code's own bounds give both:   *)
(* 15 minutes against at least one hour, minutes against at least one day.   *)
ASSUME Timing ==
  /\ {PreviewTTL, PreviewRetention, OrphanRetention, RawRetention, MaxRun, MaxClock} \subseteq Nat
  /\ PreviewTTL + MaxRun < PreviewRetention
  /\ MaxRun < OrphanRetention
  /\ MaxRun < RawRetention
ASSUME Kinds ==
  /\ BatchSize \in Nat \ {0}
  /\ CommitAckLost \in BOOLEAN
  /\ None \notin Nat \union Requests \union Previews \union Users \union Hashes \union Keys \union Scopes
  /\ None \notin Import

Accepted(i) == imports[i] # None
Current(i) == Accepted(i) /\ imports[i].status = "IMPORTED"
Holds(i, h) == Accepted(i) /\ imports[i].hash = h

\* The import is there although its request was told that the transaction failed.
AckLost(r) == CommitAckLost /\ Accepted(r) /\ request[r].answer = "TRANSACTION_FAILURE"

Init ==
  /\ clock = 0
  /\ imports = [i \in Requests |-> None]
  /\ raw = [i \in Requests |-> None]
  /\ temp = [p \in Previews |-> None]
  /\ preview = [p \in Previews |->
       [pc |-> "idle", user |-> None, hash |-> None, begun |-> 0, reprocessOf |-> None]]
  /\ request = [r \in Requests |->
       [pc |-> "idle", key |-> None, preview |-> None, scope |-> None, target |-> None,
        begun |-> 0, answer |-> None, import |-> None]]
  /\ withdrawal = [w \in Withdrawals |-> [pc |-> "idle", import |-> None, begun |-> 0]]
  /\ sweep = [c \in Sweeps |->
       [pc |-> "idle", begun |-> 0, listed |-> {}, temps |-> {}, raws |-> {}, referenced |-> {},
        expired |-> {}, marking |-> None]]

-----------------------------------------------------------------------------
(* createSpotifyImportPreview and reprocessSpotifyImport *)

PreviewAt(p, from, to) == preview[p].pc = from /\ preview' = [preview EXCEPT ![p].pc = to]

\* An upload whose bytes are already imported gets no token, and so does one
\* whose rows do not parse.
PreviewUpload(p, u, h) ==
  /\ preview[p].pc = "idle"
  /\ \E next \in {"refused"} \union (IF \E i \in Requests : Holds(i, h) THEN {} ELSE {"store"}) :
       preview' = [preview EXCEPT ![p] =
         [pc |-> next, user |-> u, hash |-> h, begun |-> clock, reprocessOf |-> None]]
  /\ UNCHANGED <<clock, stored, request, withdrawal, sweep>>

\* rawAvailability: the retained object is neither marked deleted nor expired.
RawAvailable(i) == Accepted(i) /\ ~imports[i].rawDeleted /\ clock < imports[i].rawExpiresAt

ReprocessRequest(p, u, i) ==
  /\ preview[p].pc = "idle"
  /\ RawAvailable(i)
  /\ preview' = [preview EXCEPT ![p] =
       [pc |-> "readRaw", user |-> u, hash |-> imports[i].hash, begun |-> clock, reprocessOf |-> i]]
  /\ UNCHANGED <<clock, stored, request, withdrawal, sweep>>

\* The duplicate check is waived for a reprocess (allowExistingHashForReprocess).
ReprocessReadRaw(p) ==
  /\ preview[p].pc = "readRaw"
  /\ \/ PreviewAt(p, "readRaw", "refused")
     \/ raw[preview[p].reprocessOf] # None /\ PreviewAt(p, "readRaw", "store")
  /\ UNCHANGED <<clock, stored, request, withdrawal, sweep>>

PreviewStore(p) ==
  /\ PreviewAt(p, "store", "ready")
  /\ temp' = [temp EXCEPT ![p] = clock]
  /\ UNCHANGED <<clock, imports, raw, request, withdrawal, sweep>>

PreviewDies(p) ==
  /\ preview[p].pc \in {"readRaw", "store"}
  /\ preview' = [preview EXCEPT ![p].pc = "refused"]
  /\ UNCHANGED <<clock, stored, request, withdrawal, sweep>>

ExpiresAt(p) == preview[p].begun + PreviewTTL

-----------------------------------------------------------------------------
(* commitSpotifyImport *)

Errors == {"FORBIDDEN", "EXPIRED_PREVIEW", "CONFLICT", "DUPLICATE_FILE", "INVALID",
           "RAW_FILE_UNAVAILABLE", "STORAGE_FAILURE", "TRANSACTION_FAILURE"}
Answers == Errors \union {"COMMITTED", "REPLAYED"}
ASSUME NoneIsNoAnswer == None \notin Answers

\* States of a request that is being served, in the order it passes them.
BeforeUpload == {"checkHash", "readPreview", "recheckHash", "checkTarget", "upload"}
AfterFailure == {"deleteRaw", "findWinner"}
Serving == BeforeUpload \union AfterFailure \union {"transaction", "deletePreview"}

FileOf(r) == preview[request[r].preview].hash

Goto(r, to) == request' = [request EXCEPT ![r].pc = to]
Reply(r, answer, i) ==
  request' = [request EXCEPT ![r].pc = "done", ![r].answer = answer, ![r].import = i]
Refuse(r, answer) == Reply(r, answer, None)

\* First lookup, by idempotency key, and the token's own checks, in the code's
\* order: a token that expired is refused even when its import exists.
CommitBegin(r, u, k, p, s, t) ==
  LET becomes(pc, answer, i) == request' = [request EXCEPT ![r] =
        [pc |-> pc, key |-> k, preview |-> p, scope |-> s, target |-> t, begun |-> clock,
         answer |-> answer, import |-> i]]
      replay == {i \in Requests : Accepted(i) /\ imports[i].key = k}
  IN
  /\ request[r].pc = "idle"
  /\ preview[p].pc = "ready"
  /\ \/ preview[p].user # u /\ becomes("done", "FORBIDDEN", None)
     \/ preview[p].user = u /\ ExpiresAt(p) <= clock /\ becomes("done", "EXPIRED_PREVIEW", None)
     \/ /\ preview[p].user = u /\ clock < ExpiresAt(p)
        /\ \/ \E i \in replay : imports[i].hash # preview[p].hash
                /\ becomes("done", "CONFLICT", None)
           \/ \E i \in replay : imports[i].hash = preview[p].hash
                /\ becomes("done", "REPLAYED", i)
           \/ replay = {} /\ becomes("checkHash", None, None)
           \/ replay = {} /\ becomes("done", "INVALID", None)  \* parser version changed
  /\ UNCHANGED <<clock, stored, preview, withdrawal, sweep>>

\* The lookup by file hash, made twice.
LookUpHash(r, from, to) ==
  /\ request[r].pc = from
  /\ \/ \E i \in Requests : Holds(i, FileOf(r)) /\ imports[i].key = request[r].key /\ Reply(r, "REPLAYED", i)
     \/ \E i \in Requests : Holds(i, FileOf(r)) /\ imports[i].key # request[r].key
          /\ Refuse(r, "DUPLICATE_FILE")
     \/ ~(\E i \in Requests : Holds(i, FileOf(r))) /\ Goto(r, to)
  /\ UNCHANGED <<clock, stored, preview, withdrawal, sweep>>

CheckHash(r) == LookUpHash(r, "checkHash", "readPreview")
RecheckHash(r) == LookUpHash(r, "recheckHash", "checkTarget")

\* Reads the temporary object, re-parses it and checks every confirmation; what
\* the owner confirmed may be incomplete or name an unusable artist or release.
ReadPreview(r) ==
  /\ request[r].pc = "readPreview"
  /\ \/ temp[request[r].preview] = None /\ Refuse(r, "RAW_FILE_UNAVAILABLE")
     \/ temp[request[r].preview] # None /\ (Goto(r, "recheckHash") \/ Refuse(r, "INVALID"))
  /\ UNCHANGED <<clock, stored, preview, withdrawal, sweep>>

\* Mutant: the target of another artist or type is accepted.
ReplaceableAnyScope(r) == Current(request[r].target)

Replaceable(r) ==
  LET t == request[r].target IN Current(t) /\ imports[t].scope = request[r].scope

CheckTarget(r) ==
  /\ request[r].pc = "checkTarget"
  /\ IF request[r].target = None \/ Replaceable(r) THEN Goto(r, "upload") ELSE Refuse(r, "CONFLICT")
  /\ UNCHANGED <<clock, stored, preview, withdrawal, sweep>>

\* storeAsset of the permanent copy; a failure here leaves nothing to undo.
Upload(r) ==
  /\ request[r].pc = "upload"
  /\ \/ Goto(r, "transaction") /\ raw' = [raw EXCEPT ![r] = clock]
     \/ Refuse(r, "STORAGE_FAILURE") /\ UNCHANGED raw
  /\ UNCHANGED <<clock, imports, temp, preview, withdrawal, sweep>>

\* Imports that hold one of the unique columns fileHash and commitIdempotencyKey.
Rivals(r) ==
  {i \in Requests : Accepted(i) /\ (imports[i].hash = FileOf(r) \/ imports[i].key = request[r].key)}

NewImport(r) ==
  [hash |-> FileOf(r), key |-> request[r].key, scope |-> request[r].scope, status |-> "IMPORTED",
   replacedBy |-> None, rawExpiresAt |-> request[r].begun + RawRetention, rawDeleted |-> FALSE]

\* The import row and, with it, the replacement of the target, which the final
\* conditional update finds still current.
WriteImport(r) ==
  LET t == request[r].target IN
  /\ request[r].pc = "transaction"
  /\ Rivals(r) = {}
  /\ IF t = None THEN imports' = [imports EXCEPT ![r] = NewImport(r)]
     ELSE /\ Current(t)
          /\ imports' = [imports EXCEPT ![r] = NewImport(r),
                           ![t] = [@ EXCEPT !.status = "REPLACED", !.replacedBy = r]]

CommitTransaction(r) ==
  /\ WriteImport(r)
  /\ Goto(r, "deletePreview")
  /\ UNCHANGED <<clock, raw, temp, preview, withdrawal, sweep>>

\* The error the transaction ends with is kept in "answer" while it is handled.
Fail(r, cause) ==
  request' = [request EXCEPT ![r].pc = "deleteRaw", ![r].answer = cause]

\* P2002 when a unique column refuses (the import's, or the rows' when two song
\* rows are mapped to one release); CONFLICT when the target changed; any other
\* database error is TRANSACTION_FAILURE. All of them roll back.
AbortTransaction(r) ==
  LET t == request[r].target IN
  /\ request[r].pc = "transaction"
  /\ \/ Fail(r, "P2002")
     \/ Rivals(r) = {} /\ t # None /\ ~Current(t) /\ Fail(r, "CONFLICT")
     \/ Fail(r, "TRANSACTION_FAILURE")
  /\ UNCHANGED <<clock, stored, preview, withdrawal, sweep>>

\* The database committed and the connection broke before it could say so.
LoseCommitAck(r) ==
  /\ CommitAckLost
  /\ WriteImport(r)
  /\ Fail(r, "TRANSACTION_FAILURE")
  /\ UNCHANGED <<clock, raw, temp, preview, withdrawal, sweep>>

\* deleteAsset swallows a storage error, so the upload may stay behind.
DeleteRaw(r) ==
  /\ request[r].pc = "deleteRaw"
  /\ IF request[r].answer = "P2002" THEN Goto(r, "findWinner") ELSE Refuse(r, request[r].answer)
  /\ raw' \in {raw, [raw EXCEPT ![r] = None]}
  /\ UNCHANGED <<clock, imports, temp, preview, withdrawal, sweep>>

\* Mutant: whatever import won the race is returned as this request's own.
FindWinnerAny(r) ==
  /\ request[r].pc = "findWinner"
  /\ \/ Rivals(r) = {} /\ Refuse(r, "CONFLICT")
     \/ \E i \in Rivals(r) : Reply(r, "REPLAYED", i)
  /\ UNCHANGED <<clock, stored, preview, withdrawal, sweep>>

\* findFirst by hash or key: any one of the rows that match, or none when the
\* unique column was one of the import's own rows.
FindWinner(r) ==
  /\ request[r].pc = "findWinner"
  /\ \/ Rivals(r) = {} /\ Refuse(r, "CONFLICT")
     \/ \E i \in Rivals(r) :
          \/ Holds(i, FileOf(r)) /\ imports[i].key = request[r].key /\ Reply(r, "REPLAYED", i)
          \/ Holds(i, FileOf(r)) /\ imports[i].key # request[r].key /\ Refuse(r, "DUPLICATE_FILE")
          \/ ~Holds(i, FileOf(r)) /\ Refuse(r, "CONFLICT")
  /\ UNCHANGED <<clock, stored, preview, withdrawal, sweep>>

DeletePreview(r) ==
  /\ request[r].pc = "deletePreview"
  /\ Reply(r, "COMMITTED", r)
  /\ temp' \in {temp, [temp EXCEPT ![request[r].preview] = None]}
  /\ UNCHANGED <<clock, imports, raw, preview, withdrawal, sweep>>

\* The platform kills the function, or the process dies, wherever it stands.
CommitDies(r) ==
  /\ request[r].pc \in Serving
  /\ Goto(r, "dead")
  /\ UNCHANGED <<clock, stored, preview, withdrawal, sweep>>

-----------------------------------------------------------------------------
(* withdrawSpotifyImport: the read and the conditional update of one           *)
(* read-committed transaction; the update decides again what the read decided. *)

WithdrawRead(w, i) ==
  /\ withdrawal[w].pc = "idle"
  /\ Accepted(i)
  /\ withdrawal' = [withdrawal EXCEPT ![w] =
       [pc |-> CASE imports[i].status = "WITHDRAWN" -> "replayed"
                 [] imports[i].status = "REPLACED" -> "refused"
                 [] imports[i].status = "IMPORTED" -> "update",
        import |-> i, begun |-> clock]]
  /\ UNCHANGED <<clock, stored, preview, request, sweep>>

\* Mutant: the update trusts the read, as withdrawAnalyticsImport does.
WithdrawUpdateBlind(w) ==
  /\ withdrawal[w].pc = "update"
  /\ imports' = [imports EXCEPT ![withdrawal[w].import].status = "WITHDRAWN"]
  /\ withdrawal' = [withdrawal EXCEPT ![w].pc = "withdrawn"]
  /\ UNCHANGED <<clock, raw, temp, preview, request, sweep>>

WithdrawUpdate(w) ==
  LET i == withdrawal[w].import IN
  /\ withdrawal[w].pc = "update"
  /\ IF Current(i)
     THEN /\ imports' = [imports EXCEPT ![i].status = "WITHDRAWN"]
          /\ withdrawal' = [withdrawal EXCEPT ![w].pc = "withdrawn"]
     ELSE /\ withdrawal' = [withdrawal EXCEPT ![w].pc =
                IF imports[i].status = "WITHDRAWN" THEN "replayed" ELSE "refused"]
          /\ UNCHANGED imports
  /\ UNCHANGED <<clock, raw, temp, preview, request, sweep>>

WithdrawDies(w) ==
  /\ withdrawal[w].pc = "update"
  /\ withdrawal' = [withdrawal EXCEPT ![w].pc = "refused"]
  /\ UNCHANGED <<clock, stored, preview, request, sweep>>

-----------------------------------------------------------------------------
(* runRetentionCleanup, when it is not a dry run *)

\* Mutant: too many candidates for one batch, and nothing is deleted.
BatchesOrNothing(S, age) == IF Cardinality(S) <= BatchSize THEN {S} ELSE {{}}

\* The first BatchSize of a set ordered by age; equal ages fall in any order.
Batches(S, age) ==
  {B \in SUBSET S :
     /\ Cardinality(B) <= BatchSize
     /\ B # S => Cardinality(B) = BatchSize
     /\ \A x \in B, y \in S \ B : age[x] <= age[y]}

SweepIdle == [pc |-> "idle", begun |-> 0, listed |-> {}, temps |-> {}, raws |-> {},
              referenced |-> {}, expired |-> {}, marking |-> None]

SweepStart(c) ==
  /\ sweep[c].pc = "idle"
  /\ sweep' = [sweep EXCEPT ![c].pc = "list", ![c].begun = clock]
  /\ UNCHANGED <<clock, stored, preview, request, withdrawal>>

\* Mutants: objects of any age; objects as old as the preview token's lifetime.
OldObjectsAnyAge(objects, retention, c) == {x \in DOMAIN objects : objects[x] # None}

OldObjectsByToken(objects, retention, c) ==
  {x \in DOMAIN objects : objects[x] # None /\ objects[x] + PreviewTTL <= sweep[c].begun}

\* Objects at least as old as a retention, counted from the sweep's start.
OldObjects(objects, retention, c) ==
  {x \in DOMAIN objects : objects[x] # None /\ objects[x] + retention <= sweep[c].begun}

\* Storage and database are listed concurrently: either list may come first.
SweepListObjects(c) ==
  /\ sweep[c].pc = "list" /\ "objects" \notin sweep[c].listed
  /\ \E batch \in Batches(OldObjects(temp, PreviewRetention, c), temp) :
       sweep' = [sweep EXCEPT
         ![c].listed = @ \union {"objects"},
         ![c].temps = batch,
         ![c].raws = OldObjects(raw, OrphanRetention, c)]
  /\ UNCHANGED <<clock, stored, preview, request, withdrawal>>

\* Mutant: expired files are looked for among the stored objects.
ExpiredImportsStored(c) ==
  {i \in Requests : Accepted(i) /\ raw[i] # None /\ imports[i].rawExpiresAt <= sweep[c].begun}

ExpiredImports(c) ==
  {i \in Requests : Accepted(i) /\ ~imports[i].rawDeleted /\ imports[i].rawExpiresAt <= sweep[c].begun}

SweepListRows(c) ==
  /\ sweep[c].pc = "list" /\ "rows" \notin sweep[c].listed
  /\ \E batch \in Batches(ExpiredImports(c),
                          [i \in ExpiredImports(c) |-> imports[i].rawExpiresAt]) :
       sweep' = [sweep EXCEPT
         ![c].listed = @ \union {"rows"},
         ![c].referenced = {i \in Requests : Accepted(i)},
         ![c].expired = batch]
  /\ UNCHANGED <<clock, stored, preview, request, withdrawal>>

\* An orphan is an old object that no import row refers to.
Orphans(c) == sweep[c].raws \ sweep[c].referenced

\* One that another sweep deleted since it was listed still takes a place.
SweepPlan(c) ==
  /\ sweep[c].pc = "list" /\ sweep[c].listed = {"objects", "rows"}
  /\ \E batch \in Batches(Orphans(c), [i \in Requests |-> IF raw[i] = None THEN 0 ELSE raw[i]]) :
       sweep' = [sweep EXCEPT
         ![c].pc = "delete", ![c].listed = {}, ![c].raws = batch, ![c].referenced = {}]
  /\ UNCHANGED <<clock, stored, preview, request, withdrawal>>

\* deleteStoredAssetStrict finds the object, finds it already absent, or fails;
\* the sweep carries on after a failure, and the row is marked only without one.
SweepDeletePreview(c, p) ==
  /\ sweep[c].pc = "delete" /\ p \in sweep[c].temps
  /\ temp' \in {temp, [temp EXCEPT ![p] = None]}
  /\ sweep' = [sweep EXCEPT ![c].temps = @ \ {p}]
  /\ UNCHANGED <<clock, imports, raw, preview, request, withdrawal>>

\* Mutant: the row is marked although the delete failed.
SweepDeleteExpiredAlwaysMarks(c, i) ==
  /\ sweep[c].pc = "delete" /\ sweep[c].temps = {}
  /\ sweep[c].marking = None /\ i \in sweep[c].expired
  /\ raw' \in {raw, [raw EXCEPT ![i] = None]}
  /\ sweep' = [sweep EXCEPT ![c].expired = @ \ {i}, ![c].marking = i]
  /\ UNCHANGED <<clock, imports, temp, preview, request, withdrawal>>

SweepDeleteExpired(c, i) ==
  /\ sweep[c].pc = "delete" /\ sweep[c].temps = {}
  /\ sweep[c].marking = None /\ i \in sweep[c].expired
  /\ \/ /\ raw' = [raw EXCEPT ![i] = None]
        /\ sweep' = [sweep EXCEPT ![c].expired = @ \ {i}, ![c].marking = i]
     \/ /\ sweep' = [sweep EXCEPT ![c].expired = @ \ {i}]
        /\ UNCHANGED raw
  /\ UNCHANGED <<clock, imports, temp, preview, request, withdrawal>>

\* updateMany where rawFileDeletedAt is null: a row marked meanwhile, or a
\* database error, is reported and left as it is.
SweepMark(c) ==
  LET i == sweep[c].marking IN
  /\ sweep[c].pc = "delete" /\ i # None
  /\ sweep' = [sweep EXCEPT ![c].marking = None]
  /\ imports' \in {imports, [imports EXCEPT ![i].rawDeleted = TRUE]}
  /\ UNCHANGED <<clock, raw, temp, preview, request, withdrawal>>

SweepDeleteOrphan(c, i) ==
  /\ sweep[c].pc = "delete" /\ sweep[c].temps = {}
  /\ sweep[c].expired = {} /\ sweep[c].marking = None /\ i \in sweep[c].raws
  /\ raw' \in {raw, [raw EXCEPT ![i] = None]}
  /\ sweep' = [sweep EXCEPT ![c].raws = @ \ {i}]
  /\ UNCHANGED <<clock, imports, temp, preview, request, withdrawal>>

SweepEnd(c) ==
  /\ sweep[c].pc = "delete"
  /\ sweep[c].temps = {} /\ sweep[c].expired = {} /\ sweep[c].marking = None /\ sweep[c].raws = {}
  /\ sweep' = [sweep EXCEPT ![c] = SweepIdle]
  /\ UNCHANGED <<clock, stored, preview, request, withdrawal>>

SweepDies(c) ==
  /\ sweep[c].pc # "idle"
  /\ sweep' = [sweep EXCEPT ![c] = SweepIdle]
  /\ UNCHANGED <<clock, stored, preview, request, withdrawal>>

-----------------------------------------------------------------------------
\* Nothing outlives MaxRun ticks: before the clock passes that, it ends or dies.
InTime(begun) == clock < begun + MaxRun

Tick ==
  /\ clock < MaxClock
  /\ \A p \in Previews : preview[p].pc \in {"readRaw", "store"} => InTime(preview[p].begun)
  /\ \A r \in Requests : request[r].pc \in Serving => InTime(request[r].begun)
  /\ \A w \in Withdrawals : withdrawal[w].pc = "update" => InTime(withdrawal[w].begun)
  /\ \A c \in Sweeps : sweep[c].pc # "idle" => InTime(sweep[c].begun)
  /\ clock' = clock + 1
  /\ UNCHANGED <<stored, actors>>

PreviewStep(p) ==
  \/ \E u \in Users, h \in Hashes : PreviewUpload(p, u, h)
  \/ \E u \in Users, i \in Requests : ReprocessRequest(p, u, i)
  \/ ReprocessReadRaw(p) \/ PreviewStore(p) \/ PreviewDies(p)

CommitStep(r) ==
  \/ \E u \in Users, k \in Keys, p \in Previews, s \in Scopes, t \in Requests \union {None} :
       CommitBegin(r, u, k, p, s, t)
  \/ CheckHash(r) \/ ReadPreview(r) \/ RecheckHash(r) \/ CheckTarget(r) \/ Upload(r)
  \/ CommitTransaction(r) \/ AbortTransaction(r) \/ LoseCommitAck(r)
  \/ DeleteRaw(r) \/ FindWinner(r) \/ DeletePreview(r) \/ CommitDies(r)

WithdrawStep(w) == (\E i \in Requests : WithdrawRead(w, i)) \/ WithdrawUpdate(w) \/ WithdrawDies(w)

SweepStep(c) ==
  \/ SweepStart(c) \/ SweepListObjects(c) \/ SweepListRows(c) \/ SweepPlan(c)
  \/ \E p \in Previews : SweepDeletePreview(c, p)
  \/ \E i \in Requests : SweepDeleteExpired(c, i) \/ SweepDeleteOrphan(c, i)
  \/ SweepMark(c) \/ SweepEnd(c) \/ SweepDies(c)

Next ==
  \/ Tick
  \/ \E p \in Previews : PreviewStep(p)
  \/ \E r \in Requests : CommitStep(r)
  \/ \E w \in Withdrawals : WithdrawStep(w)
  \/ \E c \in Sweeps : SweepStep(c)

Spec == Init /\ [][Next]_vars

-----------------------------------------------------------------------------
(* Types *)

PreviewStates == {"idle", "readRaw", "store", "ready", "refused"}
RequestStates == {"idle", "done", "dead"} \union Serving

PreviewType == [pc : PreviewStates, user : Users \union {None}, hash : Hashes \union {None},
                begun : Nat, reprocessOf : Requests \union {None}]
RequestType == [pc : RequestStates, key : Keys \union {None}, preview : Previews \union {None},
                scope : Scopes \union {None}, target : Requests \union {None}, begun : Nat,
                answer : Answers \union {"P2002", None}, import : Requests \union {None}]
WithdrawalType == [pc : {"idle", "update", "withdrawn", "replayed", "refused"},
                   import : Requests \union {None}, begun : Nat]
SweepType == [pc : {"idle", "list", "delete"}, begun : Nat, listed : SUBSET {"objects", "rows"},
              temps : SUBSET Previews, raws : SUBSET Requests, referenced : SUBSET Requests,
              expired : SUBSET Requests, marking : Requests \union {None}]

\* Every variable has its type.
TypeOK ==
  /\ clock \in Nat
  /\ imports \in [Requests -> Import \union {None}]
  /\ raw \in [Requests -> Time]
  /\ temp \in [Previews -> Time]
  /\ preview \in [Previews -> PreviewType]
  /\ request \in [Requests -> RequestType]
  /\ withdrawal \in [Withdrawals -> WithdrawalType]
  /\ sweep \in [Sweeps -> SweepType]

-----------------------------------------------------------------------------
(* Safety *)

\* No sweep and no rollback ever takes the raw file of an import whose
\* retention has not run out: such an import can be reprocessed. The rollback
\* does where the acknowledgement of the commit was lost, and only there.
RawFileKept ==
  \A i \in Requests :
    Accepted(i) /\ ~imports[i].rawDeleted /\ clock < imports[i].rawExpiresAt =>
      raw[i] # None \/ AckLost(i)

\* rawFileDeletedAt is never set while the object is still stored, whatever
\* deletion failed or sweep died ("never mark database metadata as deleted
\* after a storage failure", lib/server/asset-storage.ts).
MarkedFileIsGone ==
  \A i \in Requests : Accepted(i) /\ imports[i].rawDeleted => raw[i] = None

\* A commit admitted with a live token finds the temporary object, or else its
\* file is already imported: no sweep removes a preview under a running commit.
PreviewKept ==
  \A r \in Requests :
    request[r].pc = "readPreview" /\ temp[request[r].preview] = None =>
      \E i \in Requests : Holds(i, FileOf(r))

\* What the owner is told is so: a replay names the import of that very key and
\* file, and a refused request has left no import behind, unless the database
\* committed without the client hearing of it.
AnswersAreTrue ==
  \A r \in Requests : request[r].pc = "done" =>
    /\ request[r].answer \in {"COMMITTED", "REPLAYED"} =>
         /\ Holds(request[r].import, FileOf(r))
         /\ imports[request[r].import].key = request[r].key
    /\ request[r].answer \in Errors \union {"REPLAYED"} => ~Accepted(r) \/ AckLost(r)

\* Of all the withdrawals and replacements that race for one import, one wins:
\* the conditional updates decide again what the earlier reads decided.
OneFatePerImport ==
  \A i \in Requests :
    Cardinality({w \in Withdrawals : withdrawal[w].pc = "withdrawn" /\ withdrawal[w].import = i}
                \union {r \in Requests : Accepted(r) /\ request[r].target = i}) <= 1

\* The import rows follow the ledger: acceptance, replacement and withdrawal
\* look atomic, although every request reads long before it writes.
Ledger == INSTANCE ImportLedger WITH
  Imports <- Requests,
  ledger <- [i \in Requests |->
    IF imports[i] = None THEN None
    ELSE [hash |-> imports[i].hash, key |-> imports[i].key, scope |-> imports[i].scope,
          status |-> imports[i].status, replacedBy |-> imports[i].replacedBy]]

\* The value that stands for no row is not one.
ASSUME NoneIsNoRow == None \notin Ledger!Row

ImplementsLedger == Ledger!Spec

-----------------------------------------------------------------------------
(* Why the safety properties hold: the inductive invariant *)

\* A request that is being served has its input, and what is updated was read before.
InputInv ==
  /\ \A p \in Previews : preview[p].pc \in {"store", "ready"} => preview[p].hash \in Hashes
  /\ \A p \in Previews : preview[p].pc = "readRaw" =>
       preview[p].hash \in Hashes /\ preview[p].reprocessOf \in Requests
  /\ \A r \in Requests : request[r].pc # "idle" =>
       /\ request[r].key \in Keys /\ request[r].scope \in Scopes /\ request[r].preview \in Previews
       /\ preview[request[r].preview].pc = "ready"
  /\ \A r \in Requests :
       request[r].pc \in {"idle", "transaction"} \union BeforeUpload => ~Accepted(r)
  /\ \A w \in Withdrawals : withdrawal[w].pc # "idle" =>
       withdrawal[w].import \in Requests /\ Accepted(withdrawal[w].import)
  /\ \A c \in Sweeps, i \in Requests :
       i \in sweep[c].expired \/ i = sweep[c].marking => Accepted(i)

\* Time bounds of requests and sweeps, and how far each has got with its objects.
RequestInv ==
  \A r \in Requests :
    /\ request[r].begun <= clock
    /\ request[r].pc \in Serving => clock <= request[r].begun + MaxRun
    /\ request[r].pc \in {"idle"} \union BeforeUpload => raw[r] = None
    /\ request[r].pc = "transaction" => raw[r] # None
    /\ request[r].pc \in AfterFailure => ~Accepted(r) \/ AckLost(r)
    /\ request[r].answer = "TRANSACTION_FAILURE" => request[r].pc \in {"deleteRaw", "done", "dead"}
    /\ raw[r] # None => request[r].begun <= raw[r] /\ raw[r] <= clock

\* An object a sweep has listed is old by the sweep's own clock, and its request is over.
ListedInv ==
  \A c \in Sweeps :
    /\ sweep[c].begun <= clock
    /\ sweep[c].pc = "idle" => sweep[c] = SweepIdle
    /\ \A i \in sweep[c].raws :
         /\ request[i].pc \in {"done", "dead"}
         /\ raw[i] # None => raw[i] + OrphanRetention <= sweep[c].begun

\* What a sweep may still delete: no object of an import that was accepted after
\* the rows were listed, and no raw file before it expires.
DeletableInv ==
  \A c \in Sweeps :
    /\ sweep[c].pc = "list" /\ "rows" \in sweep[c].listed =>
         \A i \in Requests : Accepted(i) /\ i \notin sweep[c].referenced /\ raw[i] # None =>
           sweep[c].begun < raw[i] + OrphanRetention
    /\ sweep[c].pc = "delete" => \A i \in sweep[c].raws : Accepted(i) => raw[i] = None
    /\ \A i \in sweep[c].expired : imports[i].rawExpiresAt <= sweep[c].begun
    /\ sweep[c].marking # None =>
         /\ raw[sweep[c].marking] = None
         /\ imports[sweep[c].marking].rawExpiresAt <= sweep[c].begun

RetentionInv ==
  TypeOK /\ InputInv /\ RequestInv /\ ListedInv /\ DeletableInv /\ RawFileKept /\ MarkedFileIsGone

-----------------------------------------------------------------------------
(* Liveness: the cron route starts a sweep every day, so a sweep always goes on. *)

FairSpec == Spec /\ \A c \in Sweeps : WF_vars(SweepStep(c))

\* A sweep that dies before its end, or an object or row it could not delete or mark.
SweepFails ==
  \/ \E c \in Sweeps : SweepDies(c) /\ ~SweepEnd(c)
  \/ \E c \in Sweeps, p \in Previews : SweepDeletePreview(c, p) /\ temp'[p] # None
  \/ \E c \in Sweeps, i \in Requests : SweepDeleteExpired(c, i) /\ sweep'[c].marking = None
  \/ \E c \in Sweeps, i \in Requests : SweepDeleteOrphan(c, i) /\ raw'[i] # None
  \/ \E c \in Sweeps : SweepMark(c) /\ ~imports'[sweep[c].marking].rawDeleted

StorageRecovers == <>[][~SweepFails]_vars

OldOrphan(i) ==
  /\ raw[i] # None /\ clock >= raw[i] + OrphanRetention
  /\ ~Accepted(i) /\ request[i].pc \notin Serving

\* Whatever a dead or failed commit leaves in private storage is reclaimed once
\* the orphan threshold has passed, and so are the previews nobody committed.
OrphansReclaimed ==
  StorageRecovers =>
    /\ \A i \in Requests : OldOrphan(i) ~> raw[i] = None
    /\ \A p \in Previews :
         (temp[p] # None /\ clock >= temp[p] + PreviewRetention) ~> temp[p] = None

\* An expired raw file ends up deleted and marked so, even when a sweep dies
\* between the two: the next one finds it absent and marks it.
ExpiredFilesMarked ==
  StorageRecovers =>
    \A i \in Requests :
      (Accepted(i) /\ clock >= imports[i].rawExpiresAt) ~> (Accepted(i) /\ imports[i].rawDeleted)
=============================================================================
