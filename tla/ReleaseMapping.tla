--------------------------- MODULE ReleaseMapping ---------------------------
(***************************************************************************)
(* Mapping the song rows of imports to releases of the catalogue           *)
(* (lib/analytics/release-mapping-service.ts): confirm, remap, leave       *)
(* unmatched, revoke an alias. Each request is one read-committed          *)
(* transaction of several statements: it reads what others have committed, *)
(* its own writes are invisible to others until it commits, and a write    *)
(* waits for another open transaction that wrote the same row or the same  *)
(* unique key. Row locks and unique keys are PostgreSQL's.                 *)
(*                                                                         *)
(* One artist, and only imports whose rows may be mapped: songs of a       *)
(* confirmed period, imported, not withdrawn, not replaced. Audit rows,    *)
(* actors and reasons are left out.                                        *)
(***************************************************************************)
EXTENDS Integers, FiniteSets

CONSTANTS
  Imports,
  Rows,
  Scopes,     \* normalized titles with release dates: what an alias is good for
  Releases,
  Changes,    \* requests; an alias a request creates carries its name
  None

\* Aliases that were there before are named by their scope.
Aliases == Changes \union Scopes

VARIABLES
  row,       \* AnalyticsImportRow
  alias,     \* ReleaseImportAlias, or None
  snapshot,  \* SongPeriodSnapshot of a row: the release it was taken for, or None
  summary,   \* acceptedRowCount and unmatchedRowCount of the imports
  change

vars == <<row, alias, snapshot, summary, change>>
tables == <<row, alias, snapshot, summary>>

\* The parser rejects a second row of one title, but titles that differ, say, in
\* case only have one scope: rows of one import may share it.
Row ==
  [import : Imports, scope : Scopes, status : {"CONFIRMED"}, release : Releases,
   alias : Aliases \union {None}, version : Nat]
  \union
  [import : Imports, scope : Scopes, status : {"UNMATCHED"}, release : {None},
   alias : {None}, version : Nat]
Alias == [scope : Scopes, release : Releases, status : {"ACTIVE", "SUPERSEDED", "REVOKED"},
          supersededBy : Aliases \union {None}]
Counts == [confirmed : Nat, unmatched : Nat]

ASSUME MappingConstants ==
  /\ IsFiniteSet(Rows)
  /\ Changes \intersect Scopes = {}
  /\ None \notin Releases \union Aliases \union Rows \union Row \union Alias \union Counts

ImportOf(r) == row[r].import
Neighbours(r) == {q \in Rows : q # r /\ ImportOf(q) = ImportOf(r)}

CountOf(rows, m) ==
  LET count(status) == Cardinality({r \in Rows : rows[r].import = m /\ rows[r].status = status})
  IN [confirmed |-> count("CONFIRMED"), unmatched |-> count("UNMATCHED")]

NewAlias(s, rel) == [scope |-> s, release |-> rel, status |-> "ACTIVE", supersededBy |-> None]

Idle == [pc |-> "idle", kind |-> "none", row |-> None, to |-> None, wantsAlias |-> FALSE,
         version |-> 0, hasSnapshot |-> FALSE, old |-> None, alias |-> None, wrote |-> {},
         count |-> None]

\* What commits of imports and earlier decisions leave behind: a confirmed row
\* has its snapshot, an unmatched one may have kept the snapshot it once got.
LeftBehind(import, scope, active) ==
  /\ snapshot \in [Rows -> Releases \union {None}]
  /\ \A q, r \in Rows :
       q # r /\ import[q] = import[r] /\ snapshot[q] # None => snapshot[q] # snapshot[r]
  /\ alias = [a \in Aliases |-> IF a \in Scopes /\ active[a] # None
                               THEN NewAlias(a, active[a]) ELSE None]
  /\ \E confirmed \in SUBSET {r \in Rows : snapshot[r] # None} :
     \E byAlias \in SUBSET {r \in confirmed : active[scope[r]] = snapshot[r]} :
       row = [r \in Rows |->
         [import |-> import[r], scope |-> scope[r],
          status |-> IF r \in confirmed THEN "CONFIRMED" ELSE "UNMATCHED",
          release |-> IF r \in confirmed THEN snapshot[r] ELSE None,
          alias |-> IF r \in byAlias THEN scope[r] ELSE None,
          version |-> 1]]

Init ==
  /\ \E import \in [Rows -> Imports], scope \in [Rows -> Scopes],
        active \in [Scopes -> Releases \union {None}] : LeftBehind(import, scope, active)
  /\ summary = [m \in Imports |-> CountOf(row, m)]
  /\ change = [c \in Changes |-> Idle]

-----------------------------------------------------------------------------
(* Transactions *)

Wrote(c, what) == what \in change[c].wrote
Goto(c, to) == change' = [change EXCEPT ![c].pc = to]

\* A refusal, a unique key that is taken, a deadlock, a lost connection, a
\* timeout: the transaction is rolled back and leaves nothing, so that whoever
\* sent it may send the same or another request.
Refuse(c) == change' = [change EXCEPT ![c] = Idle]

Others(c) == Changes \ {c}

\* The active alias of a scope, as transaction c sees it: its own revocation counts.
ActiveAliases(c, s) ==
  {a \in Aliases :
     /\ alias[a] # None /\ alias[a].scope = s /\ alias[a].status = "ACTIVE"
     /\ ~(Wrote(c, "revoke") /\ a = change[c].old)}

-----------------------------------------------------------------------------
(* The requests *)

\* requireRow reads the row and then, in queries of their own, what it refers to.
ConfirmRead(c, r, rel, wantsAlias) ==
  /\ change[c].pc = "idle"
  /\ row[r].status # "CONFIRMED"
  /\ change' = [change EXCEPT ![c] = [Idle EXCEPT
       !.pc = "readRelations", !.kind = "confirm", !.row = r, !.to = rel,
       !.wantsAlias = wantsAlias]]
  /\ UNCHANGED tables

RemapRead(c, r, rel, wantsAlias) ==
  /\ change[c].pc = "idle"
  /\ row[r].status = "CONFIRMED" /\ row[r].release # rel
  /\ change' = [change EXCEPT ![c] = [Idle EXCEPT
       !.pc = "readRelations", !.kind = "remap", !.row = r, !.to = rel,
       !.wantsAlias = wantsAlias, !.version = row[r].version, !.old = row[r].alias]]
  /\ UNCHANGED tables

\* Mutant: requireRow does not include the applied alias.
ReadRelationsNoAlias(c) ==
  LET t == change[c] IN
  /\ t.pc = "readRelations"
  /\ change' = [change EXCEPT
       ![c].pc = "findDuplicate",
       ![c].hasSnapshot = t.kind = "confirm" /\ snapshot[t.row] # None,
       ![c].old = None]
  /\ UNCHANGED tables

\* Of the row's alias only an active one matters further on.
ReadRelations(c) ==
  LET t == change[c] IN
  /\ t.pc = "readRelations"
  /\ change' = [change EXCEPT
       ![c].pc = "findDuplicate",
       ![c].hasSnapshot = t.kind = "confirm" /\ snapshot[t.row] # None,
       ![c].old = IF t.old # None /\ alias[t.old].status = "ACTIVE" THEN t.old ELSE None]
  /\ UNCHANGED tables

FindDuplicate(c) ==
  LET t == change[c] IN
  /\ t.pc = "findDuplicate"
  /\ IF \E q \in Neighbours(t.row) : row[q].status = "CONFIRMED" /\ row[q].release = t.to
     THEN Refuse(c)
     ELSE Goto(c, IF t.old # None THEN "revokeAlias"
                  ELSE IF t.wantsAlias THEN "findAlias"
                  ELSE IF t.kind = "confirm" THEN "findSnapshot" ELSE "writeRow")
  /\ UNCHANGED tables

\* leaveMappingUnmatched; a row in any state may be left unmatched.
UnmatchRead(c, r) ==
  /\ change[c].pc = "idle"
  /\ change' = [change EXCEPT ![c] = [Idle EXCEPT !.pc = "writeRow", !.kind = "unmatch", !.row = r]]
  /\ UNCHANGED tables

\* revokeReleaseAlias
RevokeRead(c, a) ==
  /\ change[c].pc = "idle"
  /\ alias[a] # None /\ alias[a].status = "ACTIVE"
  /\ change' = [change EXCEPT ![c] = [Idle EXCEPT !.pc = "revokeAlias", !.kind = "revoke", !.old = a]]
  /\ UNCHANGED tables

\* The update names the alias by id only, whatever became of it since the read.
RevokeAlias(c) ==
  LET t == change[c] IN
  /\ t.pc = "revokeAlias"
  /\ \A d \in Others(c) : ~(Wrote(d, "revoke") /\ change[d].old = t.old)
  /\ change' = [change EXCEPT
       ![c].wrote = @ \union {"revoke"},
       ![c].pc = IF t.kind = "revoke" THEN "commit"
                 ELSE IF t.wantsAlias THEN "findAlias" ELSE "writeRow"]
  /\ UNCHANGED tables

AfterAlias(c) == IF change[c].kind = "confirm" THEN "findSnapshot" ELSE "writeRow"

\* Mutant: the alias found is used whatever release it points to.
FindAliasAnyRelease(c) ==
  LET t == change[c]  active == ActiveAliases(c, row[t.row].scope) IN
  /\ t.pc = "findAlias"
  /\ \/ active = {} /\ Goto(c, "createAlias")
     \/ \E a \in active : change' = [change EXCEPT ![c].pc = AfterAlias(c), ![c].alias = a]
  /\ UNCHANGED tables

\* createOrReuseAlias
FindAlias(c) ==
  LET t == change[c]  active == ActiveAliases(c, row[t.row].scope) IN
  /\ t.pc = "findAlias"
  /\ \/ active = {} /\ Goto(c, "createAlias")
     \/ \E a \in active :
          IF alias[a].release # t.to THEN Refuse(c)
          ELSE change' = [change EXCEPT ![c].pc = AfterAlias(c), ![c].alias = a]
  /\ UNCHANGED tables

\* Mutant: activeScopeKey is no unique column.
CreateAliasAlways(c) ==
  /\ change[c].pc = "createAlias"
  /\ change' = [change EXCEPT ![c].pc = AfterAlias(c), ![c].alias = c, ![c].wrote = @ \union {"alias"}]
  /\ UNCHANGED tables

\* The insertion waits for whoever is creating or revoking an alias of the scope.
CreateAlias(c) ==
  LET s == row[change[c].row].scope IN
  /\ change[c].pc = "createAlias"
  /\ \A d \in Others(c) :
       /\ ~(Wrote(d, "alias") /\ row[change[d].row].scope = s)
       /\ ~(Wrote(d, "revoke") /\ change[d].old \in ActiveAliases(c, s))
  /\ IF ActiveAliases(c, s) # {} THEN Refuse(c)
     ELSE change' = [change EXCEPT
            ![c].pc = AfterAlias(c), ![c].alias = c, ![c].wrote = @ \union {"alias"}]
  /\ UNCHANGED tables

SnapshotTaken(t) == \E q \in Rows : ImportOf(q) = ImportOf(t.row) /\ snapshot[q] = t.to

\* Mutant: another row's snapshot of the release is taken for this row's.
FindSnapshotOfRelease(c) ==
  LET t == change[c] IN
  /\ t.pc = "findSnapshot"
  /\ Goto(c, IF t.hasSnapshot \/ SnapshotTaken(t)
             THEN "writeRow" ELSE "createSnapshot")
  /\ UNCHANGED tables

\* createSnapshotIfMissing: a row keeps the snapshot it once got.
FindSnapshot(c) ==
  LET t == change[c] IN
  /\ t.pc = "findSnapshot"
  /\ \/ t.hasSnapshot /\ Goto(c, "writeRow")
     \/ ~t.hasSnapshot /\ IF SnapshotTaken(t)
                          THEN Refuse(c) ELSE Goto(c, "createSnapshot")
  /\ UNCHANGED tables

\* Unique columns: the row, and the release within the import and its period.
CreateSnapshot(c) ==
  LET t == change[c] IN
  /\ t.pc = "createSnapshot"
  /\ \A d \in Others(c) : ~(/\ Wrote(d, "snapshot")
                            /\ \/ change[d].row = t.row
                               \/ ImportOf(change[d].row) = ImportOf(t.row) /\ change[d].to = t.to)
  /\ IF snapshot[t.row] # None \/ SnapshotTaken(t)
     THEN Refuse(c)
     ELSE change' = [change EXCEPT ![c].pc = "writeRow", ![c].wrote = @ \union {"snapshot"}]
  /\ UNCHANGED tables

\* d gives or takes the row, or a key "import, release" that the new release needs.
Touches(d, r, rel) ==
  /\ Wrote(d, "row")
  /\ \/ change[d].row = r
     \/ /\ change[d].row \in Neighbours(r)
        /\ rel # None /\ rel \in {change[d].to, row[change[d].row].release}

\* Mutants: the remap does not look at the version; confirmedScopeKey is no unique column.
WinsAnyVersion(c) ==
  LET t == change[c] IN
  t.to # None => \A q \in Neighbours(t.row) : row[q].release # t.to

WinsAnyScope(c) ==
  LET t == change[c] IN t.kind = "remap" => row[t.row].version = t.version

Wins(c) ==
  LET t == change[c] IN
  /\ t.kind = "remap" => row[t.row].version = t.version
  /\ t.to # None => \A q \in Neighbours(t.row) : row[q].release # t.to

\* Only a remap's update depends on the version its transaction read.
WriteRow(c) ==
  LET t == change[c] IN
  /\ t.pc = "writeRow"
  /\ \A d \in Others(c) : ~Touches(d, t.row, t.to)
  /\ IF Wins(c)
     THEN change' = [change EXCEPT ![c].pc = "count", ![c].wrote = @ \union {"row"}]
     ELSE Refuse(c)
  /\ UNCHANGED tables

NewRow(c) ==
  LET t == change[c] IN
  IF t.kind = "unmatch"
  THEN [row[t.row] EXCEPT !.status = "UNMATCHED", !.release = None, !.alias = None,
                          !.version = @ + 1]
  ELSE [row[t.row] EXCEPT !.status = "CONFIRMED", !.release = t.to, !.alias = t.alias,
                          !.version = @ + 1]

\* refreshImportMappingSummary counts the rows it sees: its own and committed ones.
CountRows(c) ==
  LET t == change[c] IN
  /\ t.pc = "count"
  /\ change' = [change EXCEPT ![c].pc = "commit",
       ![c].count = CountOf([row EXCEPT ![t.row] = NewRow(c)], ImportOf(t.row))]
  /\ UNCHANGED tables

\* Mutant: the superseded alias is not told what superseded it.
RevokedUnnamed(c, a) ==
  LET t == change[c] IN
  [alias[a] EXCEPT !.status = IF t.kind = "remap" /\ t.wantsAlias THEN "SUPERSEDED" ELSE "REVOKED"]

Revoked(c, a) ==
  LET t == change[c] IN
  IF t.kind = "remap" /\ t.wantsAlias
  THEN [alias[a] EXCEPT !.status = "SUPERSEDED", !.supersededBy = t.alias]
  ELSE [alias[a] EXCEPT !.status = "REVOKED"]

Commit(c) ==
  LET t == change[c] IN
  /\ t.pc = "commit"
  /\ row' = IF Wrote(c, "row") THEN [row EXCEPT ![t.row] = NewRow(c)] ELSE row
  /\ summary' = IF Wrote(c, "row") THEN [summary EXCEPT ![ImportOf(t.row)] = t.count] ELSE summary
  /\ snapshot' = IF Wrote(c, "snapshot") THEN [snapshot EXCEPT ![t.row] = t.to] ELSE snapshot
  /\ alias' = [a \in Aliases |->
       IF Wrote(c, "alias") /\ a = c THEN NewAlias(row[t.row].scope, t.to)
       ELSE IF Wrote(c, "revoke") /\ a = t.old THEN Revoked(c, a)
       ELSE alias[a]]
  /\ change' = [change EXCEPT ![c] = [Idle EXCEPT !.pc = "committed"]]

Abort(c) ==
  /\ change[c].pc \notin {"idle", "committed"}
  /\ Refuse(c)
  /\ UNCHANGED tables

-----------------------------------------------------------------------------
Step(c) ==
  \/ \E r \in Rows, rel \in Releases, wantsAlias \in BOOLEAN :
       ConfirmRead(c, r, rel, wantsAlias) \/ RemapRead(c, r, rel, wantsAlias)
  \/ \E r \in Rows : UnmatchRead(c, r)
  \/ \E a \in Aliases : RevokeRead(c, a)
  \/ ReadRelations(c) \/ FindDuplicate(c) \/ RevokeAlias(c) \/ FindAlias(c) \/ CreateAlias(c)
  \/ FindSnapshot(c) \/ CreateSnapshot(c) \/ WriteRow(c) \/ CountRows(c) \/ Commit(c) \/ Abort(c)

Next == \E c \in Changes : Step(c)

Spec == Init /\ [][Next]_vars

-----------------------------------------------------------------------------
ChangeType ==
  [pc : {"idle", "readRelations", "findDuplicate", "revokeAlias", "findAlias", "createAlias",
         "findSnapshot", "createSnapshot", "writeRow", "count", "commit", "committed"},
   kind : {"confirm", "remap", "unmatch", "revoke", "none"},
   row : Rows \union {None}, to : Releases \union {None}, wantsAlias : BOOLEAN, version : Nat,
   hasSnapshot : BOOLEAN, old : Aliases \union {None}, alias : Aliases \union {None},
   wrote : SUBSET {"revoke", "alias", "snapshot", "row"}, count : Counts \union {None}]

\* Every variable has its type.
TypeOK ==
  /\ row \in [Rows -> Row]
  /\ alias \in [Aliases -> Alias \union {None}]
  /\ snapshot \in [Rows -> Releases \union {None}]
  /\ summary \in [Imports -> Counts]
  /\ change \in [Changes -> ChangeType]

\* Two rows of one import are never confirmed for one release, whatever their
\* transactions saw of each other ("Another row in this import is already
\* mapped to that release.").
OneRowPerRelease ==
  \A q, r \in Rows :
    /\ q # r /\ ImportOf(q) = ImportOf(r)
    /\ row[q].status = "CONFIRMED" /\ row[r].status = "CONFIRMED"
    => row[q].release # row[r].release

\* A scope resolves to one release: it has one active alias.
OneAliasPerScope ==
  \A a, b \in Aliases :
    /\ alias[a] # None /\ alias[b] # None
    /\ alias[a].status = "ACTIVE" /\ alias[b].status = "ACTIVE"
    /\ alias[a].scope = alias[b].scope
    => a = b

\* A row never names an alias of another song or another release, even one
\* that was revoked or superseded since.
AppliedAliasAgrees ==
  \A r \in Rows : row[r].alias # None =>
    /\ alias[row[r].alias] # None
    /\ alias[row[r].alias].scope = row[r].scope
    /\ alias[row[r].alias].release = row[r].release

\* The dataset shows a confirmed row by its snapshot: it has one, and no two
\* rows of an import have snapshots of one release.
ConfirmedRowsHaveFigures ==
  /\ \A r \in Rows : row[r].status = "CONFIRMED" => snapshot[r] # None
  /\ \A q, r \in Rows :
       q # r /\ ImportOf(q) = ImportOf(r) /\ snapshot[q] # None => snapshot[q] # snapshot[r]

\* "the imported snapshot remains immutable" (remapMapping): once taken, it
\* stays what it is, through remaps, unmatching and concurrent confirmations.
SnapshotsStay == [][\A r \in Rows : snapshot[r] # None => snapshot'[r] = snapshot[r]]_vars

\* A remap never overwrites a decision that was made after it read the row.
RemapKnowsWhatItReplaces ==
  [][\A c \in Changes :
       change[c].kind = "remap" /\ change'[c].pc = "committed" =>
         row[change[c].row].version = change[c].version]_vars

\* A superseded alias names its successor: an alias of the same song for
\* another release; and whatever names a successor is active no more.
SupersededByAgrees ==
  \A a \in Aliases : alias[a] # None =>
    /\ alias[a].status = "SUPERSEDED" => alias[a].supersededBy # None
    /\ alias[a].supersededBy # None =>
         LET b == alias[alias[a].supersededBy] IN
         /\ alias[a].status # "ACTIVE"
         /\ b # None /\ b.scope = alias[a].scope /\ b.release # alias[a].release

-----------------------------------------------------------------------------
\* What has been decided about each row, and what each request asks for.
Decided == [r \in Rows |-> [import |-> row[r].import, scope |-> row[r].scope,
                           release |-> row[r].release, alias |-> row[r].alias]]
AskOf(t) ==
  [kind |-> IF t.pc = "committed" THEN "answered" ELSE t.kind,
   row |-> t.row, to |-> t.to, wantsAlias |-> t.wantsAlias,
   target |-> IF t.kind = "revoke" THEN t.old ELSE None]
Asked == [c \in Changes |-> AskOf(change[c])]

Decisions == INSTANCE ReleaseDecisions WITH row <- Decided, asked <- Asked

\* Each request that commits is one decision on the tables as they are then,
\* whatever its statements had seen and however others were interleaved with
\* them; one that is refused or fails decides nothing.
ImplementsDecisions == Decisions!Spec
=============================================================================
