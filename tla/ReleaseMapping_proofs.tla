----------------------- MODULE ReleaseMapping_proofs -----------------------
(***************************************************************************)
(* Proofs about ReleaseMapping, for any numbers of imports, rows, scopes,  *)
(* releases and requests. Base carries the types; what is unique rests on  *)
(* three further invariants, one per unique column, that say what an open  *)
(* transaction that wrote such a column excludes.                          *)
(***************************************************************************)
EXTENDS ReleaseMapping, FiniteSetTheorems, TLAPS

(* What a request knows at each of its steps. *)
InputOk(c, x) ==
  /\ x.pc \in {"idle", "committed", "readRelations", "findDuplicate"} =>
       x.wrote = {} /\ x.alias = None
  /\ x.kind \in {"confirm", "remap"} => x.row \in Rows /\ x.to \in Releases
  /\ x.kind = "unmatch" => x.row \in Rows /\ x.to = None
  /\ x.pc \in {"readRelations", "findDuplicate", "findAlias", "createAlias",
               "findSnapshot", "createSnapshot"} => x.kind \in {"confirm", "remap"}
  /\ x.pc \in {"writeRow", "count"} => x.kind \in {"confirm", "remap", "unmatch"}
  /\ x.pc = "revokeAlias" => x.old # None /\ x.kind \in {"remap", "revoke"}
  /\ x.pc \in {"revokeAlias", "findAlias", "createAlias"} => "alias" \notin x.wrote
  /\ "row" \in x.wrote => /\ x.pc \in {"count", "commit"}
                          /\ x.kind \in {"confirm", "remap", "unmatch"}
                          /\ x.pc = "commit" => x.count \in Counts
  /\ x.pc = "count" \/ (x.pc = "commit" /\ x.kind # "revoke") => "row" \in x.wrote
  /\ x.pc = "committed" => x.kind = "none"
  /\ x.kind = "confirm" => x.old = None
  /\ "snapshot" \in x.wrote => x.kind \in {"confirm", "remap"}
  /\ "alias" \in x.wrote => x.kind \in {"confirm", "remap"} /\ x.alias = c
  /\ "revoke" \in x.wrote => x.old # None

(* The aliases it names exist, and the one it will apply fits. *)
AliasOk(c, x) ==
  /\ x.old # None => alias[x.old] # None
  /\ x.alias # None =>
       /\ x.kind \in {"confirm", "remap"}
       /\ \/ x.alias = c /\ "alias" \in x.wrote
          \/ /\ alias[x.alias] # None
             /\ alias[x.alias].scope = row[x.row].scope
             /\ alias[x.alias].release = x.to

(* A row it means to confirm has a snapshot, or it takes one first. *)
FiguresOk(x) ==
  /\ x.kind = "remap" => snapshot[x.row] # None
  /\ x.kind = "confirm" /\ x.hasSnapshot => snapshot[x.row] # None
  /\ x.kind = "confirm" /\ x.pc \in {"writeRow", "count", "commit"} =>
       snapshot[x.row] # None \/ "snapshot" \in x.wrote

Base ==
  /\ TypeOK
  /\ \A r \in Rows : row[r].status = "CONFIRMED" => snapshot[r] # None
  /\ AppliedAliasAgrees
  /\ \A c \in Changes : change[c].pc # "committed" => alias[c] = None
  /\ \A c \in Changes : InputOk(c, change[c]) /\ AliasOk(c, change[c]) /\ FiguresOk(change[c])

(* An open transaction that wrote its row holds the key "import, release": no
   other row has it and no other open transaction gives it. *)
RowKeys ==
  /\ \A q, r \in Rows :
       q # r /\ ImportOf(q) = ImportOf(r) /\ row[q].release # None =>
         row[q].release # row[r].release
  /\ \A c \in Changes : "row" \in change[c].wrote =>
       /\ change[c].to # None =>
            \A q \in Neighbours(change[c].row) : row[q].release # change[c].to
       /\ change[c].kind = "remap" => row[change[c].row].version = change[c].version
  /\ \A c, d \in Changes :
       c # d /\ "row" \in change[c].wrote /\ "row" \in change[d].wrote =>
         /\ change[c].row # change[d].row
         /\ ImportOf(change[c].row) = ImportOf(change[d].row) /\ change[c].to # None =>
              change[c].to # change[d].to

(* One that created an alias holds its scope. *)
AliasKeys ==
  /\ OneAliasPerScope
  /\ \A c \in Changes : "alias" \in change[c].wrote =>
       ActiveAliases(c, row[change[c].row].scope) = {}
  /\ \A c, d \in Changes :
       c # d /\ "alias" \in change[c].wrote /\ "alias" \in change[d].wrote =>
         row[change[c].row].scope # row[change[d].row].scope

(* One that took a snapshot holds its row and its release within the import. *)
SnapshotKeys ==
  /\ \A q, r \in Rows :
       q # r /\ ImportOf(q) = ImportOf(r) /\ snapshot[q] # None => snapshot[q] # snapshot[r]
  /\ \A c \in Changes : "snapshot" \in change[c].wrote =>
       /\ snapshot[change[c].row] = None
       /\ \A q \in Rows : ImportOf(q) = ImportOf(change[c].row) => snapshot[q] # change[c].to
  /\ \A c, d \in Changes :
       c # d /\ "snapshot" \in change[c].wrote /\ "snapshot" \in change[d].wrote =>
         /\ change[c].row # change[d].row
         /\ ImportOf(change[c].row) = ImportOf(change[d].row) => change[c].to # change[d].to

(* A step of c that leaves the tables alone and turns its record into x. *)
Turns(c, x) == UNCHANGED tables /\ change' = [change EXCEPT ![c] = x]

LEMMA TurnKeepsBase ==
  ASSUME Base, NEW c \in Changes, NEW x \in ChangeType,
         InputOk(c, x), AliasOk(c, x), FiguresOk(x), change[c].pc # "committed",
         Turns(c, x)
  PROVE  Base'
<1>1. /\ row' = row /\ alias' = alias /\ snapshot' = snapshot /\ summary' = summary
      /\ change \in [Changes -> ChangeType]
      /\ change' = [change EXCEPT ![c] = x]
  BY DEF Turns, tables, Base, TypeOK
<1>2. /\ change'[c] = x
      /\ \A d \in Changes : d # c => change'[d] = change[d]
  BY <1>1
<1>3. TypeOK'
  BY <1>1 DEF Base, TypeOK
<1>4. AppliedAliasAgrees'
  BY <1>1 DEF Base, AppliedAliasAgrees
<1>5. ASSUME NEW d \in Changes, change'[d].pc # "committed" PROVE alias'[d] = None
  BY <1>1, <1>2, <1>5 DEF Base
<1>6. ASSUME NEW d \in Changes PROVE InputOk(d, change'[d])
  BY <1>2 DEF Base
<1>7. ASSUME NEW d \in Changes PROVE AliasOk(d, change[d])' 
  <2>1. AliasOk(d, change'[d])
    BY <1>2 DEF Base
  <2>2. QED BY <2>1, <1>1 DEF AliasOk
<1>8. ASSUME NEW d \in Changes PROVE FiguresOk(change[d])'
  <2>1. FiguresOk(change'[d])
    BY <1>2 DEF Base
  <2>2. QED BY <2>1, <1>1 DEF FiguresOk
<1>9. \A r \in Rows : row'[r].status = "CONFIRMED" => snapshot'[r] # None
  BY <1>1 DEF Base
<1>10. QED BY <1>3, <1>4, <1>5, <1>6, <1>7, <1>8, <1>9 DEF Base, InputOk

-----------------------------------------------------------------------------
(* Steps that are no commit *)

(* x has written what c had written, and for the same purpose; or nothing, and
   is not over. *)
SameTask(c, x) ==
  /\ x.row = change[c].row /\ x.to = change[c].to /\ x.kind = change[c].kind
  /\ x.old = change[c].old /\ x.version = change[c].version
Keeps(c, x) ==
  \/ x.wrote = {} /\ x.pc # "committed"
  \/ x.wrote = change[c].wrote /\ SameTask(c, x)
Allowed(c, x) ==
  /\ InputOk(c, x) /\ AliasOk(c, x) /\ FiguresOk(x)
  /\ Turns(c, x) /\ change[c].pc # "committed"
Quiet(c) == \E x \in ChangeType : Allowed(c, x) /\ Keeps(c, x)
Writes(c, what) ==
  \E x \in ChangeType :
    Allowed(c, x) /\ SameTask(c, x) /\ x.wrote = change[c].wrote \union {what}

LEMMA NoneIsNew ==
  /\ None \notin Releases /\ None \notin Aliases /\ None \notin Rows /\ None \notin Row
  /\ None \notin Alias /\ None \notin Counts
  BY MappingConstants

LEMMA IdleType == Idle \in ChangeType
  BY DEF Idle, ChangeType

LEMMA RefusalQuiet ==
  ASSUME Base, NEW c \in Changes, change[c].pc # "committed", UNCHANGED tables, Refuse(c)
  PROVE  Quiet(c)
<1>1. InputOk(c, Idle) /\ AliasOk(c, Idle) /\ FiguresOk(Idle) /\ Keeps(c, Idle)
  BY NoneIsNew DEF InputOk, AliasOk, FiguresOk, Keeps, Idle
<1>2. Turns(c, Idle)
  BY DEF Turns, Refuse
<1>3. QED BY <1>1, <1>2, IdleType DEF Quiet, Allowed

LEMMA ReadsQuiet ==
  ASSUME Base, NEW c \in Changes, NEW r \in Rows, NEW rel \in Releases, NEW a \in BOOLEAN,
         ConfirmRead(c, r, rel, a) \/ RemapRead(c, r, rel, a)
  PROVE  Quiet(c)
<1>1. CASE ConfirmRead(c, r, rel, a)
  <2> DEFINE x == [Idle EXCEPT !.pc = "readRelations", !.kind = "confirm", !.row = r, !.to = rel,
                               !.wantsAlias = a]
  <2>1. x \in ChangeType
    BY DEF Idle, ChangeType
  <2>2. InputOk(c, x) /\ AliasOk(c, x) /\ FiguresOk(x) /\ Keeps(c, x)
    BY NoneIsNew DEF InputOk, AliasOk, FiguresOk, Keeps, Idle
  <2>3. Turns(c, x) /\ change[c].pc # "committed"
    BY <1>1 DEF ConfirmRead, Turns
  <2>4. QED BY <2>1, <2>2, <2>3 DEF Quiet, Allowed
<1>2. CASE RemapRead(c, r, rel, a)
  <2> DEFINE x == [Idle EXCEPT !.pc = "readRelations", !.kind = "remap", !.row = r, !.to = rel,
                               !.wantsAlias = a, !.version = row[r].version, !.old = row[r].alias]
  <2>0. row[r].version \in Nat /\ row[r].alias \in Aliases \union {None}
    BY DEF Base, TypeOK, Row
  <2>1. x \in ChangeType
    BY <2>0 DEF Idle, ChangeType
  <2>2. InputOk(c, x) /\ Keeps(c, x)
    BY DEF InputOk, Keeps, Idle
  <2>3. AliasOk(c, x) /\ FiguresOk(x)
    BY <1>2 DEF AliasOk, FiguresOk, Idle, Base, AppliedAliasAgrees, RemapRead
  <2>4. Turns(c, x) /\ change[c].pc # "committed"
    BY <1>2 DEF RemapRead, Turns
  <2>5. QED BY <2>1, <2>2, <2>3, <2>4 DEF Quiet, Allowed
<1>3. QED BY <1>1, <1>2

LEMMA UnmatchReadQuiet ==
  ASSUME Base, NEW c \in Changes, NEW r \in Rows, UnmatchRead(c, r)
  PROVE  Quiet(c)
<1> DEFINE x == [Idle EXCEPT !.pc = "writeRow", !.kind = "unmatch", !.row = r]
<1>1. x \in ChangeType
  BY DEF Idle, ChangeType
<1>2. InputOk(c, x) /\ AliasOk(c, x) /\ FiguresOk(x) /\ Keeps(c, x)
  BY NoneIsNew DEF InputOk, AliasOk, FiguresOk, Keeps, Idle
<1>3. Turns(c, x) /\ change[c].pc # "committed"
  BY DEF UnmatchRead, Turns
<1>4. QED BY <1>1, <1>2, <1>3 DEF Quiet, Allowed

LEMMA RevokeReadQuiet ==
  ASSUME Base, NEW c \in Changes, NEW a \in Aliases, RevokeRead(c, a)
  PROVE  Quiet(c)
<1> DEFINE x == [Idle EXCEPT !.pc = "revokeAlias", !.kind = "revoke", !.old = a]
<1>1. x \in ChangeType
  BY DEF Idle, ChangeType
<1>2. InputOk(c, x) /\ Keeps(c, x)
  BY NoneIsNew DEF InputOk, Keeps, Idle
<1>3. AliasOk(c, x) /\ FiguresOk(x) /\ Turns(c, x) /\ change[c].pc # "committed"
  BY DEF RevokeRead, Turns, AliasOk, FiguresOk, Idle
<1>4. QED BY <1>1, <1>2, <1>3 DEF Quiet, Allowed

LEMMA ReadRelationsQuiet ==
  ASSUME Base, NEW c \in Changes, ReadRelations(c)
  PROVE  Quiet(c)
<1> DEFINE t == change[c]
           x == [t EXCEPT !.pc = "findDuplicate",
                  !.hasSnapshot = t.kind = "confirm" /\ snapshot[t.row] # None,
                  !.old = IF t.old # None /\ alias[t.old].status = "ACTIVE" THEN t.old ELSE None]
<1>0. t \in ChangeType /\ InputOk(c, t) /\ AliasOk(c, t) /\ FiguresOk(t) /\ t.pc = "readRelations"
  BY DEF Base, TypeOK, ReadRelations
<1>1. x \in ChangeType
  BY <1>0 DEF ChangeType
<1>2. InputOk(c, x) /\ AliasOk(c, x) /\ FiguresOk(x) /\ Keeps(c, x)
  BY <1>0 DEF InputOk, AliasOk, FiguresOk, Keeps, ChangeType
<1>3. Turns(c, x) /\ change[c].pc # "committed"
  BY <1>0 DEF ReadRelations, Turns, Base, TypeOK
<1>4. QED BY <1>1, <1>2, <1>3 DEF Quiet, Allowed

(* A step that only goes on to another statement. *)
LEMMA GotoQuiet ==
  ASSUME Base, NEW c \in Changes, UNCHANGED tables, change[c].pc # "committed",
         NEW to \in {"revokeAlias", "findDuplicate", "findAlias", "createAlias", "findSnapshot",
                     "createSnapshot", "writeRow"},
         Goto(c, to),
         to = "revokeAlias" => change[c].old # None /\ change[c].kind = "remap",
         to \in {"revokeAlias", "findAlias", "createAlias"} => "alias" \notin change[c].wrote,
         to = "findDuplicate" => change[c].wrote = {} /\ change[c].alias = None,
         to \notin {"writeRow", "revokeAlias"} => change[c].kind \in {"confirm", "remap"},
         to = "writeRow" => \/ change[c].kind \in {"remap", "unmatch"}
                            \/ change[c].kind = "confirm" /\ change[c].hasSnapshot,
         change[c].pc \notin {"count", "commit"}
  PROVE  Quiet(c)
<1> DEFINE t == change[c]
           x == [t EXCEPT !.pc = to]
<1>0. t \in ChangeType /\ InputOk(c, t) /\ AliasOk(c, t) /\ FiguresOk(t)
  BY DEF Base, TypeOK
<1>1. x \in ChangeType
  BY <1>0 DEF ChangeType
<1>2. InputOk(c, x)
  BY <1>0 DEF InputOk, ChangeType
<1>3. AliasOk(c, x) /\ FiguresOk(x) /\ Keeps(c, x)
  BY <1>0 DEF AliasOk, FiguresOk, Keeps, SameTask, ChangeType
<1>4. Turns(c, x)
  BY <1>0 DEF Goto, Turns, Base, TypeOK
<1>5. QED BY <1>1, <1>2, <1>3, <1>4 DEF Quiet, Allowed

LEMMA FindDuplicateQuiet ==
  ASSUME Base, NEW c \in Changes, FindDuplicate(c)
  PROVE  Quiet(c)
<1> DEFINE t == change[c]
           to == IF t.old # None THEN "revokeAlias"
                 ELSE IF t.wantsAlias THEN "findAlias"
                 ELSE IF t.kind = "confirm" THEN "findSnapshot" ELSE "writeRow"
<1>1. t \in ChangeType /\ InputOk(c, t) /\ t.pc = "findDuplicate" /\ UNCHANGED tables
  BY DEF Base, TypeOK, FindDuplicate
<1>2. t.kind \in {"confirm", "remap"}
  BY <1>1 DEF InputOk
<1>3. CASE Refuse(c)
  BY <1>1, <1>3, RefusalQuiet
<1>4. CASE Goto(c, to)
  <2>1. to \in {"revokeAlias", "findAlias", "findSnapshot", "writeRow"}
    OBVIOUS
  <2>2. to = "revokeAlias" => t.old # None /\ t.kind = "remap"
    BY <1>1, <1>2 DEF InputOk
  <2>3. to = "writeRow" => t.kind = "remap"
    BY <1>2
  <2>4. "alias" \notin t.wrote
    BY <1>1 DEF InputOk
  <2> HIDE DEF to
  <2>5. QED BY <1>1, <1>2, <1>4, <2>1, <2>2, <2>3, <2>4, GotoQuiet
<1>5. QED BY <1>3, <1>4 DEF FindDuplicate

LEMMA FindAliasQuiet ==
  ASSUME Base, NEW c \in Changes, FindAlias(c)
  PROVE  Quiet(c)
<1> DEFINE t == change[c]
           active == ActiveAliases(c, row[t.row].scope)
<1>1. /\ t \in ChangeType /\ InputOk(c, t) /\ AliasOk(c, t) /\ FiguresOk(t)
      /\ t.pc = "findAlias" /\ UNCHANGED tables
      /\ change \in [Changes -> ChangeType]
  BY DEF Base, TypeOK, FindAlias
<1>2. t.kind \in {"confirm", "remap"}
  BY <1>1 DEF InputOk
<1>3. CASE Refuse(c)
  BY <1>1, <1>3, RefusalQuiet
<1>4. CASE Goto(c, "createAlias")
  <2>1. "alias" \notin t.wrote
    BY <1>1 DEF InputOk
  <2>2. QED BY <1>1, <1>2, <1>4, <2>1, GotoQuiet
<1>5. ASSUME NEW a \in active, alias[a].release = t.to,
             change' = [change EXCEPT ![c].pc = AfterAlias(c), ![c].alias = a]
      PROVE  Quiet(c)
  <2> DEFINE x == [t EXCEPT !.pc = AfterAlias(c), !.alias = a]
  <2>1. a \in Aliases /\ alias[a] # None /\ alias[a].scope = row[t.row].scope
    BY DEF ActiveAliases
  <2>2. AfterAlias(c) \in {"findSnapshot", "writeRow"}
        /\ (AfterAlias(c) = "writeRow" => t.kind = "remap")
    BY <1>2 DEF AfterAlias
  <2>3. x \in ChangeType
    BY <1>1, <2>1, <2>2 DEF ChangeType
  <2>4. InputOk(c, x)
    BY <1>1, <1>2, <2>2 DEF InputOk, ChangeType
  <2>5. AliasOk(c, x)
    BY <1>1, <1>2, <1>5, <2>1, <2>2 DEF AliasOk, ChangeType
  <2>6. FiguresOk(x) /\ Keeps(c, x)
    BY <1>1, <2>2 DEF FiguresOk, Keeps, SameTask, ChangeType
  <2>7. Turns(c, x)
    BY <1>1, <1>5 DEF Turns
  <2>8. QED BY <1>1, <2>3, <2>4, <2>5, <2>6, <2>7 DEF Quiet, Allowed
<1>6. QED BY <1>3, <1>4, <1>5 DEF FindAlias

LEMMA FindSnapshotQuiet ==
  ASSUME Base, NEW c \in Changes, FindSnapshot(c)
  PROVE  Quiet(c)
<1> DEFINE t == change[c]
<1>1. t \in ChangeType /\ InputOk(c, t) /\ t.pc = "findSnapshot" /\ UNCHANGED tables
  BY DEF Base, TypeOK, FindSnapshot
<1>2. t.kind \in {"confirm", "remap"}
  BY <1>1 DEF InputOk
<1>3. CASE Refuse(c)
  BY <1>1, <1>3, RefusalQuiet
<1>4. CASE t.hasSnapshot /\ Goto(c, "writeRow")
  BY <1>1, <1>2, <1>4, GotoQuiet
<1>5. CASE Goto(c, "createSnapshot")
  BY <1>1, <1>2, <1>5, GotoQuiet
<1>6. QED BY <1>3, <1>4, <1>5 DEF FindSnapshot

LEMMA AbortQuiet ==
  ASSUME Base, NEW c \in Changes, Abort(c)
  PROVE  Quiet(c)
  BY RefusalQuiet DEF Abort

-----------------------------------------------------------------------------
(* Steps that write *)

LEMMA RevokeAliasWrites ==
  ASSUME Base, NEW c \in Changes, RevokeAlias(c)
  PROVE  Writes(c, "revoke")
<1> DEFINE t == change[c]
           to == IF t.kind = "revoke" THEN "commit"
                 ELSE IF t.wantsAlias THEN "findAlias" ELSE "writeRow"
           x == [t EXCEPT !.wrote = @ \union {"revoke"}, !.pc = to]
<1>1. /\ t \in ChangeType /\ InputOk(c, t) /\ AliasOk(c, t) /\ FiguresOk(t)
      /\ t.pc = "revokeAlias" /\ UNCHANGED tables
      /\ change \in [Changes -> ChangeType]
  BY DEF Base, TypeOK, RevokeAlias
<1>2. t.kind \in {"remap", "revoke"}
  BY <1>1 DEF InputOk
<1>3. x \in ChangeType
  BY <1>1 DEF ChangeType
<1>4. InputOk(c, x)
  BY <1>1, <1>2 DEF InputOk, ChangeType
<1>5. AliasOk(c, x) /\ FiguresOk(x) /\ SameTask(c, x) /\ x.wrote = t.wrote \union {"revoke"}
  BY <1>1, <1>2 DEF AliasOk, FiguresOk, SameTask, ChangeType
<1>6. Turns(c, x)
  BY <1>1 DEF RevokeAlias, Turns
<1>7. QED BY <1>1, <1>3, <1>4, <1>5, <1>6 DEF Writes, Allowed

LEMMA CreateAliasWrites ==
  ASSUME Base, NEW c \in Changes, CreateAlias(c)
  PROVE  \/ Quiet(c)
         \/ Writes(c, "alias") /\ ActiveAliases(c, row[change[c].row].scope) = {}
<1> DEFINE t == change[c]
           x == [t EXCEPT !.pc = AfterAlias(c), !.alias = c, !.wrote = @ \union {"alias"}]
<1>1. /\ t \in ChangeType /\ InputOk(c, t) /\ AliasOk(c, t) /\ FiguresOk(t)
      /\ t.pc = "createAlias" /\ UNCHANGED tables
      /\ change \in [Changes -> ChangeType]
  BY DEF Base, TypeOK, CreateAlias
<1>2. t.kind \in {"confirm", "remap"}
  BY <1>1 DEF InputOk
<1>3. CASE Refuse(c)
  BY <1>1, <1>3, RefusalQuiet
<1>4. ASSUME ActiveAliases(c, row[t.row].scope) = {},
             change' = [change EXCEPT ![c].pc = AfterAlias(c), ![c].alias = c,
                                      ![c].wrote = @ \union {"alias"}]
      PROVE  Writes(c, "alias")
  <2>1. AfterAlias(c) \in {"findSnapshot", "writeRow"}
        /\ (AfterAlias(c) = "writeRow" => t.kind = "remap")
    BY <1>2 DEF AfterAlias
  <2>2. c \in Aliases
    BY DEF Aliases
  <2>3. x \in ChangeType
    BY <1>1, <2>1, <2>2 DEF ChangeType
  <2>4. InputOk(c, x)
    BY <1>1, <1>2, <2>1 DEF InputOk, ChangeType
  <2>5. AliasOk(c, x) /\ FiguresOk(x) /\ SameTask(c, x) /\ x.wrote = t.wrote \union {"alias"}
    BY <1>1, <1>2, <2>1 DEF AliasOk, FiguresOk, SameTask, ChangeType
  <2>6. Turns(c, x)
    BY <1>1, <1>4 DEF Turns
  <2>7. QED BY <1>1, <2>3, <2>4, <2>5, <2>6 DEF Writes, Allowed
<1>5. QED BY <1>3, <1>4 DEF CreateAlias

LEMMA CreateSnapshotWrites ==
  ASSUME Base, NEW c \in Changes, CreateSnapshot(c)
  PROVE  \/ Quiet(c)
         \/ /\ Writes(c, "snapshot")
            /\ snapshot[change[c].row] = None /\ ~SnapshotTaken(change[c])
<1> DEFINE t == change[c]
           x == [t EXCEPT !.pc = "writeRow", !.wrote = @ \union {"snapshot"}]
<1>1. /\ t \in ChangeType /\ InputOk(c, t) /\ AliasOk(c, t) /\ FiguresOk(t)
      /\ t.pc = "createSnapshot" /\ UNCHANGED tables
      /\ change \in [Changes -> ChangeType]
  BY DEF Base, TypeOK, CreateSnapshot
<1>2. t.kind \in {"confirm", "remap"}
  BY <1>1 DEF InputOk
<1>3. CASE Refuse(c)
  BY <1>1, <1>3, RefusalQuiet
<1>4. ASSUME change' = [change EXCEPT ![c].pc = "writeRow", ![c].wrote = @ \union {"snapshot"}]
      PROVE  Writes(c, "snapshot")
  <2>1. x \in ChangeType
    BY <1>1 DEF ChangeType
  <2>2. InputOk(c, x)
    BY <1>1, <1>2 DEF InputOk, ChangeType
  <2>3. AliasOk(c, x) /\ FiguresOk(x) /\ SameTask(c, x) /\ x.wrote = t.wrote \union {"snapshot"}
    BY <1>1, <1>2 DEF AliasOk, FiguresOk, SameTask, ChangeType
  <2>4. Turns(c, x)
    BY <1>1, <1>4 DEF Turns
  <2>5. QED BY <1>1, <2>1, <2>2, <2>3, <2>4 DEF Writes, Allowed
<1>5. QED BY <1>3, <1>4 DEF CreateSnapshot

LEMMA WriteRowWrites ==
  ASSUME Base, NEW c \in Changes, WriteRow(c)
  PROVE  Quiet(c) \/ (Writes(c, "row") /\ Wins(c))
<1> DEFINE t == change[c]
           x == [t EXCEPT !.pc = "count", !.wrote = @ \union {"row"}]
<1>1. /\ t \in ChangeType /\ InputOk(c, t) /\ AliasOk(c, t) /\ FiguresOk(t)
      /\ t.pc = "writeRow" /\ UNCHANGED tables
      /\ change \in [Changes -> ChangeType]
  BY DEF Base, TypeOK, WriteRow
<1>2. t.kind \in {"confirm", "remap", "unmatch"}
  BY <1>1 DEF InputOk
<1>3. CASE Refuse(c)
  BY <1>1, <1>3, RefusalQuiet
<1>4. ASSUME Wins(c), change' = [change EXCEPT ![c].pc = "count", ![c].wrote = @ \union {"row"}]
      PROVE  Writes(c, "row")
  <2>1. x \in ChangeType
    BY <1>1 DEF ChangeType
  <2>2. InputOk(c, x)
    BY <1>1, <1>2 DEF InputOk, ChangeType
  <2>3. AliasOk(c, x) /\ FiguresOk(x) /\ SameTask(c, x) /\ x.wrote = t.wrote \union {"row"}
    BY <1>1, <1>2 DEF AliasOk, FiguresOk, SameTask, ChangeType
  <2>4. Turns(c, x)
    BY <1>1, <1>4 DEF Turns
  <2>5. QED BY <1>1, <2>1, <2>2, <2>3, <2>4 DEF Writes, Allowed
<1>5. QED BY <1>3, <1>4 DEF WriteRow

LEMMA CountOfType ==
  ASSUME NEW rows, NEW m
  PROVE  CountOf(rows, m) \in Counts
<1> DEFINE S(status) == {r \in Rows : rows[r].import = m /\ rows[r].status = status}
<1>1. IsFiniteSet(Rows)
  BY MappingConstants
<1>2. Cardinality(S("CONFIRMED")) \in Nat
  <2>1. S("CONFIRMED") \subseteq Rows
    OBVIOUS
  <2>2. QED BY <1>1, <2>1, FS_Subset, FS_CardinalityType
<1>3. Cardinality(S("UNMATCHED")) \in Nat
  <2>1. S("UNMATCHED") \subseteq Rows
    OBVIOUS
  <2>2. QED BY <1>1, <2>1, FS_Subset, FS_CardinalityType
<1>4. QED BY <1>2, <1>3 DEF CountOf, Counts

LEMMA CountRowsQuiet ==
  ASSUME Base, NEW c \in Changes, CountRows(c)
  PROVE  Quiet(c)
<1> DEFINE t == change[c]
           n == CountOf([row EXCEPT ![t.row] = NewRow(c)], ImportOf(t.row))
           x == [t EXCEPT !.pc = "commit", !.count = n]
<1>1. /\ t \in ChangeType /\ InputOk(c, t) /\ AliasOk(c, t) /\ FiguresOk(t)
      /\ t.pc = "count" /\ UNCHANGED tables
      /\ change \in [Changes -> ChangeType]
      /\ change' = [change EXCEPT ![c].pc = "commit", ![c].count = n]
  BY DEF Base, TypeOK, CountRows
<1>2. n \in Counts
  BY CountOfType
<1> HIDE DEF n
<1>3. x \in ChangeType
  BY <1>1, <1>2 DEF ChangeType
<1>4. InputOk(c, x)
  BY <1>1, <1>2 DEF InputOk, ChangeType
<1>5. AliasOk(c, x) /\ FiguresOk(x) /\ Keeps(c, x)
  BY <1>1 DEF AliasOk, FiguresOk, Keeps, SameTask, ChangeType
<1>6. Turns(c, x)
  BY <1>1 DEF Turns
<1>7. QED BY <1>1, <1>3, <1>4, <1>5, <1>6 DEF Quiet, Allowed

-----------------------------------------------------------------------------
(* The commit *)

LEMMA NewRowType ==
  ASSUME Base, NEW c \in Changes, "row" \in change[c].wrote
  PROVE  /\ change[c].row \in Rows
         /\ NewRow(c) \in Row
         /\ NewRow(c).import = row[change[c].row].import
         /\ NewRow(c).scope = row[change[c].row].scope
         /\ NewRow(c).release = change[c].to
         /\ NewRow(c).status = "CONFIRMED" => change[c].kind \in {"confirm", "remap"}
         /\ NewRow(c).alias # None =>
              NewRow(c).alias = change[c].alias /\ change[c].kind \in {"confirm", "remap"}
<1> DEFINE t == change[c]
           r == row[t.row]
<1>1. t \in ChangeType /\ InputOk(c, t)
  BY DEF Base, TypeOK
<1>2. t.row \in Rows /\ t.kind \in {"confirm", "remap", "unmatch"}
  BY <1>1 DEF InputOk
<1>3. /\ r.import \in Imports /\ r.scope \in Scopes /\ r.version \in Nat
      /\ DOMAIN r = {"import", "scope", "status", "release", "alias", "version"}
      /\ r = [import |-> r.import, scope |-> r.scope, status |-> r.status,
              release |-> r.release, alias |-> r.alias, version |-> r.version]
  BY <1>2 DEF Base, TypeOK, Row
<1>4. t.alias \in Aliases \union {None}
  BY <1>1 DEF ChangeType
<1>5. CASE t.kind = "unmatch"
  <2>1. NewRow(c) = [import |-> r.import, scope |-> r.scope, status |-> "UNMATCHED",
                     release |-> None, alias |-> None, version |-> r.version + 1]
    BY <1>3, <1>5 DEF NewRow
  <2>2. t.to = None
    BY <1>1, <1>5 DEF InputOk
  <2>3. QED BY <1>2, <1>3, <2>1, <2>2 DEF Row
<1>6. CASE t.kind \in {"confirm", "remap"}
  <2>1. NewRow(c) = [import |-> r.import, scope |-> r.scope, status |-> "CONFIRMED",
                     release |-> t.to, alias |-> t.alias, version |-> r.version + 1]
    BY <1>3, <1>6 DEF NewRow
  <2>2. t.to \in Releases
    BY <1>1, <1>6 DEF InputOk
  <2>3. NewRow(c) \in Row
    BY <1>3, <1>4, <2>1, <2>2 DEF Row
  <2>4. QED BY <1>2, <1>6, <2>1, <2>3
<1>7. QED BY <1>2, <1>5, <1>6

(* What a commit does to each row, alias and snapshot. *)
LEMMA CommitRow ==
  ASSUME Base, NEW c \in Changes, Commit(c), NEW r \in Rows
  PROVE  row'[r] = IF "row" \in change[c].wrote /\ r = change[c].row THEN NewRow(c) ELSE row[r]
  BY NewRowType DEF Commit, Wrote, Base, TypeOK

LEMMA CommitRowKeepsScope ==
  ASSUME Base, NEW c \in Changes, Commit(c), NEW r \in Rows
  PROVE  row'[r].scope = row[r].scope /\ row'[r].import = row[r].import
  BY CommitRow, NewRowType

LEMMA CommitAlias ==
  ASSUME Base, NEW c \in Changes, Commit(c), NEW a \in Aliases
  PROVE  alias'[a] = IF "alias" \in change[c].wrote /\ a = c
                     THEN NewAlias(row[change[c].row].scope, change[c].to)
                     ELSE IF "revoke" \in change[c].wrote /\ a = change[c].old
                     THEN Revoked(c, a) ELSE alias[a]
  BY DEF Commit, Wrote

LEMMA RevokedType ==
  ASSUME Base, NEW c \in Changes, NEW a \in Aliases, alias[a] # None
  PROVE  /\ Revoked(c, a) \in Alias
         /\ Revoked(c, a).status # "ACTIVE"
         /\ Revoked(c, a).scope = alias[a].scope /\ Revoked(c, a).release = alias[a].release
<1>1. alias[a] \in Alias /\ change[c].alias \in Aliases \union {None}
  BY DEF Base, TypeOK, ChangeType
<1>2. QED BY <1>1 DEF Revoked, Alias

LEMMA CommitKeepsAliases ==
  ASSUME Base, NEW c \in Changes, Commit(c), NEW a \in Aliases, alias[a] # None
  PROVE  /\ alias'[a] # None
         /\ alias'[a].scope = alias[a].scope /\ alias'[a].release = alias[a].release
         /\ alias'[a].status = "ACTIVE" =>
              /\ alias[a].status = "ACTIVE"
              /\ ~("revoke" \in change[c].wrote /\ a = change[c].old)
<1>1. alias[c] = None
  BY DEF Base, Commit
<1>2. CASE "revoke" \in change[c].wrote /\ a = change[c].old
  <2>1. alias'[a] = Revoked(c, a)
    BY <1>1, <1>2, CommitAlias
  <2>2. QED BY <2>1, RevokedType, NoneIsNew
<1>3. CASE ~("revoke" \in change[c].wrote /\ a = change[c].old)
  <2>1. alias'[a] = alias[a]
    BY <1>1, <1>3, CommitAlias
  <2>2. QED BY <1>3, <2>1
<1>4. QED BY <1>2, <1>3

LEMMA CommitSnapshot ==
  ASSUME Base, NEW c \in Changes, Commit(c), NEW r \in Rows
  PROVE  snapshot'[r] = IF "snapshot" \in change[c].wrote /\ r = change[c].row
                        THEN change[c].to ELSE snapshot[r]
<1>1. snapshot \in [Rows -> Releases \union {None}]
  BY DEF Base, TypeOK
<1>2. QED BY <1>1 DEF Commit, Wrote

LEMMA CommitKeepsSnapshots ==
  ASSUME Base, NEW c \in Changes, Commit(c), NEW r \in Rows, snapshot[r] # None
  PROVE  snapshot'[r] # None
<1>1. "snapshot" \in change[c].wrote => change[c].to \in Releases
  BY DEF Base, InputOk
<1>2. QED BY <1>1, CommitSnapshot, NoneIsNew

LEMMA CommitChange ==
  ASSUME Base, NEW c \in Changes, Commit(c)
  PROVE  /\ change' \in [Changes -> ChangeType]
         /\ change'[c] = [Idle EXCEPT !.pc = "committed"]
         /\ \A d \in Changes : d # c => change'[d] = change[d]
<1>1. change \in [Changes -> ChangeType]
      /\ change' = [change EXCEPT ![c] = [Idle EXCEPT !.pc = "committed"]]
  BY DEF Commit, Base, TypeOK
<1>2. [Idle EXCEPT !.pc = "committed"] \in ChangeType
  BY DEF Idle, ChangeType
<1>3. QED BY <1>1, <1>2

LEMMA CommitKeepsTypes ==
  ASSUME Base, NEW c \in Changes, Commit(c)
  PROVE  TypeOK'
<1> DEFINE t == change[c]
<1>0. /\ t \in ChangeType /\ InputOk(c, t) /\ AliasOk(c, t) /\ t.pc = "commit"
      /\ TypeOK
  BY DEF Base, TypeOK, Commit
<1>1. row' \in [Rows -> Row]
  <2>1. row' = IF "row" \in t.wrote THEN [row EXCEPT ![t.row] = NewRow(c)] ELSE row
    BY DEF Commit, Wrote
  <2>2. QED BY <1>0, <2>1, NewRowType DEF TypeOK
<1>2. alias' \in [Aliases -> Alias \union {None}]
  <2>1. ASSUME NEW a \in Aliases PROVE alias'[a] \in Alias \union {None}
    <3>1. CASE "alias" \in t.wrote /\ a = c
      <4>1. t.row \in Rows /\ t.to \in Releases
        BY <1>0, <3>1 DEF InputOk
      <4>2. row[t.row].scope \in Scopes
        BY <1>0, <4>1 DEF TypeOK, Row
      <4>3. alias'[a] = NewAlias(row[t.row].scope, t.to)
        BY <3>1, CommitAlias
      <4>4. NewAlias(row[t.row].scope, t.to) \in Alias
        BY <4>1, <4>2 DEF NewAlias, Alias
      <4>5. QED BY <4>3, <4>4
    <3>2. CASE ~("alias" \in t.wrote /\ a = c) /\ "revoke" \in t.wrote /\ a = t.old
      <4>1. alias[a] # None
        BY <1>0, <3>2 DEF InputOk, AliasOk
      <4>2. alias'[a] = Revoked(c, a)
        BY <3>2, CommitAlias
      <4>3. QED BY <4>1, <4>2, RevokedType
    <3>3. CASE ~("alias" \in t.wrote /\ a = c) /\ ~("revoke" \in t.wrote /\ a = t.old)
      <4>1. alias'[a] = alias[a]
        BY <3>3, CommitAlias
      <4>2. QED BY <1>0, <4>1 DEF TypeOK
    <3>4. QED BY <3>1, <3>2, <3>3
  <2>2. alias' = [a \in Aliases |-> alias'[a]]
    BY DEF Commit
  <2>3. QED BY <2>1, <2>2
<1>3. snapshot' \in [Rows -> Releases \union {None}]
  <2>1. snapshot' = IF "snapshot" \in t.wrote THEN [snapshot EXCEPT ![t.row] = t.to] ELSE snapshot
    BY DEF Commit, Wrote
  <2>2. QED BY <1>0, <2>1 DEF InputOk, TypeOK
<1>4. summary' \in [Imports -> Counts]
  <2>1. summary' = IF "row" \in t.wrote THEN [summary EXCEPT ![ImportOf(t.row)] = t.count]
                   ELSE summary
    BY DEF Commit, Wrote
  <2>2. QED BY <1>0, <2>1 DEF InputOk, TypeOK
<1>5. QED BY <1>1, <1>2, <1>3, <1>4, CommitChange DEF TypeOK

LEMMA CommitKeepsBase ==
  ASSUME Base, NEW c \in Changes, Commit(c)
  PROVE  Base'
<1> DEFINE t == change[c]
<1>0. t \in ChangeType /\ InputOk(c, t) /\ AliasOk(c, t) /\ FiguresOk(t) /\ t.pc = "commit"
      /\ alias[c] = None
  BY DEF Base, TypeOK, Commit
<1>1. TypeOK'
  BY CommitKeepsTypes
<1>2. ASSUME NEW r \in Rows, row'[r].status = "CONFIRMED" PROVE snapshot'[r] # None
  <2>1. CASE "row" \in t.wrote /\ r = t.row
    <3>1. t.kind \in {"confirm", "remap"}
      BY <1>2, <2>1, CommitRow, NewRowType
    <3>2. snapshot[r] # None \/ "snapshot" \in t.wrote
      BY <1>0, <2>1, <3>1 DEF FiguresOk
    <3>3. CASE snapshot[r] # None
      BY <3>3, CommitKeepsSnapshots
    <3>4. CASE "snapshot" \in t.wrote
      <4>1. snapshot'[r] = t.to
        BY <2>1, <3>4, CommitSnapshot
      <4>2. QED BY <1>0, <3>1, <4>1, NoneIsNew DEF InputOk
    <3>5. QED BY <3>2, <3>3, <3>4
  <2>2. CASE ~("row" \in t.wrote /\ r = t.row)
    <3>1. row'[r] = row[r]
      BY <2>2, CommitRow
    <3>2. QED BY <1>2, <3>1, CommitKeepsSnapshots DEF Base
  <2>3. QED BY <2>1, <2>2
<1>3. ASSUME NEW r \in Rows, row'[r].alias # None
      PROVE  /\ alias'[row'[r].alias] # None
             /\ alias'[row'[r].alias].scope = row'[r].scope
             /\ alias'[row'[r].alias].release = row'[r].release
  <2>1. CASE "row" \in t.wrote /\ r = t.row
    <3>1. /\ row'[r].alias = t.alias /\ t.kind \in {"confirm", "remap"}
          /\ row'[r].release = t.to /\ row'[r].scope = row[r].scope
      BY <1>3, <2>1, CommitRow, NewRowType
    <3>2. t.alias \in Aliases
      BY <1>0, <1>3, <3>1 DEF ChangeType
    <3>3. CASE t.alias = c /\ "alias" \in t.wrote
      <4>1. alias'[t.alias] = NewAlias(row[r].scope, t.to)
        BY <2>1, <3>2, <3>3, CommitAlias
      <4>2. NewAlias(row[r].scope, t.to) \in Alias
        <5>1. t.to \in Releases
          BY <1>0, <3>1 DEF InputOk
        <5>2. row[r].scope \in Scopes
          BY DEF Base, TypeOK, Row
        <5>3. QED BY <5>1, <5>2 DEF NewAlias, Alias
      <4>3. QED BY <3>1, <4>1, <4>2, NoneIsNew DEF NewAlias
    <3>4. CASE ~(t.alias = c /\ "alias" \in t.wrote)
      <4>1. /\ alias[t.alias] # None
            /\ alias[t.alias].scope = row[r].scope /\ alias[t.alias].release = t.to
        BY <1>0, <1>3, <2>1, <3>1, <3>4 DEF AliasOk
      <4>2. QED BY <3>1, <3>2, <4>1, CommitKeepsAliases
    <3>5. QED BY <3>3, <3>4
  <2>2. CASE ~("row" \in t.wrote /\ r = t.row)
    <3>1. row'[r] = row[r]
      BY <2>2, CommitRow
    <3>2. row[r].alias \in Aliases
      BY <1>3, <3>1 DEF Base, TypeOK, Row
    <3>3. /\ alias[row[r].alias] # None
          /\ alias[row[r].alias].scope = row[r].scope
          /\ alias[row[r].alias].release = row[r].release
      BY <1>3, <3>1 DEF Base, AppliedAliasAgrees
    <3>4. QED BY <3>1, <3>2, <3>3, CommitKeepsAliases
  <2>3. QED BY <2>1, <2>2
<1>4. ASSUME NEW d \in Changes, change'[d].pc # "committed" PROVE alias'[d] = None
  <2>1. d # c /\ change[d].pc # "committed"
    BY <1>4, CommitChange DEF Idle
  <2>2. alias[d] = None
    BY <2>1 DEF Base
  <2>3. "revoke" \in t.wrote => d # t.old
    BY <1>0, <2>2 DEF InputOk, AliasOk
  <2>4. d \in Aliases
    BY DEF Aliases
  <2>5. QED BY <2>1, <2>2, <2>3, <2>4, CommitAlias
<1>5. ASSUME NEW d \in Changes
      PROVE  InputOk(d, change'[d]) /\ AliasOk(d, change[d])' /\ FiguresOk(change[d])'
  <2>1. CASE d = c
    <3>1. change'[d] = [Idle EXCEPT !.pc = "committed"]
      BY <2>1, CommitChange
    <3>2. InputOk(d, change'[d])
      BY <3>1, NoneIsNew DEF InputOk, Idle
    <3>3. AliasOk(d, change[d])'
      BY <3>1 DEF AliasOk, Idle
    <3>4. FiguresOk(change[d])'
      BY <3>1 DEF FiguresOk, Idle
    <3>5. QED BY <3>2, <3>3, <3>4
  <2>2. CASE d # c
    <3>1. /\ change'[d] = change[d] /\ change[d] \in ChangeType
          /\ InputOk(d, change[d]) /\ AliasOk(d, change[d]) /\ FiguresOk(change[d])
      BY <2>2, CommitChange DEF Base, TypeOK
    <3>2. AliasOk(d, change[d])'
      <4>1. change[d].old # None => alias'[change[d].old] # None
        <5>1. change[d].old # None => change[d].old \in Aliases /\ alias[change[d].old] # None
          BY <3>1 DEF AliasOk, ChangeType
        <5>2. QED BY <5>1, CommitKeepsAliases
      <4>2. ASSUME change[d].alias # None, ~(change[d].alias = d /\ "alias" \in change[d].wrote)
            PROVE  /\ alias'[change[d].alias] # None
                   /\ alias'[change[d].alias].scope = row'[change[d].row].scope
                   /\ alias'[change[d].alias].release = change[d].to
        <5>1. /\ change[d].alias \in Aliases /\ change[d].row \in Rows
              /\ alias[change[d].alias] # None
              /\ alias[change[d].alias].scope = row[change[d].row].scope
              /\ alias[change[d].alias].release = change[d].to
          BY <3>1, <4>2 DEF AliasOk, InputOk, ChangeType
        <5>2. QED BY <5>1, CommitKeepsAliases, CommitRowKeepsScope
      <4>3. change[d].alias # None => change[d].kind \in {"confirm", "remap"}
        BY <3>1 DEF AliasOk
      <4>4. QED BY <3>1, <4>1, <4>2, <4>3 DEF AliasOk
    <3>3. FiguresOk(change[d])'
      <4>1. change[d].kind \in {"confirm", "remap"} /\ snapshot[change[d].row] # None =>
              snapshot'[change[d].row] # None
        BY <3>1, CommitKeepsSnapshots DEF InputOk
      <4>2. QED BY <3>1, <4>1 DEF FiguresOk
    <3>4. QED BY <3>1, <3>2, <3>3
  <2>3. QED BY <2>1, <2>2
<1>6. AppliedAliasAgrees'
  BY <1>3 DEF AppliedAliasAgrees
<1>7. QED BY <1>1, <1>2, <1>4, <1>5, <1>6 DEF Base, InputOk

-----------------------------------------------------------------------------
(* Base is invariant *)

LEMMA InitBase == Init => Base
<1> SUFFICES ASSUME Init PROVE Base
  OBVIOUS
<1>1. PICK import \in [Rows -> Imports], scope \in [Rows -> Scopes],
           active \in [Scopes -> Releases \union {None}] : LeftBehind(import, scope, active)
  BY DEF Init
<1>2. /\ snapshot \in [Rows -> Releases \union {None}]
      /\ alias = [a \in Aliases |-> IF a \in Scopes /\ active[a] # None
                                   THEN NewAlias(a, active[a]) ELSE None]
      /\ summary = [m \in Imports |-> CountOf(row, m)]
      /\ change = [c \in Changes |-> Idle]
  BY <1>1 DEF LeftBehind, Init
<1>3. PICK confirmed \in SUBSET {r \in Rows : snapshot[r] # None} :
        \E byAlias \in SUBSET {r \in confirmed : active[scope[r]] = snapshot[r]} :
          row = [r \in Rows |->
             [import |-> import[r], scope |-> scope[r],
              status |-> IF r \in confirmed THEN "CONFIRMED" ELSE "UNMATCHED",
              release |-> IF r \in confirmed THEN snapshot[r] ELSE None,
              alias |-> IF r \in byAlias THEN scope[r] ELSE None,
              version |-> 1]]
  BY <1>1 DEF LeftBehind
<1>4. PICK byAlias \in SUBSET {r \in confirmed : active[scope[r]] = snapshot[r]} :
         row = [r \in Rows |->
           [import |-> import[r], scope |-> scope[r],
            status |-> IF r \in confirmed THEN "CONFIRMED" ELSE "UNMATCHED",
            release |-> IF r \in confirmed THEN snapshot[r] ELSE None,
            alias |-> IF r \in byAlias THEN scope[r] ELSE None,
            version |-> 1]]
  BY <1>3
<1>5. \A s \in Scopes : s \in Aliases /\ (active[s] # None => NewAlias(s, active[s]) \in Alias)
  BY DEF Aliases, NewAlias, Alias
<1>6. row \in [Rows -> Row]
  <2>1. ASSUME NEW r \in Rows PROVE row[r] \in Row
    <3>1. CASE r \in confirmed
      <4>1. snapshot[r] \in Releases
        BY <1>2, <1>4, <3>1
      <4>2. (IF r \in byAlias THEN scope[r] ELSE None) \in Aliases \union {None}
        BY <1>5
      <4>3. row[r] = [import |-> import[r], scope |-> scope[r], status |-> "CONFIRMED",
                      release |-> snapshot[r],
                      alias |-> IF r \in byAlias THEN scope[r] ELSE None, version |-> 1]
        BY <1>2, <1>4, <3>1
      <4>4. QED BY <4>1, <4>2, <4>3 DEF Row
    <3>2. CASE r \notin confirmed
      <4>1. r \notin byAlias
        BY <3>2
      <4>2. row[r] = [import |-> import[r], scope |-> scope[r], status |-> "UNMATCHED",
                      release |-> None, alias |-> None, version |-> 1]
        BY <1>2, <1>4, <3>2, <4>1
      <4>3. QED BY <4>2 DEF Row
    <3>3. QED BY <3>1, <3>2
  <2>2. QED BY <1>2, <1>4, <2>1
<1>7. alias \in [Aliases -> Alias \union {None}]
  BY <1>2, <1>4, <1>5
<1>8. change \in [Changes -> ChangeType] /\ \A c \in Changes : change[c] = Idle
  BY <1>2, <1>4, IdleType
<1>9. TypeOK
  <2>1. summary \in [Imports -> Counts]
    BY <1>2, <1>4, CountOfType
  <2>2. QED BY <1>2, <1>4, <1>6, <1>7, <1>8, <2>1 DEF TypeOK
<1>10. AppliedAliasAgrees
  <2>1. ASSUME NEW r \in Rows, row[r].alias # None
        PROVE  /\ alias[row[r].alias] # None
               /\ alias[row[r].alias].scope = row[r].scope
               /\ alias[row[r].alias].release = row[r].release
    <3>1. r \in byAlias /\ r \in confirmed
      BY <1>2, <1>4, <2>1
    <3>2. /\ row[r].alias = scope[r] /\ row[r].scope = scope[r] /\ row[r].release = snapshot[r]
          /\ active[scope[r]] = snapshot[r] /\ snapshot[r] # None /\ scope[r] \in Scopes
      BY <1>2, <1>4, <3>1
    <3>3. alias[scope[r]] = NewAlias(scope[r], snapshot[r])
      BY <1>2, <1>4, <1>5, <3>2
    <3>4. QED BY <1>5, <3>2, <3>3, NoneIsNew DEF NewAlias
  <2>2. QED BY <2>1 DEF AppliedAliasAgrees
<1>11. \A r \in Rows : row[r].status = "CONFIRMED" => snapshot[r] # None
  BY <1>2, <1>4
<1>12. \A c \in Changes : alias[c] = None
  BY <1>2, <1>4, MappingConstants DEF Aliases
<1>13. ASSUME NEW c \in Changes
       PROVE  InputOk(c, change[c]) /\ AliasOk(c, change[c]) /\ FiguresOk(change[c])
  <2>1. InputOk(c, Idle) /\ AliasOk(c, Idle) /\ FiguresOk(Idle)
    BY NoneIsNew DEF InputOk, AliasOk, FiguresOk, Idle
  <2>2. QED BY <1>8, <2>1
<1>14. QED BY <1>9, <1>10, <1>11, <1>12, <1>13 DEF Base

(* Every step is of one of six kinds. *)
LEMMA StepKinds ==
  ASSUME Base, NEW c \in Changes, Step(c)
  PROVE  \/ Quiet(c)
         \/ RevokeAlias(c) /\ Writes(c, "revoke")
         \/ /\ CreateAlias(c) /\ Writes(c, "alias")
            /\ ActiveAliases(c, row[change[c].row].scope) = {}
         \/ /\ CreateSnapshot(c) /\ Writes(c, "snapshot")
            /\ snapshot[change[c].row] = None /\ ~SnapshotTaken(change[c])
         \/ WriteRow(c) /\ Writes(c, "row") /\ Wins(c)
         \/ Commit(c)
<1>1. CASE \E r \in Rows, rel \in Releases, wantsAlias \in BOOLEAN :
             ConfirmRead(c, r, rel, wantsAlias) \/ RemapRead(c, r, rel, wantsAlias)
  BY <1>1, ReadsQuiet
<1>2. CASE \E r \in Rows : UnmatchRead(c, r)
  BY <1>2, UnmatchReadQuiet
<1>3. CASE \E a \in Aliases : RevokeRead(c, a)
  BY <1>3, RevokeReadQuiet
<1>4. CASE ReadRelations(c) \/ FindDuplicate(c) \/ FindAlias(c) \/ FindSnapshot(c) \/ CountRows(c)
           \/ Abort(c)
  BY <1>4, ReadRelationsQuiet, FindDuplicateQuiet, FindAliasQuiet, FindSnapshotQuiet,
     CountRowsQuiet, AbortQuiet
<1>5. CASE RevokeAlias(c)
  BY <1>5, RevokeAliasWrites
<1>6. CASE CreateAlias(c)
  BY <1>6, CreateAliasWrites
<1>7. CASE CreateSnapshot(c)
  BY <1>7, CreateSnapshotWrites
<1>8. CASE WriteRow(c)
  BY <1>8, WriteRowWrites
<1>9. CASE Commit(c)
  BY <1>9
<1>10. QED BY <1>1, <1>2, <1>3, <1>4, <1>5, <1>6, <1>7, <1>8, <1>9 DEF Step

LEMMA StepKeepsBase ==
  ASSUME Base, [Next]_vars
  PROVE  Base'
<1>1. CASE UNCHANGED vars
  <2>1. row' = row /\ alias' = alias /\ snapshot' = snapshot /\ summary' = summary
        /\ change' = change
    BY <1>1 DEF vars
  <2>2. QED BY <2>1 DEF Base, TypeOK, AppliedAliasAgrees, InputOk, AliasOk, FiguresOk
<1>2. ASSUME NEW c \in Changes, Step(c) PROVE Base'
  <2>1. CASE Commit(c)
    BY <2>1, CommitKeepsBase
  <2>2. CASE \E x \in ChangeType : Allowed(c, x)
    BY <2>2, TurnKeepsBase DEF Allowed
  <2>3. QED BY <1>2, <2>1, <2>2, StepKinds DEF Quiet, Writes
<1>3. QED BY <1>1, <1>2 DEF Next

LEMMA BaseAlways == Spec => []Base
  BY InitBase, StepKeepsBase, PTL DEF Spec

(* Every variable has its type, at every statement of every request. *)
THEOREM MappingTypes == Spec => []TypeOK
<1>1. Base => TypeOK
  BY DEF Base
<1>2. QED BY <1>1, BaseAlways, PTL

(* A row never names an alias of another song or release (createOrReuseAlias
   looks it up by scope and compares the release; neither changes afterwards). *)
THEOREM MappingAliases == Spec => []AppliedAliasAgrees
<1>1. Base => AppliedAliasAgrees
  BY DEF Base
<1>2. QED BY <1>1, BaseAlways, PTL

-----------------------------------------------------------------------------
(* One row per release *)

LEMMA TurnKeepsRowKeys ==
  ASSUME Base, RowKeys, NEW c \in Changes, NEW x \in ChangeType, Turns(c, x),
         "row" \in x.wrote => "row" \in change[c].wrote /\ SameTask(c, x)
  PROVE  RowKeys'
<1>1. /\ row' = row /\ change'[c] = x
      /\ \A d \in Changes : d # c => change'[d] = change[d]
  BY DEF Turns, tables, Base, TypeOK
<1>2. ASSUME NEW d \in Changes, "row" \in change'[d].wrote
      PROVE  /\ "row" \in change[d].wrote
             /\ change'[d].row = change[d].row /\ change'[d].to = change[d].to
             /\ change'[d].kind = change[d].kind /\ change'[d].version = change[d].version
  BY <1>1, <1>2 DEF SameTask
<1>3. QED BY <1>1, <1>2 DEF RowKeys, ImportOf, Neighbours

LEMMA WriteKeepsRowKeys ==
  ASSUME Base, RowKeys, NEW c \in Changes, WriteRow(c), Writes(c, "row"), Wins(c)
  PROVE  RowKeys'
<1> DEFINE t == change[c]
<1>1. PICK x \in ChangeType : Allowed(c, x) /\ SameTask(c, x) /\ x.wrote = t.wrote \union {"row"}
  BY DEF Writes
<1>2. /\ row' = row /\ change'[c] = x
      /\ \A d \in Changes : d # c => change'[d] = change[d]
  BY <1>1 DEF Allowed, Turns, tables, Base, TypeOK
<1>3. x.row = t.row /\ x.to = t.to /\ x.kind = t.kind /\ x.version = t.version
  BY <1>1 DEF SameTask
<1>4. t.row \in Rows
  BY <1>1, <1>3 DEF Allowed, InputOk
<1>5. ASSUME NEW d \in Changes, d # c, "row" \in change[d].wrote
      PROVE  /\ change[d].row # t.row /\ change[d].row \in Rows
             /\ ImportOf(change[d].row) = ImportOf(t.row) /\ t.to # None => t.to # change[d].to
  <2>1. ~Touches(d, t.row, t.to)
    BY <1>5 DEF WriteRow, Others
  <2>2. change[d].row \in Rows /\ change[d].row # t.row
    BY <1>5, <2>1 DEF Touches, Wrote, Base, InputOk
  <2>3. QED BY <1>4, <1>5, <2>1, <2>2 DEF Touches, Wrote, Neighbours
<1>6. \A q, r \in Rows :
        q # r /\ row'[q].import = row'[r].import /\ row'[q].release # None =>
          row'[q].release # row'[r].release
  BY <1>2 DEF RowKeys, ImportOf
<1>7. ASSUME NEW d \in Changes, "row" \in change'[d].wrote
      PROVE  /\ change'[d].to # None =>
                  \A q \in Neighbours(change'[d].row) : row[q].release # change'[d].to
             /\ change'[d].kind = "remap" =>
                  row[change'[d].row].version = change'[d].version
  <2>1. CASE d = c
    BY <1>2, <1>3, <2>1 DEF Wins
  <2>2. CASE d # c
    BY <1>2, <1>7, <2>2 DEF RowKeys
  <2>3. QED BY <2>1, <2>2
<1>8. ASSUME NEW d \in Changes, NEW e \in Changes, d # e,
             "row" \in change'[d].wrote, "row" \in change'[e].wrote
      PROVE  /\ change'[d].row # change'[e].row
             /\ ImportOf(change'[d].row) = ImportOf(change'[e].row) /\ change'[d].to # None =>
                  change'[d].to # change'[e].to
  <2>1. CASE d = c
    BY <1>2, <1>3, <1>5, <1>8, <2>1
  <2>2. CASE e = c
    BY <1>2, <1>3, <1>5, <1>8, <2>2
  <2>3. CASE d # c /\ e # c
    BY <1>2, <1>8, <2>3 DEF RowKeys
  <2>4. QED BY <2>1, <2>2, <2>3
<1>9. QED BY <1>2, <1>6, <1>7, <1>8 DEF RowKeys, ImportOf, Neighbours

LEMMA CommitKeepsRowKeys ==
  ASSUME Base, RowKeys, NEW c \in Changes, Commit(c)
  PROVE  RowKeys'
<1> DEFINE t == change[c]
           wrote == "row" \in t.wrote
<1>1. /\ change'[c].wrote = {}
      /\ \A d \in Changes : d # c => change'[d] = change[d]
  BY CommitChange DEF Idle
<1>2. \A r \in Rows :
        /\ row'[r].import = row[r].import
        /\ wrote /\ r = t.row => row'[r].release = t.to
        /\ ~(wrote /\ r = t.row) => row'[r] = row[r]
  BY CommitRow, NewRowType
<1>3. wrote => t.row \in Rows
  BY NewRowType
<1>4. ASSUME NEW q \in Rows, NEW r \in Rows, q # r, row'[q].import = row'[r].import,
             row'[q].release # None
      PROVE  row'[q].release # row'[r].release
  <2>1. ImportOf(q) = ImportOf(r)
    BY <1>2, <1>4 DEF ImportOf
  <2>2. CASE wrote /\ q = t.row
    <3>1. r \in Neighbours(t.row) /\ t.to # None /\ row'[q].release = t.to /\ row'[r] = row[r]
      BY <1>2, <1>4, <2>1, <2>2 DEF Neighbours
    <3>2. QED BY <2>2, <3>1 DEF RowKeys
  <2>3. CASE wrote /\ r = t.row
    <3>1. q \in Neighbours(t.row) /\ row'[r].release = t.to /\ row'[q] = row[q]
      BY <1>2, <1>4, <2>1, <2>3 DEF Neighbours
    <3>2. QED BY <1>4, <2>3, <3>1 DEF RowKeys
  <2>4. CASE ~(wrote /\ q = t.row) /\ ~(wrote /\ r = t.row)
    <3>1. row'[r] = row[r] /\ row'[q] = row[q]
      BY <1>2, <2>4
    <3>2. QED BY <1>4, <2>1, <3>1 DEF RowKeys
  <2>5. QED BY <2>2, <2>3, <2>4
<1>5. ASSUME NEW d \in Changes, "row" \in change'[d].wrote
      PROVE  /\ d # c /\ change'[d] = change[d] /\ change[d].row \in Rows
             /\ wrote => change[d].row # t.row
             /\ change[d].to # None =>
                  \A q \in Rows : q # change[d].row
                                  /\ row'[q].import = row'[change[d].row].import =>
                    row'[q].release # change[d].to
             /\ change[d].kind = "remap" =>
                  row'[change[d].row].version = change[d].version
  <2>1. d # c /\ change'[d] = change[d] /\ "row" \in change[d].wrote
    BY <1>1, <1>5
  <2>2. change[d].row \in Rows
    BY <2>1, NewRowType
  <2>3. wrote => change[d].row # t.row
    BY <2>1 DEF RowKeys
  <2>4. ASSUME change[d].to # None, NEW q \in Rows, q # change[d].row,
               row'[q].import = row'[change[d].row].import
        PROVE  row'[q].release # change[d].to
    <3>1. ImportOf(q) = ImportOf(change[d].row)
      BY <1>2, <2>2, <2>4 DEF ImportOf
    <3>2. CASE wrote /\ q = t.row
      BY <1>2, <2>1, <2>4, <3>1, <3>2 DEF RowKeys
    <3>3. CASE ~(wrote /\ q = t.row)
      <4>1. q \in Neighbours(change[d].row) /\ row'[q] = row[q]
        BY <1>2, <2>4, <3>1, <3>3 DEF Neighbours
      <4>2. QED BY <2>1, <2>4, <4>1 DEF RowKeys
    <3>4. QED BY <3>2, <3>3
  <2>5. ASSUME change[d].kind = "remap"
        PROVE  row'[change[d].row].version = change[d].version
    <3>1. row'[change[d].row] = row[change[d].row]
      BY <1>2, <2>2, <2>3
    <3>2. QED BY <2>1, <2>5, <3>1 DEF RowKeys
  <2>6. QED BY <2>1, <2>2, <2>3, <2>4, <2>5
<1>6. ASSUME NEW d \in Changes, NEW e \in Changes, d # e,
             "row" \in change'[d].wrote, "row" \in change'[e].wrote
      PROVE  /\ change'[d].row # change'[e].row
             /\ row'[change'[d].row].import = row'[change'[e].row].import
                /\ change'[d].to # None => change'[d].to # change'[e].to
  <2>1. /\ change'[d] = change[d] /\ change'[e] = change[e]
        /\ change[d].row \in Rows /\ change[e].row \in Rows
    BY <1>5, <1>6
  <2>2. /\ row'[change[d].row].import = ImportOf(change[d].row)
        /\ row'[change[e].row].import = ImportOf(change[e].row)
    BY <1>2, <2>1 DEF ImportOf
  <2>3. QED BY <1>6, <2>1, <2>2 DEF RowKeys
<1>7. QED BY <1>4, <1>5, <1>6 DEF RowKeys, ImportOf, Neighbours

-----------------------------------------------------------------------------
(* One active alias per scope *)

LEMMA TurnKeepsAliasKeys ==
  ASSUME Base, AliasKeys, NEW c \in Changes, NEW x \in ChangeType, Turns(c, x),
         "alias" \in x.wrote => /\ "alias" \in change[c].wrote /\ SameTask(c, x)
                                /\ change[c].wrote \subseteq x.wrote
  PROVE  AliasKeys'
<1>1. /\ row' = row /\ alias' = alias /\ change'[c] = x
      /\ \A d \in Changes : d # c => change'[d] = change[d]
  BY DEF Turns, tables, Base, TypeOK
<1>2. ASSUME NEW d \in Changes, "alias" \in change'[d].wrote
      PROVE  /\ "alias" \in change[d].wrote
             /\ change'[d].row = change[d].row /\ change'[d].old = change[d].old
             /\ change[d].wrote \subseteq change'[d].wrote
  BY <1>1, <1>2 DEF SameTask
<1>3. OneAliasPerScope'
  BY <1>1 DEF AliasKeys, OneAliasPerScope
<1>4. ASSUME NEW d \in Changes, "alias" \in change'[d].wrote
      PROVE  ActiveAliases(d, row[change[d].row].scope)' = {}
  <2>1. ActiveAliases(d, row[change[d].row].scope) = {}
    BY <1>2, <1>4 DEF AliasKeys
  <2>2. QED BY <1>1, <1>2, <1>4, <2>1 DEF ActiveAliases, Wrote
<1>5. ASSUME NEW d \in Changes, NEW e \in Changes, d # e,
             "alias" \in change'[d].wrote, "alias" \in change'[e].wrote
      PROVE  row'[change'[d].row].scope # row'[change'[e].row].scope
  BY <1>1, <1>2, <1>5 DEF AliasKeys
<1>6. QED BY <1>3, <1>4, <1>5 DEF AliasKeys

LEMMA CreateKeepsAliasKeys ==
  ASSUME Base, AliasKeys, NEW c \in Changes, CreateAlias(c), Writes(c, "alias"),
         ActiveAliases(c, row[change[c].row].scope) = {}
  PROVE  AliasKeys'
<1> DEFINE t == change[c]
<1>1. PICK x \in ChangeType : Allowed(c, x) /\ SameTask(c, x) /\ x.wrote = t.wrote \union {"alias"}
  BY DEF Writes
<1>2. /\ row' = row /\ alias' = alias /\ change'[c] = x
      /\ \A d \in Changes : d # c => change'[d] = change[d]
  BY <1>1 DEF Allowed, Turns, tables, Base, TypeOK
<1>3. x.row = t.row /\ x.old = t.old
  BY <1>1 DEF SameTask
<1>4. OneAliasPerScope'
  BY <1>2 DEF AliasKeys, OneAliasPerScope
<1>5. ASSUME NEW d \in Changes, d # c, "alias" \in change[d].wrote
      PROVE  row[change[d].row].scope # row[t.row].scope
  BY <1>5 DEF CreateAlias, Others, Wrote
<1>6. ASSUME NEW d \in Changes, "alias" \in change'[d].wrote
      PROVE  ActiveAliases(d, row[change[d].row].scope)' = {}
  <2>1. CASE d = c
    BY <1>1, <1>2, <1>3, <2>1 DEF ActiveAliases, Wrote
  <2>2. CASE d # c
    <3>1. ActiveAliases(d, row[change[d].row].scope) = {}
      BY <1>2, <1>6, <2>2 DEF AliasKeys
    <3>2. QED BY <1>2, <2>2, <3>1 DEF ActiveAliases, Wrote
  <2>3. QED BY <2>1, <2>2
<1>7. ASSUME NEW d \in Changes, NEW e \in Changes, d # e,
             "alias" \in change'[d].wrote, "alias" \in change'[e].wrote
      PROVE  row'[change'[d].row].scope # row'[change'[e].row].scope
  <2>1. CASE d = c
    BY <1>2, <1>3, <1>5, <1>7, <2>1
  <2>2. CASE e = c
    BY <1>2, <1>3, <1>5, <1>7, <2>2
  <2>3. CASE d # c /\ e # c
    BY <1>2, <1>7, <2>3 DEF AliasKeys
  <2>4. QED BY <2>1, <2>2, <2>3
<1>8. QED BY <1>4, <1>6, <1>7 DEF AliasKeys

LEMMA CommitKeepsAliasKeys ==
  ASSUME Base, AliasKeys, NEW c \in Changes, Commit(c)
  PROVE  AliasKeys'
<1> DEFINE t == change[c]
           wrote == "alias" \in t.wrote
           s == row[t.row].scope
<1>1. /\ change'[c].wrote = {}
      /\ \A d \in Changes : d # c => change'[d] = change[d]
  BY CommitChange DEF Idle
<1>2. t \in ChangeType /\ InputOk(c, t) /\ c \in Aliases
  BY DEF Base, TypeOK, Aliases
<1>3. wrote => t.row \in Rows /\ t.to \in Releases
  BY <1>2 DEF InputOk
(* an alias that is active afterwards was so before, or is the new one *)
<1>4. ASSUME NEW a \in Aliases, alias'[a] # None, alias'[a].status = "ACTIVE"
      PROVE  \/ wrote /\ a = c /\ alias'[a].scope = s
             \/ /\ alias[a] # None /\ alias[a].status = "ACTIVE"
                /\ alias'[a].scope = alias[a].scope
                /\ ~("revoke" \in t.wrote /\ a = t.old)
  <2>1. CASE wrote /\ a = c
    <3>1. alias'[a] = NewAlias(s, t.to)
      BY <1>2, <2>1, CommitAlias
    <3>2. QED BY <2>1, <3>1 DEF NewAlias
  <2>2. CASE ~(wrote /\ a = c)
    <3>1. alias[a] # None
      <4>1. CASE "revoke" \in t.wrote /\ a = t.old
        BY <4>1 DEF Base, InputOk, AliasOk
      <4>2. CASE ~("revoke" \in t.wrote /\ a = t.old)
        BY <1>4, <2>2, <4>2, CommitAlias
      <4>3. QED BY <4>1, <4>2
    <3>2. QED BY <1>4, <3>1, CommitKeepsAliases
  <2>3. QED BY <2>1, <2>2
<1>5. ASSUME wrote, NEW a \in Aliases, alias[a] # None, alias[a].status = "ACTIVE",
             ~("revoke" \in t.wrote /\ a = t.old)
      PROVE  alias[a].scope # s
  <2>1. ActiveAliases(c, s) = {}
    BY <1>5 DEF AliasKeys
  <2>2. QED BY <1>5, <2>1 DEF ActiveAliases, Wrote
<1>6. ASSUME NEW a \in Aliases, NEW b \in Aliases, alias'[a] # None, alias'[b] # None,
             alias'[a].status = "ACTIVE", alias'[b].status = "ACTIVE",
             alias'[a].scope = alias'[b].scope
      PROVE  a = b
  <2>1. /\ \/ wrote /\ a = c /\ alias'[a].scope = s
           \/ /\ alias[a] # None /\ alias[a].status = "ACTIVE"
              /\ alias'[a].scope = alias[a].scope /\ ~("revoke" \in t.wrote /\ a = t.old)
        /\ \/ wrote /\ b = c /\ alias'[b].scope = s
           \/ /\ alias[b] # None /\ alias[b].status = "ACTIVE"
              /\ alias'[b].scope = alias[b].scope /\ ~("revoke" \in t.wrote /\ b = t.old)
    BY <1>4, <1>6
  <2>2. CASE wrote /\ a = c /\ alias'[a].scope = s
    BY <1>5, <1>6, <2>1, <2>2
  <2>3. CASE wrote /\ b = c /\ alias'[b].scope = s
    BY <1>5, <1>6, <2>1, <2>3
  <2>4. CASE /\ alias[a] # None /\ alias[a].status = "ACTIVE" /\ alias'[a].scope = alias[a].scope
             /\ alias[b] # None /\ alias[b].status = "ACTIVE" /\ alias'[b].scope = alias[b].scope
    BY <1>6, <2>4 DEF AliasKeys, OneAliasPerScope
  <2>5. QED BY <2>1, <2>2, <2>3, <2>4
<1>7. ASSUME NEW d \in Changes, "alias" \in change'[d].wrote
      PROVE  /\ d # c /\ change'[d] = change[d] /\ change[d].row \in Rows
             /\ row'[change[d].row].scope = row[change[d].row].scope
  <2>1. d # c /\ change'[d] = change[d]
    BY <1>1, <1>7
  <2>2. change[d].row \in Rows
    BY <1>7, <2>1 DEF Base, InputOk
  <2>3. QED BY <2>1, <2>2, CommitRowKeepsScope
<1>8. ASSUME NEW d \in Changes, "alias" \in change'[d].wrote
      PROVE  ActiveAliases(d, row[change[d].row].scope)' = {}
  <2>1. /\ d # c /\ change'[d] = change[d] /\ "alias" \in change[d].wrote
        /\ row'[change'[d].row].scope = row[change[d].row].scope
    BY <1>7, <1>8
  <2>2. ActiveAliases(d, row[change[d].row].scope) = {}
    BY <2>1 DEF AliasKeys
  <2>3. wrote => row[change[d].row].scope # s
    BY <2>1 DEF AliasKeys
  <2>4. ASSUME NEW a \in Aliases, alias'[a] # None, alias'[a].status = "ACTIVE",
               alias'[a].scope = row[change[d].row].scope
        PROVE  "revoke" \in change[d].wrote /\ a = change[d].old
    <3>1. /\ alias[a] # None /\ alias[a].status = "ACTIVE"
          /\ alias[a].scope = row[change[d].row].scope
      BY <1>4, <2>3, <2>4
    <3>2. QED BY <2>2, <3>1 DEF ActiveAliases, Wrote
  <2>5. QED BY <2>1, <2>4 DEF ActiveAliases, Wrote
<1>9. ASSUME NEW d \in Changes, NEW e \in Changes, d # e,
             "alias" \in change'[d].wrote, "alias" \in change'[e].wrote
      PROVE  row'[change'[d].row].scope # row'[change'[e].row].scope
  BY <1>7, <1>9 DEF AliasKeys
<1>10. OneAliasPerScope'
  BY <1>6 DEF OneAliasPerScope
<1>11. QED BY <1>8, <1>9, <1>10 DEF AliasKeys

-----------------------------------------------------------------------------
(* One snapshot per row, and per release *)

LEMMA TurnKeepsSnapshotKeys ==
  ASSUME Base, SnapshotKeys, NEW c \in Changes, NEW x \in ChangeType, Turns(c, x),
         "snapshot" \in x.wrote => "snapshot" \in change[c].wrote /\ SameTask(c, x)
  PROVE  SnapshotKeys'
<1>1. /\ row' = row /\ snapshot' = snapshot /\ change'[c] = x
      /\ \A d \in Changes : d # c => change'[d] = change[d]
  BY DEF Turns, tables, Base, TypeOK
<1>2. ASSUME NEW d \in Changes, "snapshot" \in change'[d].wrote
      PROVE  /\ "snapshot" \in change[d].wrote
             /\ change'[d].row = change[d].row /\ change'[d].to = change[d].to
  BY <1>1, <1>2 DEF SameTask
<1>3. QED BY <1>1, <1>2 DEF SnapshotKeys, ImportOf

LEMMA CreateKeepsSnapshotKeys ==
  ASSUME Base, SnapshotKeys, NEW c \in Changes, CreateSnapshot(c), Writes(c, "snapshot"),
         snapshot[change[c].row] = None, ~SnapshotTaken(change[c])
  PROVE  SnapshotKeys'
<1> DEFINE t == change[c]
<1>1. PICK x \in ChangeType :
        Allowed(c, x) /\ SameTask(c, x) /\ x.wrote = t.wrote \union {"snapshot"}
  BY DEF Writes
<1>2. /\ row' = row /\ snapshot' = snapshot /\ change'[c] = x
      /\ \A d \in Changes : d # c => change'[d] = change[d]
  BY <1>1 DEF Allowed, Turns, tables, Base, TypeOK
<1>3. x.row = t.row /\ x.to = t.to
  BY <1>1 DEF SameTask
<1>4. ASSUME NEW d \in Changes, d # c, "snapshot" \in change[d].wrote
      PROVE  /\ change[d].row # t.row
             /\ ImportOf(change[d].row) = ImportOf(t.row) => change[d].to # t.to
  BY <1>4 DEF CreateSnapshot, Others, Wrote
<1>5. ASSUME NEW d \in Changes, "snapshot" \in change'[d].wrote
      PROVE  /\ snapshot[change'[d].row] = None
             /\ \A q \in Rows : ImportOf(q) = ImportOf(change'[d].row) =>
                  snapshot[q] # change'[d].to
  <2>1. CASE d = c
    BY <1>2, <1>3, <2>1 DEF SnapshotTaken
  <2>2. CASE d # c
    BY <1>2, <1>5, <2>2 DEF SnapshotKeys
  <2>3. QED BY <2>1, <2>2
<1>6. ASSUME NEW d \in Changes, NEW e \in Changes, d # e,
             "snapshot" \in change'[d].wrote, "snapshot" \in change'[e].wrote
      PROVE  /\ change'[d].row # change'[e].row
             /\ ImportOf(change'[d].row) = ImportOf(change'[e].row) =>
                  change'[d].to # change'[e].to
  <2>1. CASE d = c
    BY <1>2, <1>3, <1>4, <1>6, <2>1
  <2>2. CASE e = c
    BY <1>2, <1>3, <1>4, <1>6, <2>2
  <2>3. CASE d # c /\ e # c
    BY <1>2, <1>6, <2>3 DEF SnapshotKeys
  <2>4. QED BY <2>1, <2>2, <2>3
<1>7. QED BY <1>2, <1>5, <1>6 DEF SnapshotKeys, ImportOf

LEMMA CommitKeepsSnapshotKeys ==
  ASSUME Base, SnapshotKeys, NEW c \in Changes, Commit(c)
  PROVE  SnapshotKeys'
<1> DEFINE t == change[c]
           wrote == "snapshot" \in t.wrote
<1>1. /\ change'[c].wrote = {}
      /\ \A d \in Changes : d # c => change'[d] = change[d]
  BY CommitChange DEF Idle
<1>2. \A r \in Rows : row'[r].import = row[r].import
  BY CommitRowKeepsScope
<1>3. \A r \in Rows : snapshot'[r] = IF wrote /\ r = t.row THEN t.to ELSE snapshot[r]
  BY CommitSnapshot
<1>4. wrote => t.row \in Rows /\ t.to \in Releases /\ t.to # None
  BY NoneIsNew DEF Base, InputOk
<1>5. ASSUME NEW q \in Rows, NEW r \in Rows, q # r, row'[q].import = row'[r].import,
             snapshot'[q] # None
      PROVE  snapshot'[q] # snapshot'[r]
  <2>1. ImportOf(q) = ImportOf(r)
    BY <1>2, <1>5 DEF ImportOf
  <2>2. QED BY <1>3, <1>5, <2>1 DEF SnapshotKeys
<1>6. ASSUME NEW d \in Changes, "snapshot" \in change'[d].wrote
      PROVE  /\ d # c /\ change'[d] = change[d] /\ change[d].row \in Rows
             /\ snapshot'[change[d].row] = None
             /\ \A q \in Rows : row'[q].import = row'[change[d].row].import =>
                  snapshot'[q] # change[d].to
  <2>1. d # c /\ change'[d] = change[d] /\ "snapshot" \in change[d].wrote
    BY <1>1, <1>6
  <2>2. change[d].row \in Rows
    BY <2>1 DEF Base, InputOk
  <2>3. wrote => change[d].row # t.row
    BY <2>1 DEF SnapshotKeys
  <2>4. snapshot'[change[d].row] = None
    BY <1>3, <2>1, <2>2, <2>3 DEF SnapshotKeys
  <2>5. ASSUME NEW q \in Rows, row'[q].import = row'[change[d].row].import
        PROVE  snapshot'[q] # change[d].to
    <3>1. ImportOf(q) = ImportOf(change[d].row)
      BY <1>2, <2>2, <2>5 DEF ImportOf
    <3>2. QED BY <1>3, <2>1, <3>1 DEF SnapshotKeys
  <2>6. QED BY <2>1, <2>2, <2>4, <2>5
<1>7. ASSUME NEW d \in Changes, NEW e \in Changes, d # e,
             "snapshot" \in change'[d].wrote, "snapshot" \in change'[e].wrote
      PROVE  /\ change'[d].row # change'[e].row
             /\ row'[change'[d].row].import = row'[change'[e].row].import =>
                  change'[d].to # change'[e].to
  <2>1. /\ change'[d] = change[d] /\ change'[e] = change[e]
        /\ change[d].row \in Rows /\ change[e].row \in Rows
    BY <1>6, <1>7
  <2>2. /\ row'[change[d].row].import = ImportOf(change[d].row)
        /\ row'[change[e].row].import = ImportOf(change[e].row)
    BY <1>2, <2>1 DEF ImportOf
  <2>3. QED BY <1>7, <2>1, <2>2 DEF SnapshotKeys
<1>8. QED BY <1>5, <1>6, <1>7 DEF SnapshotKeys, ImportOf

-----------------------------------------------------------------------------
(* The keys, always *)

LEMMA InitKeys == Init => RowKeys /\ AliasKeys /\ SnapshotKeys
<1> SUFFICES ASSUME Init PROVE RowKeys /\ AliasKeys /\ SnapshotKeys
  OBVIOUS
<1>1. \A c \in Changes : change[c].wrote = {}
  BY DEF Init, Idle
<1>2. PICK import \in [Rows -> Imports] : \E scope \in [Rows -> Scopes] :
        \E active \in [Scopes -> Releases \union {None}] : LeftBehind(import, scope, active)
  BY DEF Init
<1>3. PICK scope \in [Rows -> Scopes] :
        \E active \in [Scopes -> Releases \union {None}] : LeftBehind(import, scope, active)
  BY <1>2
<1>4. PICK active \in [Scopes -> Releases \union {None}] : LeftBehind(import, scope, active)
  BY <1>3
<1>5. \A q, r \in Rows :
        q # r /\ import[q] = import[r] /\ snapshot[q] # None => snapshot[q] # snapshot[r]
  BY <1>4 DEF LeftBehind
<1>6. ASSUME NEW r \in Rows
      PROVE  /\ row[r].import = import[r]
             /\ row[r].release # None => row[r].release = snapshot[r]
  BY <1>4 DEF LeftBehind
<1>7. ASSUME NEW a \in Aliases, alias[a] # None
      PROVE  a \in Scopes /\ alias[a].scope = a
  BY <1>4, <1>7 DEF LeftBehind, NewAlias
<1>8. RowKeys
  BY <1>1, <1>5, <1>6 DEF RowKeys, ImportOf
<1>9. AliasKeys
  BY <1>1, <1>7 DEF AliasKeys, OneAliasPerScope
<1>10. SnapshotKeys
  BY <1>1, <1>5, <1>6 DEF SnapshotKeys, ImportOf
<1>11. QED BY <1>8, <1>9, <1>10

Keys == RowKeys /\ AliasKeys /\ SnapshotKeys

LEMMA QuietKeepsKeys ==
  ASSUME Base, Keys, NEW c \in Changes, Quiet(c)
  PROVE  Keys'
<1>1. PICK x \in ChangeType : Allowed(c, x) /\ Keeps(c, x)
  BY DEF Quiet
<1>2. Turns(c, x)
  BY <1>1 DEF Allowed
<1>3. \A what : what \in x.wrote => x.wrote = change[c].wrote /\ SameTask(c, x)
  BY <1>1 DEF Keeps
<1>4. RowKeys'
  BY <1>2, <1>3, TurnKeepsRowKeys DEF Keys
<1>5. AliasKeys'
  BY <1>2, <1>3, TurnKeepsAliasKeys DEF Keys
<1>6. SnapshotKeys'
  BY <1>2, <1>3, TurnKeepsSnapshotKeys DEF Keys
<1>7. QED BY <1>4, <1>5, <1>6 DEF Keys

(* A write takes the keys of what it writes, and disturbs no other. *)
LEMMA WriteKeepsOtherKeys ==
  ASSUME Base, Keys, NEW c \in Changes, NEW what \in {"revoke", "alias", "snapshot", "row"},
         Writes(c, what)
  PROVE  /\ what # "row" => RowKeys'
         /\ what # "alias" => AliasKeys'
         /\ what # "snapshot" => SnapshotKeys'
<1>1. PICK x \in ChangeType :
        Allowed(c, x) /\ SameTask(c, x) /\ x.wrote = change[c].wrote \union {what}
  BY DEF Writes
<1>2. Turns(c, x)
  BY <1>1 DEF Allowed
<1>3. ASSUME what # "row" PROVE RowKeys'
  BY <1>1, <1>2, <1>3, TurnKeepsRowKeys DEF Keys
<1>4. ASSUME what # "alias" PROVE AliasKeys'
  BY <1>1, <1>2, <1>4, TurnKeepsAliasKeys DEF Keys
<1>5. ASSUME what # "snapshot" PROVE SnapshotKeys'
  BY <1>1, <1>2, <1>5, TurnKeepsSnapshotKeys DEF Keys
<1>6. QED BY <1>3, <1>4, <1>5

LEMMA StepKeepsKeys ==
  ASSUME Base, Keys, [Next]_vars
  PROVE  Keys'
<1>1. CASE UNCHANGED vars
  <2>1. row' = row /\ alias' = alias /\ snapshot' = snapshot /\ change' = change
    BY <1>1 DEF vars
  <2>2. RowKeys'
    BY <2>1 DEF Keys, RowKeys, ImportOf, Neighbours
  <2>3. AliasKeys'
    BY <2>1 DEF Keys, AliasKeys, OneAliasPerScope, ActiveAliases, Wrote
  <2>4. SnapshotKeys'
    BY <2>1 DEF Keys, SnapshotKeys, ImportOf
  <2>5. QED BY <2>2, <2>3, <2>4 DEF Keys
<1>2. ASSUME NEW c \in Changes, Step(c) PROVE Keys'
  <2>1. CASE Quiet(c)
    BY <2>1, QuietKeepsKeys
  <2>2. CASE Writes(c, "revoke")
    BY <2>2, WriteKeepsOtherKeys DEF Keys
  <2>3. CASE CreateAlias(c) /\ Writes(c, "alias")
             /\ ActiveAliases(c, row[change[c].row].scope) = {}
    BY <2>3, WriteKeepsOtherKeys, CreateKeepsAliasKeys DEF Keys
  <2>4. CASE CreateSnapshot(c) /\ Writes(c, "snapshot")
             /\ snapshot[change[c].row] = None /\ ~SnapshotTaken(change[c])
    BY <2>4, WriteKeepsOtherKeys, CreateKeepsSnapshotKeys DEF Keys
  <2>5. CASE WriteRow(c) /\ Writes(c, "row") /\ Wins(c)
    BY <2>5, WriteKeepsOtherKeys, WriteKeepsRowKeys DEF Keys
  <2>6. CASE Commit(c)
    BY <2>6, CommitKeepsRowKeys, CommitKeepsAliasKeys, CommitKeepsSnapshotKeys DEF Keys
  <2>7. QED BY <1>2, <2>1, <2>2, <2>3, <2>4, <2>5, <2>6, StepKinds
<1>3. QED BY <1>1, <1>2 DEF Next

LEMMA KeysAlways == Spec => [](Base /\ Keys)
<1>1. Init => Base /\ Keys
  BY InitBase, InitKeys DEF Keys
<1>2. Base /\ Keys /\ [Next]_vars => (Base /\ Keys)'
  BY StepKeepsBase, StepKeepsKeys
<1>3. QED BY <1>1, <1>2, PTL DEF Spec

-----------------------------------------------------------------------------
(* What follows from them *)

(* No interleaving of confirmations, remaps and unmatchings confirms two rows
   of one import for one release: what findFirst misses, confirmedScopeKey
   stops. *)
THEOREM MappingOneRow == Spec => []OneRowPerRelease
<1>1. Base /\ Keys => OneRowPerRelease
  <2> SUFFICES ASSUME Base, Keys, NEW q \in Rows, NEW r \in Rows, q # r,
                      ImportOf(q) = ImportOf(r), row[q].status = "CONFIRMED"
               PROVE  row[q].release # row[r].release
    BY DEF OneRowPerRelease
  <2>1. row[q].release # None
    BY NoneIsNew DEF Base, TypeOK, Row
  <2>2. QED BY <2>1 DEF Keys, RowKeys
<1>2. QED BY <1>1, KeysAlways, PTL

(* A scope never has two active aliases (activeScopeKey), though each request
   looks for one before it creates one, and may revoke one it read long ago. *)
THEOREM MappingOneAlias == Spec => []OneAliasPerScope
<1>1. Base /\ Keys => OneAliasPerScope
  BY DEF Keys, AliasKeys
<1>2. QED BY <1>1, KeysAlways, PTL

(* Every confirmed row has its snapshot, one per release of an import: a remap
   takes none, so the row must have kept the one it was first given. *)
THEOREM MappingFigures == Spec => []ConfirmedRowsHaveFigures
<1>1. Base /\ Keys => ConfirmedRowsHaveFigures
  BY DEF Base, Keys, SnapshotKeys, ConfirmedRowsHaveFigures
<1>2. QED BY <1>1, KeysAlways, PTL

(* A snapshot, once taken, is never replaced, whoever commits afterwards. *)
THEOREM MappingSnapshotsStay == Spec => SnapshotsStay
<1>1. Base /\ Keys /\ [Next]_vars =>
        [\A r \in Rows : snapshot[r] # None => snapshot'[r] = snapshot[r]]_vars
  <2> SUFFICES ASSUME Base, Keys, [Next]_vars, NEW r \in Rows, snapshot[r] # None
               PROVE  snapshot'[r] = snapshot[r]
    OBVIOUS
  <2>1. CASE UNCHANGED vars
    BY <2>1 DEF vars
  <2>2. ASSUME NEW c \in Changes, Step(c) PROVE snapshot'[r] = snapshot[r]
    <3>1. CASE Commit(c)
      <4>1. "snapshot" \in change[c].wrote => r # change[c].row
        BY DEF Keys, SnapshotKeys
      <4>2. QED BY <3>1, <4>1, CommitSnapshot
    <3>2. CASE \E x \in ChangeType : Allowed(c, x)
      BY <3>2 DEF Allowed, Turns, tables
    <3>3. QED BY <2>2, <3>1, <3>2, StepKinds DEF Quiet, Writes
  <2>3. QED BY <2>1, <2>2 DEF Next
<1>2. QED BY <1>1, KeysAlways, PTL DEF Spec, SnapshotsStay

(* A remap that commits replaces the version it had read: whatever was decided
   about the row in between, by whomever, makes it fail (mappingVersion). *)
THEOREM MappingRemap == Spec => RemapKnowsWhatItReplaces
<1>1. Base /\ Keys /\ [Next]_vars =>
        [\A c \in Changes :
           change[c].kind = "remap" /\ change'[c].pc = "committed" =>
             row[change[c].row].version = change[c].version]_vars
  <2> SUFFICES ASSUME Base, Keys, [Next]_vars, NEW c \in Changes,
                      change[c].kind = "remap", change'[c].pc = "committed"
               PROVE  row[change[c].row].version = change[c].version
    OBVIOUS
  <2>1. change[c].pc # "committed"
    BY DEF Base, InputOk
  <2>2. PICK d \in Changes : Step(d)
    BY <2>1 DEF Next, vars
  <2>3. CASE Commit(d)
    <3>1. c = d
      BY <2>1, <2>3, CommitChange
    <3>2. change[c].pc = "commit"
      BY <2>3, <3>1 DEF Commit
    <3>3. "row" \in change[c].wrote
      BY <3>2 DEF Base, InputOk
    <3>4. QED BY <3>3 DEF Keys, RowKeys
  <2>4. ASSUME NEW x \in ChangeType, Allowed(d, x), Keeps(d, x) \/ SameTask(d, x) PROVE FALSE
    <3>1. c = d /\ x.pc = "committed"
      BY <2>1, <2>4 DEF Allowed, Turns, Base, TypeOK
    <3>2. x.kind = "remap"
      BY <2>4, <3>1 DEF Keeps, SameTask
    <3>3. QED BY <2>4, <3>1, <3>2 DEF Allowed, InputOk
  <2>5. QED BY <2>2, <2>3, <2>4, StepKinds DEF Quiet, Writes
<1>2. QED BY <1>1, KeysAlways, PTL DEF Spec, RemapKnowsWhatItReplaces

-----------------------------------------------------------------------------
(* What superseded an alias *)

(* A remap revokes an alias of its own song that is not good for its release, and
   has another at hand when it writes, if it wants one. *)
Late == {"findSnapshot", "createSnapshot", "writeRow", "count", "commit"}
LinkOk(x) ==
  x.kind = "remap" =>
    /\ x.old # None => /\ alias[x.old].scope = row[x.row].scope
                       /\ alias[x.old].release # x.to
    /\ x.wantsAlias /\ x.pc \in Late => x.alias # None
Links == SupersededByAgrees /\ \A c \in Changes : LinkOk(change[c])

LEMMA IdleLinks == LinkOk(Idle) /\ LinkOk([Idle EXCEPT !.pc = "committed"])
  BY DEF LinkOk, Late, Idle

(* A step that is no commit leaves the tables alone; what it turns c into is linked. *)
LEMMA TurnLinks ==
  ASSUME Base, Links, NEW c \in Changes, Step(c), ~Commit(c)
  PROVE  UNCHANGED tables /\ LinkOk(change'[c]) /\ \A d \in Changes : d # c => change'[d] = change[d]
<1> DEFINE t == change[c]
<1>0. /\ t \in ChangeType /\ InputOk(c, t) /\ AliasOk(c, t) /\ LinkOk(t)
      /\ change \in [Changes -> ChangeType] /\ row \in [Rows -> Row]
  BY DEF Base, TypeOK, Links
<1>1. UNCHANGED tables
  BY DEF Step, ConfirmRead, RemapRead, UnmatchRead, RevokeRead, ReadRelations, FindDuplicate,
     RevokeAlias, FindAlias, CreateAlias, FindSnapshot, CreateSnapshot, WriteRow, CountRows, Abort
<1>g. ASSUME NEW x, change' = [change EXCEPT ![c] = x], LinkOk(x)
      PROVE  LinkOk(change'[c]) /\ \A d \in Changes : d # c => change'[d] = change[d]
  BY <1>0, <1>g
<1>r. ASSUME Refuse(c) PROVE LinkOk(change'[c]) /\ \A d \in Changes : d # c => change'[d] = change[d]
  BY <1>r, <1>g, IdleLinks DEF Refuse
<1>2. ASSUME NEW r \in Rows, NEW rel \in Releases, NEW w \in BOOLEAN, ConfirmRead(c, r, rel, w)
      PROVE  LinkOk(change'[c]) /\ \A d \in Changes : d # c => change'[d] = change[d]
  <2> DEFINE x == [Idle EXCEPT !.pc = "readRelations", !.kind = "confirm", !.row = r, !.to = rel,
                               !.wantsAlias = w]
  <2>1. LinkOk(x) BY DEF LinkOk, Late, Idle
  <2>2. change' = [change EXCEPT ![c] = x] BY <1>2 DEF ConfirmRead
  <2> HIDE DEF x
  <2> QED BY <1>g, <2>1, <2>2
<1>3. ASSUME NEW r \in Rows, NEW rel \in Releases, NEW w \in BOOLEAN, RemapRead(c, r, rel, w)
      PROVE  LinkOk(change'[c]) /\ \A d \in Changes : d # c => change'[d] = change[d]
  <2> DEFINE x == [Idle EXCEPT !.pc = "readRelations", !.kind = "remap", !.row = r, !.to = rel,
                     !.wantsAlias = w, !.version = row[r].version, !.old = row[r].alias]
  <2>1. row[r].release # rel /\ change' = [change EXCEPT ![c] = x] BY <1>3 DEF RemapRead
  <2>2. row[r].alias # None => alias[row[r].alias].scope = row[r].scope
                               /\ alias[row[r].alias].release # rel
    BY <2>1 DEF Base, AppliedAliasAgrees
  <2>3. LinkOk(x) BY <2>2 DEF LinkOk, Late, Idle
  <2> HIDE DEF x
  <2> QED BY <1>g, <2>1, <2>3
<1>4. ASSUME NEW r \in Rows, UnmatchRead(c, r)
      PROVE  LinkOk(change'[c]) /\ \A d \in Changes : d # c => change'[d] = change[d]
  <2> DEFINE x == [Idle EXCEPT !.pc = "writeRow", !.kind = "unmatch", !.row = r]
  <2>1. LinkOk(x) BY DEF LinkOk, Late, Idle
  <2>2. change' = [change EXCEPT ![c] = x] BY <1>4 DEF UnmatchRead
  <2> HIDE DEF x
  <2> QED BY <1>g, <2>1, <2>2
<1>5. ASSUME NEW a \in Aliases, RevokeRead(c, a)
      PROVE  LinkOk(change'[c]) /\ \A d \in Changes : d # c => change'[d] = change[d]
  <2> DEFINE x == [Idle EXCEPT !.pc = "revokeAlias", !.kind = "revoke", !.old = a]
  <2>1. LinkOk(x) BY DEF LinkOk, Late, Idle
  <2>2. change' = [change EXCEPT ![c] = x] BY <1>5 DEF RevokeRead
  <2> HIDE DEF x
  <2> QED BY <1>g, <2>1, <2>2
<1>6. ASSUME NEW x, change' = [change EXCEPT ![c] = x],
             x.kind = t.kind, x.row = t.row, x.to = t.to, x.wantsAlias = t.wantsAlias,
             x.old \in {None, t.old}, x.alias # None \/ x.alias = t.alias,
             x.pc \in Late /\ t.kind = "remap" /\ t.wantsAlias => x.alias # None
      PROVE  LinkOk(change'[c]) /\ \A d \in Changes : d # c => change'[d] = change[d]
  <2>1. LinkOk(x) BY <1>0, <1>6 DEF LinkOk
  <2> QED BY <1>g, <1>6, <2>1
<1>7. CASE ReadRelations(c)
  <2> DEFINE has == t.kind = "confirm" /\ snapshot[t.row] # None
             old == IF t.old # None /\ alias[t.old].status = "ACTIVE" THEN t.old ELSE None
             x == [t EXCEPT !.pc = "findDuplicate", !.hasSnapshot = has, !.old = old]
  <2>1. change' = [change EXCEPT ![c] = x] BY <1>7 DEF ReadRelations
  <2>2. old \in {None, t.old} OBVIOUS
  <2> HIDE DEF has, old
  <2>3. /\ x.kind = t.kind /\ x.row = t.row /\ x.to = t.to /\ x.wantsAlias = t.wantsAlias
        /\ x.old = old /\ x.alias = t.alias /\ x.pc = "findDuplicate"
    BY <1>0 DEF ChangeType
  <2> HIDE DEF x
  <2> QED BY <1>1, <1>6, <2>1, <2>2, <2>3 DEF Late
<1>8. ASSUME NEW to, Goto(c, to), to \in Late /\ t.kind = "remap" /\ t.wantsAlias => t.alias # None
      PROVE  LinkOk(change'[c]) /\ \A d \in Changes : d # c => change'[d] = change[d]
  <2> DEFINE x == [t EXCEPT !.pc = to]
  <2>1. change' = [change EXCEPT ![c] = x] BY <1>8 DEF Goto
  <2>2. /\ x.kind = t.kind /\ x.row = t.row /\ x.to = t.to /\ x.wantsAlias = t.wantsAlias
        /\ x.old = t.old /\ x.alias = t.alias /\ x.pc = to
    BY <1>0 DEF ChangeType
  <2> HIDE DEF x
  <2> QED BY <1>6, <1>8, <2>1, <2>2
\* A step that writes something has it in "wrote".
<1>w. ASSUME NEW to, NEW wr, change' = [change EXCEPT ![c] = [t EXCEPT !.pc = to, !.wrote = wr]],
             to \in Late /\ t.kind = "remap" /\ t.wantsAlias => t.alias # None
      PROVE  LinkOk(change'[c]) /\ \A d \in Changes : d # c => change'[d] = change[d]
  <2> DEFINE x == [t EXCEPT !.pc = to, !.wrote = wr]
  <2>1. change' = [change EXCEPT ![c] = x] BY <1>w
  <2>2. /\ x.kind = t.kind /\ x.row = t.row /\ x.to = t.to /\ x.wantsAlias = t.wantsAlias
        /\ x.old = t.old /\ x.alias = t.alias /\ x.pc = to
    BY <1>0 DEF ChangeType
  <2> HIDE DEF x
  <2> QED BY <1>6, <1>w, <2>1, <2>2
<1>9. CASE FindDuplicate(c)
  <2>1. \/ Refuse(c)
        \/ \E to \in {"revokeAlias", "findAlias"} : Goto(c, to)
        \/ ~t.wantsAlias /\ \E to \in {"findSnapshot", "writeRow"} : Goto(c, to)
    BY <1>9 DEF FindDuplicate
  <2> QED BY <1>1, <1>r, <1>8, <2>1 DEF Late
<1>10. CASE RevokeAlias(c)
  <2> DEFINE to == IF t.kind = "revoke" THEN "commit" ELSE IF t.wantsAlias THEN "findAlias" ELSE "writeRow"
             wr == t.wrote \union {"revoke"}
  <2>1. change' = [change EXCEPT ![c] = [t EXCEPT !.pc = to, !.wrote = wr]]
    BY <1>10 DEF RevokeAlias
  <2>2. to \in Late /\ t.kind = "remap" => ~t.wantsAlias BY DEF Late
  <2> HIDE DEF to, wr
  <2> QED BY <1>1, <1>w, <2>1, <2>2
<1>11. CASE FindAlias(c)
  <2>1. ASSUME NEW a \in Aliases, change' = [change EXCEPT ![c].pc = AfterAlias(c), ![c].alias = a]
        PROVE  LinkOk(change'[c]) /\ \A d \in Changes : d # c => change'[d] = change[d]
    <3> DEFINE x == [t EXCEPT !.pc = AfterAlias(c), !.alias = a]
    <3>1. a # None BY NoneIsNew
    <3>2. change' = [change EXCEPT ![c] = x] BY <2>1
    <3>3. /\ x.kind = t.kind /\ x.row = t.row /\ x.to = t.to /\ x.wantsAlias = t.wantsAlias
          /\ x.old = t.old /\ x.alias = a
      BY <1>0 DEF ChangeType
    <3> HIDE DEF x
    <3> QED BY <1>6, <3>1, <3>2, <3>3
  <2> QED BY <1>11, <1>r, <1>8, <2>1 DEF FindAlias, ActiveAliases, Late
<1>12. CASE CreateAlias(c)
  <2> DEFINE wr == t.wrote \union {"alias"}
             x == [t EXCEPT !.pc = AfterAlias(c), !.alias = c, !.wrote = wr]
  <2>1. c # None BY NoneIsNew DEF Aliases
  <2>2. Refuse(c) \/ change' = [change EXCEPT ![c] = x] BY <1>12 DEF CreateAlias
  <2> HIDE DEF wr
  <2>3. /\ x.kind = t.kind /\ x.row = t.row /\ x.to = t.to /\ x.wantsAlias = t.wantsAlias
        /\ x.old = t.old /\ x.alias = c
    BY <1>0 DEF ChangeType
  <2> HIDE DEF x
  <2> QED BY <1>1, <1>r, <1>6, <2>1, <2>2, <2>3
<1>13. CASE FindSnapshot(c) \/ CreateSnapshot(c) \/ WriteRow(c)
  <2>1. t.kind = "remap" /\ t.wantsAlias => t.alias # None
    BY <1>0, <1>13 DEF LinkOk, Late, FindSnapshot, CreateSnapshot, WriteRow
  <2>2. \/ Refuse(c) \/ \E to : Goto(c, to)
        \/ \E to, wr : change' = [change EXCEPT ![c] = [t EXCEPT !.pc = to, !.wrote = wr]]
    <3>1. CASE FindSnapshot(c) BY <3>1 DEF FindSnapshot
    <3>2. CASE CreateSnapshot(c)
      <4>1. Refuse(c) \/ change' = [change EXCEPT ![c] = [t EXCEPT !.pc = "writeRow",
                                                                   !.wrote = t.wrote \union {"snapshot"}]]
        BY <3>2 DEF CreateSnapshot
      <4> QED BY <4>1
    <3>3. CASE WriteRow(c)
      <4>1. Refuse(c) \/ change' = [change EXCEPT ![c] = [t EXCEPT !.pc = "count",
                                                                   !.wrote = t.wrote \union {"row"}]]
        BY <3>3 DEF WriteRow
      <4> QED BY <4>1
    <3> QED BY <1>13, <3>1, <3>2, <3>3
  <2> QED BY <1>1, <1>r, <1>8, <1>w, <2>1, <2>2
<1>15. CASE CountRows(c)
  <2> DEFINE n == CountOf([row EXCEPT ![t.row] = NewRow(c)], ImportOf(t.row))
             x == [t EXCEPT !.pc = "commit", !.count = n]
  <2>1. t.pc = "count" /\ change' = [change EXCEPT ![c] = x] BY <1>15 DEF CountRows
  <2> HIDE DEF n
  <2>2. /\ x.kind = t.kind /\ x.row = t.row /\ x.to = t.to /\ x.wantsAlias = t.wantsAlias
        /\ x.old = t.old /\ x.alias = t.alias
    BY <1>0 DEF ChangeType
  <2> HIDE DEF x
  <2>3. t.kind = "remap" /\ t.wantsAlias => t.alias # None BY <1>0, <2>1 DEF LinkOk, Late
  <2> QED BY <1>1, <1>6, <2>1, <2>2, <2>3
<1>16. CASE Abort(c) BY <1>16, <1>r DEF Abort
<1> HIDE DEF t
<1> QED
  BY <1>1, <1>2, <1>3, <1>4, <1>5, <1>7, <1>9, <1>10, <1>11, <1>12, <1>13, <1>15, <1>16 DEF Step

LEMMA CommitLinks ==
  ASSUME Base, Links, NEW c \in Changes, Commit(c)
  PROVE  SupersededByAgrees'
<1> DEFINE t == change[c]
<1>0. /\ t \in ChangeType /\ InputOk(c, t) /\ AliasOk(c, t) /\ LinkOk(t) /\ t.pc = "commit"
      /\ alias \in [Aliases -> Alias \union {None}] /\ alias[c] = None /\ SupersededByAgrees
  BY DEF Base, TypeOK, Links, Commit
<1> SUFFICES ASSUME NEW a \in Aliases, alias'[a] # None
             PROVE  /\ alias'[a].status = "SUPERSEDED" => alias'[a].supersededBy # None
                    /\ alias'[a].supersededBy # None =>
                         /\ alias'[a].status # "ACTIVE"
                         /\ alias'[alias'[a].supersededBy] # None
                         /\ alias'[alias'[a].supersededBy].scope = alias'[a].scope
                         /\ alias'[alias'[a].supersededBy].release # alias'[a].release
  BY DEF SupersededByAgrees
\* What an alias named before, it may name now.
<1>k. ASSUME alias[a] # None, alias[a].supersededBy # None
      PROVE  /\ alias[a].status # "ACTIVE"
             /\ alias'[alias[a].supersededBy] # None
             /\ alias'[alias[a].supersededBy].scope = alias[a].scope
             /\ alias'[alias[a].supersededBy].release # alias[a].release
  <2>1. PICK b \in Aliases : b = alias[a].supersededBy
    BY <1>0, <1>k DEF Alias
  <2>2. /\ alias[a].status # "ACTIVE" /\ alias[b] # None
        /\ alias[b].scope = alias[a].scope /\ alias[b].release # alias[a].release
    BY <1>0, <1>k, <2>1 DEF SupersededByAgrees
  <2>3. alias'[b] # None /\ alias'[b].scope = alias[b].scope /\ alias'[b].release = alias[b].release
    BY <2>2, CommitKeepsAliases
  <2> QED BY <2>1, <2>2, <2>3
<1>1. CASE "alias" \in t.wrote /\ a = c
  <2>1. alias'[a] = NewAlias(row[t.row].scope, t.to) BY <1>1, CommitAlias
  <2> QED BY <2>1 DEF NewAlias
<1>2. CASE ~("alias" \in t.wrote /\ a = c) /\ "revoke" \in t.wrote /\ a = t.old
  <2>0. alias[a] # None /\ alias[a] \in Alias /\ a # None
    BY <1>0, <1>2, NoneIsNew DEF AliasOk
  <2>1. /\ alias'[a] = Revoked(c, a)
        /\ alias'[a].scope = alias[a].scope /\ alias'[a].release = alias[a].release
    BY <1>2, <2>0, CommitAlias, RevokedType
  <2>2. CASE t.kind = "remap" /\ t.wantsAlias
    <3>1. t.alias \in Aliases /\ t.alias # None
      BY <1>0, <2>2 DEF LinkOk, Late, ChangeType
    <3>2. alias'[a].supersededBy = t.alias /\ alias'[a].status = "SUPERSEDED"
      BY <2>0, <2>1, <2>2 DEF Revoked, Alias
    <3>3. /\ alias'[t.alias] # None
          /\ alias'[t.alias].scope = row[t.row].scope /\ alias'[t.alias].release = t.to
      <4>1. CASE t.alias = c /\ "alias" \in t.wrote
        <5>1. /\ alias'[c] = NewAlias(row[t.row].scope, t.to)
              /\ t.row \in Rows /\ t.to \in Releases
          BY <1>0, <2>2, <3>1, <4>1, CommitAlias DEF InputOk
        <5>2. NewAlias(row[t.row].scope, t.to) \in Alias
          BY <5>1 DEF NewAlias, Alias, Base, TypeOK, Row
        <5> QED BY <4>1, <5>1, <5>2, NoneIsNew DEF NewAlias
      <4>2. CASE /\ alias[t.alias] # None /\ alias[t.alias].scope = row[t.row].scope
                 /\ alias[t.alias].release = t.to
        <5>1. PICK b \in Aliases : b = t.alias BY <3>1
        <5> QED BY <4>2, <5>1, CommitKeepsAliases
      <4> QED BY <1>0, <3>1, <4>1, <4>2 DEF AliasOk
    <3>4. alias[a].scope = row[t.row].scope /\ alias[a].release # t.to
      BY <1>0, <1>2, <2>0, <2>2 DEF LinkOk
    <3> QED BY <2>1, <3>1, <3>2, <3>3, <3>4
  <2>3. CASE ~(t.kind = "remap" /\ t.wantsAlias)
    <3>1. alias'[a].supersededBy = alias[a].supersededBy /\ alias'[a].status = "REVOKED"
      BY <2>0, <2>1, <2>3 DEF Revoked, Alias
    <3> QED BY <1>k, <2>0, <2>1, <3>1
  <2> QED BY <2>2, <2>3
<1>3. CASE ~("alias" \in t.wrote /\ a = c) /\ ~("revoke" \in t.wrote /\ a = t.old)
  <2>1. alias'[a] = alias[a] BY <1>3, CommitAlias
  <2> QED BY <1>0, <1>k, <2>1 DEF SupersededByAgrees
<1> QED BY <1>1, <1>2, <1>3

LEMMA LinksStep ==
  ASSUME Base, Links, [Next]_vars
  PROVE  Links'
<1>1. CASE UNCHANGED vars BY <1>1 DEF vars, Links, SupersededByAgrees, LinkOk
<1>2. ASSUME NEW c \in Changes, Step(c), ~Commit(c) PROVE Links'
  <2>1. /\ row' = row /\ alias' = alias /\ LinkOk(change'[c])
        /\ \A d \in Changes : d # c => change'[d] = change[d]
    BY <1>2, TurnLinks DEF tables
  <2>2. \A d \in Changes : LinkOk(change'[d]) BY <2>1 DEF Links
  <2>3. \A d \in Changes : LinkOk(change[d])' BY <2>1, <2>2 DEF LinkOk
  <2>4. SupersededByAgrees' BY <2>1 DEF Links, SupersededByAgrees
  <2> QED BY <2>3, <2>4 DEF Links
<1>3. ASSUME NEW c \in Changes, Commit(c) PROVE Links'
  <2>1. SupersededByAgrees' BY <1>3, CommitLinks
  <2>2. ASSUME NEW d \in Changes PROVE LinkOk(change[d])'
    <3>1. CASE d = c
      BY <1>3, <3>1, CommitChange DEF LinkOk, Idle
    <3>2. CASE d # c
      <4>1. change'[d] = change[d] /\ LinkOk(change[d]) /\ AliasOk(d, change[d]) /\ InputOk(d, change[d])
            /\ change[d] \in ChangeType
        BY <1>3, <3>2, CommitChange DEF Links, Base, TypeOK
      <4>2. ASSUME change[d].kind = "remap", change[d].old # None
            PROVE  /\ alias'[change[d].old].scope = row'[change[d].row].scope
                   /\ alias'[change[d].old].release # change[d].to
        <5>1. PICK a \in Aliases : a = change[d].old /\ alias[a] # None
          BY <4>1, <4>2 DEF ChangeType, AliasOk
        <5>2. PICK r \in Rows : r = change[d].row BY <4>1, <4>2 DEF InputOk
        <5>3. alias'[a].scope = alias[a].scope /\ alias'[a].release = alias[a].release
              /\ row'[r].scope = row[r].scope
          BY <1>3, <5>1, CommitKeepsAliases, CommitRowKeepsScope
        <5> QED BY <4>1, <4>2, <5>1, <5>2, <5>3 DEF LinkOk
      <4> QED BY <4>1, <4>2 DEF LinkOk
    <3> QED BY <3>1, <3>2
  <2> QED BY <2>1, <2>2 DEF Links
<1> QED BY <1>1, <1>2, <1>3 DEF Next

LEMMA InitLinks == Init => Links
<1> SUFFICES ASSUME Init PROVE Links
  OBVIOUS
<1>1. PICK import \in [Rows -> Imports], scope \in [Rows -> Scopes],
           active \in [Scopes -> Releases \union {None}] : LeftBehind(import, scope, active)
  BY DEF Init
<1>2. \A a \in Aliases : alias[a] # None => alias[a] = NewAlias(a, active[a])
  BY <1>1 DEF LeftBehind
<1>3. \A a \in Aliases : alias[a] # None =>
        alias[a].status = "ACTIVE" /\ alias[a].supersededBy = None
  <2> TAKE a \in Aliases
  <2>1. HAVE alias[a] # None
  <2>2. alias[a] = NewAlias(a, active[a]) BY <1>2, <2>1
  <2> QED BY <2>2 DEF NewAlias
<1>4. SupersededByAgrees BY <1>3 DEF SupersededByAgrees
<1>5. \A c \in Changes : change[c] = Idle BY DEF Init
<1> QED BY <1>4, <1>5, IdleLinks DEF Links

(* A superseded alias names its successor, of the same song and for another release,
   however its remap was interleaved with other remaps and revocations. *)
THEOREM MappingSuperseded == Spec => []SupersededByAgrees
<1>1. Base /\ Links /\ [Next]_vars => (Base /\ Links)' BY StepKeepsBase, LinksStep
<1>2. Init => Base /\ Links BY InitBase, InitLinks
<1>3. Links => SupersededByAgrees BY DEF Links
<1> QED BY <1>1, <1>2, <1>3, PTL DEF Spec

-----------------------------------------------------------------------------
(* Each commit is one decision *)

(* What a request has planned still stands when it commits: unless its row has a
   newer version, a remap knows the row's release and ends the row's alias if
   that is active. *)
Planning == {"readRelations", "findDuplicate", "revokeAlias"}
RemapOk(x) ==
  LET r == row[x.row] IN
  /\ x.version <= r.version
  /\ x.version = r.version =>
       /\ r.release \notin {None, x.to}
       /\ x.old \in {None, r.alias}
       /\ x.pc = "readRelations" => x.old = r.alias
       /\ x.pc # "readRelations" /\ x.old = None /\ r.alias # None =>
            alias[r.alias].status # "ACTIVE"
PlanOk(x) ==
  /\ x.pc = "idle" => x = Idle
  /\ x.kind \in {"unmatch", "revoke"} => ~x.wantsAlias
  /\ x.kind = "unmatch" => x.old = None
  /\ x.kind = "revoke" => x.row = None /\ x.to = None /\ x.old # None
  /\ x.pc \in {"findAlias", "createAlias"} \/ x.alias # None => x.wantsAlias
  /\ x.wantsAlias /\ x.pc \in Late => x.alias # None
  /\ x.old # None /\ x.pc \notin Planning => "revoke" \in x.wrote
  /\ x.kind = "remap" => RemapOk(x)
Plans == \A c \in Changes : PlanOk(change[c])

(* The rows and requests of the abstract machine, one by one. *)
LEMMA DecidedRows ==
  /\ Decided = [r \in Rows |-> Decided[r]]
  /\ \A r \in Rows :
       Decided[r] = [import |-> row[r].import, scope |-> row[r].scope,
                     release |-> row[r].release, alias |-> row[r].alias]
  BY DEF Decided

LEMMA AskedOf ==
  /\ Asked = [c \in Changes |-> Asked[c]]
  /\ \A c \in Changes :
       /\ Asked[c] = AskOf(change[c])
       /\ Asked[c].row = change[c].row /\ Asked[c].to = change[c].to
       /\ Asked[c].wantsAlias = change[c].wantsAlias
       /\ Asked[c].kind = IF change[c].pc = "committed" THEN "answered" ELSE change[c].kind
       /\ Asked[c].target = IF change[c].kind = "revoke" THEN change[c].old ELSE None
  BY DEF Asked, AskOf

LEMMA IdlePlan == PlanOk(Idle) /\ PlanOk([Idle EXCEPT !.pc = "committed"])
  BY DEF PlanOk, Planning, Late, Idle

(* To its client a request is the same after a statement, or refused, or new. *)
Serves(t, x) ==
  \/ AskOf(x) = AskOf(t)
  \/ x = Idle
  \/ t.pc = "idle" /\ AskOf(x) \in Decisions!Request /\ Decisions!MayAsk(AskOf(x))

(* A statement that reads or writes keeps to the plan. *)
LEMMA TurnPlan ==
  ASSUME Base, Plans, NEW c \in Changes, Step(c), ~Commit(c)
  PROVE  PlanOk(change'[c]) /\ Serves(change[c], change'[c])
<1> DEFINE t == change[c]
<1>0. /\ t \in ChangeType /\ InputOk(c, t) /\ AliasOk(c, t) /\ PlanOk(t)
      /\ change \in [Changes -> ChangeType] /\ row \in [Rows -> Row]
  BY DEF Base, TypeOK, Plans
<1>g. ASSUME NEW x, change' = [change EXCEPT ![c] = x], PlanOk(x), Serves(t, x)
      PROVE  PlanOk(change'[c]) /\ Serves(change[c], change'[c])
  BY <1>0, <1>g
<1>r. ASSUME Refuse(c) PROVE PlanOk(change'[c]) /\ Serves(change[c], change'[c])
  BY <1>r, <1>g, IdlePlan DEF Refuse, Serves
<1>2. ASSUME NEW r \in Rows, NEW rel \in Releases, NEW w \in BOOLEAN, ConfirmRead(c, r, rel, w)
      PROVE  PlanOk(change'[c]) /\ Serves(change[c], change'[c])
  <2> DEFINE x == [Idle EXCEPT !.pc = "readRelations", !.kind = "confirm", !.row = r, !.to = rel,
                               !.wantsAlias = w]
  <2>1. PlanOk(x) BY DEF PlanOk, Planning, Late, Idle
  <2>2. change' = [change EXCEPT ![c] = x] /\ t.pc = "idle" /\ row[r].status # "CONFIRMED"
    BY <1>2 DEF ConfirmRead
  <2>3. AskOf(x) = [kind |-> "confirm", row |-> r, to |-> rel, wantsAlias |-> w, target |-> None]
    BY DEF AskOf, Idle
  <2>4. row[r].release = None /\ Decided[r].release = row[r].release
    BY <1>0, <2>2, DecidedRows DEF Row
  <2> HIDE DEF x
  <2>5. Serves(t, x)
    BY <2>2, <2>3, <2>4 DEF Serves, Decisions!Request, Decisions!MayAsk
  <2> QED BY <1>g, <2>1, <2>2, <2>5
<1>3. ASSUME NEW r \in Rows, NEW rel \in Releases, NEW w \in BOOLEAN, RemapRead(c, r, rel, w)
      PROVE  PlanOk(change'[c]) /\ Serves(change[c], change'[c])
  <2> DEFINE x == [Idle EXCEPT !.pc = "readRelations", !.kind = "remap", !.row = r, !.to = rel,
                     !.wantsAlias = w, !.version = row[r].version, !.old = row[r].alias]
  <2>1. /\ t.pc = "idle" /\ row[r].status = "CONFIRMED" /\ row[r].release # rel
        /\ change' = [change EXCEPT ![c] = x]
    BY <1>3 DEF RemapRead
  <2>2. row[r].release # None /\ row[r].version \in Nat
    BY <1>0, <2>1, NoneIsNew DEF Row
  <2>3. /\ x.pc = "readRelations" /\ x.kind = "remap" /\ x.row = r /\ x.to = rel
        /\ x.version = row[r].version /\ x.old = row[r].alias /\ x.alias = None
        /\ x.wantsAlias = w
    BY DEF Idle
  <2> HIDE DEF x
  <2>4. PlanOk(x) BY <2>1, <2>2, <2>3 DEF PlanOk, RemapOk, Planning, Late
  <2>5. AskOf(x) = [kind |-> "remap", row |-> r, to |-> rel, wantsAlias |-> w, target |-> None]
    BY <2>3 DEF AskOf
  <2>6. Decided[r].release = row[r].release
    BY DecidedRows
  <2>7. Serves(t, x)
    BY <2>1, <2>2, <2>5, <2>6 DEF Serves, Decisions!Request, Decisions!MayAsk
  <2> QED BY <1>g, <2>1, <2>4, <2>7
<1>4. ASSUME NEW r \in Rows, UnmatchRead(c, r)
      PROVE  PlanOk(change'[c]) /\ Serves(change[c], change'[c])
  <2> DEFINE x == [Idle EXCEPT !.pc = "writeRow", !.kind = "unmatch", !.row = r]
  <2>1. PlanOk(x) BY DEF PlanOk, Planning, Late, Idle
  <2>2. change' = [change EXCEPT ![c] = x] /\ t.pc = "idle" BY <1>4 DEF UnmatchRead
  <2>3. AskOf(x) = [kind |-> "unmatch", row |-> r, to |-> None, wantsAlias |-> FALSE, target |-> None]
    BY DEF AskOf, Idle
  <2> HIDE DEF x
  <2>4. Serves(t, x)
    BY <2>2, <2>3 DEF Serves, Decisions!Request, Decisions!MayAsk
  <2> QED BY <1>g, <2>1, <2>2, <2>4
<1>5. ASSUME NEW a \in Aliases, RevokeRead(c, a)
      PROVE  PlanOk(change'[c]) /\ Serves(change[c], change'[c])
  <2> DEFINE x == [Idle EXCEPT !.pc = "revokeAlias", !.kind = "revoke", !.old = a]
  <2>1. PlanOk(x) BY NoneIsNew DEF PlanOk, Planning, Late, Idle
  <2>2. /\ change' = [change EXCEPT ![c] = x] /\ t.pc = "idle"
        /\ alias[a] # None /\ alias[a].status = "ACTIVE"
    BY <1>5 DEF RevokeRead
  <2>3. AskOf(x) = [kind |-> "revoke", row |-> None, to |-> None, wantsAlias |-> FALSE, target |-> a]
    BY DEF AskOf, Idle
  <2> HIDE DEF x
  <2>4. Serves(t, x)
    BY <2>2, <2>3 DEF Serves, Decisions!Request, Decisions!MayAsk, Decisions!Aliases, Aliases
  <2> QED BY <1>g, <2>1, <2>2, <2>4
\* The statements in between keep what the request is about.
<1>6. ASSUME NEW x, change' = [change EXCEPT ![c] = x],
             x.kind = t.kind, x.row = t.row, x.to = t.to, x.wantsAlias = t.wantsAlias,
             x.version = t.version, x.old = t.old,
             t.pc \notin {"readRelations", "committed"},
             x.pc \notin {"idle", "readRelations", "committed"},
             x.pc \in {"findAlias", "createAlias"} \/ x.alias # None => x.wantsAlias,
             x.wantsAlias /\ x.pc \in Late => x.alias # None,
             x.old # None /\ x.pc \notin Planning => "revoke" \in x.wrote
      PROVE  PlanOk(change'[c]) /\ Serves(change[c], change'[c])
  <2>1. t.kind = "remap" => RemapOk(x) BY <1>0, <1>6 DEF PlanOk, RemapOk
  <2>2. PlanOk(x) BY <1>0, <1>6, <2>1 DEF PlanOk
  <2>3. AskOf(x) = AskOf(t) BY <1>6 DEF AskOf
  <2> QED BY <1>g, <1>6, <2>2, <2>3 DEF Serves
<1>7. CASE ReadRelations(c)
  <2> DEFINE has == t.kind = "confirm" /\ snapshot[t.row] # None
             old == IF t.old # None /\ alias[t.old].status = "ACTIVE" THEN t.old ELSE None
             x == [t EXCEPT !.pc = "findDuplicate", !.hasSnapshot = has, !.old = old]
  <2>1. t.pc = "readRelations" /\ change' = [change EXCEPT ![c] = x] BY <1>7 DEF ReadRelations
  <2>2. \/ old = t.old
        \/ old = None /\ (t.old # None => alias[t.old].status # "ACTIVE")
    OBVIOUS
  <2>3. t.alias = None /\ t.kind \in {"confirm", "remap"} BY <1>0, <2>1 DEF InputOk
  <2> HIDE DEF has, old
  <2>4. /\ x.kind = t.kind /\ x.row = t.row /\ x.to = t.to /\ x.wantsAlias = t.wantsAlias
        /\ x.version = t.version /\ x.old = old /\ x.alias = None /\ x.pc = "findDuplicate"
    BY <1>0, <2>3 DEF ChangeType
  <2> HIDE DEF x
  <2>7. AskOf(x) = AskOf(t) BY <2>1, <2>3, <2>4 DEF AskOf
  <2>5. t.kind = "remap" => RemapOk(x) BY <1>0, <2>1, <2>2, <2>4 DEF PlanOk, RemapOk
  <2>6. PlanOk(x) BY <1>0, <2>2, <2>3, <2>4, <2>5 DEF PlanOk, Planning, Late
  <2> QED BY <1>g, <2>1, <2>6, <2>7 DEF Serves
<1>8. ASSUME NEW to, Goto(c, to), t.pc \notin {"readRelations", "committed"},
             to \notin {"idle", "readRelations", "committed"},
             t.wantsAlias /\ to \in Late => t.alias # None,
             to \in {"findAlias", "createAlias"} => t.wantsAlias,
             t.old # None /\ to \notin Planning => "revoke" \in t.wrote
      PROVE  PlanOk(change'[c]) /\ Serves(change[c], change'[c])
  <2> DEFINE x == [t EXCEPT !.pc = to]
  <2>1. change' = [change EXCEPT ![c] = x] BY <1>8 DEF Goto
  <2>2. /\ x.kind = t.kind /\ x.row = t.row /\ x.to = t.to /\ x.wantsAlias = t.wantsAlias
        /\ x.version = t.version /\ x.old = t.old /\ x.alias = t.alias /\ x.pc = to
        /\ x.wrote = t.wrote
    BY <1>0 DEF ChangeType
  <2> HIDE DEF x
  <2> QED BY <1>0, <1>6, <1>8, <2>1, <2>2 DEF PlanOk
<1>w. ASSUME NEW to, NEW wr, change' = [change EXCEPT ![c] = [t EXCEPT !.pc = to, !.wrote = wr]],
             t.pc \notin {"readRelations", "committed"},
             to \notin {"idle", "readRelations", "committed"},
             t.wantsAlias /\ to \in Late => t.alias # None,
             to \in {"findAlias", "createAlias"} => t.wantsAlias,
             t.old # None => "revoke" \in wr
      PROVE  PlanOk(change'[c]) /\ Serves(change[c], change'[c])
  <2> DEFINE x == [t EXCEPT !.pc = to, !.wrote = wr]
  <2>1. change' = [change EXCEPT ![c] = x] BY <1>w
  <2>2. /\ x.kind = t.kind /\ x.row = t.row /\ x.to = t.to /\ x.wantsAlias = t.wantsAlias
        /\ x.version = t.version /\ x.old = t.old /\ x.alias = t.alias /\ x.pc = to
        /\ x.wrote = wr
    BY <1>0 DEF ChangeType
  <2> HIDE DEF x
  <2> QED BY <1>0, <1>6, <1>w, <2>1, <2>2 DEF PlanOk
<1>9. CASE FindDuplicate(c)
  <2>1. t.pc = "findDuplicate" BY <1>9 DEF FindDuplicate
  <2>2. \/ Refuse(c)
        \/ Goto(c, "revokeAlias")
        \/ t.old = None /\ t.wantsAlias /\ Goto(c, "findAlias")
        \/ /\ t.old = None /\ ~t.wantsAlias
           /\ \E to \in {"findSnapshot", "writeRow"} : Goto(c, to)
    BY <1>9 DEF FindDuplicate
  <2> QED BY <1>r, <1>8, <2>1, <2>2 DEF Planning, Late
<1>10. CASE RevokeAlias(c)
  <2> DEFINE to == IF t.kind = "revoke" THEN "commit" ELSE IF t.wantsAlias THEN "findAlias" ELSE "writeRow"
             wr == t.wrote \union {"revoke"}
  <2>1. /\ t.pc = "revokeAlias"
        /\ change' = [change EXCEPT ![c] = [t EXCEPT !.pc = to, !.wrote = wr]]
    BY <1>10 DEF RevokeAlias
  <2>2. /\ to \in {"commit", "findAlias", "writeRow"} /\ (to = "findAlias" => t.wantsAlias)
        /\ "revoke" \in wr /\ (to # "findAlias" => ~t.wantsAlias)
    BY <1>0 DEF PlanOk
  <2>3. t.pc \notin {"readRelations", "committed"} /\ (to \in Late => ~t.wantsAlias)
    BY <2>1, <2>2 DEF Late
  <2> HIDE DEF to, wr
  <2> QED BY <1>w, <2>1, <2>2, <2>3
<1>11. CASE FindAlias(c)
  <2>0. /\ t.pc = "findAlias" /\ t.wantsAlias
        /\ t.old # None => "revoke" \in t.wrote
    BY <1>0, <1>11 DEF FindAlias, PlanOk, Planning
  <2>1. ASSUME NEW a \in Aliases, change' = [change EXCEPT ![c].pc = AfterAlias(c), ![c].alias = a]
        PROVE  PlanOk(change'[c]) /\ Serves(change[c], change'[c])
    <3> DEFINE x == [t EXCEPT !.pc = AfterAlias(c), !.alias = a]
    <3>1. change' = [change EXCEPT ![c] = x] BY <2>1
    <3>2. AfterAlias(c) \in {"findSnapshot", "writeRow"} /\ a # None BY NoneIsNew DEF AfterAlias
    <3>3. /\ x.kind = t.kind /\ x.row = t.row /\ x.to = t.to /\ x.wantsAlias = t.wantsAlias
          /\ x.version = t.version /\ x.old = t.old /\ x.wrote = t.wrote /\ x.pc = AfterAlias(c)
          /\ x.alias = a
      BY <1>0 DEF ChangeType
    <3> HIDE DEF x
    <3> QED BY <1>6, <2>0, <3>1, <3>2, <3>3
  <2> QED BY <1>11, <1>r, <1>8, <2>0, <2>1 DEF FindAlias, ActiveAliases, Late
<1>12. CASE CreateAlias(c)
  <2> DEFINE wr == t.wrote \union {"alias"}
             x == [t EXCEPT !.pc = AfterAlias(c), !.alias = c, !.wrote = wr]
  <2>0. /\ t.pc = "createAlias" /\ t.wantsAlias
        /\ t.old # None => "revoke" \in wr
    BY <1>0, <1>12 DEF CreateAlias, PlanOk, Planning
  <2>1. AfterAlias(c) \in {"findSnapshot", "writeRow"} /\ c # None
    BY NoneIsNew DEF AfterAlias, Aliases
  <2>2. Refuse(c) \/ change' = [change EXCEPT ![c] = x] BY <1>12 DEF CreateAlias
  <2> HIDE DEF wr
  <2>3. /\ x.kind = t.kind /\ x.row = t.row /\ x.to = t.to /\ x.wantsAlias = t.wantsAlias
        /\ x.version = t.version /\ x.old = t.old /\ x.wrote = wr /\ x.pc = AfterAlias(c)
        /\ x.alias = c
    BY <1>0 DEF ChangeType
  <2> HIDE DEF x
  <2> QED BY <1>r, <1>6, <2>0, <2>1, <2>2, <2>3
<1>13. CASE FindSnapshot(c) \/ CreateSnapshot(c) \/ WriteRow(c)
  <2>1. /\ t.pc \in {"findSnapshot", "createSnapshot", "writeRow"}
        /\ t.old # None => "revoke" \in t.wrote
        /\ t.wantsAlias => t.alias # None
    BY <1>0, <1>13 DEF PlanOk, Planning, Late, FindSnapshot, CreateSnapshot, WriteRow
  <2>2. \/ Refuse(c)
        \/ \E to \in {"writeRow", "createSnapshot"} : Goto(c, to)
        \/ \E to \in {"writeRow", "count"}, what \in {"snapshot", "row"} :
             change' = [change EXCEPT ![c] = [t EXCEPT !.pc = to, !.wrote = t.wrote \union {what}]]
    <3>1. CASE FindSnapshot(c) BY <3>1 DEF FindSnapshot
    <3>2. CASE CreateSnapshot(c)
      <4>1. Refuse(c) \/ change' = [change EXCEPT ![c] = [t EXCEPT !.pc = "writeRow",
                                                                   !.wrote = t.wrote \union {"snapshot"}]]
        BY <3>2 DEF CreateSnapshot
      <4> QED BY <4>1
    <3>3. CASE WriteRow(c)
      <4>1. Refuse(c) \/ change' = [change EXCEPT ![c] = [t EXCEPT !.pc = "count",
                                                                   !.wrote = t.wrote \union {"row"}]]
        BY <3>3 DEF WriteRow
      <4> QED BY <4>1
    <3> QED BY <1>13, <3>1, <3>2, <3>3
  <2>3. ASSUME NEW to \in {"writeRow", "count"}, NEW what \in {"snapshot", "row"},
               change' = [change EXCEPT ![c] = [t EXCEPT !.pc = to, !.wrote = t.wrote \union {what}]]
        PROVE  PlanOk(change'[c]) /\ Serves(change[c], change'[c])
    <3> DEFINE wr == t.wrote \union {what}
    <3>1. t.old # None => "revoke" \in wr BY <2>1
    <3>2. change' = [change EXCEPT ![c] = [t EXCEPT !.pc = to, !.wrote = wr]] BY <2>3
    <3> HIDE DEF wr
    <3> QED BY <1>w, <2>1, <3>1, <3>2
  <2> QED BY <1>r, <1>8, <2>1, <2>2, <2>3
<1>15. CASE CountRows(c)
  <2> DEFINE n == CountOf([row EXCEPT ![t.row] = NewRow(c)], ImportOf(t.row))
             x == [t EXCEPT !.pc = "commit", !.count = n]
  <2>1. t.pc = "count" /\ change' = [change EXCEPT ![c] = x] BY <1>15 DEF CountRows
  <2> HIDE DEF n
  <2>2. /\ x.kind = t.kind /\ x.row = t.row /\ x.to = t.to /\ x.wantsAlias = t.wantsAlias
        /\ x.version = t.version /\ x.old = t.old /\ x.alias = t.alias /\ x.wrote = t.wrote
        /\ x.pc = "commit"
    BY <1>0 DEF ChangeType
  <2> HIDE DEF x
  <2>3. /\ t.old # None => "revoke" \in t.wrote
        /\ t.alias # None <=> t.wantsAlias
    BY <1>0, <2>1 DEF PlanOk, Planning, Late
  <2> QED BY <1>6, <2>1, <2>2, <2>3
<1>16. CASE Abort(c) BY <1>16, <1>r DEF Abort
<1> HIDE DEF t
<1> QED
  BY <1>2, <1>3, <1>4, <1>5, <1>7, <1>9, <1>10, <1>11, <1>12, <1>13, <1>15, <1>16 DEF Step

LEMMA NewRowVersion ==
  ASSUME Base, NEW c \in Changes, "row" \in change[c].wrote
  PROVE  NewRow(c).version = row[change[c].row].version + 1
<1>1. change[c].row \in Rows
  BY NewRowType
<1>2. row[change[c].row] \in Row
  BY <1>1 DEF Base, TypeOK
<1>3. QED BY <1>2 DEF NewRow, Row

LEMMA PlansStep ==
  ASSUME Base, Plans, [Next]_vars
  PROVE  Plans'
<1>1. CASE UNCHANGED vars BY <1>1 DEF vars, Plans, PlanOk, RemapOk
<1>2. ASSUME NEW c \in Changes, Step(c), ~Commit(c) PROVE Plans'
  <2>1. /\ row' = row /\ alias' = alias
        /\ \A d \in Changes : d # c => change'[d] = change[d]
    <3>1. CASE \E x \in ChangeType : Allowed(c, x)
      BY <3>1 DEF Allowed, Turns, tables, Base, TypeOK
    <3>2. QED BY <1>2, <3>1, StepKinds DEF Quiet, Writes
  <2>2. \A d \in Changes : PlanOk(change'[d]) BY <1>2, <2>1, TurnPlan DEF Plans
  <2>3. \A d \in Changes : PlanOk(change[d])' BY <2>1, <2>2 DEF PlanOk, RemapOk
  <2> QED BY <2>3 DEF Plans
<1>3. ASSUME NEW c \in Changes, Commit(c), NEW d \in Changes PROVE PlanOk(change[d])'
  <2>1. CASE d = c
    BY <1>3, <2>1, CommitChange DEF PlanOk, Planning, Late, Idle
  <2>2. CASE d # c
    <3>1. /\ change'[d] = change[d] /\ PlanOk(change[d]) /\ InputOk(d, change[d])
          /\ change[d] \in ChangeType
      BY <1>3, <2>2, CommitChange DEF Plans, Base, TypeOK
    <3>2. ASSUME NEW x, x = change[d], x.kind = "remap" PROVE RemapOk(x)'
      <4>1. PICK r \in Rows : r = x.row
        BY <3>1, <3>2 DEF InputOk
      <4>2. RemapOk(x) /\ x.version \in Nat /\ row[r].version \in Nat /\ row[r] \in Row
        BY <3>1, <3>2 DEF PlanOk, ChangeType, Base, TypeOK, Row
      <4>3. CASE "row" \in change[c].wrote /\ r = change[c].row
        <5>1. row'[r].version = row[r].version + 1
          BY <1>3, <4>3, CommitRow, NewRowVersion
        <5>2. x.version <= row[r].version
          BY <4>1, <4>2 DEF RemapOk
        <5> QED BY <4>1, <4>2, <5>1, <5>2 DEF RemapOk
      <4>4. CASE ~("row" \in change[c].wrote /\ r = change[c].row)
        <5>1. row'[r] = row[r]
          BY <1>3, <4>4, CommitRow
        <5>2. ASSUME row[r].alias # None, alias[row[r].alias].status # "ACTIVE"
              PROVE  alias'[row[r].alias].status # "ACTIVE"
          <6>1. PICK a \in Aliases : a = row[r].alias
            BY <4>2, <5>2 DEF Row
          <6>2. alias[a] # None
            BY <5>2, <6>1 DEF Base, AppliedAliasAgrees
          <6> QED BY <1>3, <5>2, <6>1, <6>2, CommitKeepsAliases
        <5> QED BY <4>1, <4>2, <5>1, <5>2 DEF RemapOk
      <4> QED BY <4>3, <4>4
    <3>3. change[d].kind = "remap" => RemapOk(change[d])'
      BY <3>1, <3>2 DEF RemapOk
    <3> QED BY <3>1, <3>3 DEF PlanOk
  <2> QED BY <2>1, <2>2
<1>4. (\E c \in Changes : Commit(c)) => Plans'
  BY <1>3 DEF Plans
<1> QED BY <1>1, <1>2, <1>4 DEF Next

LEMMA PlansAlways == Spec => [](Base /\ Keys /\ Links /\ Plans)
<1>1. Init => Base /\ Keys /\ Links /\ Plans
  <2>1. Init => \A c \in Changes : change[c] = Idle BY DEF Init
  <2>2. Init => Plans BY <2>1, IdlePlan DEF Plans
  <2> QED BY <2>2, InitBase, InitKeys, InitLinks DEF Keys
<1>2. Base /\ Keys /\ Links /\ Plans /\ [Next]_vars => (Base /\ Keys /\ Links /\ Plans)'
  BY StepKeepsBase, StepKeepsKeys, LinksStep, PlansStep
<1>3. QED BY <1>1, <1>2, PTL DEF Spec
(* A commit that wrote its row decides about it; one that did not decides about none. *)
LEMMA CommitDecides ==
  ASSUME Base, NEW c \in Changes, Commit(c)
  PROVE  /\ "row" \in change[c].wrote => Decisions!Decide(change[c].row, change[c].to, change[c].alias)
         /\ "row" \notin change[c].wrote => Decided' = Decided
<1> DEFINE t == change[c]
<1>0. Decided' = [r \in Rows |-> [import |-> row'[r].import, scope |-> row'[r].scope,
                                  release |-> row'[r].release, alias |-> row'[r].alias]]
  BY DEF Decided
<1>1. ASSUME "row" \in t.wrote PROVE Decisions!Decide(t.row, t.to, t.alias)
  <2>1. /\ t.row \in Rows /\ NewRow(c).import = row[t.row].import
        /\ NewRow(c).scope = row[t.row].scope /\ NewRow(c).release = t.to
    BY <1>1, NewRowType
  <2>2. NewRow(c).alias = t.alias
    <3>1. t.alias # None => t.kind \in {"confirm", "remap"}
      BY DEF Base, AliasOk
    <3>2. row[t.row] \in Row
      BY <2>1 DEF Base, TypeOK
    <3>3. t.kind \in {"confirm", "remap", "unmatch"}
      BY <1>1 DEF Base, InputOk
    <3> QED BY <3>1, <3>2, <3>3 DEF NewRow, Row
  <2>3. \A r \in Rows : row'[r] = IF r = t.row THEN NewRow(c) ELSE row[r]
    BY <1>1, CommitRow
  <2>4. Decided' = [Decided EXCEPT ![t.row].release = t.to, ![t.row].alias = t.alias]
    <3>1. \A r \in Rows \ {t.row} : Decided'[r] = Decided[r]
      BY <1>0, <2>3 DEF Decided
    <3>2. Decided'[t.row] = [Decided[t.row] EXCEPT !.release = t.to, !.alias = t.alias]
      <4>1. Decided[t.row] = [import |-> row[t.row].import, scope |-> row[t.row].scope,
                              release |-> row[t.row].release, alias |-> row[t.row].alias]
        BY <2>1, DecidedRows
      <4>2. Decided'[t.row] = [import |-> row[t.row].import, scope |-> row[t.row].scope,
                               release |-> t.to, alias |-> t.alias]
        <5>1. row'[t.row] = NewRow(c)
          BY <2>1, <2>3
        <5>2. Decided'[t.row] = [import |-> row'[t.row].import, scope |-> row'[t.row].scope,
                                 release |-> row'[t.row].release, alias |-> row'[t.row].alias]
          BY <1>0, <2>1
        <5> QED BY <2>1, <2>2, <5>1, <5>2
      <4> DEFINE d == Decided[t.row]
      <4> HIDE DEF d
      <4>3. d = [import |-> row[t.row].import, scope |-> row[t.row].scope,
                 release |-> row[t.row].release, alias |-> row[t.row].alias]
        BY <4>1 DEF d
      <4>4. [d EXCEPT !.release = t.to, !.alias = t.alias] =
              [import |-> row[t.row].import, scope |-> row[t.row].scope,
               release |-> t.to, alias |-> t.alias]
        <5>1. [d EXCEPT !.release = t.to] =
                [import |-> row[t.row].import, scope |-> row[t.row].scope,
                 release |-> t.to, alias |-> row[t.row].alias]
          BY <4>3
        <5>2. ASSUME NEW e, e = [d EXCEPT !.release = t.to]
              PROVE  [e EXCEPT !.alias = t.alias] =
                       [import |-> row[t.row].import, scope |-> row[t.row].scope,
                        release |-> t.to, alias |-> t.alias]
          <6>1. e = [import |-> row[t.row].import, scope |-> row[t.row].scope,
                     release |-> t.to, alias |-> row[t.row].alias]
            BY <5>1, <5>2
          <6> QED BY <6>1
        <5>3. [d EXCEPT !.release = t.to, !.alias = t.alias] =
                [[d EXCEPT !.release = t.to] EXCEPT !.alias = t.alias]
          BY <4>3
        <5> QED BY <5>2, <5>3
      <4> QED BY <4>2, <4>4 DEF d
    <3>3. /\ Decided = [r \in Rows |-> Decided[r]]
          /\ Decided' = [r \in Rows |-> Decided'[r]]
      BY DEF Decided
    <3> QED BY <2>1, <3>1, <3>2, <3>3
  <2> QED BY <2>4 DEF Decisions!Decide
<1>2. ASSUME "row" \notin t.wrote PROVE Decided' = Decided
  <2>1. row' = row BY <1>2 DEF Commit, Wrote
  <2> QED BY <2>1 DEF Decided
<1> QED BY <1>1, <1>2

LEMMA CommitFree ==
  ASSUME Base, Keys, NEW c \in Changes, "row" \in change[c].wrote, change[c].to # None
  PROVE  Decisions!Free(change[c].row, change[c].to)
<1>1. change[c].row \in Rows
  BY NewRowType
<1>2. \A q \in Neighbours(change[c].row) : row[q].release # change[c].to
  BY DEF Keys, RowKeys
<1>3. QED BY <1>1, <1>2, DecidedRows DEF Decisions!Free, Neighbours, ImportOf

LEMMA CommitTakesFigures ==
  ASSUME Base, Keys, NEW c \in Changes, Commit(c), change[c].kind = "confirm"
  PROVE  Decisions!Figures(change[c].row, change[c].to)
<1> DEFINE t == change[c]
<1>1. /\ t.row \in Rows /\ FiguresOk(t) /\ t.pc = "commit"
      /\ snapshot' = IF "snapshot" \in t.wrote THEN [snapshot EXCEPT ![t.row] = t.to] ELSE snapshot
  BY DEF Base, InputOk, Commit, Wrote
<1>2. CASE "snapshot" \in t.wrote
  <2>1. /\ snapshot[t.row] = None
        /\ \A q \in Rows : ImportOf(q) = ImportOf(t.row) => snapshot[q] # t.to
    BY <1>2 DEF Keys, SnapshotKeys
  <2> QED BY <1>1, <1>2, <2>1, DecidedRows DEF Decisions!Figures, ImportOf
<1>3. CASE "snapshot" \notin t.wrote
  <2>1. snapshot[t.row] # None BY <1>1, <1>3 DEF FiguresOk
  <2> QED BY <1>1, <1>3, <2>1 DEF Decisions!Figures
<1> QED BY <1>2, <1>3

(* The aliases as a decision finds them when the one it ends has ended. *)
Before(c) ==
  IF Wrote(c, "revoke") THEN [alias EXCEPT ![change[c].old] = Revoked(c, change[c].old)] ELSE alias

LEMMA BeforeAliases ==
  ASSUME Base, NEW c \in Changes
  PROVE  /\ Before(c) = [a \in Aliases |-> Before(c)[a]]
         /\ \A a \in Aliases :
              Before(c)[a] = IF Wrote(c, "revoke") /\ a = change[c].old THEN Revoked(c, a) ELSE alias[a]
<1>1. alias \in [Aliases -> Alias \union {None}]
  BY DEF Base, TypeOK
<1>2. CASE Wrote(c, "revoke")
  BY <1>1, <1>2 DEF Before
<1>3. CASE ~Wrote(c, "revoke")
  BY <1>1, <1>3 DEF Before
<1> QED BY <1>2, <1>3

LEMMA CommitAliases ==
  ASSUME Base, NEW c \in Changes, Commit(c)
  PROVE  alias' = IF Wrote(c, "alias")
                  THEN [Before(c) EXCEPT ![c] = NewAlias(row[change[c].row].scope, change[c].to)]
                  ELSE Before(c)
<1>1. alias' = [a \in Aliases |->
        IF Wrote(c, "alias") /\ a = c THEN NewAlias(row[change[c].row].scope, change[c].to)
        ELSE Before(c)[a]]
  BY BeforeAliases DEF Commit
<1>2. c \in Aliases
  BY DEF Aliases
<1> DEFINE b == Before(c)
           n == NewAlias(row[change[c].row].scope, change[c].to)
<1>3. b = [a \in Aliases |-> b[a]]
  BY BeforeAliases
<1> HIDE DEF b, n
<1>4. alias' = [a \in Aliases |-> IF Wrote(c, "alias") /\ a = c THEN n ELSE b[a]]
  BY <1>1 DEF b, n
<1>5. alias' = IF Wrote(c, "alias") THEN [b EXCEPT ![c] = n] ELSE b
  BY <1>2, <1>3, <1>4
<1> QED BY <1>5 DEF b, n

LEMMA CommitApplies ==
  ASSUME Base, Keys, Plans, NEW c \in Changes, Commit(c),
         change[c].kind \in {"confirm", "remap"}
  PROVE  Decisions!Apply(c, change[c].alias, Before(c))
<1> DEFINE t == change[c]
           q == Asked[c]
<1>0. /\ t.row \in Rows /\ AliasOk(c, t) /\ InputOk(c, t) /\ alias[c] = None /\ c \in Aliases
      /\ c # None /\ t.alias \in Aliases \union {None}
      /\ t.pc = "commit" /\ PlanOk(t)
  BY NoneIsNew DEF Base, TypeOK, ChangeType, InputOk, Commit, Aliases, Plans
<1>1. Decided[t.row].scope = row[t.row].scope
  BY <1>0, DecidedRows
<1>2. /\ q.row = t.row /\ q.to = t.to
      /\ q.wantsAlias <=> t.alias # None
  BY <1>0, AskedOf DEF Late, PlanOk
<1> HIDE DEF q
<1>3. CASE "alias" \in t.wrote
  <2>1. t.alias = c BY <1>0, <1>3 DEF InputOk
  <2>2. alias' = [Before(c) EXCEPT ![c] = NewAlias(row[t.row].scope, t.to)]
    BY <1>3, CommitAliases DEF Wrote
  <2>3. ActiveAliases(c, row[t.row].scope) = {}
    BY <1>3 DEF Keys, AliasKeys
  <2>4. ASSUME NEW a \in Aliases, Before(c)[a] # None, Before(c)[a].scope = row[t.row].scope,
               Before(c)[a].status = "ACTIVE"
        PROVE  FALSE
    <3>1. CASE Wrote(c, "revoke") /\ a = t.old
      <4>1. alias[a] # None
        BY <1>0, <3>1 DEF AliasOk, InputOk, Wrote
      <4> QED BY <2>4, <3>1, <4>1, BeforeAliases, RevokedType
    <3>2. CASE ~(Wrote(c, "revoke") /\ a = t.old)
      <4>1. Before(c)[a] = alias[a] BY <3>2, BeforeAliases
      <4> QED BY <2>3, <2>4, <3>2, <4>1 DEF ActiveAliases
    <3> QED BY <3>1, <3>2
  <2>5. Decisions!Active(Before(c), row[t.row].scope) = {}
    BY <2>4 DEF Decisions!Active, Decisions!Aliases, Aliases
  <2> QED BY <1>0, <1>1, <1>2, <2>1, <2>2, <2>5 DEF Decisions!Apply, NewAlias, q
<1>4. CASE "alias" \notin t.wrote
  <2>1. alias' = Before(c) BY <1>4, CommitAliases DEF Wrote
  <2>2. CASE t.alias = None
    BY <1>2, <2>1, <2>2 DEF Decisions!Apply, q
  <2>3. CASE t.alias # None
    <3>1. /\ alias[t.alias] # None /\ alias[t.alias].scope = row[t.row].scope
          /\ alias[t.alias].release = t.to
      BY <1>0, <1>4, <2>3 DEF AliasOk
    <3>2. Decisions!Fits(t.alias, t.row, t.to)
      BY <1>1, <3>1 DEF Decisions!Fits
    <3> QED BY <1>2, <2>1, <2>3, <3>2 DEF Decisions!Apply, q
  <2> QED BY <2>2, <2>3
<1> QED BY <1>3, <1>4

LEMMA CommitConfirms ==
  ASSUME Base, Keys, Plans, NEW c \in Changes, Commit(c), change[c].kind = "confirm"
  PROVE  Decisions!Confirm(c, change[c].alias)
<1> DEFINE t == change[c]
           q == Asked[c]
<1>1. "row" \in t.wrote /\ t.to # None /\ "revoke" \notin t.wrote /\ t.pc = "commit"
  BY NoneIsNew DEF Base, InputOk, Commit
<1>2. Before(c) = alias
  BY <1>1 DEF Before, Wrote
<1>4. Decisions!Apply(c, t.alias, alias)
  BY <1>2, CommitApplies
<1>5. /\ Decisions!Free(t.row, t.to) /\ Decisions!Decide(t.row, t.to, t.alias)
      /\ Decisions!Figures(t.row, t.to)
  BY <1>1, CommitFree, CommitDecides, CommitTakesFigures
<1>6. q.row = t.row /\ q.to = t.to
  BY <1>1, AskedOf
<1> HIDE DEF q
<1> QED BY <1>4, <1>5, <1>6 DEF Decisions!Confirm, q

LEMMA CommitRemaps ==
  ASSUME Base, Keys, Plans, NEW c \in Changes, Commit(c), change[c].kind = "remap"
  PROVE  Decisions!Remap(c, change[c].alias)
<1> DEFINE t == change[c]
           r == row[t.row]
           q == Asked[c]
           Old(o) == IF o = None THEN alias ELSE [alias EXCEPT ![o] = Decisions!Ended(o, t.alias)]
<1>1. /\ "row" \in t.wrote /\ t.to \in Releases /\ t.row \in Rows /\ t.pc = "commit"
      /\ InputOk(c, t) /\ AliasOk(c, t) /\ FiguresOk(t) /\ PlanOk(t)
      /\ t \in ChangeType /\ r \in Row
  BY DEF Base, TypeOK, InputOk, Commit, Plans
<1>2. RemapOk(t) /\ r.version = t.version
  BY <1>1 DEF PlanOk, Keys, RowKeys
<1>3. /\ r.release \notin {None, t.to}
      /\ t.old \in {None, r.alias}
      /\ t.old = None /\ r.alias # None => alias[r.alias].status # "ACTIVE"
  BY <1>1, <1>2 DEF RemapOk
<1>4. Wrote(c, "revoke") <=> t.old # None
  BY <1>1 DEF Wrote, PlanOk, Planning, InputOk
<1>5. t.wantsAlias <=> t.alias # None
  BY <1>1 DEF Late, PlanOk
<1>6. t.old # None => Revoked(c, t.old) = Decisions!Ended(t.old, t.alias)
  BY <1>5 DEF Revoked, Decisions!Ended
<1>7. Before(c) = Old(t.old)
  BY <1>4, <1>6 DEF Before
<1>8. snapshot' = snapshot
  <2>1. "snapshot" \notin t.wrote
    BY <1>1 DEF FiguresOk, Keys, SnapshotKeys
  <2> QED BY <2>1 DEF Commit, Wrote
<1>9. /\ Decided[t.row].release = r.release /\ Decided[t.row].alias = r.alias
      /\ Decided[t.row].scope = r.scope
  BY <1>1, DecidedRows
<1>10. r.alias \in Decisions!Active(alias, r.scope) => t.old = r.alias
  BY <1>3, NoneIsNew DEF Decisions!Active, Decisions!Aliases, Aliases
<1>11. Decisions!Free(t.row, t.to)
  BY <1>1, NoneIsNew, CommitFree
<1>12. Decisions!Decide(t.row, t.to, t.alias)
  BY <1>1, CommitDecides
<1>13. Decisions!Apply(c, t.alias, Old(t.old))
  BY <1>7, CommitApplies
<1>14. q.row = t.row /\ q.to = t.to
  BY <1>1, AskedOf
<1> HIDE DEF r, q
<1> QED BY <1>3, <1>8, <1>9, <1>10, <1>11, <1>12, <1>13, <1>14 DEF Decisions!Remap, q

LEMMA CommitUnmatches ==
  ASSUME Base, Plans, NEW c \in Changes, Commit(c), change[c].kind = "unmatch"
  PROVE  Decisions!Unmatch(c)
<1> DEFINE t == change[c]
<1>1. /\ "row" \in t.wrote /\ t.to = None /\ t.alias = None /\ t.old = None
      /\ "revoke" \notin t.wrote /\ "alias" \notin t.wrote /\ "snapshot" \notin t.wrote
  BY DEF Base, InputOk, AliasOk, Commit, Plans, PlanOk
<1>2. alias' = alias
  BY <1>1, CommitAliases DEF Before, Wrote
<1>3. snapshot' = snapshot
  BY <1>1 DEF Commit, Wrote
<1>4. Asked[c].row = t.row
  BY AskedOf DEF Commit
<1> QED BY <1>1, <1>2, <1>3, <1>4, CommitDecides DEF Decisions!Unmatch

LEMMA CommitRevokes ==
  ASSUME Base, Plans, NEW c \in Changes, Commit(c), change[c].kind = "revoke"
  PROVE  Decisions!Revoke(c)
<1> DEFINE t == change[c]
<1>1. /\ "row" \notin t.wrote /\ "alias" \notin t.wrote /\ "snapshot" \notin t.wrote
      /\ InputOk(c, t) /\ AliasOk(c, t) /\ t \in ChangeType /\ t.pc = "commit"
  BY DEF Base, TypeOK, InputOk, Commit
<1>2. Decided' = Decided /\ snapshot' = snapshot /\ alias' = Before(c)
  BY <1>1, CommitDecides, CommitAliases DEF Commit, Wrote
<1>3. "revoke" \in t.wrote
  BY <1>1 DEF Plans, PlanOk, Planning
<1>4. Revoked(c, t.old) = Decisions!Ended(t.old, None)
  BY DEF Revoked, Decisions!Ended
<1>5. Asked[c].target = t.old
  BY AskedOf
<1> QED BY <1>2, <1>3, <1>4, <1>5 DEF Decisions!Revoke, Before, Wrote

LEMMA IdleAsks == AskOf(Idle) = Decisions!Void("none")
  BY DEF AskOf, Idle, Decisions!Void

(* What an open request asks for is a request; an idle one asks for nothing. *)
LEMMA AskedType ==
  ASSUME Base, Plans, NEW c \in Changes
  PROVE  /\ change[c].pc \notin {"idle", "committed"} => Asked[c] \in Decisions!Request
         /\ change[c].pc = "idle" => Asked[c] = Decisions!Void("none")
<1> DEFINE t == change[c]
<1>1. t \in ChangeType /\ InputOk(c, t) /\ PlanOk(t) /\ Asked[c] = AskOf(t)
  BY AskedOf DEF Base, TypeOK, Plans
<1>2. ASSUME t.pc \notin {"idle", "committed"} PROVE AskOf(t) \in Decisions!Request
  <2>1. t.kind \in {"confirm", "remap", "unmatch", "revoke"}
    BY <1>1, <1>2 DEF InputOk, ChangeType
  <2>2. AskOf(t) = [kind |-> t.kind, row |-> t.row, to |-> t.to, wantsAlias |-> t.wantsAlias,
                    target |-> IF t.kind = "revoke" THEN t.old ELSE None]
    BY <1>2 DEF AskOf
  <2>3. t.wantsAlias \in BOOLEAN /\ t.old \in Aliases \union {None}
    BY <1>1 DEF ChangeType
  <2>4. CASE t.kind \in {"confirm", "remap"}
    <3>1. t.row \in Rows /\ t.to \in Releases BY <1>1, <2>4 DEF InputOk
    <3>2. AskOf(t) = [kind |-> t.kind, row |-> t.row, to |-> t.to,
                      wantsAlias |-> t.wantsAlias, target |-> None]
      BY <2>2, <2>4
    <3>3. \A k \in {"confirm", "remap"}, r \in Rows, to \in Releases, w \in BOOLEAN :
            [kind |-> k, row |-> r, to |-> to, wantsAlias |-> w, target |-> None] \in Decisions!Request
      BY Zenon DEF Decisions!Request
    <3>4. t.wantsAlias \in BOOLEAN BY <2>3
    <3> HIDE DEF t
    <3> QED BY <2>4, <3>1, <3>2, <3>3, <3>4, Zenon
  <2>5. CASE t.kind = "unmatch"
    <3>1. t.row \in Rows /\ t.to = None BY <1>1, <2>5 DEF InputOk
    <3>2. t.wantsAlias = FALSE BY <1>1, <2>3, <2>5 DEF PlanOk
    <3>3. AskOf(t) = [kind |-> "unmatch", row |-> t.row, to |-> None,
                      wantsAlias |-> FALSE, target |-> None]
      BY <2>2, <2>5, <3>1, <3>2
    <3> QED BY <3>1, <3>3 DEF Decisions!Request
  <2>6. CASE t.kind = "revoke"
    <3>1. t.row = None /\ t.to = None /\ t.old \in Aliases
      BY <1>1, <2>3, <2>6 DEF PlanOk
    <3>2. t.wantsAlias = FALSE BY <1>1, <2>3, <2>6 DEF PlanOk
    <3>3. AskOf(t) = [kind |-> "revoke", row |-> None, to |-> None,
                      wantsAlias |-> FALSE, target |-> t.old]
      BY <2>2, <2>6, <3>1, <3>2
    <3> QED BY <3>1, <3>3 DEF Decisions!Request, Decisions!Aliases, Aliases
  <2> QED BY <2>1, <2>4, <2>5, <2>6
<1>3. ASSUME t.pc = "idle" PROVE AskOf(t) = Decisions!Void("none")
  <2>1. t = Idle BY <1>1, <1>3 DEF PlanOk
  <2> HIDE DEF t
  <2> QED BY <2>1, IdleAsks
<1> QED BY <1>1, <1>2, <1>3

(* One request's record changes, and with it what it asks for. *)
LEMMA AskedChanges ==
  ASSUME Base, NEW c \in Changes, \A d \in Changes : d # c => change'[d] = change[d]
  PROVE  Asked' = [Asked EXCEPT ![c] = AskOf(change'[c])]
<1>1. Asked' = [d \in Changes |-> AskOf(change'[d])]
  BY DEF Asked, AskOf
<1>2. \A d \in Changes : AskOf(change'[d]) = IF d = c THEN AskOf(change'[c]) ELSE Asked[d]
  BY AskedOf
<1> DEFINE q(d) == AskOf(change'[d])
<1> HIDE DEF q
<1>3. Asked' = [d \in Changes |-> q(d)] /\ \A d \in Changes : q(d) = IF d = c THEN q(c) ELSE Asked[d]
  BY <1>1, <1>2 DEF q
<1>4. Asked' = [Asked EXCEPT ![c] = q(c)]
  BY <1>3, AskedOf
<1> QED BY <1>4 DEF q

LEMMA TurnAsks ==
  ASSUME Base, Links, Plans, NEW c \in Changes, Step(c), ~Commit(c)
  PROVE  Decisions!Ask(c) \/ Decisions!Refuse(c) \/ UNCHANGED Decisions!vars
<1> DEFINE t == change[c]
           x == change'[c]
<1>1. /\ row' = row /\ alias' = alias /\ snapshot' = snapshot
      /\ \A d \in Changes : d # c => change'[d] = change[d]
      /\ Serves(t, x)
  BY TurnLinks, TurnPlan DEF tables
<1>2. Decided' = Decided
  BY <1>1 DEF Decided
<1>3. Asked' = [Asked EXCEPT ![c] = AskOf(x)]
  BY <1>1, AskedChanges
<1>4. Asked = [d \in Changes |-> Asked[d]] /\ Asked[c] = AskOf(t)
  BY AskedOf
<1>5. t.pc # "committed"
  BY DEF Step, ConfirmRead, RemapRead, UnmatchRead, RevokeRead, ReadRelations, FindDuplicate,
     RevokeAlias, FindAlias, CreateAlias, FindSnapshot, CreateSnapshot, WriteRow, CountRows, Abort
<1> HIDE DEF x
<1>6. CASE AskOf(x) = AskOf(t)
  <2>1. Asked' = Asked BY <1>3, <1>4, <1>6
  <2> QED BY <1>1, <1>2, <2>1 DEF Decisions!vars
<1>7. CASE x = Idle
  <2>1. AskOf(x) = Decisions!Void("none")
    BY <1>7 DEF AskOf, Idle, Decisions!Void
  <2>2. CASE t.pc = "idle"
    <3>1. Asked' = Asked BY <1>3, <1>4, <2>1, <2>2, AskedType
    <3> QED BY <1>1, <1>2, <3>1 DEF Decisions!vars
  <2>3. CASE t.pc # "idle"
    <3>1. Asked[c] \in Decisions!Request BY <1>5, <2>3, AskedType
    <3> QED BY <1>1, <1>2, <1>3, <2>1, <3>1 DEF Decisions!Refuse, Decisions!Becomes, Decisions!tables
  <2> QED BY <2>2, <2>3
<1>8. CASE t.pc = "idle" /\ AskOf(x) \in Decisions!Request /\ Decisions!MayAsk(AskOf(x))
  <2>1. Asked[c] = Decisions!Void("none") BY <1>8, AskedType
  <2>2. PICK q \in Decisions!Request : q = AskOf(x) BY <1>8
  <2>3. Decisions!Becomes(c, q) /\ Decisions!MayAsk(q) BY <1>3, <1>8, <2>2 DEF Decisions!Becomes
  <2> QED BY <1>1, <1>2, <2>1, <2>3 DEF Decisions!Ask, Decisions!tables
<1> QED BY <1>1, <1>6, <1>7, <1>8 DEF Serves

LEMMA StepDecides ==
  ASSUME Base, Keys, Links, Plans, [Next]_vars
  PROVE  [Decisions!Next]_(Decisions!vars)
<1>1. CASE UNCHANGED vars
  BY <1>1 DEF vars, Decisions!vars, Decided, Asked, AskOf
<1>2. ASSUME NEW c \in Changes, Step(c), ~Commit(c) PROVE [Decisions!Next]_(Decisions!vars)
  BY <1>2, TurnAsks DEF Decisions!Next
<1>3. ASSUME NEW c \in Changes, Commit(c) PROVE Decisions!Answer(c)
  <2> DEFINE t == change[c]
             q == Asked[c]
  <2>1. /\ t \in ChangeType /\ InputOk(c, t) /\ t.pc = "commit"
        /\ t.alias \in Decisions!Aliases \union {None} /\ q.kind = t.kind
    BY <1>3, AskedOf DEF Base, TypeOK, Commit, ChangeType, Decisions!Aliases, Aliases
  <2>2. q \in Decisions!Request
    BY <2>1, AskedType
  <2>3. Decisions!Becomes(c, Decisions!Void("answered"))
    <3>1. AskOf(change'[c]) = Decisions!Void("answered")
      BY <1>3, CommitChange DEF AskOf, Idle, Decisions!Void
    <3> QED BY <1>3, <3>1, CommitChange, AskedChanges DEF Decisions!Becomes
  <2>4. CASE t.kind = "confirm"
    <3>1. Decisions!Confirm(c, t.alias) BY <1>3, <2>4, CommitConfirms
    <3> HIDE DEF t, q
    <3> QED BY <2>1, <2>2, <2>3, <2>4, <3>1 DEF Decisions!Answer, q
  <2>5. CASE t.kind = "remap"
    <3>1. Decisions!Remap(c, t.alias) BY <1>3, <2>5, CommitRemaps
    <3> HIDE DEF t, q
    <3> QED BY <2>1, <2>2, <2>3, <2>5, <3>1 DEF Decisions!Answer, q
  <2>6. CASE t.kind = "unmatch"
    BY <1>3, <2>1, <2>2, <2>3, <2>6, CommitUnmatches DEF Decisions!Answer
  <2>7. CASE t.kind = "revoke"
    BY <1>3, <2>1, <2>2, <2>3, <2>7, CommitRevokes DEF Decisions!Answer
  <2>8. t.kind \in {"confirm", "remap", "unmatch", "revoke"}
    BY <2>1 DEF InputOk
  <2> QED BY <2>4, <2>5, <2>6, <2>7, <2>8
<1> QED BY <1>1, <1>2, <1>3 DEF Next, Decisions!Next

LEMMA InitDecides == Init => Decisions!Init
<1> SUFFICES ASSUME Init PROVE Decisions!Init
  OBVIOUS
<1>1. PICK import \in [Rows -> Imports], scope \in [Rows -> Scopes],
           active \in [Scopes -> Releases \union {None}] : LeftBehind(import, scope, active)
  BY DEF Init
<1>2. Base /\ Keys
  BY InitBase, InitKeys DEF Keys
<1>3. /\ \A r \in Rows : row[r] \in Row
      /\ alias \in [Aliases -> Alias \union {None}]
      /\ snapshot \in [Rows -> Releases \union {None}]
  BY <1>2 DEF Base, TypeOK
<1>4. Decided \in [Rows -> Decisions!Row]
  <2>1. ASSUME NEW r \in Rows PROVE Decided[r] \in Decisions!Row
    BY <1>3, <2>1, DecidedRows DEF Row, Decisions!Row, Decisions!Aliases, Aliases
  <2> QED BY <2>1, DecidedRows
<1>5. alias \in [Aliases -> Decisions!Alias \union {None}]
  BY <1>3 DEF Alias, Decisions!Alias, Decisions!Aliases, Aliases
<1>6. \A a \in Aliases : alias[a] # None => alias[a] = NewAlias(a, active[a])
  BY <1>1 DEF LeftBehind
<1>7. ASSUME NEW a \in Aliases, NEW b \in Aliases, alias[a] # None, alias[b] # None
      PROVE  /\ alias[a].status = "ACTIVE" /\ alias[a].supersededBy = None
             /\ alias[a].scope = alias[b].scope => a = b
  <2>1. alias[a] = NewAlias(a, active[a]) /\ alias[b] = NewAlias(b, active[b])
    BY <1>6, <1>7
  <2> QED BY <2>1 DEF NewAlias
<1>8. ASSUME NEW r \in Rows, row[r].release # None PROVE row[r].release = snapshot[r]
  BY <1>1, <1>8 DEF LeftBehind
<1>9. ASSUME NEW r \in Rows, row[r].alias # None
      PROVE  Decisions!Fits(Decided[r].alias, r, Decided[r].release)
  <2>1. /\ alias[row[r].alias] # None /\ alias[row[r].alias].scope = row[r].scope
        /\ alias[row[r].alias].release = row[r].release
    BY <1>2, <1>9 DEF Base, AppliedAliasAgrees
  <2> QED BY <2>1, DecidedRows DEF Decisions!Fits
<1>10. ASSUME NEW q \in Rows, NEW r \in Rows, q # r, row[q].import = row[r].import, snapshot[q] # None
       PROVE  snapshot[q] # snapshot[r]
  BY <1>2, <1>10 DEF Keys, SnapshotKeys, ImportOf
<1>11. Asked = [c \in Changes |-> Decisions!Void("none")]
  <2>1. \A c \in Changes : change[c] = Idle BY DEF Init
  <2>2. \A c \in Changes : AskOf(change[c]) = Decisions!Void("none") BY <2>1, IdleAsks
  <2> DEFINE q(c) == AskOf(change[c])
             none == Decisions!Void("none")
  <2>3. Asked = [c \in Changes |-> q(c)] BY DEF Asked
  <2>4. \A c \in Changes : q(c) = none BY <2>2
  <2> HIDE DEF q, none
  <2>5. Asked = [c \in Changes |-> none] BY <2>3, <2>4
  <2> QED BY <2>5 DEF none
<1>12. Decisions!Aliases = Aliases
  BY DEF Decisions!Aliases, Aliases
<1>13. \A r \in Rows : /\ Decided[r].import = row[r].import
                      /\ Decided[r].release = row[r].release
                      /\ Decided[r].alias = row[r].alias
  BY DecidedRows
<1>14. \A q, r \in Rows :
         q # r /\ Decided[q].import = Decided[r].import /\ snapshot[q] # None =>
           snapshot[q] # snapshot[r]
  BY <1>10, <1>13
<1>15. \A r \in Rows :
         /\ Decided[r].release # None => Decided[r].release = snapshot[r]
         /\ Decided[r].alias # None =>
              Decisions!Fits(Decided[r].alias, r, Decided[r].release)
  BY <1>8, <1>9, <1>13
<1>16. \A a, b \in Decisions!Aliases : alias[a] # None /\ alias[b] # None =>
         /\ alias[a].status = "ACTIVE" /\ alias[a].supersededBy = None
         /\ alias[a].scope = alias[b].scope => a = b
  BY <1>7, <1>12
<1>17. alias \in [Decisions!Aliases -> Decisions!Alias \union {None}]
  BY <1>5, <1>12
<1> QED BY <1>3, <1>4, <1>11, <1>14, <1>15, <1>16, <1>17 DEF Decisions!Init

(* Whatever the statements of concurrent requests see of each other, each request
   that commits is one decision of ReleaseDecisions on the tables of that moment,
   and every other statement decides nothing. *)
THEOREM MappingImplementsDecisions == Spec => ImplementsDecisions
<1>1. Init => Decisions!Init BY InitDecides
<1>2. Base /\ Keys /\ Links /\ Plans /\ [Next]_vars => [Decisions!Next]_(Decisions!vars)
  BY StepDecides
<1>3. QED BY <1>1, <1>2, PlansAlways, PTL DEF Spec, ImplementsDecisions, Decisions!Spec
=============================================================================
