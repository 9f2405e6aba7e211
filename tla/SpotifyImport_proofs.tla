------------------------- MODULE SpotifyImport_proofs -------------------------
EXTENDS SpotifyImport, FiniteSetTheorems, TLAPS

TypeInv == TypeOK /\ InputInv

-----------------------------------------------------------------------------
(* What a step leaves alone *)

\* A step of request r that is being served changes nothing else's state, and
\* of its own neither the input nor the time it began.
Moved(r) ==
  /\ request' \in [Requests -> RequestType]
  /\ \A q \in Requests : q # r => request'[q] = request[q]
  /\ request'[r].key = request[r].key
  /\ request'[r].preview = request[r].preview
  /\ request'[r].scope = request[r].scope
  /\ request'[r].target = request[r].target
  /\ request'[r].begun = request[r].begun

\* No accepted import disappears, or loses its expiry or its deletion mark.
ImportsKept ==
  /\ imports' \in [Requests -> Import \union {None}]
  /\ \A i \in Requests : Accepted(i) =>
       /\ Accepted(i)'
       /\ imports'[i].rawExpiresAt = imports[i].rawExpiresAt
       /\ imports[i].rawDeleted => imports'[i].rawDeleted

\* A sweep's step changes no other sweep.
Swept(c) ==
  /\ sweep' \in [Sweeps -> SweepType]
  /\ \A d \in Sweeps : d # c => sweep'[d] = sweep[d]

LEMMA GotoEffect ==
  ASSUME TypeOK, NEW r \in Requests, NEW to \in RequestStates, Goto(r, to)
  PROVE  Moved(r) /\ request'[r].pc = to /\ request'[r].answer = request[r].answer
<1>1. request[r] \in RequestType
  BY DEF TypeOK
<1>2. [request[r] EXCEPT !.pc = to] \in RequestType
  BY <1>1 DEF RequestType
<1> QED
  BY <1>1, <1>2 DEF TypeOK, Goto, Moved, RequestType

LEMMA ReplyEffect ==
  ASSUME TypeOK, NEW r \in Requests, NEW answer \in Answers \union {"P2002", None},
         NEW i \in Requests \union {None}, Reply(r, answer, i)
  PROVE  Moved(r) /\ request'[r].pc = "done" /\ request'[r].answer = answer
<1>1. request[r] \in RequestType
  BY DEF TypeOK
<1>2. [request[r] EXCEPT !.pc = "done", !.answer = answer, !.import = i] \in RequestType
  BY <1>1 DEF RequestType, RequestStates
<1>3. request' = [request EXCEPT
                    ![r] = [request[r] EXCEPT !.pc = "done", !.answer = answer, !.import = i]]
  BY DEF TypeOK, Reply
<1> QED
  BY <1>1, <1>2, <1>3 DEF TypeOK, Moved, RequestType

LEMMA FailEffect ==
  ASSUME TypeOK, NEW r \in Requests, NEW cause \in Answers \union {"P2002"}, Fail(r, cause)
  PROVE  Moved(r) /\ request'[r].pc = "deleteRaw"
<1>1. request[r] \in RequestType
  BY DEF TypeOK
<1>2. [request[r] EXCEPT !.pc = "deleteRaw", !.answer = cause] \in RequestType
  BY <1>1 DEF RequestType, RequestStates, Serving, AfterFailure
<1>3. request' = [request EXCEPT ![r] = [request[r] EXCEPT !.pc = "deleteRaw", !.answer = cause]]
  BY DEF TypeOK, Fail
<1> QED
  BY <1>1, <1>2, <1>3 DEF TypeOK, Moved, RequestType

LEMMA BeginEffect ==
  ASSUME TypeOK, NEW r \in Requests, NEW u \in Users, NEW k \in Keys, NEW p \in Previews,
         NEW s \in Scopes, NEW t \in Requests \union {None}, CommitBegin(r, u, k, p, s, t)
  PROVE  /\ request' \in [Requests -> RequestType]
         /\ \A q \in Requests : q # r => request'[q] = request[q]
         /\ request'[r].key = k /\ request'[r].preview = p /\ request'[r].scope = s
         /\ request'[r].begun = clock /\ request'[r].pc \in {"checkHash", "done"}
<1>1. PICK pc \in {"checkHash", "done"}, answer \in Answers \union {None}, i \in Requests \union {None} :
        request' = [request EXCEPT ![r] =
          [pc |-> pc, key |-> k, preview |-> p, scope |-> s, target |-> t, begun |-> clock,
           answer |-> answer, import |-> i]]
  BY DEF CommitBegin, Answers, Errors
<1>2. [pc |-> pc, key |-> k, preview |-> p, scope |-> s, target |-> t, begun |-> clock,
       answer |-> answer, import |-> i] \in RequestType
  BY DEF TypeOK, RequestType, RequestStates, Serving, BeforeUpload
<1> QED
  BY <1>1, <1>2 DEF TypeOK

LEMMA WriteEffect ==
  ASSUME TypeInv, NEW r \in Requests, ~Accepted(r), WriteImport(r)
  PROVE  /\ ImportsKept
         /\ imports'[r] = NewImport(r) /\ imports'[r] \in Import
         /\ \A i \in Requests : i # r =>
              /\ Accepted(i)' <=> Accepted(i)
              /\ Accepted(i) => imports'[i].rawDeleted = imports[i].rawDeleted
<1> DEFINE t == request[r].target
<1>1. FileOf(r) \in Hashes /\ request[r].key \in Keys /\ request[r].scope \in Scopes
  BY DEF TypeInv, InputInv, WriteImport, FileOf
<1>2. request[r].begun + RawRetention \in Nat
  BY Timing DEF TypeInv, TypeOK, RequestType
<1>3. NewImport(r) \in Import
  BY <1>1, <1>2 DEF NewImport, Import
<1>4. CASE t = None
  BY <1>3, <1>4, Kinds DEF TypeInv, TypeOK, WriteImport, Accepted, ImportsKept
<1>5. CASE t # None
  <2>1. t \in Requests /\ imports[t] \in Import /\ t # r
    BY <1>5 DEF TypeInv, TypeOK, RequestType, WriteImport, Current, Accepted
  <2>2. [imports[t] EXCEPT !.status = "REPLACED", !.replacedBy = r] \in Import
    BY <2>1 DEF Import
  <2>3. imports' = [imports EXCEPT ![r] = NewImport(r),
                           ![t] = [@ EXCEPT !.status = "REPLACED", !.replacedBy = r]]
    BY <1>5 DEF WriteImport
  <2>4. /\ imports' \in [Requests -> Import \union {None}]
        /\ imports'[r] = NewImport(r)
        /\ imports'[t] = [imports[t] EXCEPT !.status = "REPLACED", !.replacedBy = r]
        /\ \A i \in Requests : i # r /\ i # t => imports'[i] = imports[i]
    BY <1>3, <2>1, <2>2, <2>3 DEF TypeInv, TypeOK
  <2>5. /\ imports'[t].rawExpiresAt = imports[t].rawExpiresAt
        /\ imports'[t].rawDeleted = imports[t].rawDeleted
        /\ imports'[t] # None /\ imports[t] # None
    BY <2>1, <2>2, <2>4, Kinds DEF Import
  <2> QED
    BY <1>3, <2>1, <2>4, <2>5, Kinds DEF Accepted, ImportsKept
<1> QED BY <1>4, <1>5

LEMMA CommitMoves ==
  ASSUME TypeOK, NEW r \in Requests, CommitStep(r), request[r].pc # "idle"
  PROVE  Moved(r) /\ UNCHANGED <<clock, preview, withdrawal, sweep>>
<1> USE DEF stored, actors
<1> DEFINE States == {"checkHash", "readPreview", "recheckHash", "checkTarget", "upload",
                      "transaction", "deletePreview", "findWinner", "dead"}
<1>a. States \subseteq RequestStates
  BY DEF RequestStates, Serving, BeforeUpload, AfterFailure
<1>b. ASSUME NEW to \in States, Goto(r, to) PROVE Moved(r)
  BY <1>a, <1>b, GotoEffect
<1>c. ASSUME NEW answer \in Errors, Refuse(r, answer) PROVE Moved(r)
  BY <1>c, ReplyEffect DEF Refuse, Answers
<1>d. ASSUME NEW i \in Requests, Reply(r, "REPLAYED", i) PROVE Moved(r)
  BY <1>d, ReplyEffect DEF Answers
<1> HIDE DEF States
<1>1. CASE CheckHash(r)
  BY <1>1, <1>b, <1>c, <1>d DEF CheckHash, LookUpHash, States, Errors
<1>2. CASE ReadPreview(r)
  BY <1>2, <1>b, <1>c DEF ReadPreview, States, Errors
<1>3. CASE RecheckHash(r)
  BY <1>3, <1>b, <1>c, <1>d DEF RecheckHash, LookUpHash, States, Errors
<1>4. CASE CheckTarget(r)
  BY <1>4, <1>b, <1>c DEF CheckTarget, States, Errors
<1>5. CASE Upload(r)
  BY <1>5, <1>b, <1>c DEF Upload, States, Errors
<1>6. CASE CommitTransaction(r)
  BY <1>6, <1>b DEF CommitTransaction, States
<1>7. CASE AbortTransaction(r)
  BY <1>7, FailEffect DEF AbortTransaction, Answers, Errors
<1>8. CASE LoseCommitAck(r)
  BY <1>8, FailEffect DEF LoseCommitAck, Answers, Errors
<1>9. CASE DeleteRaw(r)
  <2>1. CASE request[r].answer = "P2002"
    BY <1>9, <2>1, <1>b DEF DeleteRaw, States
  <2>2. CASE request[r].answer # "P2002"
    <3>1. request[r].answer \in Answers \union {"P2002", None}
      BY DEF TypeOK, RequestType
    <3> QED
      BY <1>9, <2>2, <3>1, ReplyEffect DEF DeleteRaw, Refuse
  <2> QED
    BY <2>1, <2>2
<1>10. CASE FindWinner(r)
  BY <1>10, <1>c, <1>d DEF FindWinner, Rivals, Errors
<1>11. CASE DeletePreview(r)
  BY <1>11, ReplyEffect DEF DeletePreview, Answers
<1>12. CASE CommitDies(r)
  BY <1>12, <1>b DEF CommitDies, States
<1>13. ASSUME NEW u \in Users, NEW k \in Keys, NEW p \in Previews, NEW s \in Scopes,
              NEW t \in Requests \union {None}, CommitBegin(r, u, k, p, s, t)
       PROVE  FALSE
  BY <1>13 DEF CommitBegin
<1> QED
  BY <1>1, <1>2, <1>3, <1>4, <1>5, <1>6, <1>7, <1>8, <1>9, <1>10, <1>11, <1>12, <1>13 DEF CommitStep

LEMMA SweepEffect ==
  ASSUME TypeOK, NEW c \in Sweeps, SweepStep(c)
  PROVE  /\ Swept(c)
         /\ UNCHANGED <<clock, preview, request, withdrawal>>
<1> DEFINE Becomes(x) == sweep' = [sweep EXCEPT ![c] = x]
<1>s. sweep[c] \in SweepType
  BY DEF TypeOK
<1>t. ASSUME NEW x \in SweepType, Becomes(x) PROVE Swept(c)
  BY <1>t DEF TypeOK, Swept
<1>f. UNCHANGED <<clock, preview, request, withdrawal>>
  BY DEF SweepStep, SweepStart, SweepListObjects, SweepListRows, SweepPlan, SweepDeletePreview,
         SweepDeleteExpired, SweepDeleteOrphan, SweepMark, SweepEnd, SweepDies, stored
<1>i. SweepIdle \in SweepType
  BY DEF SweepIdle, SweepType
<1>b. \A S, age : Batches(S, age) \subseteq SUBSET S
  BY DEF Batches
<1>9. CASE SweepEnd(c) \/ SweepDies(c)
  BY <1>9, <1>i, <1>t, <1>f DEF SweepEnd, SweepDies
<1> HIDE DEF Becomes
<1>1. CASE SweepStart(c)
  <2> DEFINE x == [sweep[c] EXCEPT !.pc = "list", !.begun = clock]
  <2>1. Becomes(x)
    BY <1>1 DEF SweepStart, Becomes, TypeOK
  <2>2. x \in SweepType
    BY <1>s DEF TypeOK, SweepType
  <2> HIDE DEF x
  <2> QED BY <2>1, <2>2, <1>t, <1>f
<1>2. CASE SweepListObjects(c)
  <2>1. OldObjects(temp, PreviewRetention, c) \subseteq Previews
    BY DEF OldObjects, TypeOK
  <2>2. OldObjects(raw, OrphanRetention, c) \in SUBSET Requests
    BY DEF OldObjects, TypeOK
  <2>3. PICK batch \in Batches(OldObjects(temp, PreviewRetention, c), temp) : sweep' = [sweep EXCEPT
          ![c].listed = @ \union {"objects"}, ![c].temps = batch,
          ![c].raws = OldObjects(raw, OrphanRetention, c)]
    BY <1>2 DEF SweepListObjects
  <2>b. batch \in SUBSET Previews
    BY <2>1, <2>3, <1>b
  <2> DEFINE x == [sweep[c] EXCEPT !.listed = @ \union {"objects"}, !.temps = batch,
                                   !.raws = OldObjects(raw, OrphanRetention, c)]
  <2>4. Becomes(x)
    BY <2>3 DEF Becomes, TypeOK
  <2>5. x \in SweepType
    BY <1>s, <2>2, <2>b DEF SweepType
  <2> HIDE DEF x
  <2> QED BY <2>4, <2>5, <1>t, <1>f
<1>3. CASE SweepListRows(c)
  <2>1. ExpiredImports(c) \subseteq Requests
    BY DEF ExpiredImports
  <2> DEFINE age == [i \in ExpiredImports(c) |-> imports[i].rawExpiresAt]
  <2>2. PICK batch \in Batches(ExpiredImports(c), age) : sweep' = [sweep EXCEPT
          ![c].listed = @ \union {"rows"}, ![c].referenced = {i \in Requests : Accepted(i)},
          ![c].expired = batch]
    BY <1>3 DEF SweepListRows
  <2> HIDE DEF age
  <2>b. batch \in SUBSET Requests
    BY <2>1, <2>2, <1>b
  <2> DEFINE x == [sweep[c] EXCEPT !.listed = @ \union {"rows"},
                                   !.referenced = {i \in Requests : Accepted(i)}, !.expired = batch]
  <2>3. Becomes(x)
    BY <2>2 DEF Becomes, TypeOK
  <2>4. x \in SweepType
    BY <1>s, <2>b DEF SweepType
  <2> HIDE DEF x
  <2> QED BY <2>3, <2>4, <1>t, <1>f
<1>4. CASE SweepPlan(c)
  <2>1. Orphans(c) \subseteq Requests
    BY <1>s DEF Orphans, SweepType
  <2> DEFINE age == [i \in Requests |-> IF raw[i] = None THEN 0 ELSE raw[i]]
  <2>2. PICK batch \in Batches(Orphans(c), age) : sweep' = [sweep EXCEPT
          ![c].pc = "delete", ![c].listed = {}, ![c].raws = batch, ![c].referenced = {}]
    BY <1>4 DEF SweepPlan
  <2> HIDE DEF age
  <2>b. batch \in SUBSET Requests
    BY <2>1, <2>2, <1>b
  <2> DEFINE x == [sweep[c] EXCEPT !.pc = "delete", !.listed = {}, !.raws = batch, !.referenced = {}]
  <2>3. Becomes(x)
    BY <2>2 DEF Becomes, TypeOK
  <2>4. x \in SweepType
    BY <1>s, <2>b DEF SweepType
  <2> HIDE DEF x
  <2> QED BY <2>3, <2>4, <1>t, <1>f
<1>5. ASSUME NEW p \in Previews, SweepDeletePreview(c, p)
      PROVE  Swept(c)
  <2>1. Becomes([sweep[c] EXCEPT !.temps = @ \ {p}])
    BY <1>5 DEF SweepDeletePreview, Becomes
  <2>2. [sweep[c] EXCEPT !.temps = @ \ {p}] \in SweepType
    BY <1>s DEF SweepType
  <2> QED BY <2>1, <2>2, <1>t, <1>f
<1>6. ASSUME NEW i \in Requests, SweepDeleteExpired(c, i)
      PROVE  Swept(c)
  <2> DEFINE x == [sweep[c] EXCEPT !.expired = @ \ {i}, !.marking = i]
             y == [sweep[c] EXCEPT !.expired = @ \ {i}]
  <2>1. Becomes(x) \/ Becomes(y)
    BY <1>6 DEF SweepDeleteExpired, Becomes, TypeOK
  <2>2. x \in SweepType /\ y \in SweepType
    BY <1>s DEF SweepType
  <2> HIDE DEF x, y
  <2> QED BY <2>1, <2>2, <1>t, <1>f
<1>7. ASSUME NEW i \in Requests, SweepDeleteOrphan(c, i)
      PROVE  Swept(c)
  <2>1. Becomes([sweep[c] EXCEPT !.raws = @ \ {i}])
    BY <1>7 DEF SweepDeleteOrphan, Becomes
  <2>2. [sweep[c] EXCEPT !.raws = @ \ {i}] \in SweepType
    BY <1>s DEF SweepType
  <2> QED BY <2>1, <2>2, <1>t, <1>f
<1>8. CASE SweepMark(c)
  <2>1. Becomes([sweep[c] EXCEPT !.marking = None])
    BY <1>8 DEF SweepMark, Becomes
  <2>2. [sweep[c] EXCEPT !.marking = None] \in SweepType
    BY <1>s DEF SweepType
  <2> QED BY <2>1, <2>2, <1>t, <1>f
<1> QED
  BY <1>f, <1>1, <1>2, <1>3, <1>4, <1>5, <1>6, <1>7, <1>8, <1>9 DEF SweepStep

LEMMA WithdrawEffect ==
  ASSUME TypeInv, NEW w \in Withdrawals, WithdrawStep(w)
  PROVE  /\ withdrawal' \in [Withdrawals -> WithdrawalType]
         /\ \A v \in Withdrawals : v # w => withdrawal'[v] = withdrawal[v]
         /\ withdrawal'[w].import \in Requests /\ Accepted(withdrawal'[w].import)
         /\ ImportsKept
         /\ \A i \in Requests :
              /\ Accepted(i)' <=> Accepted(i)
              /\ Accepted(i) => imports'[i].rawDeleted = imports[i].rawDeleted
         /\ UNCHANGED <<clock, raw, temp, preview, request, sweep>>
<1> USE DEF stored
<1>s. withdrawal[w] \in WithdrawalType
  BY DEF TypeInv, TypeOK
<1>i. UNCHANGED imports => ImportsKept
  BY DEF ImportsKept, TypeInv, TypeOK, Accepted
<1>1. ASSUME NEW i \in Requests, WithdrawRead(w, i)
      PROVE  /\ withdrawal' \in [Withdrawals -> WithdrawalType]
             /\ \A v \in Withdrawals : v # w => withdrawal'[v] = withdrawal[v]
             /\ withdrawal'[w].import \in Requests /\ Accepted(withdrawal'[w].import)
             /\ UNCHANGED <<clock, raw, temp, preview, request, sweep, imports>>
  <2>0. Accepted(i) /\ UNCHANGED <<clock, raw, temp, preview, request, sweep, imports>>
    BY <1>1 DEF WithdrawRead
  <2>1. imports[i].status \in {"IMPORTED", "WITHDRAWN", "REPLACED"}
    BY <1>1 DEF WithdrawRead, Accepted, TypeInv, TypeOK, Import
  <2>2. PICK pc \in {"replayed", "refused", "update"} :
          withdrawal' = [withdrawal EXCEPT ![w] = [pc |-> pc, import |-> i, begun |-> clock]]
    BY <1>1, <2>1 DEF WithdrawRead
  <2>3. [pc |-> pc, import |-> i, begun |-> clock] \in WithdrawalType
    BY DEF WithdrawalType, TypeInv, TypeOK
  <2> QED
    BY <2>0, <2>2, <2>3 DEF TypeInv, TypeOK
<1>2. ASSUME withdrawal[w].pc # "idle",
             NEW pc \in {"withdrawn", "replayed", "refused"},
             withdrawal' = [withdrawal EXCEPT ![w].pc = pc]
      PROVE  /\ withdrawal' \in [Withdrawals -> WithdrawalType]
             /\ \A v \in Withdrawals : v # w => withdrawal'[v] = withdrawal[v]
             /\ withdrawal'[w].import \in Requests /\ Accepted(withdrawal'[w].import)
  <2>1. withdrawal[w].import \in Requests /\ Accepted(withdrawal[w].import)
    BY <1>2 DEF TypeInv, InputInv
  <2>2. [withdrawal[w] EXCEPT !.pc = pc] \in WithdrawalType
    BY <1>s DEF WithdrawalType
  <2> QED
    BY <1>2, <1>s, <2>1, <2>2 DEF TypeInv, TypeOK, WithdrawalType
<1>3. CASE WithdrawUpdate(w)
  <2> DEFINE i == withdrawal[w].import
  <2>1. CASE Current(i)
    <3>1. i \in Requests /\ imports[i] \in Import
      BY <1>3, <2>1 DEF WithdrawUpdate, TypeInv, TypeOK, InputInv, Current, Accepted
    <3>2. [imports[i] EXCEPT !.status = "WITHDRAWN"] \in Import
      BY <3>1 DEF Import
    <3>3. /\ imports' \in [Requests -> Import \union {None}]
          /\ imports'[i] = [imports[i] EXCEPT !.status = "WITHDRAWN"]
          /\ \A j \in Requests : j # i => imports'[j] = imports[j]
      BY <1>3, <2>1, <3>1, <3>2 DEF WithdrawUpdate, TypeInv, TypeOK
    <3>4. /\ imports'[i].rawExpiresAt = imports[i].rawExpiresAt
          /\ imports'[i].rawDeleted = imports[i].rawDeleted
          /\ imports'[i] # None /\ imports[i] # None
      BY <3>1, <3>2, <3>3, Kinds DEF Import
    <3>5. ImportsKept /\ \A j \in Requests :
              /\ Accepted(j)' <=> Accepted(j)
              /\ Accepted(j) => imports'[j].rawDeleted = imports[j].rawDeleted
      BY <3>1, <3>3, <3>4 DEF ImportsKept, Accepted
    <3> QED
      BY <1>2, <1>3, <2>1, <3>5 DEF WithdrawUpdate
  <2>2. CASE ~Current(i)
    BY <1>2, <1>3, <1>i, <2>2 DEF WithdrawUpdate, Accepted
  <2> QED
    BY <2>1, <2>2
<1>4. CASE WithdrawDies(w)
  BY <1>2, <1>4, <1>i DEF WithdrawDies, Accepted
<1> QED
  BY <1>1, <1>3, <1>4, <1>i DEF WithdrawStep, Accepted

\* Of the stored rows a sweep changes only deletion marks, and objects it only removes.
LEMMA SweepKeeps ==
  ASSUME TypeInv, NEW c \in Sweeps, SweepStep(c)
  PROVE  /\ ImportsKept
         /\ \A i \in Requests : Accepted(i)' <=> Accepted(i)
         /\ raw' \in [Requests -> Time] /\ temp' \in [Previews -> Time]
         /\ \A i \in Requests : raw'[i] = raw[i] \/ raw'[i] = None
<1> USE DEF stored
<1>1. /\ raw' \in [Requests -> Time]
      /\ \A i \in Requests : raw'[i] = raw[i] \/ raw'[i] = None
  <2>1. ASSUME NEW i \in Requests, raw' = [raw EXCEPT ![i] = None]
        PROVE  /\ raw' \in [Requests -> Time]
               /\ \A j \in Requests : raw'[j] = raw[j] \/ raw'[j] = None
    BY <2>1 DEF TypeInv, TypeOK, Time
  <2>2. ASSUME NEW i \in Requests, SweepDeleteExpired(c, i) \/ SweepDeleteOrphan(c, i)
        PROVE  UNCHANGED raw \/ raw' = [raw EXCEPT ![i] = None]
    BY <2>2 DEF SweepDeleteExpired, SweepDeleteOrphan
  <2>3. UNCHANGED raw \/ \E i \in Requests : raw' = [raw EXCEPT ![i] = None]
    BY <2>2 DEF SweepStep, SweepStart, SweepListObjects, SweepListRows, SweepPlan,
         SweepDeletePreview, SweepMark, SweepEnd, SweepDies
  <2> QED
    BY <2>1, <2>3 DEF TypeInv, TypeOK
<1>2. temp' \in [Previews -> Time]
  <2>1. ASSUME NEW p \in Previews, SweepDeletePreview(c, p)
        PROVE  temp' \in [Previews -> Time]
    BY <2>1 DEF SweepDeletePreview, TypeInv, TypeOK, Time
  <2>2. CASE UNCHANGED temp
    BY <2>2 DEF TypeInv, TypeOK
  <2> QED
    BY <2>1, <2>2 DEF SweepStep, SweepStart, SweepListObjects, SweepListRows, SweepPlan,
       SweepDeleteExpired, SweepDeleteOrphan, SweepMark, SweepEnd, SweepDies
<1>3. CASE UNCHANGED imports
  BY <1>1, <1>2, <1>3 DEF ImportsKept, TypeInv, TypeOK, Accepted
<1>4. ASSUME SweepMark(c), ~UNCHANGED imports
      PROVE  ImportsKept /\ \A i \in Requests : Accepted(i)' <=> Accepted(i)
  <2> DEFINE i == sweep[c].marking
  <2>1. i \in Requests
    BY <1>4 DEF SweepMark, TypeInv, TypeOK, SweepType
  <2>2. imports' = [imports EXCEPT ![i].rawDeleted = TRUE]
    BY <1>4 DEF SweepMark
  <2>3. imports[i] \in Import
    BY <2>1 DEF TypeInv, TypeOK, InputInv, Accepted
  <2>4. [imports[i] EXCEPT !.rawDeleted = TRUE] \in Import
    BY <2>3 DEF Import
  <2>5. /\ imports' \in [Requests -> Import \union {None}]
        /\ imports'[i] = [imports[i] EXCEPT !.rawDeleted = TRUE]
        /\ \A j \in Requests : j # i => imports'[j] = imports[j]
    BY <2>1, <2>2, <2>4 DEF TypeInv, TypeOK
  <2>6. /\ imports'[i].rawExpiresAt = imports[i].rawExpiresAt
        /\ imports'[i].rawDeleted
        /\ imports'[i] # None /\ imports[i] # None
    BY <2>3, <2>4, <2>5, Kinds DEF Import
  <2> QED
    BY <2>1, <2>5, <2>6 DEF ImportsKept, Accepted
<1> QED
  BY <1>1, <1>2, <1>3, <1>4 DEF SweepStep, SweepStart, SweepListObjects, SweepListRows, SweepPlan,
     SweepDeletePreview, SweepDeleteExpired, SweepDeleteOrphan, SweepEnd, SweepDies

\* The phases of a commit request: what each step does to the import and its object.
LEMMA CommitPhases ==
  ASSUME TypeOK, NEW r \in Requests, CommitStep(r)
  PROVE  \/ /\ request[r].pc = "idle" /\ request'[r].pc \in {"checkHash", "done"}
            /\ UNCHANGED <<imports, raw>>
         \/ /\ request[r].pc \in BeforeUpload /\ request'[r].pc \in BeforeUpload \union {"done"}
            /\ UNCHANGED <<imports, raw>>
         \/ /\ request[r].pc = "upload" /\ request'[r].pc = "transaction"
            /\ raw' = [raw EXCEPT ![r] = clock] /\ UNCHANGED imports
         \/ /\ request[r].pc = "transaction" /\ request'[r].pc = "deletePreview"
            /\ WriteImport(r) /\ UNCHANGED raw
         \/ /\ request[r].pc = "transaction" /\ request'[r].pc = "deleteRaw"
            /\ CommitAckLost /\ request'[r].answer = "TRANSACTION_FAILURE"
            /\ WriteImport(r) /\ UNCHANGED raw
         \/ /\ request[r].pc = "transaction" /\ request'[r].pc = "deleteRaw"
            /\ UNCHANGED <<imports, raw>>
         \/ /\ request[r].pc = "deleteRaw" /\ request'[r].pc \in {"findWinner", "done"}
            /\ raw' \in {raw, [raw EXCEPT ![r] = None]} /\ UNCHANGED imports
         \/ /\ request[r].pc \in {"findWinner", "deletePreview"} /\ request'[r].pc = "done"
            /\ UNCHANGED <<imports, raw>>
         \/ /\ request[r].pc \in Serving /\ request'[r].pc = "dead"
            /\ UNCHANGED <<imports, raw>>
<1> USE DEF stored
<1>g. ASSUME NEW to, Goto(r, to) PROVE request'[r].pc = to
  BY <1>g DEF Goto, TypeOK, RequestType
<1>r. ASSUME NEW a, NEW i, Reply(r, a, i) PROVE request'[r].pc = "done"
  BY <1>r DEF Reply, TypeOK, RequestType
<1>f. ASSUME NEW a, Fail(r, a) PROVE request'[r].pc = "deleteRaw" /\ request'[r].answer = a
  BY <1>f DEF Fail, TypeOK, RequestType
<1>1. ASSUME NEW u \in Users, NEW k \in Keys, NEW p \in Previews, NEW s \in Scopes,
             NEW t \in Requests \union {None}, CommitBegin(r, u, k, p, s, t)
      PROVE  /\ request[r].pc = "idle" /\ request'[r].pc \in {"checkHash", "done"}
             /\ UNCHANGED <<imports, raw>>
  BY <1>1, BeginEffect DEF CommitBegin
<1>2. CASE CheckHash(r) \/ ReadPreview(r) \/ RecheckHash(r) \/ CheckTarget(r)
  BY <1>2, <1>g, <1>r DEF CheckHash, RecheckHash, LookUpHash, ReadPreview, CheckTarget, Refuse,
     BeforeUpload
<1>3. CASE Upload(r)
  BY <1>3, <1>g, <1>r DEF Upload, Refuse, BeforeUpload
<1>4. CASE CommitTransaction(r)
  BY <1>4, <1>g DEF CommitTransaction, WriteImport
<1>5. CASE LoseCommitAck(r)
  BY <1>5, <1>f DEF LoseCommitAck, WriteImport
<1>6. CASE AbortTransaction(r)
  BY <1>6, <1>f DEF AbortTransaction
<1>7. CASE DeleteRaw(r)
  BY <1>7, <1>g, <1>r DEF DeleteRaw, Refuse
<1>8. CASE FindWinner(r) \/ DeletePreview(r)
  BY <1>8, <1>r DEF FindWinner, DeletePreview, Refuse
<1>9. CASE CommitDies(r)
  BY <1>9, <1>g DEF CommitDies
<1> QED
  BY <1>1, <1>2, <1>3, <1>4, <1>5, <1>6, <1>7, <1>8, <1>9 DEF CommitStep

\* A request that fails in its transaction says so until its end.
LEMMA FailureKept ==
  ASSUME TypeOK, NEW r \in Requests, CommitStep(r),
         request[r].answer = "TRANSACTION_FAILURE" => request[r].pc \in {"deleteRaw", "done", "dead"}
  PROVE  /\ request'[r].answer = "TRANSACTION_FAILURE" => request'[r].pc \in {"deleteRaw", "done", "dead"}
         /\ request[r].answer = "TRANSACTION_FAILURE" => request'[r].answer = "TRANSACTION_FAILURE"
<1> DEFINE Failed(q) == q.answer = "TRANSACTION_FAILURE"
           Ends(q) == q.pc \in {"deleteRaw", "done", "dead"}
<1>g. ASSUME NEW to, Goto(r, to)
      PROVE  request'[r].pc = to /\ request'[r].answer = request[r].answer
  BY <1>g DEF Goto, TypeOK, RequestType
<1>r. ASSUME NEW a, NEW i, Reply(r, a, i) PROVE request'[r].pc = "done" /\ request'[r].answer = a
  BY <1>r DEF Reply, TypeOK, RequestType
<1>f. ASSUME NEW a, Fail(r, a) PROVE request'[r].pc = "deleteRaw" /\ request'[r].answer = a
  BY <1>f DEF Fail, TypeOK, RequestType
<1>1. ASSUME NEW u \in Users, NEW k \in Keys, NEW p \in Previews, NEW s \in Scopes,
             NEW t \in Requests \union {None}, CommitBegin(r, u, k, p, s, t)
      PROVE  ~Failed(request[r]) /\ (Failed(request'[r]) => Ends(request'[r]))
  <2>1. request[r].pc = "idle" BY <1>1 DEF CommitBegin
  <2>2. PICK pc \in {"checkHash", "done"},
             a \in {None, "FORBIDDEN", "EXPIRED_PREVIEW", "CONFLICT", "INVALID", "REPLAYED"},
             i \in Requests \union {None} :
          request' = [request EXCEPT ![r] =
            [pc |-> pc, key |-> k, preview |-> p, scope |-> s, target |-> t, begun |-> clock,
             answer |-> a, import |-> i]]
    BY <1>1 DEF CommitBegin
  <2>3. request'[r].pc = pc /\ request'[r].answer = a BY <2>2 DEF TypeOK
  <2>4. a = "TRANSACTION_FAILURE" => pc = "done"
    BY <2>2, NoneIsNoAnswer DEF Answers, Errors
  <2> QED BY <2>1, <2>3, <2>4
<1>2. CASE CheckHash(r) \/ ReadPreview(r) \/ RecheckHash(r) \/ CheckTarget(r)
  <2>1. ~Failed(request[r])
    BY <1>2 DEF CheckHash, RecheckHash, LookUpHash, ReadPreview, CheckTarget
  <2>2. (\E to : Goto(r, to)) \/ (\E a, i : Reply(r, a, i))
    BY <1>2 DEF CheckHash, RecheckHash, LookUpHash, ReadPreview, CheckTarget, Refuse
  <2> QED BY <1>g, <1>r, <2>1, <2>2
<1>3. CASE Upload(r) \/ CommitTransaction(r) \/ FindWinner(r) \/ DeletePreview(r)
  <2>1. ~Failed(request[r])
    BY <1>3 DEF Upload, CommitTransaction, WriteImport, FindWinner, DeletePreview
  <2>2. (\E to : Goto(r, to)) \/ (\E a, i : Reply(r, a, i))
    BY <1>3 DEF Upload, CommitTransaction, FindWinner, DeletePreview, Refuse
  <2> QED BY <1>g, <1>r, <2>1, <2>2
<1>4. CASE LoseCommitAck(r) \/ AbortTransaction(r)
  <2>1. ~Failed(request[r]) BY <1>4 DEF LoseCommitAck, WriteImport, AbortTransaction
  <2>2. \E a : Fail(r, a) BY <1>4 DEF LoseCommitAck, AbortTransaction
  <2> QED BY <1>f, <2>1, <2>2
<1>5. CASE DeleteRaw(r)
  <2>1. CASE request[r].answer = "P2002" /\ Goto(r, "findWinner") BY <1>g, <2>1
  <2>2. CASE Reply(r, request[r].answer, None)
    <3>1. request'[r].pc = "done" BY <1>r, <2>2
    <3>2. request'[r].answer = request[r].answer BY <2>2 DEF Reply, TypeOK, RequestType
    <3> QED BY <3>1, <3>2
  <2> QED BY <1>5, <2>1, <2>2 DEF DeleteRaw, Refuse
<1>6. CASE CommitDies(r) BY <1>6, <1>g DEF CommitDies
<1> QED BY <1>1, <1>2, <1>3, <1>4, <1>5, <1>6 DEF CommitStep

\* A commit request writes no import but its own, and no object but its own copy.
LEMMA CommitKeeps ==
  ASSUME TypeInv, NEW r \in Requests, CommitStep(r)
  PROVE  /\ ImportsKept
         /\ \A i \in Requests : i # r =>
              /\ Accepted(i)' <=> Accepted(i)
              /\ Accepted(i) => imports'[i].rawDeleted = imports[i].rawDeleted
              /\ raw'[i] = raw[i]
         /\ raw' \in [Requests -> Time] /\ temp' \in [Previews -> Time]
         /\ request'[r].pc \in {"idle", "transaction"} \union BeforeUpload => ~Accepted(r)'
<1> USE DEF stored
<1>1. raw' \in [Requests -> Time] /\ \A i \in Requests : i # r => raw'[i] = raw[i]
  <2>1. \/ UNCHANGED raw
        \/ raw' = [raw EXCEPT ![r] = clock]
        \/ raw' = [raw EXCEPT ![r] = None]
    BY CommitPhases DEF TypeInv
  <2> QED
    BY <2>1 DEF TypeInv, TypeOK, Time
<1>2. temp' \in [Previews -> Time]
  <2>1. UNCHANGED temp \/ temp' = [temp EXCEPT ![request[r].preview] = None]
    BY DEF CommitStep, CommitBegin, CheckHash, RecheckHash, LookUpHash, ReadPreview, CheckTarget,
       Upload, CommitTransaction, AbortTransaction, LoseCommitAck, DeleteRaw, FindWinner,
       DeletePreview, CommitDies
  <2> QED
    BY <2>1 DEF TypeInv, TypeOK, Time
<1>3. CASE WriteImport(r) /\ request'[r].pc \in {"deletePreview", "deleteRaw"}
  <2>1. ~Accepted(r)
    BY <1>3 DEF WriteImport, TypeInv, InputInv
  <2> QED
    BY <1>1, <1>2, <1>3, <2>1, WriteEffect DEF BeforeUpload
<1>4. CASE UNCHANGED imports
  <2>1. ImportsKept /\ \A i \in Requests : Accepted(i)' <=> Accepted(i)
    BY <1>4 DEF ImportsKept, Accepted, TypeInv, TypeOK
  <2>2. request'[r].pc \in {"idle", "transaction"} \union BeforeUpload => ~Accepted(r)
    BY CommitPhases DEF TypeInv, InputInv, BeforeUpload
  <2> QED
    BY <1>1, <1>2, <1>4, <2>1, <2>2
<1> QED
  BY <1>3, <1>4, CommitPhases DEF TypeInv

-----------------------------------------------------------------------------
(* Every variable keeps its type, and what a request reads is there *)

LEMMA InitTypes == Init => TypeInv
BY Timing, Kinds DEF Init, TypeInv, TypeOK, InputInv, PreviewType, RequestType, WithdrawalType,
   SweepType, PreviewStates, RequestStates, Time, Serving, Answers, Errors, Accepted, BeforeUpload

LEMMA PreviewTypes ==
  ASSUME TypeInv, NEW p \in Previews, PreviewStep(p)
  PROVE  TypeInv'
<1> USE DEF TypeInv, stored
<1>f. UNCHANGED <<clock, imports, raw, request, withdrawal, sweep>>
  BY DEF PreviewStep, PreviewUpload, ReprocessRequest, ReprocessReadRaw, PreviewStore, PreviewDies
<1>1. ASSUME NEW pc \in PreviewStates, preview' = [preview EXCEPT ![p].pc = pc],
             preview[p].pc \in {"readRaw", "store"}, pc = "refused" \/ preview[p].hash \in Hashes,
             pc # "readRaw"
      PROVE  preview' \in [Previews -> PreviewType] /\ InputInv'
  <2>1. preview' \in [Previews -> PreviewType]
    BY <1>1 DEF TypeOK, PreviewType
  <2>2. /\ \A q \in Previews : q # p => preview'[q] = preview[q]
        /\ preview'[p].pc = pc /\ preview'[p].hash = preview[p].hash
    BY <1>1 DEF TypeOK, PreviewType
  <2> QED
    BY <1>f, <1>1, <2>1, <2>2 DEF InputInv, Accepted
<1>2. ASSUME NEW u \in Users, NEW h \in Hashes, NEW i \in Requests \union {None},
             NEW pc \in {"refused", "store", "readRaw"}, preview[p].pc = "idle",
             preview' = [preview EXCEPT ![p] =
               [pc |-> pc, user |-> u, hash |-> h, begun |-> clock, reprocessOf |-> i]],
             pc = "readRaw" => i \in Requests
      PROVE  preview' \in [Previews -> PreviewType] /\ InputInv'
  <2>1. [pc |-> pc, user |-> u, hash |-> h, begun |-> clock, reprocessOf |-> i] \in PreviewType
    BY DEF TypeOK, PreviewType, PreviewStates
  <2>2. preview' \in [Previews -> PreviewType]
    BY <1>2, <2>1 DEF TypeOK
  <2>3. /\ \A q \in Previews : q # p => preview'[q] = preview[q]
        /\ preview'[p].pc = pc /\ preview'[p].hash = h /\ preview'[p].reprocessOf = i
    BY <1>2 DEF TypeOK
  <2> QED
    BY <1>f, <1>2, <2>2, <2>3 DEF InputInv, Accepted
<1>3. ASSUME NEW u \in Users, NEW h \in Hashes, PreviewUpload(p, u, h)
      PROVE  preview' \in [Previews -> PreviewType] /\ InputInv'
  BY <1>2, <1>3 DEF PreviewUpload
<1>4. ASSUME NEW u \in Users, NEW i \in Requests, ReprocessRequest(p, u, i)
      PROVE  preview' \in [Previews -> PreviewType] /\ InputInv'
  <2>1. imports[i].hash \in Hashes
    BY <1>4 DEF ReprocessRequest, RawAvailable, Accepted, TypeOK, Import
  <2> QED
    BY <1>2, <1>4, <2>1 DEF ReprocessRequest
<1>h. preview[p].pc \in {"readRaw", "store"} => preview[p].hash \in Hashes
  BY DEF InputInv
<1>p. {"store", "ready", "refused"} \subseteq PreviewStates
  BY DEF PreviewStates
<1> DEFINE Kept == preview' \in [Previews -> PreviewType] /\ InputInv'
<1>m. ASSUME NEW pc \in {"store", "ready", "refused"}, preview' = [preview EXCEPT ![p].pc = pc],
             preview[p].pc \in {"readRaw", "store"}
      PROVE  Kept
  BY <1>1, <1>m, <1>h, <1>p
<1>e. /\ \A u \in Users, h \in Hashes : PreviewUpload(p, u, h) => Kept
      /\ \A u \in Users, i \in Requests : ReprocessRequest(p, u, i) => Kept
  BY <1>3, <1>4
<1> HIDE DEF Kept
<1>5. ReprocessReadRaw(p) => Kept
  BY <1>m DEF ReprocessReadRaw, PreviewAt
<1>6. PreviewStore(p) => Kept
  BY <1>m DEF PreviewStore, PreviewAt
<1>7. PreviewDies(p) => Kept
  BY <1>m DEF PreviewDies
<1>8. Kept
  BY <1>e, <1>5, <1>6, <1>7 DEF PreviewStep
<1>9. temp' \in [Previews -> Time]
  <2>1. UNCHANGED temp \/ temp' = [temp EXCEPT ![p] = clock]
    BY DEF PreviewStep, PreviewUpload, ReprocessRequest, ReprocessReadRaw, PreviewStore, PreviewDies
  <2> QED
    BY <2>1 DEF TypeOK, Time
<1> QED
  BY <1>f, <1>8, <1>9 DEF TypeOK, Kept

LEMMA CommitTypes ==
  ASSUME TypeInv, NEW r \in Requests, CommitStep(r)
  PROVE  TypeInv'
<1> USE DEF TypeInv, stored
<1>1. UNCHANGED <<clock, preview, withdrawal, sweep>>
  BY DEF CommitStep, CommitBegin, CheckHash, RecheckHash, LookUpHash, ReadPreview, CheckTarget,
     Upload, CommitTransaction, AbortTransaction, LoseCommitAck, DeleteRaw, FindWinner,
     DeletePreview, CommitDies
<1>2. /\ request' \in [Requests -> RequestType]
      /\ \A q \in Requests : q # r => request'[q] = request[q]
      /\ request'[r].key \in Keys /\ request'[r].scope \in Scopes /\ request'[r].preview \in Previews
      /\ preview[request'[r].preview].pc = "ready"
  <2>1. CASE request[r].pc = "idle"
    <3>1. PICK u \in Users, k \in Keys, p \in Previews, s \in Scopes, t \in Requests \union {None} :
            CommitBegin(r, u, k, p, s, t)
      BY <2>1 DEF CommitStep, CheckHash, RecheckHash, LookUpHash, ReadPreview, CheckTarget, Upload,
         CommitTransaction, WriteImport, AbortTransaction, LoseCommitAck, DeleteRaw, FindWinner,
         DeletePreview, CommitDies, Serving, BeforeUpload, AfterFailure
    <3> QED
      BY <3>1, BeginEffect DEF CommitBegin
  <2>2. CASE request[r].pc # "idle"
    BY <2>2, CommitMoves DEF Moved, InputInv
  <2> QED BY <2>1, <2>2
<1>3. TypeOK'
  BY <1>1, <1>2, CommitKeeps DEF TypeOK, ImportsKept
<1>4. \A i \in Requests : Accepted(i) => Accepted(i)'
  BY CommitKeeps DEF ImportsKept
<1>5. \A q \in Requests :
        request'[q].pc \in {"idle", "transaction"} \union BeforeUpload => ~Accepted(q)'
  BY <1>2, CommitKeeps DEF InputInv
<1> QED
  BY <1>1, <1>2, <1>3, <1>4, <1>5 DEF InputInv

LEMMA WithdrawTypes ==
  ASSUME TypeInv, NEW w \in Withdrawals, WithdrawStep(w)
  PROVE  TypeInv'
<1>1. TypeOK'
  BY WithdrawEffect DEF TypeInv, TypeOK, ImportsKept
<1>2. InputInv'
  BY WithdrawEffect DEF TypeInv, InputInv
<1> QED BY <1>1, <1>2 DEF TypeInv

LEMMA SweepTypes ==
  ASSUME TypeInv, NEW c \in Sweeps, SweepStep(c)
  PROVE  TypeInv'
<1> USE DEF TypeInv, stored
<1>1. TypeOK'
  BY SweepEffect, SweepKeeps DEF TypeOK, ImportsKept, Swept
<1>s. sweep[c] \in SweepType
  BY DEF TypeOK
<1>2. \A i \in Requests : i \in sweep'[c].expired \/ i = sweep'[c].marking => Accepted(i)
  <2>1. CASE SweepEnd(c) \/ SweepDies(c)
    BY <2>1, Kinds DEF SweepEnd, SweepDies, SweepIdle, TypeOK
  <2>2. CASE SweepListRows(c)
    <3> DEFINE age == [i \in ExpiredImports(c) |-> imports[i].rawExpiresAt]
    <3>1. PICK batch \in Batches(ExpiredImports(c), age) : sweep' = [sweep EXCEPT
            ![c].listed = @ \union {"rows"}, ![c].referenced = {i \in Requests : Accepted(i)},
            ![c].expired = batch]
      BY <2>2 DEF SweepListRows
    <3>2. sweep'[c].marking = sweep[c].marking /\ sweep'[c].expired = batch
      BY <3>1, <1>s DEF TypeOK, SweepType
    <3>3. batch \subseteq ExpiredImports(c)
      BY <3>1 DEF Batches
    <3> QED
      BY <3>2, <3>3 DEF InputInv, ExpiredImports
  <2>3. ASSUME NEW i \in Requests, SweepDeleteExpired(c, i)
        PROVE  sweep'[c].marking \in {None, i} /\ sweep'[c].expired \subseteq sweep[c].expired
               /\ i \in sweep[c].expired
    BY <2>3, <1>s DEF SweepDeleteExpired, TypeOK, SweepType
  <2>4. ASSUME SweepListObjects(c)
        PROVE  sweep'[c].marking = sweep[c].marking /\ sweep'[c].expired = sweep[c].expired
    <3>1. PICK batch : sweep' = [sweep EXCEPT
            ![c].listed = @ \union {"objects"}, ![c].temps = batch,
            ![c].raws = OldObjects(raw, OrphanRetention, c)]
      BY <2>4 DEF SweepListObjects
    <3> QED
      BY <3>1, <1>s DEF TypeOK, SweepType
  <2>5. ASSUME SweepPlan(c)
        PROVE  sweep'[c].marking = sweep[c].marking /\ sweep'[c].expired = sweep[c].expired
    <3>1. PICK batch : sweep' = [sweep EXCEPT
            ![c].pc = "delete", ![c].listed = {}, ![c].raws = batch, ![c].referenced = {}]
      BY <2>5 DEF SweepPlan
    <3> QED
      BY <3>1, <1>s DEF TypeOK, SweepType
  <2>6. ASSUME \/ SweepStart(c) \/ SweepMark(c)
               \/ \E p \in Previews : SweepDeletePreview(c, p)
               \/ \E i \in Requests : SweepDeleteOrphan(c, i)
        PROVE  sweep'[c].marking \in {None, sweep[c].marking} /\ sweep'[c].expired = sweep[c].expired
    BY <2>6, <1>s DEF SweepStart, SweepMark, SweepDeletePreview, SweepDeleteOrphan, TypeOK, SweepType
  <2> QED
    BY <2>1, <2>2, <2>3, <2>4, <2>5, <2>6, Kinds DEF SweepStep, InputInv
<1>3. InputInv'
  BY <1>2, SweepEffect, SweepKeeps DEF Swept, InputInv
<1> QED BY <1>1, <1>3

LEMMA TypeStep == TypeInv /\ [Next]_vars => TypeInv'
<1> SUFFICES ASSUME TypeInv, [Next]_vars PROVE TypeInv'
  OBVIOUS
<1>1. CASE Tick
  BY <1>1 DEF Tick, TypeInv, TypeOK, InputInv, Accepted, stored, actors
<1>2. CASE UNCHANGED vars
  BY <1>2 DEF vars, TypeInv, TypeOK, InputInv, Accepted
<1> QED
  BY <1>1, <1>2, PreviewTypes, CommitTypes, WithdrawTypes, SweepTypes DEF Next

\* Every reachable state has the types of TypeOK, and every actor the input its
\* later steps read, for any number of requests, previews, withdrawals and sweeps.
THEOREM SpotifyTypes == Spec => [](TypeOK /\ InputInv)
<1>1. Spec => []TypeInv
  BY InitTypes, TypeStep, PTL DEF Spec
<1> QED
  BY <1>1, PTL DEF TypeInv

-----------------------------------------------------------------------------
(* Raw files are kept until they expire, and marked deleted only when gone *)

\* The conditions of ListedInv and DeletableInv for one sweep.
SweepSafe(c) ==
  /\ sweep[c].begun <= clock
  /\ sweep[c].pc = "idle" => sweep[c] = SweepIdle
  /\ \A i \in sweep[c].raws :
       /\ request[i].pc \in {"done", "dead"}
       /\ raw[i] # None => raw[i] + OrphanRetention <= sweep[c].begun
  /\ sweep[c].pc = "list" /\ "rows" \in sweep[c].listed =>
       \A i \in Requests : Accepted(i) /\ i \notin sweep[c].referenced /\ raw[i] # None =>
         sweep[c].begun < raw[i] + OrphanRetention
  /\ sweep[c].pc = "delete" => \A i \in sweep[c].raws : Accepted(i) => raw[i] = None
  /\ \A i \in sweep[c].expired : imports[i].rawExpiresAt <= sweep[c].begun
  /\ sweep[c].marking # None =>
       /\ raw[sweep[c].marking] = None
       /\ imports[sweep[c].marking].rawExpiresAt <= sweep[c].begun

LEMMA SweepsSafe == ListedInv /\ DeletableInv <=> \A c \in Sweeps : SweepSafe(c)
BY DEF ListedInv, DeletableInv, SweepSafe

\* The objects in a sweep's list belong to requests that are over: an object
\* as old as the orphan threshold has outlived any request that is served.
LEMMA OldObjectsAreSettled ==
  ASSUME RetentionInv, NEW c \in Sweeps, NEW i \in OldObjects(raw, OrphanRetention, c)
  PROVE  request[i].pc \in {"done", "dead"}
<1>1. /\ i \in Requests /\ raw[i] \in Nat /\ raw[i] + OrphanRetention <= sweep[c].begun
      /\ raw[i] # None
  BY DEF OldObjects, RetentionInv, TypeOK, Time
<1>2. sweep[c].begun <= clock /\ sweep[c].begun \in Nat /\ clock \in Nat
  BY DEF RetentionInv, ListedInv, TypeOK, SweepType
<1>3. request[i].begun <= raw[i] /\ request[i].begun \in Nat
  BY <1>1 DEF RetentionInv, RequestInv, TypeOK, RequestType
<1>4. MaxRun < OrphanRetention /\ MaxRun \in Nat /\ OrphanRetention \in Nat
  BY Timing
<1>5. request[i].pc \notin Serving
  <2>1. request[i].pc \in Serving => clock <= request[i].begun + MaxRun
    BY <1>1 DEF RetentionInv, RequestInv
  <2> QED
    BY <1>1, <1>2, <1>3, <1>4, <2>1
<1>6. request[i].pc # "idle"
  BY <1>1 DEF RetentionInv, RequestInv
<1> QED
  BY <1>1, <1>5, <1>6 DEF RetentionInv, TypeOK, RequestType, RequestStates

LEMMA SweepOwn ==
  ASSUME RetentionInv, NEW c \in Sweeps, SweepStep(c)
  PROVE  SweepSafe(c)'
<1> USE DEF stored
<1>s. sweep[c] \in SweepType /\ sweep[c].begun \in Nat /\ clock \in Nat
  BY DEF RetentionInv, TypeOK, SweepType
<1>v. SweepSafe(c)
  BY SweepsSafe DEF RetentionInv
<1>1. CASE SweepStart(c)
  <2>1. /\ sweep'[c].pc = "list" /\ sweep'[c].begun = clock /\ sweep'[c].listed = {}
        /\ sweep'[c].raws = {} /\ sweep'[c].expired = {} /\ sweep'[c].marking = None
    BY <1>1, <1>v, <1>s DEF SweepStart, SweepSafe, SweepIdle, RetentionInv, TypeOK, SweepType
  <2>2. UNCHANGED clock
    BY <1>1 DEF SweepStart
  <2> QED
    BY <1>s, <2>1, <2>2 DEF SweepSafe
<1>2. CASE SweepListObjects(c)
  <2>1. PICK batch : sweep' = [sweep EXCEPT
          ![c].listed = @ \union {"objects"}, ![c].temps = batch,
          ![c].raws = OldObjects(raw, OrphanRetention, c)]
    BY <1>2 DEF SweepListObjects
  <2>2. /\ sweep'[c].pc = sweep[c].pc /\ sweep'[c].begun = sweep[c].begun
        /\ "rows" \in sweep'[c].listed => "rows" \in sweep[c].listed
        /\ sweep'[c].raws = OldObjects(raw, OrphanRetention, c)
        /\ sweep'[c].referenced = sweep[c].referenced
        /\ sweep'[c].expired = sweep[c].expired /\ sweep'[c].marking = sweep[c].marking
    BY <2>1, <1>s DEF RetentionInv, TypeOK, SweepType
  <2>3. UNCHANGED <<clock, imports, raw, request>> /\ sweep[c].pc = "list"
    BY <1>2 DEF SweepListObjects
  <2>4. \A i \in OldObjects(raw, OrphanRetention, c) :
          /\ request[i].pc \in {"done", "dead"}
          /\ raw[i] + OrphanRetention <= sweep[c].begun
    BY OldObjectsAreSettled DEF OldObjects
  <2> QED
    BY <1>v, <2>2, <2>3, <2>4 DEF SweepSafe, Accepted
<1>3. CASE SweepListRows(c)
  <2> DEFINE age == [i \in ExpiredImports(c) |-> imports[i].rawExpiresAt]
  <2>1. PICK batch \in Batches(ExpiredImports(c), age) : sweep' = [sweep EXCEPT
          ![c].listed = @ \union {"rows"}, ![c].referenced = {i \in Requests : Accepted(i)},
          ![c].expired = batch]
    BY <1>3 DEF SweepListRows
  <2>2. /\ sweep'[c].pc = sweep[c].pc /\ sweep'[c].begun = sweep[c].begun
        /\ sweep'[c].raws = sweep[c].raws
        /\ sweep'[c].referenced = {i \in Requests : Accepted(i)}
        /\ sweep'[c].expired = batch /\ sweep'[c].marking = sweep[c].marking
    BY <2>1, <1>s DEF RetentionInv, TypeOK, SweepType
  <2>3. UNCHANGED <<clock, imports, raw, request>> /\ sweep[c].pc = "list"
    BY <1>3 DEF SweepListRows
  <2>4. \A i \in batch : imports[i].rawExpiresAt <= sweep[c].begun
    BY <2>1 DEF Batches, ExpiredImports
  <2> QED
    BY <1>v, <2>2, <2>3, <2>4 DEF SweepSafe, Accepted
<1>4. CASE SweepPlan(c)
  <2> DEFINE age == [i \in Requests |-> IF raw[i] = None THEN 0 ELSE raw[i]]
  <2>1. PICK batch \in Batches(Orphans(c), age) : sweep' = [sweep EXCEPT
          ![c].pc = "delete", ![c].listed = {}, ![c].raws = batch, ![c].referenced = {}]
    BY <1>4 DEF SweepPlan
  <2>2. /\ sweep'[c].pc = "delete" /\ sweep'[c].begun = sweep[c].begun
        /\ sweep'[c].raws = batch
        /\ sweep'[c].expired = sweep[c].expired /\ sweep'[c].marking = sweep[c].marking
    BY <2>1, <1>s DEF RetentionInv, TypeOK, SweepType
  <2>3. /\ UNCHANGED <<clock, imports, raw, request>>
        /\ sweep[c].pc = "list" /\ "rows" \in sweep[c].listed
    BY <1>4 DEF SweepPlan
  <2>4. batch \subseteq sweep[c].raws \ sweep[c].referenced /\ batch \subseteq Requests
    BY <2>1, <1>s DEF Batches, Orphans, SweepType
  <2>5. ASSUME NEW i \in batch, Accepted(i)
        PROVE  raw[i] = None
    <3>1. raw[i] # None => sweep[c].begun < raw[i] + OrphanRetention
      BY <1>v, <2>3, <2>4, <2>5 DEF SweepSafe
    <3>2. raw[i] # None => raw[i] + OrphanRetention <= sweep[c].begun
      BY <1>v, <2>4 DEF SweepSafe
    <3>3. raw[i] # None => raw[i] \in Nat
      BY <2>4 DEF RetentionInv, TypeOK, Time
    <3> QED
      BY <1>s, <3>1, <3>2, <3>3, Timing
  <2> QED
    BY <1>v, <2>2, <2>3, <2>4, <2>5 DEF SweepSafe, Accepted
<1>5. ASSUME NEW p \in Previews, SweepDeletePreview(c, p)
      PROVE  SweepSafe(c)'
  <2>1. /\ sweep'[c].pc = "delete" /\ sweep'[c].begun = sweep[c].begun
        /\ sweep'[c].raws = sweep[c].raws
        /\ sweep'[c].expired = sweep[c].expired /\ sweep'[c].marking = sweep[c].marking
        /\ sweep[c].pc = "delete" /\ UNCHANGED <<clock, imports, raw, request>>
    BY <1>5, <1>s DEF SweepDeletePreview, RetentionInv, TypeOK, SweepType
  <2> QED
    BY <1>v, <2>1 DEF SweepSafe, Accepted
<1>6. ASSUME NEW i \in Requests, SweepDeleteExpired(c, i)
      PROVE  SweepSafe(c)'
  <2>1. /\ sweep'[c].pc = "delete" /\ sweep'[c].begun = sweep[c].begun
        /\ sweep'[c].raws = sweep[c].raws
        /\ sweep'[c].expired \subseteq sweep[c].expired
        /\ sweep[c].pc = "delete" /\ UNCHANGED <<clock, imports, request>>
    BY <1>6, <1>s DEF SweepDeleteExpired, RetentionInv, TypeOK, SweepType
  <2>2. /\ \/ raw' = [raw EXCEPT ![i] = None] /\ sweep'[c].marking = i
           \/ raw' = raw /\ sweep'[c].marking = None
        /\ i \in sweep[c].expired
    BY <1>6, <1>s DEF SweepDeleteExpired, RetentionInv, TypeOK, SweepType
  <2>3. \A j \in Requests : raw'[j] = raw[j] \/ raw'[j] = None
    BY <2>2 DEF RetentionInv, TypeOK
  <2>4. sweep'[c].marking # None => raw'[sweep'[c].marking] = None /\ sweep'[c].marking = i
    BY <2>2 DEF RetentionInv, TypeOK
  <2>5. sweep[c].raws \subseteq Requests
    BY <1>s DEF SweepType
  <2> QED
    BY <1>v, <2>1, <2>2, <2>3, <2>4, <2>5 DEF SweepSafe, Accepted
<1>7. ASSUME NEW i \in Requests, SweepDeleteOrphan(c, i)
      PROVE  SweepSafe(c)'
  <2>1. /\ sweep'[c].pc = "delete" /\ sweep'[c].begun = sweep[c].begun
        /\ sweep'[c].raws \subseteq sweep[c].raws
        /\ sweep'[c].expired = {} /\ sweep'[c].marking = None
        /\ sweep[c].pc = "delete" /\ UNCHANGED <<clock, imports, request>>
    BY <1>7, <1>s DEF SweepDeleteOrphan, RetentionInv, TypeOK, SweepType
  <2>2. \A j \in Requests : raw'[j] = raw[j] \/ raw'[j] = None
    BY SweepKeeps DEF RetentionInv, TypeInv
  <2>3. sweep[c].raws \subseteq Requests
    BY <1>s DEF SweepType
  <2> QED
    BY <1>v, <2>1, <2>2, <2>3 DEF SweepSafe, Accepted
<1>8. CASE SweepMark(c)
  <2>1. /\ sweep'[c].pc = "delete" /\ sweep'[c].begun = sweep[c].begun
        /\ sweep'[c].raws = sweep[c].raws
        /\ sweep'[c].expired = sweep[c].expired /\ sweep'[c].marking = None
        /\ sweep[c].pc = "delete" /\ UNCHANGED <<clock, raw, request>>
    BY <1>8, <1>s DEF SweepMark, RetentionInv, TypeOK, SweepType
  <2>2. /\ \A i \in Requests : Accepted(i)' <=> Accepted(i)
        /\ \A i \in sweep[c].expired : imports'[i].rawExpiresAt = imports[i].rawExpiresAt
        /\ sweep[c].raws \subseteq Requests
    BY <1>s, SweepKeeps DEF RetentionInv, TypeInv, InputInv, ImportsKept, SweepType
  <2> QED
    BY <1>v, <2>1, <2>2 DEF SweepSafe
<1>9. CASE SweepEnd(c) \/ SweepDies(c)
  <2>1. sweep'[c] = SweepIdle
    BY <1>9 DEF SweepEnd, SweepDies, RetentionInv, TypeOK
  <2> QED
    BY <1>9, <2>1, <1>s DEF SweepEnd, SweepDies, SweepSafe, SweepIdle
<1> QED
  BY <1>1, <1>2, <1>3, <1>4, <1>5, <1>6, <1>7, <1>8, <1>9 DEF SweepStep

\* A step that leaves sweep c alone, and its objects, keeps what c relies on.
LEMMA SweepOther ==
  ASSUME RetentionInv, NEW c \in Sweeps, UNCHANGED <<clock, sweep[c]>>, ImportsKept,
         \A i \in Requests :
           /\ raw'[i] = raw[i] \/ raw'[i] = None
           /\ request[i].pc \in {"done", "dead"} => request'[i].pc \in {"done", "dead"}
           /\ Accepted(i)' <=> Accepted(i)
  PROVE  SweepSafe(c)'
<1>1. SweepSafe(c) /\ sweep[c] \in SweepType
  BY SweepsSafe DEF RetentionInv, TypeOK
<1>2. /\ \A i \in sweep[c].expired : i \in Requests /\ imports'[i].rawExpiresAt = imports[i].rawExpiresAt
      /\ sweep[c].marking # None =>
           /\ sweep[c].marking \in Requests
           /\ imports'[sweep[c].marking].rawExpiresAt = imports[sweep[c].marking].rawExpiresAt
      /\ sweep[c].raws \subseteq Requests
  BY <1>1 DEF RetentionInv, InputInv, ImportsKept, SweepType
<1> QED
  BY <1>1, <1>2 DEF SweepSafe

LEMMA SweepRetention ==
  ASSUME RetentionInv, NEW c \in Sweeps, SweepStep(c)
  PROVE  (RequestInv /\ ListedInv /\ DeletableInv /\ RawFileKept /\ MarkedFileIsGone)'
<1> USE DEF stored
<1>s. sweep[c] \in SweepType /\ SweepSafe(c)
  BY SweepsSafe DEF RetentionInv, TypeOK
<1>k. /\ ImportsKept
      /\ \A i \in Requests : (Accepted(i)' <=> Accepted(i)) /\ (raw'[i] = raw[i] \/ raw'[i] = None)
      /\ UNCHANGED <<clock, request>> /\ Swept(c)
  BY SweepKeeps, SweepEffect DEF RetentionInv, TypeInv
<1>1. \A i \in Requests : raw'[i] # raw[i] =>
        i \in sweep[c].expired \/ (i \in sweep[c].raws /\ sweep[c].pc = "delete")
  <2>1. ASSUME NEW j \in Requests, SweepDeleteExpired(c, j) \/ SweepDeleteOrphan(c, j)
        PROVE  \A i \in Requests : raw'[i] # raw[i] =>
                 i \in sweep[c].expired \/ (i \in sweep[c].raws /\ sweep[c].pc = "delete")
    BY <2>1 DEF SweepDeleteExpired, SweepDeleteOrphan, RetentionInv, TypeOK
  <2> QED
    BY <2>1 DEF SweepStep, SweepStart, SweepListObjects, SweepListRows, SweepPlan,
       SweepDeletePreview, SweepMark, SweepEnd, SweepDies
<1>2. \A i \in Requests : Accepted(i) /\ imports'[i].rawDeleted =>
        imports[i].rawDeleted \/ i = sweep[c].marking
  <2>1. UNCHANGED imports \/ imports' = [imports EXCEPT ![sweep[c].marking].rawDeleted = TRUE]
    BY DEF SweepStep, SweepStart, SweepListObjects, SweepListRows, SweepPlan, SweepDeletePreview,
       SweepDeleteExpired, SweepDeleteOrphan, SweepMark, SweepEnd, SweepDies
  <2> QED
    BY <2>1 DEF RetentionInv, TypeOK
<1>3. RequestInv'
  <2>1. ASSUME NEW i \in Requests, request[i].pc = "transaction"
        PROVE  raw'[i] = raw[i]
    BY <1>1, <1>s, <2>1 DEF SweepSafe, RetentionInv, InputInv
  <2> QED
    BY <1>k, <2>1 DEF RetentionInv, RequestInv, AckLost
<1>4. ListedInv' /\ DeletableInv'
  <2>1. ASSUME NEW d \in Sweeps PROVE SweepSafe(d)'
    <3>1. CASE d = c
      BY <3>1, SweepOwn
    <3>2. CASE d # c
      BY <1>k, <3>2, SweepOther DEF Swept
    <3> QED BY <3>1, <3>2
  <2> QED
    BY <2>1 DEF ListedInv, DeletableInv, SweepSafe
<1>5. RawFileKept'
  <2> SUFFICES ASSUME NEW i \in Requests, Accepted(i)', ~imports'[i].rawDeleted,
                      clock' < imports'[i].rawExpiresAt, ~AckLost(i)'
               PROVE  raw'[i] # None
    BY DEF RawFileKept
  <2>1. /\ Accepted(i) /\ ~imports[i].rawDeleted /\ clock < imports[i].rawExpiresAt
        /\ imports[i].rawExpiresAt \in Nat
    BY <1>k, Kinds DEF ImportsKept, RetentionInv, TypeOK, Import, Accepted
  <2>2. raw[i] # None
    BY <1>k, <2>1 DEF RetentionInv, RawFileKept, AckLost
  <2>3. i \notin sweep[c].expired
    BY <1>s, <2>1 DEF SweepSafe, SweepType, RetentionInv, TypeOK
  <2>4. sweep[c].pc = "delete" => i \notin sweep[c].raws
    BY <1>s, <2>1, <2>2 DEF SweepSafe
  <2> QED
    BY <1>1, <2>2, <2>3, <2>4
<1>6. MarkedFileIsGone'
  <2>1. \A i \in Requests : Accepted(i) /\ imports'[i].rawDeleted => raw[i] = None
    BY <1>2, <1>s, Kinds DEF SweepSafe, RetentionInv, MarkedFileIsGone
  <2> QED
    BY <1>k, <2>1 DEF MarkedFileIsGone
<1> QED
  BY <1>3, <1>4, <1>5, <1>6

LEMMA WithdrawRetention ==
  ASSUME RetentionInv, NEW w \in Withdrawals, WithdrawStep(w)
  PROVE  (RequestInv /\ ListedInv /\ DeletableInv /\ RawFileKept /\ MarkedFileIsGone)'
<1>1. /\ ImportsKept
      /\ \A i \in Requests :
           /\ Accepted(i)' <=> Accepted(i)
           /\ Accepted(i) => imports'[i].rawDeleted = imports[i].rawDeleted
      /\ UNCHANGED <<clock, raw, request, sweep>>
  BY WithdrawEffect DEF RetentionInv, TypeInv
<1>2. RequestInv'
  BY <1>1 DEF RetentionInv, RequestInv, AckLost
<1>3. \A c \in Sweeps : SweepSafe(c)'
  BY <1>1, SweepOther
<1>4. ListedInv' /\ DeletableInv'
  BY <1>3 DEF ListedInv, DeletableInv, SweepSafe
<1>5. RawFileKept' /\ MarkedFileIsGone'
  BY <1>1 DEF RetentionInv, RawFileKept, MarkedFileIsGone, ImportsKept, AckLost
<1> QED
  BY <1>2, <1>4, <1>5

\* The object of a served request is younger than anything a sweep may list.
LEMMA CommitRetention ==
  ASSUME RetentionInv, NEW r \in Requests, CommitStep(r)
  PROVE  (RequestInv /\ ListedInv /\ DeletableInv /\ RawFileKept /\ MarkedFileIsGone)'
<1>t. /\ request[r] \in RequestType /\ request[r].begun \in Nat /\ clock \in Nat
      /\ raw[r] \in Nat \union {None}
  BY DEF RetentionInv, TypeOK, RequestType, Time
<1>k. /\ ImportsKept
      /\ \A i \in Requests : i # r =>
           /\ Accepted(i)' <=> Accepted(i)
           /\ Accepted(i) => imports'[i].rawDeleted = imports[i].rawDeleted
           /\ raw'[i] = raw[i]
  BY CommitKeeps DEF RetentionInv, TypeInv
<1>m. /\ UNCHANGED <<clock, sweep>>
      /\ \A q \in Requests : q # r => request'[q] = request[q]
      /\ request'[r].begun = IF request[r].pc = "idle" THEN clock ELSE request[r].begun
  <2>1. CASE request[r].pc = "idle"
    <3>1. PICK u \in Users, k \in Keys, p \in Previews, s \in Scopes, t \in Requests \union {None} :
            CommitBegin(r, u, k, p, s, t)
      BY <2>1 DEF CommitStep, CheckHash, RecheckHash, LookUpHash, ReadPreview, CheckTarget, Upload,
         CommitTransaction, WriteImport, AbortTransaction, LoseCommitAck, DeleteRaw, FindWinner,
         DeletePreview, CommitDies, Serving, BeforeUpload, AfterFailure
    <3> QED
      BY <2>1, <3>1, BeginEffect DEF CommitBegin, RetentionInv
  <2>2. CASE request[r].pc # "idle"
    BY <2>2, CommitMoves DEF Moved, RetentionInv
  <2> QED BY <2>1, <2>2
<1>l. /\ request'[r].answer = "TRANSACTION_FAILURE" => request'[r].pc \in {"deleteRaw", "done", "dead"}
      /\ request[r].answer = "TRANSACTION_FAILURE" => request'[r].answer = "TRANSACTION_FAILURE"
  BY FailureKept DEF RetentionInv, RequestInv
<1>p. \/ /\ request[r].pc = "idle" /\ request'[r].pc \in {"checkHash", "done"}
         /\ UNCHANGED <<imports, raw>>
      \/ /\ request[r].pc \in BeforeUpload /\ request'[r].pc \in BeforeUpload \union {"done"}
         /\ UNCHANGED <<imports, raw>>
      \/ /\ request[r].pc = "upload" /\ request'[r].pc = "transaction"
         /\ raw'[r] = clock /\ UNCHANGED imports
      \/ /\ request[r].pc = "transaction" /\ request'[r].pc = "deletePreview"
         /\ WriteImport(r) /\ UNCHANGED raw
      \/ /\ request[r].pc = "transaction" /\ request'[r].pc = "deleteRaw"
         /\ CommitAckLost /\ request'[r].answer = "TRANSACTION_FAILURE"
         /\ WriteImport(r) /\ UNCHANGED raw
      \/ /\ request[r].pc = "transaction" /\ request'[r].pc = "deleteRaw"
         /\ UNCHANGED <<imports, raw>>
      \/ /\ request[r].pc = "deleteRaw" /\ request'[r].pc \in {"findWinner", "done"}
         /\ raw'[r] \in {raw[r], None} /\ UNCHANGED imports
      \/ /\ request[r].pc \in {"findWinner", "deletePreview"} /\ request'[r].pc = "done"
         /\ UNCHANGED <<imports, raw>>
      \/ /\ request[r].pc \in Serving /\ request'[r].pc = "dead"
         /\ UNCHANGED <<imports, raw>>
  <2>1. TypeOK
    BY DEF RetentionInv
  <2> QED
    BY <2>1, CommitPhases DEF TypeOK
<1>a. CASE /\ WriteImport(r) /\ request[r].pc = "transaction" /\ UNCHANGED raw
           /\ \/ request'[r].pc = "deletePreview"
              \/ /\ request'[r].pc = "deleteRaw"
                 /\ CommitAckLost /\ request'[r].answer = "TRANSACTION_FAILURE"
  <2>1. ~Accepted(r)
    BY <1>a DEF RetentionInv, InputInv
  <2>2. /\ Accepted(r)' /\ ~imports'[r].rawDeleted
        /\ raw[r] # None /\ raw[r] \in Nat /\ request[r].begun <= raw[r]
    <3>1. imports'[r] = NewImport(r) /\ imports'[r] \in Import
      BY <1>a, <2>1, WriteEffect DEF RetentionInv, TypeInv
    <3>2. Accepted(r)'
      BY <3>1, Kinds DEF Accepted
    <3>3. imports'[r].rawDeleted = FALSE
      BY <3>1 DEF NewImport
    <3> QED
      BY <1>a, <1>t, <3>2, <3>3 DEF RetentionInv, RequestInv
  <2>3. clock <= request[r].begun + MaxRun
    BY <1>a DEF RetentionInv, RequestInv, Serving
  <2>4. ASSUME NEW c \in Sweeps
        PROVE  SweepSafe(c)'
    <3>1. SweepSafe(c) /\ sweep[c] \in SweepType /\ sweep[c].begun \in Nat
      BY SweepsSafe DEF RetentionInv, TypeOK, SweepType
    <3>2. sweep[c].begun < raw[r] + OrphanRetention
      BY <1>t, <2>2, <2>3, <3>1, Timing DEF SweepSafe
    <3>3. r \notin sweep[c].raws
      BY <1>a, <3>1 DEF SweepSafe
    <3>4. \A i \in sweep[c].expired :
            i \in Requests /\ i # r /\ imports'[i].rawExpiresAt = imports[i].rawExpiresAt
      BY <1>k, <2>1, <3>1 DEF RetentionInv, InputInv, ImportsKept, SweepType
    <3>5. sweep[c].marking # None =>
            imports'[sweep[c].marking].rawExpiresAt = imports[sweep[c].marking].rawExpiresAt
      BY <1>k, <3>1 DEF RetentionInv, InputInv, ImportsKept, SweepType
    <3>6. sweep[c].raws \subseteq Requests
      BY <3>1 DEF SweepType
    <3> QED
      BY <1>a, <1>k, <1>m, <3>1, <3>2, <3>3, <3>4, <3>5, <3>6 DEF SweepSafe
  <2>5. ListedInv' /\ DeletableInv'
    BY <2>4 DEF ListedInv, DeletableInv, SweepSafe
  <2>6. RequestInv'
    BY <1>a, <1>k, <1>l, <1>m, <1>t, <2>2, <2>3
    DEF RetentionInv, RequestInv, Serving, BeforeUpload, AfterFailure, AckLost
  <2>7. RawFileKept' /\ MarkedFileIsGone'
    BY <1>a, <1>k, <1>m, <2>2 DEF RetentionInv, RawFileKept, MarkedFileIsGone, ImportsKept, AckLost
  <2> QED
    BY <2>5, <2>6, <2>7
<1>b. CASE UNCHANGED imports
  <2>1. raw'[r] # raw[r] => request[r].pc \in Serving /\ (~Accepted(r) \/ (AckLost(r) /\ raw'[r] = None))
    BY <1>p, <1>b, <1>t DEF RetentionInv, InputInv, RequestInv, BeforeUpload, AfterFailure, Serving
  <2>2. request[r].pc \in {"done", "dead"} => FALSE
    BY <1>p DEF BeforeUpload, Serving, AfterFailure
  <2>3. ASSUME NEW c \in Sweeps
        PROVE  SweepSafe(c)'
    <3>1. SweepSafe(c) /\ sweep[c] \in SweepType
      BY SweepsSafe DEF RetentionInv, TypeOK
    <3>2. r \notin sweep[c].raws
      BY <2>2, <3>1 DEF SweepSafe
    <3>3. sweep[c].marking # None => sweep[c].marking \in Requests /\ Accepted(sweep[c].marking)
      BY <3>1 DEF RetentionInv, InputInv, SweepType
    <3>4. sweep[c].raws \subseteq Requests
      BY <3>1 DEF SweepType
    <3>5. \A i \in Requests : Accepted(i) => raw'[i] \in {raw[i], None}
      BY <1>k, <2>1
    <3> QED
      BY <1>b, <1>k, <1>m, <3>1, <3>2, <3>3, <3>4, <3>5 DEF SweepSafe, Accepted
  <2>4. ListedInv' /\ DeletableInv'
    BY <2>3 DEF ListedInv, DeletableInv, SweepSafe
  <2>5. ASSUME NEW q \in Requests, q # r
        PROVE  /\ request'[q].begun <= clock'
               /\ request'[q].pc \in Serving => clock' <= request'[q].begun + MaxRun
               /\ request'[q].pc \in {"idle"} \union BeforeUpload => raw'[q] = None
               /\ request'[q].pc = "transaction" => raw'[q] # None
               /\ request'[q].pc \in AfterFailure => ~Accepted(q)' \/ AckLost(q)'
               /\ request'[q].answer = "TRANSACTION_FAILURE" =>
                    request'[q].pc \in {"deleteRaw", "done", "dead"}
               /\ raw'[q] # None => request'[q].begun <= raw'[q] /\ raw'[q] <= clock'
    BY <1>k, <1>m, <2>5 DEF RetentionInv, RequestInv, AckLost
  <2>6. /\ request'[r].begun <= clock'
        /\ request'[r].pc \in Serving => clock' <= request'[r].begun + MaxRun
    BY <1>m, <1>p, <1>t, Timing DEF RetentionInv, RequestInv, Serving, BeforeUpload, AfterFailure
  <2>7. /\ request'[r].pc \in {"idle"} \union BeforeUpload => raw'[r] = None
        /\ request'[r].pc = "transaction" => raw'[r] # None
        /\ request'[r].pc \in AfterFailure => ~Accepted(r)' \/ AckLost(r)'
    BY <1>b, <1>l, <1>p, <1>t, Kinds
    DEF RetentionInv, RequestInv, InputInv, BeforeUpload, AfterFailure, Accepted, AckLost
  <2>8. raw'[r] # None => request'[r].begun <= raw'[r] /\ raw'[r] <= clock'
    BY <1>m, <1>p, <1>t DEF RetentionInv, RequestInv, BeforeUpload
  <2>9. RequestInv'
    BY <1>l, <2>5, <2>6, <2>7, <2>8 DEF RequestInv
  <2>10. RawFileKept' /\ MarkedFileIsGone'
    BY <1>b, <1>k, <1>l, <1>m, <2>1 DEF RetentionInv, RawFileKept, MarkedFileIsGone, Accepted, AckLost
  <2> QED
    BY <2>4, <2>9, <2>10
<1> QED
  BY <1>a, <1>b, <1>p

LEMMA InitRetention == Init => RetentionInv
<1> SUFFICES ASSUME Init PROVE RetentionInv
  OBVIOUS
<1>1. TypeOK /\ InputInv
  BY InitTypes DEF TypeInv
<1>2. RequestInv /\ ListedInv /\ DeletableInv /\ RawFileKept /\ MarkedFileIsGone
  BY Timing, NoneIsNoAnswer DEF Init, Answers, Errors, RequestInv, ListedInv, DeletableInv, RawFileKept, MarkedFileIsGone, SweepIdle,
     Accepted, Serving, BeforeUpload, AfterFailure
<1> QED BY <1>1, <1>2 DEF RetentionInv

LEMMA RetentionStep ==
  ASSUME RetentionInv, [Next]_vars
  PROVE  RetentionInv'
<1>1. TypeOK' /\ InputInv'
  BY TypeStep DEF RetentionInv, TypeInv
<1> DEFINE Rest == RequestInv /\ ListedInv /\ DeletableInv /\ RawFileKept /\ MarkedFileIsGone
<1>2. Tick => Rest'
  <2> SUFFICES ASSUME Tick PROVE Rest'
    OBVIOUS
  <2>1. clock \in Nat /\ clock' = clock + 1 /\ UNCHANGED <<imports, raw, request, sweep>>
    BY DEF Tick, RetentionInv, TypeOK, stored, actors
  <2>2. \A r \in Requests : request[r].pc \in Serving => clock + 1 <= request[r].begun + MaxRun
    BY Timing DEF Tick, InTime, RetentionInv, TypeOK, RequestType
  <2>3. RequestInv'
    <3>1. \A r \in Requests : request[r].begun \in Nat /\ (raw[r] # None => raw[r] \in Nat)
      BY DEF RetentionInv, TypeOK, RequestType, Time
    <3> QED
      BY <2>1, <2>2, <3>1 DEF RetentionInv, RequestInv, Accepted, AckLost
  <2>4. ListedInv' /\ DeletableInv'
    <3>1. \A c \in Sweeps : sweep[c].begun \in Nat
      BY DEF RetentionInv, TypeOK, SweepType
    <3> QED
      BY <2>1, <3>1 DEF RetentionInv, ListedInv, DeletableInv, Accepted
  <2>5. RawFileKept'
    <3>1. \A i \in Requests : Accepted(i) => imports[i].rawExpiresAt \in Nat
      BY DEF RetentionInv, TypeOK, Accepted, Import
    <3> QED
      BY <2>1, <3>1 DEF RetentionInv, RawFileKept, Accepted, AckLost
  <2>6. MarkedFileIsGone'
    BY <2>1 DEF RetentionInv, MarkedFileIsGone, Accepted
  <2> QED BY <2>3, <2>4, <2>5, <2>6
<1>3. ASSUME UNCHANGED <<clock, imports, raw, request, sweep>>
      PROVE  Rest'
  BY <1>3 DEF RetentionInv, RequestInv, ListedInv, DeletableInv, RawFileKept, MarkedFileIsGone, Accepted,
     AckLost
<1>4. ASSUME NEW p \in Previews, PreviewStep(p)
      PROVE  Rest'
  BY <1>3, <1>4 DEF PreviewStep, PreviewUpload, ReprocessRequest, ReprocessReadRaw, PreviewStore,
     PreviewDies, stored
<1>5. UNCHANGED vars => Rest'
  BY <1>3 DEF vars
<1>6. Rest'
  BY <1>2, <1>4, <1>5, CommitRetention, WithdrawRetention, SweepRetention DEF Next
<1> QED
  BY <1>1, <1>6 DEF RetentionInv

\* No sweep and no rollback takes a raw file before it expires, however many
\* requests and sweeps overlap, and whichever of them die; but the rollback of a
\* request that never heard of its commit does.
THEOREM SpotifyRawFileKept == Spec => []RawFileKept
<1>1. RetentionInv /\ [Next]_vars => RetentionInv'
  BY RetentionStep
<1>2. Spec => []RetentionInv
  BY <1>1, InitRetention, PTL DEF Spec
<1> QED
  BY <1>2, PTL DEF RetentionInv

\* A row says its raw file is deleted only when it is.
THEOREM SpotifyMarkedFileIsGone == Spec => []MarkedFileIsGone
<1>1. RetentionInv /\ [Next]_vars => RetentionInv'
  BY RetentionStep
<1>2. Spec => []RetentionInv
  BY <1>1, InitRetention, PTL DEF Spec
<1> QED
  BY <1>2, PTL DEF RetentionInv

-----------------------------------------------------------------------------
(* What a step does to the history of imports: nothing but deletion marks, the *)
(* acceptance of one import, with what it replaces, or one withdrawal          *)

SameInput(i) ==
  /\ imports'[i].hash = imports[i].hash /\ imports'[i].key = imports[i].key
  /\ imports'[i].scope = imports[i].scope
SameRow(i) ==
  /\ imports'[i] # None <=> Accepted(i)
  /\ Accepted(i) => /\ SameInput(i) /\ imports'[i].status = imports[i].status
                    /\ imports'[i].replacedBy = imports[i].replacedBy
Settled(i, status, by) ==
  /\ imports'[i] # None /\ Current(i) /\ SameInput(i)
  /\ imports'[i].status = status /\ imports'[i].replacedBy = by
Kept == \A i \in Requests : SameRow(i)
Written(r) ==
  /\ ~Accepted(r) /\ imports'[r] # None /\ Rivals(r) = {}
  /\ imports'[r].hash = FileOf(r) /\ imports'[r].key = request[r].key
  /\ imports'[r].scope = request[r].scope
  /\ imports'[r].status = "IMPORTED" /\ imports'[r].replacedBy = None
  /\ request[r].target # None =>
       request[r].target \in Requests /\ Settled(request[r].target, "REPLACED", r)
  /\ \A i \in Requests \ {r, request[r].target} : SameRow(i)
Withdrew(w) ==
  LET i == withdrawal[w].import
  IN /\ withdrawal[w].pc = "update" /\ withdrawal'[w].pc = "withdrawn" /\ withdrawal'[w].import = i
     /\ i \in Requests /\ Settled(i, "WITHDRAWN", imports[i].replacedBy)
     /\ \A j \in Requests \ {i} : SameRow(j)

LEMMA UnchangedRows == ASSUME UNCHANGED imports PROVE Kept
BY DEF Kept, SameRow, SameInput, Accepted

LEMMA WriteRows ==
  ASSUME TypeInv, NEW r \in Requests, WriteImport(r)
  PROVE  Written(r)
<1> DEFINE t == request[r].target
<1>1. ~Accepted(r) /\ request[r].pc = "transaction" /\ Rivals(r) = {}
  BY DEF TypeInv, InputInv, WriteImport
<1>2. imports'[r] = NewImport(r) /\ imports'[r] \in Import /\ imports'[r] # None
  BY <1>1, WriteEffect, Kinds
<1>3. /\ imports'[r].hash = FileOf(r) /\ imports'[r].key = request[r].key
      /\ imports'[r].scope = request[r].scope
      /\ imports'[r].status = "IMPORTED" /\ imports'[r].replacedBy = None
  BY <1>2 DEF NewImport
<1>4. imports \in [Requests -> Import \union {None}] /\ request[r] \in RequestType
  BY DEF TypeInv, TypeOK
<1>5. CASE t = None
  <2>1. imports' = [imports EXCEPT ![r] = NewImport(r)] BY <1>5 DEF WriteImport
  <2>2. \A i \in Requests \ {r} : imports'[i] = imports[i] BY <1>4, <2>1
  <2> QED BY <1>1, <1>2, <1>3, <1>5, <2>2 DEF Written, SameRow, SameInput, Accepted
<1>6. CASE t # None
  <2>1. t \in Requests /\ Current(t) /\ imports[t] \in Import /\ t # r
    BY <1>1, <1>4, <1>6 DEF WriteImport, RequestType, Current, Accepted
  <2>2. imports' = [imports EXCEPT ![r] = NewImport(r),
                           ![t] = [@ EXCEPT !.status = "REPLACED", !.replacedBy = r]]
    BY <1>6 DEF WriteImport
  <2>3. /\ imports'[t] = [imports[t] EXCEPT !.status = "REPLACED", !.replacedBy = r]
        /\ \A i \in Requests \ {r, t} : imports'[i] = imports[i]
    BY <1>4, <2>1, <2>2
  <2>4. /\ imports'[t].hash = imports[t].hash /\ imports'[t].key = imports[t].key
        /\ imports'[t].scope = imports[t].scope
        /\ imports'[t].status = "REPLACED" /\ imports'[t].replacedBy = r
        /\ imports'[t] \in Import
    BY <2>1, <2>3 DEF Import
  <2>5. Settled(t, "REPLACED", r) BY <2>1, <2>4, Kinds DEF Settled, SameInput, Accepted
  <2> QED BY <1>1, <1>2, <1>3, <2>1, <2>3, <2>5 DEF Written, SameRow, SameInput, Accepted
<1> QED BY <1>5, <1>6

LEMMA CommitRows ==
  ASSUME TypeInv, NEW r \in Requests, CommitStep(r)
  PROVE  UNCHANGED imports \/ (WriteImport(r) /\ Written(r))
BY CommitPhases, WriteRows DEF TypeInv

LEMMA SweepRows ==
  ASSUME TypeInv, NEW c \in Sweeps, SweepStep(c)
  PROVE  Kept
<1>1. CASE UNCHANGED imports BY <1>1, UnchangedRows
<1>2. ASSUME SweepMark(c), ~UNCHANGED imports PROVE Kept
  <2> DEFINE i == sweep[c].marking
  <2>1. i \in Requests /\ imports' = [imports EXCEPT ![i].rawDeleted = TRUE]
    BY <1>2 DEF SweepMark, TypeInv, TypeOK, SweepType
  <2>2. imports \in [Requests -> Import \union {None}] /\ imports[i] \in Import
    BY <2>1 DEF TypeInv, TypeOK, InputInv, Accepted
  <2>3. /\ imports'[i] = [imports[i] EXCEPT !.rawDeleted = TRUE]
        /\ \A j \in Requests \ {i} : imports'[j] = imports[j]
    BY <2>1, <2>2
  <2>4. /\ imports'[i].hash = imports[i].hash /\ imports'[i].key = imports[i].key
        /\ imports'[i].scope = imports[i].scope /\ imports'[i].status = imports[i].status
        /\ imports'[i].replacedBy = imports[i].replacedBy /\ imports'[i] \in Import
    BY <2>2, <2>3 DEF Import
  <2> QED BY <2>2, <2>3, <2>4, Kinds DEF Kept, SameRow, SameInput, Accepted
<1> QED
  BY <1>1, <1>2 DEF SweepStep, SweepStart, SweepListObjects, SweepListRows, SweepPlan,
     SweepDeletePreview, SweepDeleteExpired, SweepDeleteOrphan, SweepEnd, SweepDies, stored

LEMMA WithdrawRows ==
  ASSUME TypeInv, NEW w \in Withdrawals, WithdrawStep(w)
  PROVE  \/ UNCHANGED imports /\ withdrawal[w].pc # "withdrawn" /\ withdrawal'[w].pc # "withdrawn"
         \/ Withdrew(w)
<1>1. withdrawal \in [Withdrawals -> WithdrawalType]
      /\ imports \in [Requests -> Import \union {None}]
  BY DEF TypeInv, TypeOK
<1>2. ASSUME NEW i \in Requests, WithdrawRead(w, i)
      PROVE  UNCHANGED imports /\ withdrawal[w].pc # "withdrawn" /\ withdrawal'[w].pc # "withdrawn"
  <2>1. Accepted(i) /\ withdrawal[w].pc = "idle" /\ UNCHANGED imports
    BY <1>2 DEF WithdrawRead, stored
  <2>2. imports[i].status \in {"IMPORTED", "WITHDRAWN", "REPLACED"}
    BY <1>1, <2>1 DEF Accepted, Import
  <2>3. PICK pc \in {"replayed", "refused", "update"} :
          withdrawal' = [withdrawal EXCEPT ![w] = [pc |-> pc, import |-> i, begun |-> clock]]
    BY <1>2, <2>2 DEF WithdrawRead
  <2> QED BY <1>1, <2>1, <2>3
<1>3. CASE WithdrawDies(w)
  BY <1>1, <1>3 DEF WithdrawDies, stored, WithdrawalType
<1>4. CASE WithdrawUpdate(w)
  <2> DEFINE i == withdrawal[w].import
  <2>1. i \in Requests /\ Accepted(i) /\ imports[i] \in Import /\ withdrawal[w].pc = "update"
    BY <1>1, <1>4 DEF WithdrawUpdate, TypeInv, InputInv, Accepted
  <2>2. CASE Current(i)
    <3>1. /\ imports' = [imports EXCEPT ![i].status = "WITHDRAWN"]
          /\ withdrawal' = [withdrawal EXCEPT ![w].pc = "withdrawn"]
      BY <1>4, <2>2 DEF WithdrawUpdate
    <3>2. /\ imports'[i] = [imports[i] EXCEPT !.status = "WITHDRAWN"]
          /\ \A j \in Requests \ {i} : imports'[j] = imports[j]
      BY <1>1, <2>1, <3>1
    <3>3. /\ imports'[i].hash = imports[i].hash /\ imports'[i].key = imports[i].key
          /\ imports'[i].scope = imports[i].scope /\ imports'[i].status = "WITHDRAWN"
          /\ imports'[i].replacedBy = imports[i].replacedBy /\ imports'[i] \in Import
      BY <2>1, <3>2 DEF Import
    <3>4. withdrawal'[w].pc = "withdrawn" /\ withdrawal'[w].import = i
      BY <1>1, <3>1 DEF WithdrawalType
    <3>5. Settled(i, "WITHDRAWN", imports[i].replacedBy)
      BY <2>2, <3>3, Kinds DEF Settled, SameInput, Accepted
    <3> QED BY <2>1, <3>2, <3>4, <3>5 DEF Withdrew, SameRow, SameInput, Accepted
  <2>3. CASE ~Current(i)
    <3>1. PICK pc \in {"replayed", "refused"} : withdrawal' = [withdrawal EXCEPT ![w].pc = pc]
      BY <1>4, <2>3 DEF WithdrawUpdate
    <3>2. withdrawal'[w].pc = pc BY <1>1, <3>1 DEF WithdrawalType
    <3>3. UNCHANGED imports BY <1>4, <2>3 DEF WithdrawUpdate
    <3> QED BY <2>1, <3>2, <3>3
  <2> QED BY <2>2, <2>3
<1> QED BY <1>2, <1>3, <1>4 DEF WithdrawStep

\* The other steps leave the imports alone.
LEMMA OtherRows ==
  ASSUME Tick \/ UNCHANGED vars \/ \E p \in Previews : PreviewStep(p)
  PROVE  UNCHANGED <<imports, request, withdrawal>>
BY DEF Tick, vars, stored, actors, PreviewStep, PreviewUpload, ReprocessRequest, ReprocessReadRaw,
   PreviewStore, PreviewDies

\* What every step keeps of the accepted imports.
LEMMA RowsStay ==
  ASSUME NEW i \in Requests, Accepted(i), NEW r \in Requests, NEW w \in Withdrawals,
         Kept \/ Written(r) \/ Withdrew(w)
  PROVE  imports'[i] # None /\ SameInput(i)
BY Kinds DEF Kept, Written, Withdrew, SameRow, Settled

\* A step of a commit request leaves the others and its own input alone.
LEMMA CommitFrame ==
  ASSUME TypeInv, NEW r \in Requests, CommitStep(r)
  PROVE  /\ UNCHANGED <<clock, preview, withdrawal, sweep>>
         /\ request' \in [Requests -> RequestType]
         /\ \A q \in Requests \ {r} : request'[q] = request[q]
         /\ IF request[r].pc = "idle"
            THEN /\ request'[r].pc \in {"checkHash", "done"} /\ request'[r].begun = clock
                 /\ UNCHANGED imports /\ ~Accepted(r)
            ELSE /\ request'[r].key = request[r].key /\ request'[r].preview = request[r].preview
                 /\ request'[r].scope = request[r].scope /\ request'[r].target = request[r].target
                 /\ request'[r].begun = request[r].begun
<1>1. CASE request[r].pc = "idle"
  <2>1. PICK u \in Users, k \in Keys, p \in Previews, s \in Scopes, t \in Requests \union {None} :
          CommitBegin(r, u, k, p, s, t)
    BY <1>1 DEF CommitStep, CheckHash, RecheckHash, LookUpHash, ReadPreview, CheckTarget, Upload,
       CommitTransaction, WriteImport, AbortTransaction, LoseCommitAck, DeleteRaw, FindWinner,
       DeletePreview, CommitDies, Serving, BeforeUpload, AfterFailure
  <2>2. ~Accepted(r) BY <1>1 DEF TypeInv, InputInv
  <2>3. UNCHANGED <<clock, imports, preview, withdrawal, sweep>>
    BY <2>1 DEF CommitBegin, stored
  <2> QED BY <1>1, <2>1, <2>2, <2>3, BeginEffect DEF TypeInv
<1>2. CASE request[r].pc # "idle"
  BY <1>2, CommitMoves DEF Moved, TypeInv
<1> QED BY <1>1, <1>2

\* A step, as far as imports, requests and withdrawals are concerned.
CommitCase(r) == CommitStep(r) /\ (UNCHANGED imports \/ (WriteImport(r) /\ Written(r)))
WithdrawCase(w) ==
  /\ WithdrawStep(w) /\ UNCHANGED request
  /\ \A v \in Withdrawals \ {w} : withdrawal'[v] = withdrawal[v]
  /\ \/ UNCHANGED imports /\ withdrawal[w].pc # "withdrawn" /\ withdrawal'[w].pc # "withdrawn"
     \/ Withdrew(w)

LEMMA Cases ==
  ASSUME TypeInv, [Next]_vars
  PROVE  \/ Kept /\ UNCHANGED <<request, withdrawal>>
         \/ \E r \in Requests : CommitCase(r)
         \/ \E w \in Withdrawals : WithdrawCase(w)
<1>1. ASSUME NEW r \in Requests, CommitStep(r) PROVE CommitCase(r)
  BY <1>1, CommitRows DEF CommitCase
<1>2. ASSUME NEW w \in Withdrawals, WithdrawStep(w) PROVE WithdrawCase(w)
  BY <1>2, WithdrawRows, WithdrawEffect DEF WithdrawCase
<1>3. ASSUME NEW c \in Sweeps, SweepStep(c) PROVE Kept /\ UNCHANGED <<request, withdrawal>>
  <2>1. Kept BY <1>3, SweepRows
  <2>2. UNCHANGED <<request, withdrawal>>
    BY <1>3 DEF SweepStep, SweepStart, SweepListObjects, SweepListRows, SweepPlan,
       SweepDeletePreview, SweepDeleteExpired, SweepDeleteOrphan, SweepMark, SweepEnd, SweepDies
  <2> QED BY <2>1, <2>2
<1>4. CASE Tick \/ UNCHANGED vars \/ \E p \in Previews : PreviewStep(p)
  BY <1>4, OtherRows, UnchangedRows
<1> QED BY <1>1, <1>2, <1>3, <1>4 DEF Next

-----------------------------------------------------------------------------
(* The imports implement the ledger *)

\* The target a request goes on with is an import of its own artist and type.
TargetInv == \A r \in Requests :
  request[r].pc \in {"upload", "transaction"} /\ request[r].target # None =>
    /\ request[r].target \in Requests /\ Accepted(request[r].target)
    /\ imports[request[r].target].scope = request[r].scope

LEMMA ToUpload ==
  ASSUME TypeOK, NEW r \in Requests, CommitStep(r), request'[r].pc = "upload"
  PROVE  request[r].target = None \/ Replaceable(r)
<1> USE DEF stored
<1>g. ASSUME NEW to, Goto(r, to) PROVE request'[r].pc = to
  BY <1>g DEF Goto, TypeOK, RequestType
<1>r. ASSUME NEW a, NEW i, Reply(r, a, i) PROVE request'[r].pc = "done"
  BY <1>r DEF Reply, TypeOK, RequestType
<1>1. request[r].pc = "checkTarget"
  <2>1. ~(CheckHash(r) \/ ReadPreview(r) \/ RecheckHash(r))
    BY <1>g, <1>r DEF CheckHash, RecheckHash, LookUpHash, ReadPreview, Refuse
  <2>2. ~Upload(r) BY <1>g, <1>r DEF Upload, Refuse
  <2>3. ~CommitDies(r) BY <1>g DEF CommitDies
  <2>4. CASE CheckTarget(r) BY <2>4 DEF CheckTarget
  <2>5. request[r].pc \in BeforeUpload BY CommitPhases DEF BeforeUpload
  <2> QED
    BY <2>1, <2>2, <2>3, <2>4, <2>5
    DEF CommitStep, CommitBegin, CommitTransaction, WriteImport, AbortTransaction, LoseCommitAck,
        DeleteRaw, FindWinner, DeletePreview, BeforeUpload
<1>2. CheckTarget(r)
  BY <1>1 DEF CommitStep, CommitBegin, CheckHash, RecheckHash, LookUpHash, ReadPreview, Upload,
     CommitTransaction, WriteImport, AbortTransaction, LoseCommitAck, DeleteRaw, FindWinner,
     DeletePreview, CommitDies, TypeOK, Goto, RequestType, CheckTarget
<1>3. ~Refuse(r, "CONFLICT") BY <1>r DEF Refuse
<1> QED BY <1>2, <1>3 DEF CheckTarget

LEMMA TargetStep ==
  ASSUME TypeInv, TargetInv, [Next]_vars
  PROVE  TargetInv'
<1> SUFFICES ASSUME NEW q \in Requests, request'[q].pc \in {"upload", "transaction"},
                    request'[q].target # None
             PROVE  /\ request'[q].target \in Requests /\ imports'[request'[q].target] # None
                    /\ imports'[request'[q].target].scope = request'[q].scope
  BY DEF TargetInv, Accepted
<1>1. CASE Kept /\ UNCHANGED <<request, withdrawal>>
  BY <1>1 DEF Kept, SameRow, SameInput, TargetInv
<1>2. ASSUME NEW w \in Withdrawals, WithdrawCase(w)
      PROVE  /\ request'[q].target \in Requests /\ imports'[request'[q].target] # None
             /\ imports'[request'[q].target].scope = request'[q].scope
  <2>1. request' = request /\ (Kept \/ Withdrew(w)) BY <1>2, UnchangedRows DEF WithdrawCase
  <2> DEFINE t == request[q].target
  <2>2. t \in Requests /\ Accepted(t) /\ imports[t].scope = request[q].scope
    BY <2>1 DEF TargetInv
  <2>3. imports'[t] # None /\ SameInput(t) BY <2>1, <2>2, RowsStay
  <2> QED BY <2>1, <2>2, <2>3 DEF SameInput
<1>3. ASSUME NEW r \in Requests, CommitCase(r)
      PROVE  /\ request'[q].target \in Requests /\ imports'[request'[q].target] # None
             /\ imports'[request'[q].target].scope = request'[q].scope
  <2>1. CommitStep(r) /\ (Kept \/ Written(r)) BY <1>3, UnchangedRows DEF CommitCase
  <2> DEFINE t == request[q].target
  <2>2. /\ t \in Requests /\ Accepted(t) /\ imports[t].scope = request[q].scope
        /\ request'[q].target = t /\ request'[q].scope = request[q].scope
    <3>1. CASE q # r
      <4>1. request'[q] = request[q] BY <2>1, <3>1, CommitFrame
      <4> QED BY <4>1 DEF TargetInv
    <3>2. CASE q = r
      <4>1. request[q].pc # "idle" BY <2>1, <3>2, CommitFrame
      <4>2. request'[q].target = t /\ request'[q].scope = request[q].scope
        BY <2>1, <3>2, <4>1, CommitFrame
      <4>3. CASE request'[q].pc = "upload"
        <5>1. Replaceable(q) BY <2>1, <3>2, <4>2, <4>3, ToUpload DEF TypeInv
        <5>2. t \in Requests BY <4>2 DEF TypeInv, TypeOK, RequestType
        <5> QED BY <4>2, <5>1, <5>2 DEF Replaceable, Current
      <4>4. CASE request'[q].pc = "transaction"
        <5>1. request[q].pc = "upload"
          BY <2>1, <3>2, <4>4, CommitPhases DEF TypeInv, BeforeUpload
        <5> QED BY <4>2, <5>1 DEF TargetInv
      <4> QED BY <4>3, <4>4
    <3> QED BY <3>1, <3>2
  <2>3. imports'[t] # None /\ SameInput(t)
    BY <2>1, <2>2 DEF Kept, Written, SameRow, Settled
  <2> QED BY <2>2, <2>3 DEF SameInput
<1> QED BY <1>1, <1>2, <1>3, Cases

LEMMA InitTarget == Init => TargetInv
BY DEF Init, TargetInv

\* The ledger an import table stands for.
LedgerRow(row) ==
  IF row = None THEN None
  ELSE [hash |-> row.hash, key |-> row.key, scope |-> row.scope,
        status |-> row.status, replacedBy |-> row.replacedBy]
Rows == [i \in Requests |->
    IF imports[i] = None THEN None
    ELSE [hash |-> imports[i].hash, key |-> imports[i].key, scope |-> imports[i].scope,
          status |-> imports[i].status, replacedBy |-> imports[i].replacedBy]]

LEMMA RowsAre ==
  /\ Rows = [i \in Requests |-> LedgerRow(imports[i])]
  /\ Rows' = [i \in Requests |-> LedgerRow(imports'[i])]
BY DEF Rows, LedgerRow

LEMMA LedgerStep ==
  ASSUME TypeInv, TargetInv, [Next]_vars
  PROVE  [Ledger!Next]_Rows
<1>n. imports \in [Requests -> Import \union {None}]
  BY DEF TypeInv, TypeOK
<1>d. \A i \in Requests :
        Accepted(i) => LedgerRow(imports[i]) =
          [hash |-> imports[i].hash, key |-> imports[i].key, scope |-> imports[i].scope,
           status |-> imports[i].status, replacedBy |-> imports[i].replacedBy]
  BY DEF LedgerRow, Accepted
<1>e. \A i \in Requests :
        imports'[i] # None => LedgerRow(imports'[i]) =
          [hash |-> imports'[i].hash, key |-> imports'[i].key, scope |-> imports'[i].scope,
           status |-> imports'[i].status, replacedBy |-> imports'[i].replacedBy]
  BY DEF LedgerRow
<1>a. \A i \in Requests : (LedgerRow(imports[i]) # None) <=> Accepted(i)
  <2> SUFFICES ASSUME NEW i \in Requests, Accepted(i) PROVE LedgerRow(imports[i]) # None
    BY DEF LedgerRow, Accepted
  <2>1. imports[i] \in Import BY <1>n DEF Accepted
  <2>2. LedgerRow(imports[i]) \in Ledger!Row
    <3> DEFINE m == imports[i]
    <3>1. LedgerRow(m) = [hash |-> m.hash, key |-> m.key, scope |-> m.scope,
                          status |-> m.status, replacedBy |-> m.replacedBy]
      BY <1>d
    <3>2. /\ m.hash \in Hashes /\ m.key \in Keys /\ m.scope \in Scopes
          /\ m.status \in Ledger!Statuses /\ m.replacedBy \in Requests \union {None}
      BY <2>1 DEF Import, Ledger!Statuses
    <3> HIDE DEF m
    <3>3. LedgerRow(m) \in Ledger!Row BY <3>1, <3>2 DEF Ledger!Row
    <3> QED BY <3>3 DEF m
  <2> QED BY <2>2, NoneIsNoRow
<1>s. \A i \in Requests : SameRow(i) => LedgerRow(imports'[i]) = LedgerRow(imports[i])
  BY DEF SameRow, SameInput, LedgerRow, Accepted
<1>k. Kept => UNCHANGED Rows
  <2> SUFFICES ASSUME Kept PROVE UNCHANGED Rows
    OBVIOUS
  <2>1. \A i \in Requests : LedgerRow(imports'[i]) = LedgerRow(imports[i]) BY <1>s DEF Kept
  <2> QED BY <2>1, RowsAre
<1>1. ASSUME NEW w \in Withdrawals, Withdrew(w) PROVE Ledger!Next
  <2> DEFINE i == withdrawal[w].import
  <2>1. i \in Requests /\ Current(i) /\ Accepted(i) BY <1>1 DEF Withdrew, Settled, Current
  <2>2. LedgerRow(imports'[i]) = [LedgerRow(imports[i]) EXCEPT !.status = "WITHDRAWN"]
    <3> DEFINE m == imports[i]
               n == imports'[i]
    <3>1. /\ n.hash = m.hash /\ n.key = m.key /\ n.scope = m.scope
          /\ n.status = "WITHDRAWN" /\ n.replacedBy = m.replacedBy
      BY <1>1 DEF Withdrew, Settled, SameInput
    <3>2. /\ LedgerRow(m) = [hash |-> m.hash, key |-> m.key, scope |-> m.scope,
                             status |-> m.status, replacedBy |-> m.replacedBy]
          /\ LedgerRow(n) = [hash |-> n.hash, key |-> n.key, scope |-> n.scope,
                             status |-> n.status, replacedBy |-> n.replacedBy]
      BY <1>1, <1>d, <1>e, <2>1 DEF Withdrew, Settled
    <3> HIDE DEF m, n
    <3>3. [LedgerRow(m) EXCEPT !.status = "WITHDRAWN"] = LedgerRow(n) BY <3>1, <3>2
    <3> QED BY <3>3 DEF m, n
  <2>3. \A j \in Requests \ {i} : LedgerRow(imports'[j]) = LedgerRow(imports[j])
    BY <1>1, <1>s DEF Withdrew
  <2>4. Rows' = [Rows EXCEPT ![i].status = "WITHDRAWN"]
    BY <2>1, <2>2, <2>3, RowsAre
  <2>5. Rows[i] # None /\ Rows[i].status = "IMPORTED"
    <3>1. Rows[i] = LedgerRow(imports[i]) BY <2>1, RowsAre
    <3>2. LedgerRow(imports[i]) =
            [hash |-> imports[i].hash, key |-> imports[i].key, scope |-> imports[i].scope,
             status |-> imports[i].status, replacedBy |-> imports[i].replacedBy]
      BY <1>d, <2>1
    <3>3. LedgerRow(imports[i]).status = "IMPORTED" BY <2>1, <3>2 DEF Current
    <3> QED BY <1>a, <2>1, <3>1, <3>3
  <2> QED BY <2>1, <2>4, <2>5 DEF Ledger!Next, Ledger!Withdraw, Ledger!Current, Ledger!Accepted, Rows
<1>2. ASSUME NEW r \in Requests, WriteImport(r), Written(r) PROVE Ledger!Next
  <2>0. /\ FileOf(r) \in Hashes /\ request[r].key \in Keys /\ request[r].scope \in Scopes
        /\ request[r].target \in Requests \union {None}
    BY <1>2 DEF TypeInv, InputInv, TypeOK, RequestType, WriteImport, FileOf
  <2>x. /\ \E h \in Hashes : h = FileOf(r)
        /\ \E k \in Keys : k = request[r].key
        /\ \E s \in Scopes : s = request[r].scope
        /\ \E t \in Requests \union {None} : t = request[r].target
    BY <2>0
  <2>h. PICK h \in Hashes : h = FileOf(r) BY <2>x
  <2>k. PICK k \in Keys : k = request[r].key BY <2>x
  <2>s. PICK s \in Scopes : s = request[r].scope BY <2>x
  <2>t. PICK t \in Requests \union {None} : t = request[r].target BY <2>x
  <2> DEFINE new == [hash |-> h, key |-> k, scope |-> s, status |-> "IMPORTED", replacedBy |-> None]
  <2>2. LedgerRow(imports'[r]) = new BY <1>2, <1>e, <2>h, <2>k, <2>s DEF Written
  <2>3. ~Ledger!Accepted(r) BY <1>2, <1>a, RowsAre DEF Ledger!Accepted, Rows, Written
  <2>4. \A j \in Requests : Ledger!Accepted(j) => Rows[j].hash # h /\ Rows[j].key # k
    <3> SUFFICES ASSUME NEW j \in Requests, Ledger!Accepted(j)
                 PROVE  Rows[j].hash # h /\ Rows[j].key # k
      OBVIOUS
    <3>1. Rows[j] = LedgerRow(imports[j]) BY RowsAre
    <3>2. Accepted(j) BY <1>a, <3>1 DEF Ledger!Accepted, Rows
    <3>3. Rows[j].hash = imports[j].hash /\ Rows[j].key = imports[j].key
      <4>1. LedgerRow(imports[j]) =
              [hash |-> imports[j].hash, key |-> imports[j].key, scope |-> imports[j].scope,
               status |-> imports[j].status, replacedBy |-> imports[j].replacedBy]
        BY <1>d, <3>2
      <4> QED BY <3>1, <4>1
    <3>4. imports[j].hash # h /\ imports[j].key # k BY <1>2, <2>h, <2>k, <3>2 DEF Written, Rivals
    <3> QED BY <3>3, <3>4
  <2>5. CASE t = None
    <3>1. \A j \in Requests \ {r} : LedgerRow(imports'[j]) = LedgerRow(imports[j])
      BY <1>2, <1>s, <2>t, <2>5, Kinds DEF Written
    <3>2. Rows' = [Rows EXCEPT ![r] = new] BY <2>2, <3>1, RowsAre
    <3>3. Ledger!Accept(r, h, k, s)
      BY <2>3, <2>4, <3>2 DEF Ledger!Accept, Rows
    <3> QED BY <3>3 DEF Ledger!Next
  <2>6. CASE t # None
    <3>1. /\ t \in Requests /\ Current(t) /\ Accepted(t) /\ t # r
          /\ imports'[t].status = "REPLACED" /\ imports'[t].replacedBy = r
          /\ imports'[t] # None /\ SameInput(t)
      BY <1>2, <2>t, <2>6 DEF Written, Settled, Current
    <3>2. imports[t].scope = s BY <1>2, <2>s, <2>t, <2>6 DEF TargetInv, WriteImport
    <3>3. LedgerRow(imports'[t]) =
            [LedgerRow(imports[t]) EXCEPT !.status = "REPLACED", !.replacedBy = r]
      <4> DEFINE m == imports[t]
                 n == imports'[t]
                 one == [LedgerRow(m) EXCEPT !.status = "REPLACED"]
                 two == [LedgerRow(m) EXCEPT !.status = "REPLACED", !.replacedBy = r]
      <4>1. /\ LedgerRow(m) = [hash |-> m.hash, key |-> m.key, scope |-> m.scope,
                               status |-> m.status, replacedBy |-> m.replacedBy]
            /\ LedgerRow(n) = [hash |-> m.hash, key |-> m.key, scope |-> m.scope,
                               status |-> "REPLACED", replacedBy |-> r]
        BY <1>d, <1>e, <3>1 DEF SameInput
      <4>2. two = [one EXCEPT !.replacedBy = r] OBVIOUS
      <4> HIDE DEF m, n, two
      <4>3. one = [hash |-> m.hash, key |-> m.key, scope |-> m.scope,
                   status |-> "REPLACED", replacedBy |-> m.replacedBy]
        BY <4>1
      <4> HIDE DEF one
      <4>4. two = LedgerRow(n) BY <4>1, <4>2, <4>3
      <4> QED BY <4>4 DEF m, n, two
    <3>4. \A j \in Requests \ {r, t} : LedgerRow(imports'[j]) = LedgerRow(imports[j])
      BY <1>2, <1>s, <2>t DEF Written
    <3>5. Rows' = [Rows EXCEPT ![r] = new,
                              ![t] = [@ EXCEPT !.status = "REPLACED", !.replacedBy = r]]
      <4> HIDE DEF new
      <4> QED BY <2>2, <3>1, <3>3, <3>4, RowsAre
    <3>6. Rows[t] # None /\ Rows[t].status = "IMPORTED" /\ Rows[t].scope = s
      <4>1. Rows[t] = LedgerRow(imports[t]) BY <3>1, RowsAre
      <4>2. LedgerRow(imports[t]) =
              [hash |-> imports[t].hash, key |-> imports[t].key, scope |-> imports[t].scope,
               status |-> imports[t].status, replacedBy |-> imports[t].replacedBy]
        BY <1>d, <3>1
      <4>3. Rows[t].status = "IMPORTED" /\ Rows[t].scope = s
        BY <3>1, <3>2, <4>1, <4>2 DEF Current
      <4> QED BY <1>a, <3>1, <4>1, <4>3
    <3>7. Ledger!AcceptReplacing(r, h, k, s, t)
      BY <2>3, <2>4, <3>5, <3>6
      DEF Ledger!AcceptReplacing, Ledger!Current, Ledger!Accepted, Rows
    <3> QED BY <3>1, <3>7 DEF Ledger!Next
  <2> QED BY <2>5, <2>6
<1>3. ASSUME NEW r \in Requests, CommitCase(r) PROVE [Ledger!Next]_Rows
  BY <1>2, <1>3, <1>k, UnchangedRows DEF CommitCase
<1>4. ASSUME NEW w \in Withdrawals, WithdrawCase(w) PROVE [Ledger!Next]_Rows
  BY <1>1, <1>4, <1>k, UnchangedRows DEF WithdrawCase
<1> QED BY <1>3, <1>4, <1>k, Cases

\* The import table implements ImportLedger: acceptances, with the replacement they
\* carry, and withdrawals look atomic, for any number of requests.
THEOREM SpotifyImplementsLedger == Spec => ImplementsLedger
<1>1. Init => Ledger!Init BY DEF Init, Ledger!Init
<1>2. Init => TypeInv /\ TargetInv BY InitTypes, InitTarget
<1>3. TypeInv /\ TargetInv /\ [Next]_vars => (TypeInv /\ TargetInv)'
  BY TypeStep, TargetStep
<1>4. TypeInv /\ TargetInv /\ [Next]_vars => [Ledger!Next]_Rows
  BY LedgerStep
<1> QED BY <1>1, <1>2, <1>3, <1>4, PTL DEF Spec, ImplementsLedger, Ledger!Spec, Rows

\* What ImportLedger_proofs proves of the ledger, said of the import rows.
Proved == INSTANCE ImportLedger_proofs WITH
  Imports <- Requests,
  ledger <- [i \in Requests |->
    IF imports[i] = None THEN None
    ELSE [hash |-> imports[i].hash, key |-> imports[i].key, scope |-> imports[i].scope,
          status |-> imports[i].status, replacedBy |-> imports[i].replacedBy]]

LEMMA RowsFollow == Spec => Proved!Spec
<1>1. Ledger!Init => Proved!Init BY DEF Ledger!Init, Proved!Init
<1>2. [Ledger!Next]_Rows => [Proved!Next]_Rows
  BY DEF Ledger!Next, Ledger!Withdraw, Ledger!Accept, Ledger!AcceptReplacing, Ledger!Current,
     Ledger!Accepted, Proved!Next, Proved!Withdraw, Proved!Accept, Proved!AcceptReplacing,
     Proved!Current, Proved!Accepted
<1> QED BY <1>1, <1>2, SpotifyImplementsLedger, PTL DEF ImplementsLedger, Ledger!Spec, Proved!Spec, Rows

\* Whatever requests read before they wrote: no file and no key is imported twice.
THEOREM SpotifyRowsUnique == Spec => []Ledger!OneImportPerFile
<1>1. None \notin Requests /\ None \notin Proved!Row
  BY Kinds, NoneIsNoRow DEF Ledger!Row, Ledger!Statuses, Proved!Row, Proved!Statuses
<1>2. Proved!Spec => []Proved!OneImportPerFile BY <1>1, Proved!LedgerUnique
<1>3. Proved!OneImportPerFile => Ledger!OneImportPerFile
  BY DEF Proved!OneImportPerFile, Ledger!OneImportPerFile, Proved!Accepted, Ledger!Accepted
<1> QED BY <1>2, <1>3, RowsFollow, PTL

\* However replacements race, what replaced an import is one accepted import of its
\* artist and type, and the two columns that say so agree.
THEOREM SpotifyReplacements == Spec => []Ledger!ReplacementsAgree
<1>1. None \notin Requests /\ None \notin Proved!Row
  BY Kinds, NoneIsNoRow DEF Ledger!Row, Ledger!Statuses, Proved!Row, Proved!Statuses
<1>2. Proved!Spec => []Proved!ReplacementsAgree BY <1>1, Proved!LedgerReplacements
<1>3. Proved!ReplacementsAgree => Ledger!ReplacementsAgree
  BY DEF Proved!ReplacementsAgree, Ledger!ReplacementsAgree, Proved!Accepted, Ledger!Accepted
<1> QED BY <1>2, <1>3, RowsFollow, PTL

\* No request, sweep or crash loses an accepted import, changes its file, key or
\* scope, or touches what the history says of one that is withdrawn or replaced.
THEOREM SpotifyHistory == Spec => Ledger!HistoryIsKept
<1>1. None \notin Requests /\ None \notin Proved!Row
  BY Kinds, NoneIsNoRow DEF Ledger!Row, Ledger!Statuses, Proved!Row, Proved!Statuses
<1>2. Proved!Spec => Proved!HistoryIsKept BY <1>1, Proved!LedgerHistory
<1>3. [Proved!HistoryStep]_Rows => [Ledger!HistoryStep]_Rows
  BY DEF Proved!HistoryStep, Ledger!HistoryStep, Proved!Accepted, Ledger!Accepted
<1> QED BY <1>2, <1>3, RowsFollow, PTL DEF Proved!HistoryIsKept, Ledger!HistoryIsKept, Rows

-----------------------------------------------------------------------------
(* One fate per import *)

\* Who has settled an import is what its row says.
FateInv ==
  /\ \A r \in Requests : Accepted(r) /\ request[r].target # None =>
       LET t == request[r].target
       IN /\ t \in Requests /\ Accepted(t)
          /\ imports[t].status = "REPLACED" /\ imports[t].replacedBy = r
  /\ \A w \in Withdrawals : withdrawal[w].pc = "withdrawn" =>
       LET i == withdrawal[w].import
       IN i \in Requests /\ Accepted(i) /\ imports[i].status = "WITHDRAWN"
  /\ \A v, w \in Withdrawals :
       /\ withdrawal[v].pc = "withdrawn" /\ withdrawal[w].pc = "withdrawn"
       /\ withdrawal[v].import = withdrawal[w].import
       => v = w

LEMMA InitFate == Init => FateInv
BY DEF Init, FateInv, Accepted

\* A row that is settled already stays what it is.
LEMMA SettledStays ==
  ASSUME NEW i \in Requests, Accepted(i), imports[i].status # "IMPORTED",
         Kept \/ (\E r \in Requests : Written(r)) \/ (\E w \in Withdrawals : Withdrew(w))
  PROVE  /\ imports'[i] # None /\ imports'[i].status = imports[i].status
         /\ imports'[i].replacedBy = imports[i].replacedBy
<1>1. CASE Kept BY <1>1 DEF Kept, SameRow
<1>2. ASSUME NEW r \in Requests, Written(r) PROVE SameRow(i)
  <2>1. i # r BY <1>2 DEF Written
  <2>2. i # request[r].target BY <1>2, Kinds DEF Written, Settled, Current
  <2> QED BY <1>2, <2>1, <2>2 DEF Written
<1>3. ASSUME NEW w \in Withdrawals, Withdrew(w) PROVE SameRow(i)
  BY <1>3 DEF Withdrew, Settled, Current
<1> QED BY <1>1, <1>2, <1>3 DEF SameRow

LEMMA FateStep ==
  ASSUME TypeInv, FateInv, [Next]_vars
  PROVE  FateInv'
<1> DEFINE Replaced(r) ==
             Accepted(r) /\ request[r].target # None =>
               /\ request[r].target \in Requests /\ Accepted(request[r].target)
               /\ imports[request[r].target].status = "REPLACED"
               /\ imports[request[r].target].replacedBy = r
           Withdrawn(w) ==
             withdrawal[w].pc = "withdrawn" =>
               /\ withdrawal[w].import \in Requests /\ Accepted(withdrawal[w].import)
               /\ imports[withdrawal[w].import].status = "WITHDRAWN"
<1>0. (\A r \in Requests : Replaced(r)) /\ (\A w \in Withdrawals : Withdrawn(w)) BY DEF FateInv
<1>s. ASSUME Kept \/ (\E r \in Requests : Written(r)) \/ (\E w \in Withdrawals : Withdrew(w))
      PROVE  /\ \A q \in Requests : Accepted(q) /\ request'[q] = request[q] => Replaced(q)'
             /\ \A w \in Withdrawals : withdrawal'[w] = withdrawal[w] => Withdrawn(w)'
  <2>1. ASSUME NEW q \in Requests, Accepted(q), request'[q] = request[q] PROVE Replaced(q)'
    <3> DEFINE t == request[q].target
    <3> SUFFICES ASSUME t # None
                 PROVE  /\ t \in Requests /\ imports'[t] # None
                        /\ imports'[t].status = "REPLACED" /\ imports'[t].replacedBy = q
      BY <2>1 DEF Accepted
    <3>1. /\ t \in Requests /\ Accepted(t)
          /\ imports[t].status = "REPLACED" /\ imports[t].replacedBy = q
      BY <1>0, <2>1
    <3>2. imports[t].status # "IMPORTED" BY <3>1
    <3> HIDE DEF t
    <3> QED BY <1>s, <3>1, <3>2, SettledStays
  <2>2. ASSUME NEW w \in Withdrawals, withdrawal'[w] = withdrawal[w] PROVE Withdrawn(w)'
    <3> DEFINE i == withdrawal[w].import
    <3> SUFFICES ASSUME withdrawal[w].pc = "withdrawn"
                 PROVE  i \in Requests /\ imports'[i] # None /\ imports'[i].status = "WITHDRAWN"
      BY <2>2 DEF Accepted
    <3>1. i \in Requests /\ Accepted(i) /\ imports[i].status = "WITHDRAWN" BY <1>0
    <3>2. imports[i].status # "IMPORTED" BY <3>1
    <3> HIDE DEF i
    <3> QED BY <1>s, <3>1, <3>2, SettledStays
  <2> QED BY <2>1, <2>2
<1>1. CASE Kept /\ UNCHANGED <<request, withdrawal>>
  <2>1. \A r \in Requests : Accepted(r)' => Accepted(r) BY <1>1 DEF Kept, SameRow, Accepted
  <2>2. \A r \in Requests : Replaced(r)' BY <1>1, <1>s, <2>1
  <2>3. \A w \in Withdrawals : Withdrawn(w)' BY <1>1, <1>s
  <2> QED BY <1>1, <2>2, <2>3 DEF FateInv
<1>2. ASSUME NEW r \in Requests, CommitCase(r) PROVE FateInv'
  <2>1. /\ CommitStep(r) /\ UNCHANGED withdrawal
        /\ \A q \in Requests \ {r} : request'[q] = request[q]
    BY <1>2, CommitFrame DEF CommitCase
  <2>2. Kept \/ Written(r) BY <1>2, UnchangedRows DEF CommitCase
  <2>3. \A w \in Withdrawals : Withdrawn(w)' BY <1>s, <2>1, <2>2
  <2>4. \A q \in Requests \ {r} : Accepted(q)' => Accepted(q)
    <3>1. CASE Kept BY <3>1 DEF Kept, SameRow, Accepted
    <3>2. ASSUME Written(r), NEW q \in Requests \ {r} PROVE Accepted(q)' => Accepted(q)
      <4>1. CASE q = request[r].target BY <3>2, <4>1, Kinds DEF Written, Settled, Current
      <4>2. CASE q # request[r].target BY <3>2, <4>2 DEF Written, SameRow, Accepted
      <4> QED BY <4>1, <4>2
    <3> QED BY <2>2, <3>1, <3>2
  <2>5. \A q \in Requests \ {r} : Replaced(q)' BY <1>s, <2>1, <2>2, <2>4
  <2>6. Replaced(r)'
    <3>1. CASE request[r].pc = "idle"
      <4>1. UNCHANGED imports /\ ~Accepted(r) BY <2>1, <3>1, CommitFrame
      <4> QED BY <4>1 DEF Accepted
    <3>2. CASE request[r].pc # "idle" /\ Written(r)
      <4>1. request'[r].target = request[r].target BY <2>1, <3>2, CommitFrame
      <4> QED BY <3>2, <4>1 DEF Written, Settled, Accepted
    <3>3. CASE request[r].pc # "idle" /\ Kept
      <4> DEFINE t == request[r].target
      <4>1. request'[r].target = t BY <2>1, <3>3, CommitFrame
      <4> SUFFICES ASSUME Accepted(r), t # None
                   PROVE  /\ t \in Requests /\ imports'[t] # None
                          /\ imports'[t].status = "REPLACED" /\ imports'[t].replacedBy = r
        BY <3>3, <4>1 DEF Accepted, Kept, SameRow
      <4>2. /\ t \in Requests /\ Accepted(t)
            /\ imports[t].status = "REPLACED" /\ imports[t].replacedBy = r
        BY <1>0
      <4> QED BY <3>3, <4>2 DEF Kept, SameRow
    <3> QED BY <2>2, <3>1, <3>2, <3>3
  <2> QED BY <2>1, <2>3, <2>5, <2>6 DEF FateInv
<1>3. ASSUME NEW w \in Withdrawals, WithdrawCase(w) PROVE FateInv'
  <2>1. /\ UNCHANGED request /\ \A v \in Withdrawals \ {w} : withdrawal'[v] = withdrawal[v]
        /\ Kept \/ Withdrew(w)
    BY <1>3, UnchangedRows DEF WithdrawCase
  <2>2. \A q \in Requests : Accepted(q)' => Accepted(q)
    BY <2>1 DEF Kept, Withdrew, SameRow, Settled, Current, Accepted
  <2>3. \A q \in Requests : Replaced(q)' BY <1>s, <2>1, <2>2
  <2>4. \A v \in Withdrawals \ {w} : Withdrawn(v)' BY <1>s, <2>1
  <2>5. Withdrawn(w)' BY <1>3 DEF WithdrawCase, Withdrew, Settled, Accepted
  <2>6. ASSUME NEW v \in Withdrawals \ {w}, withdrawal'[v].pc = "withdrawn",
               withdrawal'[w].pc = "withdrawn"
        PROVE  withdrawal'[v].import # withdrawal'[w].import
    <3>1. Withdrew(w) BY <1>3, <2>6 DEF WithdrawCase
    <3>2. imports[withdrawal'[w].import].status = "IMPORTED"
      BY <3>1 DEF Withdrew, Settled, Current
    <3>3. imports[withdrawal[v].import].status = "WITHDRAWN" BY <1>0, <2>1, <2>6
    <3> QED BY <2>1, <3>2, <3>3
  <2>7. ASSUME NEW v \in Withdrawals, NEW x \in Withdrawals,
               withdrawal'[v].pc = "withdrawn", withdrawal'[x].pc = "withdrawn",
               withdrawal'[v].import = withdrawal'[x].import
        PROVE  v = x
    <3>1. CASE v = w \/ x = w BY <2>6, <2>7, <3>1
    <3>2. CASE v # w /\ x # w BY <2>1, <2>7, <3>2 DEF FateInv
    <3> QED BY <3>1, <3>2
  <2> QED BY <2>3, <2>4, <2>5, <2>7 DEF FateInv
<1> QED BY <1>1, <1>2, <1>3, Cases

LEMMA FateOnce == TypeInv /\ FateInv => OneFatePerImport
<1> SUFFICES ASSUME FateInv, NEW i \in Requests
             PROVE  Cardinality({w \in Withdrawals :
                                   withdrawal[w].pc = "withdrawn" /\ withdrawal[w].import = i}
                                \union {r \in Requests : Accepted(r) /\ request[r].target = i}) <= 1
  BY DEF OneFatePerImport
<1> DEFINE W == {w \in Withdrawals : withdrawal[w].pc = "withdrawn" /\ withdrawal[w].import = i}
           R == {r \in Requests : Accepted(r) /\ request[r].target = i}
           S == W \union R
<1>1. i # None BY Kinds
<1>2. \A r, q \in R : r = q
  <2>1. \A r \in R : imports[i].replacedBy = r BY <1>1 DEF FateInv
  <2> QED BY <2>1
<1>3. \A v, w \in W : v = w BY DEF FateInv
<1>4. W = {} \/ R = {}
  <2>1. \A r \in R : imports[i].status = "REPLACED" BY <1>1 DEF FateInv
  <2>2. \A w \in W : imports[i].status = "WITHDRAWN" BY DEF FateInv
  <2> QED BY <2>1, <2>2
<1>5. \A x, y \in S : x = y
  <2> HIDE DEF W, R
  <2> QED BY <1>2, <1>3, <1>4
<1>6. Cardinality(S) <= 1
  <2> HIDE DEF S
  <2>1. CASE S = {} BY <2>1, FS_EmptySet
  <2>2. ASSUME NEW x \in S PROVE Cardinality(S) <= 1
    <3>1. S = {x} BY <1>5
    <3>2. Cardinality({x}) = 1 BY FS_Singleton, Zenon
    <3>3. Cardinality(S) = 1 BY <3>1, <3>2, Zenon
    <3> QED BY <3>3
  <2> QED BY <2>1, <2>2
<1> QED BY <1>6

\* Withdrawals and replacements that race for one import: one at most succeeds,
\* however many there are.
THEOREM SpotifyOneFate == Spec => []OneFatePerImport
<1>1. TypeInv /\ FateInv /\ [Next]_vars => (TypeInv /\ FateInv)' BY TypeStep, FateStep
<1>2. Init => TypeInv /\ FateInv BY InitTypes, InitFate
<1> QED BY <1>1, <1>2, FateOnce, PTL DEF Spec

-----------------------------------------------------------------------------
(* What the owner is told is so *)

Causes == {"P2002", "CONFLICT", "TRANSACTION_FAILURE"}

\* What an answer says is so, and what a request knows before it answers.
Told(r) ==
  request[r].pc = "done" =>
    /\ request[r].answer \in {"COMMITTED", "REPLAYED"} =>
         /\ request[r].import \in Requests
         /\ imports[request[r].import] # None
         /\ imports[request[r].import].hash = preview[request[r].preview].hash
         /\ imports[request[r].import].key = request[r].key
    /\ request[r].answer \in Errors \union {"REPLAYED"} => imports[r] = None \/ AckLost(r)
Known(r) ==
  /\ request[r].pc = "deletePreview" =>
       /\ imports[r] # None
       /\ imports[r].hash = preview[request[r].preview].hash
       /\ imports[r].key = request[r].key
  /\ request[r].pc = "deleteRaw" => request[r].answer \in Causes
AnswerInv == \A r \in Requests : Told(r) /\ Known(r)

\* How a step of request r can answer it.
Answered(r) ==
  \/ request'[r].pc \notin {"done", "deletePreview", "deleteRaw"}
  \/ request'[r].pc = "deletePreview" /\ Written(r)
  \/ request'[r].pc = "deleteRaw" /\ request'[r].answer \in Causes
  \/ /\ request'[r].pc = "done" /\ UNCHANGED imports
     /\ \/ request'[r].answer \in Errors /\ (~Accepted(r) \/ AckLost(r)')
        \/ /\ request'[r].answer = "REPLAYED" /\ ~Accepted(r)
           /\ \E i \in Requests :
                /\ request'[r].import = i /\ Accepted(i)
                /\ imports[i].hash = preview[request'[r].preview].hash
                /\ imports[i].key = request'[r].key
        \/ /\ request'[r].answer = "COMMITTED" /\ request[r].pc = "deletePreview"
           /\ request'[r].import = r

LEMMA GotoIs ==
  ASSUME TypeOK, NEW r \in Requests, NEW to, Goto(r, to)
  PROVE  /\ request'[r].pc = to /\ request'[r].answer = request[r].answer
BY DEF Goto, TypeOK, RequestType

LEMMA ReplyIs ==
  ASSUME TypeOK, NEW r \in Requests, NEW answer, NEW i, Reply(r, answer, i)
  PROVE  /\ request'[r].pc = "done" /\ request'[r].answer = answer /\ request'[r].import = i
         /\ request'[r].key = request[r].key /\ request'[r].preview = request[r].preview
BY DEF Reply, TypeOK, RequestType

LEMMA FailIs ==
  ASSUME TypeOK, NEW r \in Requests, NEW cause, Fail(r, cause)
  PROVE  request'[r].pc = "deleteRaw" /\ request'[r].answer = cause
BY DEF Fail, TypeOK, RequestType

LEMMA CommitAnswers ==
  ASSUME RetentionInv, NEW r \in Requests, Known(r), CommitStep(r)
  PROVE  Answered(r)
<1> USE DEF stored
<1>1. /\ TypeOK /\ TypeInv
      /\ request[r].pc \in {"idle", "transaction", "findWinner"} \union BeforeUpload => ~Accepted(r)
      /\ request[r].pc = "deleteRaw" => ~Accepted(r) \/ AckLost(r)
  BY DEF RetentionInv, TypeInv, InputInv, RequestInv, AfterFailure, AckLost
<1>g. ASSUME NEW to \in RequestStates \ {"done", "deletePreview", "deleteRaw"}, Goto(r, to)
      PROVE Answered(r)
  BY <1>1, <1>g, GotoIs DEF Answered
<1>e. ASSUME NEW answer \in Errors, Refuse(r, answer), UNCHANGED imports, ~Accepted(r) \/ AckLost(r)'
      PROVE Answered(r)
  <2>1. request'[r].pc = "done" /\ request'[r].answer = answer BY <1>1, <1>e, ReplyIs DEF Refuse
  <2> QED BY <1>e, <2>1 DEF Answered
<1>p. ASSUME NEW i \in Requests, Holds(i, FileOf(r)), imports[i].key = request[r].key,
             Reply(r, "REPLAYED", i), UNCHANGED imports, ~Accepted(r)
      PROVE Answered(r)
  <2>1. /\ request'[r].pc = "done" /\ request'[r].answer = "REPLAYED" /\ request'[r].import = i
        /\ request'[r].key = request[r].key /\ request'[r].preview = request[r].preview
    BY <1>1, <1>p, ReplyIs
  <2> QED BY <1>p, <2>1 DEF Answered, Holds, FileOf
<1>2. CASE request[r].pc = "idle"
  <2>1. PICK u \in Users, k \in Keys, p \in Previews, s \in Scopes, t \in Requests \union {None} :
          CommitBegin(r, u, k, p, s, t)
    BY <1>2 DEF CommitStep, CheckHash, RecheckHash, LookUpHash, ReadPreview, CheckTarget, Upload,
       CommitTransaction, WriteImport, AbortTransaction, LoseCommitAck, DeleteRaw, FindWinner,
       DeletePreview, CommitDies, Serving, BeforeUpload, AfterFailure
  <2> DEFINE Becomes(pc, answer, i) == request' = [request EXCEPT ![r] =
        [pc |-> pc, key |-> k, preview |-> p, scope |-> s, target |-> t, begun |-> clock,
         answer |-> answer, import |-> i]]
  <2>2. /\ UNCHANGED imports
        /\ \/ \E a \in {"FORBIDDEN", "EXPIRED_PREVIEW", "CONFLICT", "INVALID"} : Becomes("done", a, None)
           \/ Becomes("checkHash", None, None)
           \/ \E i \in Requests : /\ Accepted(i) /\ imports[i].key = k
                                  /\ imports[i].hash = preview[p].hash
                                  /\ Becomes("done", "REPLAYED", i)
    BY <2>1 DEF CommitBegin
  <2>3. ASSUME NEW pc, NEW a, NEW i, Becomes(pc, a, i)
        PROVE  /\ request'[r].pc = pc /\ request'[r].answer = a /\ request'[r].import = i
               /\ request'[r].key = k /\ request'[r].preview = p
    BY <1>1, <2>3 DEF TypeOK
  <2> HIDE DEF Becomes
  <2>4. ASSUME NEW a \in {"FORBIDDEN", "EXPIRED_PREVIEW", "CONFLICT", "INVALID"}, Becomes("done", a, None)
        PROVE  Answered(r)
    <3>1. request'[r].pc = "done" /\ request'[r].answer = a BY <2>3, <2>4
    <3> QED BY <1>1, <1>2, <2>2, <3>1 DEF Answered, Errors
  <2>5. ASSUME Becomes("checkHash", None, None) PROVE Answered(r)
    <3>1. request'[r].pc = "checkHash" BY <2>3, <2>5
    <3> QED BY <3>1 DEF Answered
  <2>6. ASSUME NEW i \in Requests, Accepted(i), imports[i].key = k,
               imports[i].hash = preview[p].hash, Becomes("done", "REPLAYED", i)
        PROVE  Answered(r)
    <3>1. /\ request'[r].pc = "done" /\ request'[r].answer = "REPLAYED" /\ request'[r].import = i
          /\ request'[r].key = k /\ request'[r].preview = p
      BY <2>3, <2>6
    <3> QED BY <1>1, <1>2, <2>2, <2>6, <3>1 DEF Answered
  <2> QED BY <2>2, <2>4, <2>5, <2>6
<1>3. ASSUME NEW from \in BeforeUpload, NEW to \in BeforeUpload, LookUpHash(r, from, to)
      PROVE  Answered(r)
  <2>1. ~Accepted(r) /\ UNCHANGED imports BY <1>1, <1>3 DEF LookUpHash
  <2>2. to \in RequestStates \ {"done", "deletePreview", "deleteRaw"}
    BY DEF BeforeUpload, RequestStates, Serving
  <2> QED BY <1>3, <1>g, <1>e, <1>p, <2>1, <2>2 DEF LookUpHash, Errors
<1>4. CASE CheckHash(r) BY <1>3, <1>4 DEF CheckHash, BeforeUpload
<1>5. CASE RecheckHash(r) BY <1>3, <1>5 DEF RecheckHash, BeforeUpload
<1>6. CASE ReadPreview(r) \/ CheckTarget(r) \/ Upload(r)
  <2>1. ~Accepted(r) /\ UNCHANGED imports
    BY <1>1, <1>6 DEF ReadPreview, CheckTarget, Upload, BeforeUpload
  <2>2. {"recheckHash", "upload", "transaction"} \subseteq RequestStates \ {"done", "deletePreview", "deleteRaw"}
    BY DEF BeforeUpload, RequestStates, Serving
  <2>3. \/ \E to \in {"recheckHash", "upload", "transaction"} : Goto(r, to)
        \/ \E a \in Errors : Refuse(r, a)
    BY <1>6 DEF ReadPreview, CheckTarget, Upload, Errors
  <2> QED BY <1>g, <1>e, <2>1, <2>2, <2>3
<1>7. CASE CommitTransaction(r)
  <2>1. request'[r].pc = "deletePreview" BY <1>1, <1>7, GotoIs DEF CommitTransaction
  <2>2. Written(r) BY <1>1, <1>7, WriteRows DEF CommitTransaction
  <2> QED BY <2>1, <2>2 DEF Answered
<1>8. CASE AbortTransaction(r)
  <2>1. \E cause \in Causes : Fail(r, cause) BY <1>8 DEF AbortTransaction, Causes
  <2> QED BY <1>1, <2>1, FailIs DEF Answered
<1>9. CASE DeleteRaw(r)
  <2>1. UNCHANGED imports /\ request[r].answer \in Causes /\ (~Accepted(r) \/ AckLost(r)')
    <3>1. request[r].answer = "TRANSACTION_FAILURE" => request'[r].answer = "TRANSACTION_FAILURE"
      BY FailureKept DEF RetentionInv, RequestInv
    <3> QED BY <1>1, <1>9, <3>1 DEF DeleteRaw, Known, AckLost, Accepted
  <2>2. CASE Goto(r, "findWinner")
    BY <1>g, <2>2 DEF RequestStates, Serving, AfterFailure
  <2>3. CASE request[r].answer # "P2002" /\ Refuse(r, request[r].answer)
    <3>1. PICK a \in Errors : a = request[r].answer BY <2>1, <2>3 DEF Causes, Errors
    <3>2. Refuse(r, a) BY <2>3, <3>1
    <3> QED BY <1>e, <2>1, <3>2
  <2> QED BY <1>9, <2>2, <2>3 DEF DeleteRaw
<1>10. CASE FindWinner(r)
  <2>1. ~Accepted(r) /\ UNCHANGED imports BY <1>1, <1>10 DEF FindWinner, AfterFailure
  <2>2. \/ \E a \in Errors : Refuse(r, a)
        \/ \E i \in Requests :
             Holds(i, FileOf(r)) /\ imports[i].key = request[r].key /\ Reply(r, "REPLAYED", i)
    BY <1>10 DEF FindWinner, Rivals, Errors
  <2> QED BY <1>e, <1>p, <2>1, <2>2
<1>11. CASE DeletePreview(r)
  BY <1>1, <1>11, ReplyIs DEF DeletePreview, Answered
<1>12. CASE CommitDies(r)
  BY <1>g, <1>12 DEF CommitDies, RequestStates
<1>13. CASE LoseCommitAck(r)
  <2>1. Fail(r, "TRANSACTION_FAILURE") BY <1>13 DEF LoseCommitAck
  <2> QED BY <1>1, <2>1, FailIs DEF Answered, Causes
<1>14. \A u, k, p, s, t : CommitBegin(r, u, k, p, s, t) => request[r].pc = "idle" BY DEF CommitBegin
<1> QED
  BY <1>2, <1>4, <1>5, <1>6, <1>7, <1>8, <1>9, <1>10, <1>11, <1>12, <1>13, <1>14 DEF CommitStep

\* The token of a preview never changes.
LEMMA ReadyStays ==
  ASSUME TypeInv, [Next]_vars, NEW p \in Previews, preview[p].pc = "ready"
  PROVE  preview'[p] = preview[p]
<1>1. ASSUME NEW q \in Previews, PreviewStep(q) PROVE preview'[p] = preview[p]
  BY <1>1 DEF TypeInv, TypeOK, PreviewStep, PreviewUpload, ReprocessRequest, ReprocessReadRaw,
     PreviewStore, PreviewDies, PreviewAt
<1>2. ASSUME NEW r \in Requests, CommitStep(r) PROVE preview' = preview
  BY <1>2, CommitFrame
<1>3. ASSUME NEW w \in Withdrawals, WithdrawStep(w) PROVE preview' = preview
  BY <1>3 DEF WithdrawStep, WithdrawRead, WithdrawUpdate, WithdrawDies
<1>4. ASSUME NEW c \in Sweeps, SweepStep(c) PROVE preview' = preview
  BY <1>4, SweepEffect DEF TypeInv
<1> QED BY <1>1, <1>2, <1>3, <1>4 DEF Next, Tick, vars, actors

\* An import appears in a step of its own request only.
LEMMA OnlyOwn ==
  ASSUME NEW q \in Requests,
         \/ Kept
         \/ \E r \in Requests \ {q} : Written(r)
         \/ \E w \in Withdrawals : Withdrew(w)
  PROVE  imports'[q] # None => imports[q] # None
<1>1. CASE Kept BY <1>1 DEF Kept, SameRow, Accepted
<1>2. ASSUME NEW r \in Requests \ {q}, Written(r) PROVE imports'[q] # None => imports[q] # None
  <2>1. CASE q = request[r].target BY <1>2, <2>1, Kinds DEF Written, Settled, Current, Accepted
  <2>2. CASE q # request[r].target BY <1>2, <2>2 DEF Written, SameRow, Accepted
  <2> QED BY <2>1, <2>2
<1>3. ASSUME NEW w \in Withdrawals, Withdrew(w) PROVE imports'[q] # None => imports[q] # None
  BY <1>3 DEF Withdrew, Settled, Current, SameRow, Accepted
<1> QED BY <1>1, <1>2, <1>3

LEMMA AnswerStep ==
  ASSUME RetentionInv, AnswerInv, [Next]_vars
  PROVE  AnswerInv'
<1>t. TypeInv /\ TypeOK BY DEF RetentionInv, TypeInv
<1>h. ASSUME NEW q \in Requests, request[q].pc # "idle"
      PROVE  preview'[request[q].preview].hash = preview[request[q].preview].hash
  <2>1. PICK p \in Previews : p = request[q].preview /\ preview[p].pc = "ready"
    BY <1>h, <1>t DEF TypeInv, InputInv
  <2> QED BY <1>t, <2>1, ReadyStays
<1>k. ASSUME NEW i \in Requests, imports[i] # None,
             Kept \/ (\E r \in Requests : Written(r)) \/ (\E w \in Withdrawals : Withdrew(w))
      PROVE  imports'[i] # None /\ imports'[i].hash = imports[i].hash /\ imports'[i].key = imports[i].key
  BY <1>k, Kinds DEF Kept, Written, Withdrew, SameRow, Settled, SameInput, Accepted
<1>s. ASSUME NEW q \in Requests, request'[q] = request[q],
             \/ Kept
             \/ \E r \in Requests \ {q} : Written(r)
             \/ \E w \in Withdrawals : Withdrew(w)
      PROVE  Told(q)' /\ Known(q)'
  <2>0. Told(q) /\ Known(q) BY DEF AnswerInv
  <2>1. imports'[q] # None => imports[q] # None BY <1>s, OnlyOwn
  <2>4. AckLost(q) => AckLost(q)'
    BY <1>s, <1>k DEF AckLost, Accepted
  <2>2. Known(q)'
    <3>1. CASE request[q].pc = "deletePreview"
      <4>1. /\ imports[q] # None /\ imports[q].hash = preview[request[q].preview].hash
            /\ imports[q].key = request[q].key
        BY <2>0, <3>1 DEF Known
      <4> QED BY <1>s, <1>h, <1>k, <3>1, <4>1 DEF Known
    <3>2. CASE request[q].pc # "deletePreview" BY <1>s, <2>0, <3>2 DEF Known
    <3> QED BY <3>1, <3>2
  <2>3. Told(q)'
    <3>1. CASE request[q].pc = "done" /\ request[q].answer \in {"COMMITTED", "REPLAYED"}
      <4>1. PICK i \in Requests : /\ request[q].import = i /\ imports[i] # None
                                  /\ imports[i].hash = preview[request[q].preview].hash
                                  /\ imports[i].key = request[q].key
        BY <2>0, <3>1 DEF Told
      <4>2. imports'[i] # None /\ imports'[i].hash = imports[i].hash /\ imports'[i].key = imports[i].key
        BY <1>k, <1>s, <4>1
      <4> QED BY <1>s, <1>h, <2>0, <2>1, <2>4, <3>1, <4>1, <4>2 DEF Told
    <3>2. CASE ~(request[q].pc = "done" /\ request[q].answer \in {"COMMITTED", "REPLAYED"})
      BY <1>s, <2>0, <2>1, <2>4, <3>2 DEF Told
    <3> QED BY <3>1, <3>2
  <2> QED BY <2>2, <2>3
<1>1. CASE Kept /\ UNCHANGED <<request, withdrawal>>
  BY <1>1, <1>s DEF AnswerInv
<1>2. ASSUME NEW r \in Requests, CommitCase(r) PROVE AnswerInv'
  <2>1. /\ CommitStep(r) /\ UNCHANGED preview
        /\ \A q \in Requests \ {r} : request'[q] = request[q]
    BY <1>2, <1>t, CommitFrame DEF CommitCase
  <2>2. Kept \/ Written(r) BY <1>2, UnchangedRows DEF CommitCase
  <2>3. Answered(r) BY <2>1, CommitAnswers DEF AnswerInv
  <2>4. Told(r)' /\ Known(r)'
    <3>1. CASE request'[r].pc \notin {"done", "deletePreview", "deleteRaw"}
      BY <3>1 DEF Told, Known
    <3>2. CASE request'[r].pc = "deletePreview" /\ Written(r)
      <4>1. request[r].pc # "idle" BY <1>t, <2>1, <3>2, CommitFrame
      <4>2. request'[r].key = request[r].key /\ request'[r].preview = request[r].preview
        BY <1>t, <2>1, <4>1, CommitFrame
      <4> QED BY <2>1, <3>2, <4>2 DEF Told, Known, Written, FileOf
    <3>3. CASE request'[r].pc = "deleteRaw" /\ request'[r].answer \in Causes
      BY <3>3 DEF Told, Known
    <3>4. CASE /\ request'[r].pc = "done" /\ UNCHANGED imports /\ request'[r].answer \in Errors
               /\ ~Accepted(r) \/ AckLost(r)'
      BY <3>4 DEF Told, Known, Errors, Accepted
    <3>5. ASSUME request'[r].pc = "done", UNCHANGED imports, request'[r].answer = "REPLAYED",
                 ~Accepted(r), NEW i \in Requests, request'[r].import = i, Accepted(i),
                 imports[i].hash = preview[request'[r].preview].hash,
                 imports[i].key = request'[r].key
          PROVE  Told(r)' /\ Known(r)'
      BY <2>1, <3>5 DEF Told, Known, Accepted
    <3>6. CASE /\ request'[r].pc = "done" /\ UNCHANGED imports /\ request'[r].answer = "COMMITTED"
               /\ request[r].pc = "deletePreview" /\ request'[r].import = r
      <4>1. request'[r].key = request[r].key /\ request'[r].preview = request[r].preview
        BY <1>t, <2>1, <3>6, CommitFrame
      <4> QED BY <2>1, <3>6, <4>1 DEF Told, Known, AnswerInv, Errors
    <3> QED BY <2>3, <3>1, <3>2, <3>3, <3>4, <3>5, <3>6 DEF Answered
  <2>5. \A q \in Requests \ {r} : Told(q)' /\ Known(q)' BY <1>s, <2>1, <2>2
  <2> QED BY <2>4, <2>5 DEF AnswerInv
<1>3. ASSUME NEW w \in Withdrawals, WithdrawCase(w) PROVE AnswerInv'
  BY <1>3, <1>s, UnchangedRows DEF WithdrawCase, AnswerInv
<1> QED BY <1>t, <1>1, <1>2, <1>3, Cases

\* A commit, retried or raced, is told the truth: what it is said to have committed
\* or replayed is an import of its key and file, and a refusal has left none behind
\* unless the acknowledgement of the commit was lost.
THEOREM SpotifyAnswers == Spec => []AnswersAreTrue
<1> DEFINE I == RetentionInv /\ AnswerInv
<1>1. I /\ [Next]_vars => I' BY RetentionStep, AnswerStep
<1>2. Init => I
  <2>1. Init => AnswerInv BY DEF Init, AnswerInv, Told, Known
  <2> QED BY <2>1, InitRetention
<1>3. I => AnswersAreTrue
  BY DEF AnswerInv, Told, AnswersAreTrue, Holds, Accepted, FileOf
<1> QED BY <1>1, <1>2, <1>3, PTL DEF Spec

-----------------------------------------------------------------------------
(* No sweep removes a preview under a running commit *)

Imported(h) == \E i \in Requests : imports[i] # None /\ imports[i].hash = h

\* An object is missing because its preview is too old for a commit still to run,
\* or because a commit has removed it, which has imported the file.
ObjectSafe(p) ==
  /\ preview[p].begun <= clock
  /\ temp[p] # None => preview[p].pc = "ready" /\ preview[p].begun <= temp[p]
  /\ preview[p].pc = "ready" /\ temp[p] = None =>
       preview[p].begun + PreviewRetention <= clock \/ Imported(preview[p].hash)
ServedInTime(r) ==
  /\ request[r].pc # "idle" => request[r].preview \in Previews
  /\ request[r].pc \in Serving =>
       /\ clock <= request[r].begun + MaxRun
       /\ request[r].begun < preview[request[r].preview].begun + PreviewTTL
  /\ request[r].pc = "deletePreview" => Imported(preview[request[r].preview].hash)
ListsOld(c) ==
  /\ sweep[c].begun <= clock
  /\ sweep[c].pc = "idle" => sweep[c].temps = {}
  /\ \A p \in sweep[c].temps :
       preview[p].pc = "ready" /\ preview[p].begun + PreviewRetention <= sweep[c].begun
PreviewInv ==
  /\ \A p \in Previews : ObjectSafe(p)
  /\ \A r \in Requests : ServedInTime(r)
  /\ \A c \in Sweeps : ListsOld(c)

Ages == /\ clock \in Nat /\ preview \in [Previews -> PreviewType] /\ temp \in [Previews -> Time]
        /\ request \in [Requests -> RequestType] /\ sweep \in [Sweeps -> SweepType]
        /\ \A p \in Previews : preview[p].begun \in Nat
        /\ \A p \in Previews : temp[p] \in Nat \union {None}
        /\ \A r \in Requests : request[r].begun \in Nat
        /\ \A c \in Sweeps : sweep[c].begun \in Nat /\ sweep[c].temps \subseteq Previews

LEMMA TypeAges == TypeOK => Ages
BY DEF TypeOK, Ages, Time, PreviewType, RequestType, SweepType

LEMMA ImportedStays ==
  ASSUME TypeInv, [Next]_vars, NEW h, Imported(h)
  PROVE  \E i \in Requests : imports'[i] # None /\ imports'[i].hash = h
<1>1. PICK i \in Requests : imports[i] # None /\ imports[i].hash = h BY DEF Imported
<1>2. imports'[i] # None /\ imports'[i].hash = imports[i].hash
  <2>1. CASE Kept BY <1>1, <2>1 DEF Kept, SameRow, SameInput, Accepted
  <2>2. ASSUME NEW r \in Requests, Written(r) PROVE imports'[i] # None /\ imports'[i].hash = imports[i].hash
    BY <1>1, <2>2, Kinds DEF Written, SameRow, Settled, SameInput, Accepted
  <2>3. ASSUME NEW w \in Withdrawals, Withdrew(w) PROVE imports'[i] # None /\ imports'[i].hash = imports[i].hash
    BY <1>1, <2>3 DEF Withdrew, SameRow, Settled, SameInput, Accepted
  <2> QED BY <2>1, <2>2, <2>3, Cases, UnchangedRows DEF CommitCase, WithdrawCase
<1> QED BY <1>1, <1>2

\* What a sweep's step does to the temporary objects and to its list of them.
LEMMA SweepTemps ==
  ASSUME TypeOK, NEW c \in Sweeps, SweepStep(c), sweep[c].pc = "idle" => sweep[c].temps = {}
  PROVE  /\ \A p \in Previews : temp'[p] = temp[p] \/ (temp'[p] = None /\ p \in sweep[c].temps)
         /\ sweep'[c].pc = "idle" => sweep'[c].temps = {}
         /\ \/ sweep'[c].temps = {} /\ sweep'[c].begun \in {0, clock, sweep[c].begun}
            \/ /\ sweep'[c].begun = sweep[c].begun
               /\ \A p \in sweep'[c].temps :
                    \/ p \in sweep[c].temps
                    \/ temp[p] # None /\ temp[p] + PreviewRetention <= sweep[c].begun
<1> USE DEF stored
<1>s. sweep \in [Sweeps -> SweepType] /\ sweep[c] \in SweepType /\ temp \in [Previews -> Time]
  BY DEF TypeOK
<1>1. CASE SweepStart(c) BY <1>1, <1>s DEF SweepStart, SweepType
<1>2. CASE SweepListObjects(c)
  <2>1. PICK batch : batch \subseteq OldObjects(temp, PreviewRetention, c) /\
               sweep' = [sweep EXCEPT
                 ![c].listed = @ \union {"objects"},
                 ![c].temps = batch,
                 ![c].raws = OldObjects(raw, OrphanRetention, c)]
    BY <1>2 DEF SweepListObjects, Batches
  <2>2. UNCHANGED temp /\ sweep[c].pc = "list" BY <1>2 DEF SweepListObjects
  <2>3. sweep'[c].temps = batch /\ sweep'[c].begun = sweep[c].begun /\ sweep'[c].pc = sweep[c].pc
    BY <2>1, <1>s DEF SweepType
  <2> QED BY <2>1, <2>2, <2>3 DEF OldObjects
<1>3. CASE SweepListRows(c) \/ SweepPlan(c)
  <2>1. UNCHANGED temp /\ sweep[c].pc = "list" BY <1>3 DEF SweepListRows, SweepPlan
  <2>2. /\ sweep'[c].temps = sweep[c].temps /\ sweep'[c].begun = sweep[c].begun
        /\ sweep'[c].pc \in {"list", "delete"}
    <3>1. CASE SweepListRows(c)
      <4>1. PICK x, y : sweep' = [sweep EXCEPT
              ![c].listed = @ \union {"rows"}, ![c].referenced = x, ![c].expired = y]
        BY <3>1 DEF SweepListRows
      <4> QED BY <4>1, <2>1, <1>s DEF SweepType
    <3>2. CASE SweepPlan(c)
      <4>1. PICK x : sweep' = [sweep EXCEPT
              ![c].pc = "delete", ![c].listed = {}, ![c].raws = x, ![c].referenced = {}]
        BY <3>2 DEF SweepPlan
      <4> QED BY <4>1, <1>s DEF SweepType
    <3> QED BY <1>3, <3>1, <3>2
  <2> QED BY <2>1, <2>2
<1>4. ASSUME NEW p \in Previews, SweepDeletePreview(c, p)
      PROVE  /\ \A q \in Previews : temp'[q] = temp[q] \/ (temp'[q] = None /\ q \in sweep[c].temps)
             /\ sweep'[c].pc = "delete" /\ sweep'[c].begun = sweep[c].begun
             /\ sweep'[c].temps \subseteq sweep[c].temps
  BY <1>4, <1>s DEF SweepDeletePreview, SweepType
<1>5. ASSUME NEW i \in Requests, SweepDeleteExpired(c, i) \/ SweepDeleteOrphan(c, i)
      PROVE  /\ UNCHANGED temp
             /\ sweep'[c].pc = "delete" /\ sweep'[c].begun = sweep[c].begun
             /\ sweep'[c].temps = sweep[c].temps
  BY <1>5, <1>s DEF SweepDeleteExpired, SweepDeleteOrphan, SweepType
<1>6. ASSUME SweepMark(c)
      PROVE  /\ UNCHANGED temp
             /\ sweep'[c].pc = "delete" /\ sweep'[c].begun = sweep[c].begun
             /\ sweep'[c].temps = sweep[c].temps
  BY <1>6, <1>s DEF SweepMark, SweepType
<1>7. CASE SweepEnd(c) \/ SweepDies(c)
  BY <1>7, <1>s DEF SweepEnd, SweepDies, SweepIdle
<1> QED BY <1>1, <1>2, <1>3, <1>4, <1>5, <1>6, <1>7 DEF SweepStep

LEMMA SweepPreviews ==
  ASSUME TypeInv, PreviewInv, [Next]_vars, NEW c \in Sweeps, SweepStep(c)
  PROVE  PreviewInv'
<1>1. /\ \A d \in Sweeps : d # c => sweep'[d] = sweep[d]
      /\ UNCHANGED <<clock, preview, request>>
  BY SweepEffect DEF TypeInv, Swept
<1>2. Ages /\ PreviewRetention \in Nat BY TypeAges, Timing DEF TypeInv
<1>3. ListsOld(c) BY DEF PreviewInv
<1>4. /\ \A p \in Previews : temp'[p] = temp[p] \/ (temp'[p] = None /\ p \in sweep[c].temps)
      /\ sweep'[c].pc = "idle" => sweep'[c].temps = {}
      /\ \/ sweep'[c].temps = {} /\ sweep'[c].begun \in {0, clock, sweep[c].begun}
         \/ /\ sweep'[c].begun = sweep[c].begun
            /\ \A p \in sweep'[c].temps :
                 \/ p \in sweep[c].temps
                 \/ temp[p] # None /\ temp[p] + PreviewRetention <= sweep[c].begun
  BY <1>3, SweepTemps DEF TypeInv, ListsOld
<1>5. sweep'[c].temps \subseteq Previews BY TypeStep DEF TypeInv, TypeOK, SweepType
<1>6. ListsOld(c)'
  <2>1. sweep'[c].begun <= clock BY <1>2, <1>3, <1>4 DEF Ages, ListsOld
  <2>2. ASSUME NEW p \in sweep'[c].temps
        PROVE  preview[p].pc = "ready" /\ preview[p].begun + PreviewRetention <= sweep'[c].begun
    <3>1. p \in Previews /\ ObjectSafe(p) /\ sweep'[c].begun = sweep[c].begun
      BY <1>4, <1>5, <2>2 DEF PreviewInv
    <3>2. CASE p \in sweep[c].temps BY <1>3, <3>1, <3>2 DEF ListsOld
    <3>3. CASE temp[p] # None /\ temp[p] + PreviewRetention <= sweep[c].begun
      BY <1>2, <3>1, <3>3 DEF Ages, ObjectSafe
    <3> QED BY <1>4, <2>2, <3>2, <3>3
  <2> QED BY <1>1, <1>4, <2>1, <2>2 DEF ListsOld
<1>7. ASSUME NEW d \in Sweeps \ {c} PROVE ListsOld(d)'
  <2>1. ListsOld(d) BY DEF PreviewInv
  <2> QED BY <1>1, <2>1 DEF ListsOld
<1>8. ASSUME NEW p \in Previews PROVE ObjectSafe(p)'
  <2>1. ObjectSafe(p) BY DEF PreviewInv
  <2>2. Imported(preview[p].hash) => Imported(preview[p].hash)'
    <3> DEFINE h == preview[p].hash
    <3>1. PICK g : g = h OBVIOUS
    <3>2. Imported(g) => \E i \in Requests : imports'[i] # None /\ imports'[i].hash = g
      BY ImportedStays
    <3> QED BY <1>1, <3>1, <3>2 DEF Imported
  <2>3. CASE temp'[p] = temp[p] BY <1>1, <2>1, <2>2, <2>3 DEF ObjectSafe
  <2>4. CASE temp'[p] = None /\ p \in sweep[c].temps
    <3>1. preview[p].begun + PreviewRetention <= clock
      BY <1>2, <1>3, <2>4 DEF ListsOld, Ages
    <3> QED BY <1>1, <2>1, <2>4, <3>1 DEF ObjectSafe
  <2> QED BY <1>4, <2>3, <2>4
<1>9. ASSUME NEW r \in Requests PROVE ServedInTime(r)'
  <2>1. ServedInTime(r) BY DEF PreviewInv
  <2>2. PICK g : g = preview[request[r].preview].hash OBVIOUS
  <2>3. Imported(g) => \E i \in Requests : imports'[i] # None /\ imports'[i].hash = g
    BY ImportedStays
  <2> QED BY <1>1, <2>1, <2>2, <2>3 DEF ServedInTime, Imported
<1> QED BY <1>6, <1>7, <1>8, <1>9 DEF PreviewInv

LEMMA PreviewPreviews ==
  ASSUME TypeInv, PreviewInv, [Next]_vars, NEW p \in Previews, PreviewStep(p)
  PROVE  PreviewInv'
<1> USE DEF stored
<1>1. UNCHANGED <<clock, imports, request, sweep>>
  BY DEF PreviewStep, PreviewUpload, ReprocessRequest, ReprocessReadRaw, PreviewStore, PreviewDies
<1>2. Ages BY TypeAges DEF TypeInv
<1>3. /\ preview[p].pc # "ready"
      /\ \A q \in Previews : q # p => preview'[q] = preview[q] /\ temp'[q] = temp[q]
      /\ preview'[p].begun \in {clock, preview[p].begun}
      /\ \/ preview'[p].pc # "ready" /\ temp'[p] = temp[p]
         \/ preview'[p].pc = "ready" /\ temp'[p] = clock
  <2>1. ASSUME NEW u \in Users, NEW h \in Hashes, PreviewUpload(p, u, h)
        PROVE  preview[p].pc = "idle" /\ temp' = temp /\ preview'[p].pc # "ready" /\
               preview'[p].begun = clock /\ \A q \in Previews : q # p => preview'[q] = preview[q]
    BY <2>1, <1>2 DEF PreviewUpload, Ages
  <2>2. ASSUME NEW u \in Users, NEW i \in Requests, ReprocessRequest(p, u, i)
        PROVE  preview[p].pc = "idle" /\ temp' = temp /\ preview'[p].pc # "ready" /\
               preview'[p].begun = clock /\ \A q \in Previews : q # p => preview'[q] = preview[q]
    BY <2>2, <1>2 DEF ReprocessRequest, Ages
  <2>3. ASSUME NEW pc, preview' = [preview EXCEPT ![p].pc = pc]
        PROVE  preview'[p].pc = pc /\ preview'[p].begun = preview[p].begun /\
               \A q \in Previews : q # p => preview'[q] = preview[q]
    BY <2>3, <1>2 DEF Ages, PreviewType
  <2>4. CASE ReprocessReadRaw(p) \/ PreviewDies(p)
    <3>1. preview[p].pc # "ready" /\ temp' = temp
      BY <2>4 DEF ReprocessReadRaw, PreviewDies
    <3>2. \E pc \in {"refused", "store"} : preview' = [preview EXCEPT ![p].pc = pc]
      BY <2>4 DEF ReprocessReadRaw, PreviewDies, PreviewAt
    <3> QED BY <3>1, <3>2, <2>3
  <2>5. CASE PreviewStore(p)
    <3>1. preview[p].pc # "ready" /\ temp' = [temp EXCEPT ![p] = clock]
          /\ preview' = [preview EXCEPT ![p].pc = "ready"]
      BY <2>5 DEF PreviewStore, PreviewAt
    <3> QED BY <1>2, <3>1, <2>3 DEF Ages
  <2> QED BY <2>1, <2>2, <2>4, <2>5 DEF PreviewStep
<1>4. ASSUME NEW q \in Previews PROVE ObjectSafe(q)'
  <2>1. ObjectSafe(q) BY DEF PreviewInv
  <2>2. CASE q = p
    <3>1. temp[p] = None BY <1>3, <2>1, <2>2 DEF ObjectSafe
    <3>2. preview'[p].begun <= clock BY <1>2, <1>3, <2>1, <2>2 DEF Ages, ObjectSafe
    <3>3. clock # None BY <1>2, Kinds DEF Ages
    <3> QED BY <1>1, <1>3, <2>2, <3>1, <3>2, <3>3 DEF ObjectSafe
  <2>3. CASE q # p BY <1>1, <1>3, <2>1, <2>3 DEF ObjectSafe, Imported
  <2> QED BY <2>2, <2>3
<1>5. ASSUME NEW r \in Requests PROVE ServedInTime(r)'
  <2>1. ServedInTime(r) BY DEF PreviewInv
  <2>2. request[r].pc # "idle" => request[r].preview # p BY <1>3 DEF TypeInv, InputInv
  <2> QED BY <1>1, <1>3, <2>1, <2>2 DEF ServedInTime, Imported, Serving, BeforeUpload, AfterFailure
<1>6. ASSUME NEW c \in Sweeps PROVE ListsOld(c)'
  <2>1. ListsOld(c) BY DEF PreviewInv
  <2>2. \A q \in sweep[c].temps : q \in Previews /\ q # p BY <1>2, <1>3, <2>1 DEF Ages, ListsOld
  <2> QED BY <1>1, <1>3, <2>1, <2>2 DEF ListsOld
<1> QED BY <1>4, <1>5, <1>6 DEF PreviewInv

LEMMA TickPreviews ==
  ASSUME TypeInv, PreviewInv, Tick
  PROVE  PreviewInv'
<1>1. /\ clock' = clock + 1 /\ UNCHANGED <<imports, temp, preview, request, sweep>>
      /\ \A r \in Requests : request[r].pc \in Serving => clock < request[r].begun + MaxRun
  BY DEF Tick, InTime, stored, actors
<1>2. Ages /\ {MaxRun, PreviewRetention, PreviewTTL} \subseteq Nat BY TypeAges, Timing DEF TypeInv
<1>3. ASSUME NEW p \in Previews PROVE ObjectSafe(p)'
  <2>1. ObjectSafe(p) BY DEF PreviewInv
  <2> QED BY <1>1, <1>2, <2>1 DEF ObjectSafe, Imported, Ages
<1>4. ASSUME NEW r \in Requests PROVE ServedInTime(r)'
  <2>1. ServedInTime(r) BY DEF PreviewInv
  <2> QED BY <1>1, <1>2, <2>1 DEF ServedInTime, Imported, Ages
<1>5. ASSUME NEW c \in Sweeps PROVE ListsOld(c)'
  <2>1. ListsOld(c) BY DEF PreviewInv
  <2> QED BY <1>1, <1>2, <2>1 DEF ListsOld, Ages
<1> QED BY <1>3, <1>4, <1>5 DEF PreviewInv

\* The temporary object is touched by the last step of a commit only.
LEMMA CommitTemps ==
  ASSUME NEW r \in Requests, CommitStep(r)
  PROVE  temp' = temp \/ (DeletePreview(r) /\ temp' = [temp EXCEPT ![request[r].preview] = None])
BY DEF CommitStep, CommitBegin, CheckHash, RecheckHash, LookUpHash, ReadPreview, CheckTarget,
   Upload, CommitTransaction, AbortTransaction, LoseCommitAck, DeleteRaw, FindWinner,
   DeletePreview, CommitDies, stored

LEMMA CommitPreviews ==
  ASSUME TypeInv, PreviewInv, [Next]_vars, NEW r \in Requests, CommitStep(r)
  PROVE  PreviewInv'
<1>1. /\ UNCHANGED <<clock, preview, sweep>>
      /\ \A q \in Requests \ {r} : request'[q] = request[q]
  BY CommitFrame
<1>2. Ages BY TypeAges DEF TypeInv
<1>i. ASSUME NEW g, Imported(g) PROVE Imported(g)'
  <2>1. \E i \in Requests : imports'[i] # None /\ imports'[i].hash = g BY <1>i, ImportedStays
  <2> QED BY <2>1 DEF Imported
<1>3. ASSUME NEW p \in Previews PROVE ObjectSafe(p)'
  <2>1. ObjectSafe(p) BY DEF PreviewInv
  <2>2. PICK g : g = preview[p].hash OBVIOUS
  <2>3. Imported(g) => \E i \in Requests : imports'[i] # None /\ imports'[i].hash = g
    BY ImportedStays
  <2>4. CASE temp'[p] = temp[p] BY <1>1, <2>1, <2>2, <2>3, <2>4 DEF ObjectSafe, Imported
  <2>5. CASE temp'[p] # temp[p]
    <3>1. DeletePreview(r) /\ temp'[p] = None /\ p = request[r].preview
      BY <1>2, <2>5, CommitTemps DEF Ages
    <3>2. Imported(g) BY <2>2, <3>1 DEF DeletePreview, PreviewInv, ServedInTime
    <3> QED BY <1>1, <2>1, <2>2, <2>3, <3>1, <3>2 DEF ObjectSafe, Imported
  <2> QED BY <2>4, <2>5
<1>4. ASSUME NEW q \in Requests \ {r} PROVE ServedInTime(q)'
  <2>1. ServedInTime(q) BY DEF PreviewInv
  <2>2. PICK g : g = preview[request[q].preview].hash OBVIOUS
  <2>3. Imported(g) => \E i \in Requests : imports'[i] # None /\ imports'[i].hash = g
    BY ImportedStays
  <2> QED BY <1>1, <2>1, <2>2, <2>3 DEF ServedInTime, Imported
<1>5. ServedInTime(r)'
  <2>1. ServedInTime(r) BY DEF PreviewInv
  <2>2. CASE request[r].pc = "idle"
    <3>1. PICK u \in Users, k \in Keys, p \in Previews, s \in Scopes, t \in Requests \union {None} :
            CommitBegin(r, u, k, p, s, t)
      BY <2>2 DEF CommitStep, CheckHash, RecheckHash, LookUpHash, ReadPreview, CheckTarget, Upload,
         CommitTransaction, WriteImport, AbortTransaction, LoseCommitAck, DeleteRaw, FindWinner,
         DeletePreview, CommitDies, Serving, BeforeUpload, AfterFailure
    <3>2. request'[r].preview = p /\ request'[r].begun = clock /\ request'[r].pc \in {"checkHash", "done"}
      BY <3>1, BeginEffect DEF TypeInv
    <3>3. request'[r].pc = "checkHash" => clock < preview[p].begun + PreviewTTL
      <4>1. ASSUME NEW pc, NEW a, NEW i, request' = [request EXCEPT ![r] =
                     [pc |-> pc, key |-> k, preview |-> p, scope |-> s, target |-> t, begun |-> clock,
                      answer |-> a, import |-> i]]
            PROVE  request'[r].pc = pc
        BY <4>1, <1>2 DEF Ages
      <4>2. \/ clock < ExpiresAt(p)
            \/ \E a : request' = [request EXCEPT ![r] =
                 [pc |-> "done", key |-> k, preview |-> p, scope |-> s, target |-> t, begun |-> clock,
                  answer |-> a, import |-> None]]
        BY <3>1 DEF CommitBegin
      <4> QED BY <4>1, <4>2 DEF ExpiresAt
    <3>4. "done" \notin Serving BY DEF Serving, BeforeUpload, AfterFailure
    <3>5. clock <= clock + MaxRun BY <1>2, Timing DEF Ages
    <3> QED BY <1>1, <3>2, <3>3, <3>4, <3>5 DEF ServedInTime
  <2>3. CASE request[r].pc # "idle"
    <3>1. request'[r].preview = request[r].preview /\ request'[r].begun = request[r].begun
      BY <2>3, CommitFrame
    <3>2. request'[r].pc \in Serving => request[r].pc \in Serving
      BY <2>3, CommitPhases DEF TypeInv, Serving, BeforeUpload, AfterFailure
    <3>3. request'[r].pc = "deletePreview" => Imported(preview[request[r].preview].hash)'
      <4>1. ASSUME Written(r) PROVE Imported(preview[request[r].preview].hash)'
        BY <1>1, <3>1, <4>1 DEF Written, FileOf, Imported
      <4>2. request'[r].pc = "deletePreview" => WriteImport(r)
        BY <2>3, CommitPhases DEF TypeInv, Serving, BeforeUpload, AfterFailure
      <4> QED BY <4>1, <4>2, WriteRows
    <3> QED BY <1>1, <2>1, <2>3, <3>1, <3>2, <3>3 DEF ServedInTime, Imported, Serving, BeforeUpload, AfterFailure
  <2> QED BY <2>2, <2>3
<1>6. \A c \in Sweeps : ListsOld(c)' BY <1>1 DEF PreviewInv, ListsOld
<1> QED BY <1>3, <1>4, <1>5, <1>6 DEF PreviewInv

LEMMA PreviewsStep ==
  ASSUME TypeInv, PreviewInv, [Next]_vars
  PROVE  PreviewInv'
<1>1. CASE Tick BY <1>1, TickPreviews
<1>2. ASSUME NEW p \in Previews, PreviewStep(p) PROVE PreviewInv' BY <1>2, PreviewPreviews
<1>3. ASSUME NEW r \in Requests, CommitStep(r) PROVE PreviewInv' BY <1>3, CommitPreviews
<1>4. ASSUME NEW w \in Withdrawals, WithdrawStep(w) PROVE PreviewInv'
  <2>1. UNCHANGED <<clock, temp, preview, request, sweep>>
    BY <1>4 DEF WithdrawStep, WithdrawRead, WithdrawUpdate, WithdrawDies, stored
  <2>2. ASSUME NEW h, Imported(h) PROVE \E i \in Requests : imports'[i] # None /\ imports'[i].hash = h
    BY <2>2, ImportedStays
  <2>3. ASSUME NEW p \in Previews PROVE ObjectSafe(p)'
    <3>1. PICK g : g = preview[p].hash OBVIOUS
    <3>2. Imported(g) => \E i \in Requests : imports'[i] # None /\ imports'[i].hash = g BY <2>2
    <3> QED BY <2>1, <3>1, <3>2 DEF PreviewInv, ObjectSafe, Imported
  <2>4. ASSUME NEW r \in Requests PROVE ServedInTime(r)'
    <3>1. PICK g : g = preview[request[r].preview].hash OBVIOUS
    <3>2. Imported(g) => \E i \in Requests : imports'[i] # None /\ imports'[i].hash = g BY <2>2
    <3> QED BY <2>1, <3>1, <3>2 DEF PreviewInv, ServedInTime, Imported
  <2>5. \A c \in Sweeps : ListsOld(c)' BY <2>1 DEF PreviewInv, ListsOld
  <2> QED BY <2>3, <2>4, <2>5 DEF PreviewInv
<1>5. ASSUME NEW c \in Sweeps, SweepStep(c) PROVE PreviewInv' BY <1>5, SweepPreviews
<1>6. CASE UNCHANGED vars
  BY <1>6 DEF vars, PreviewInv, ObjectSafe, ServedInTime, ListsOld, Imported
<1> QED BY <1>1, <1>2, <1>3, <1>4, <1>5, <1>6 DEF Next

LEMMA InitPreviews == Init => PreviewInv
BY DEF Init, PreviewInv, ObjectSafe, ServedInTime, ListsOld, Serving, BeforeUpload, AfterFailure

LEMMA PreviewsKept == TypeInv /\ PreviewInv => PreviewKept
<1> SUFFICES ASSUME TypeInv, PreviewInv, NEW r \in Requests, request[r].pc = "readPreview",
                    temp[request[r].preview] = None
             PROVE  \E i \in Requests : Holds(i, FileOf(r))
  BY DEF PreviewKept
<1>1. PICK p \in Previews : p = request[r].preview /\ preview[p].pc = "ready"
  BY DEF TypeInv, InputInv
<1>2. Ages /\ {MaxRun, PreviewRetention, PreviewTTL} \subseteq Nat /\
      PreviewTTL + MaxRun < PreviewRetention
  BY TypeAges, Timing DEF TypeInv
<1>3. /\ clock <= request[r].begun + MaxRun
      /\ request[r].begun < preview[p].begun + PreviewTTL
  BY <1>1 DEF PreviewInv, ServedInTime, Serving, BeforeUpload
<1>4. ~(preview[p].begun + PreviewRetention <= clock) BY <1>2, <1>3 DEF Ages
<1>5. Imported(preview[p].hash) BY <1>1, <1>4 DEF PreviewInv, ObjectSafe
<1> QED BY <1>1, <1>5 DEF Imported, Holds, Accepted, FileOf

\* A commit that was admitted with a live token finds the bytes of its preview, for
\* any times that keep the order the code's bounds have, or its file is imported.
THEOREM SpotifyPreviewKept == Spec => []PreviewKept
<1>1. TypeInv /\ PreviewInv /\ [Next]_vars => (TypeInv /\ PreviewInv)' BY TypeStep, PreviewsStep
<1>2. Init => TypeInv /\ PreviewInv BY InitTypes, InitPreviews
<1> QED BY <1>1, <1>2, PreviewsKept, PTL DEF Spec
=============================================================================
