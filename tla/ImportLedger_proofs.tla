-------------------------- MODULE ImportLedger_proofs --------------------------
(* What ImportLedger promises, for any number of imports, files and keys. *)
EXTENDS ImportLedger, TLAPS

\* Withdrawal changes the status of one current import, and nothing else of it.
LEMMA WithdrawEffect ==
  ASSUME TypeOK, NEW i \in Imports, Withdraw(i)
  PROVE  /\ TypeOK'
         /\ ledger[i] \in Row /\ ledger[i].status = "IMPORTED"
         /\ ledger'[i] \in Row /\ ledger'[i] # None /\ ledger'[i].status = "WITHDRAWN"
         /\ ledger'[i].hash = ledger[i].hash /\ ledger'[i].key = ledger[i].key
         /\ ledger'[i].scope = ledger[i].scope /\ ledger'[i].replacedBy = ledger[i].replacedBy
         /\ \A j \in Imports : j # i => ledger'[j] = ledger[j]
<1>1. ledger[i] \in Row /\ ledger[i].status = "IMPORTED"
  BY DEF TypeOK, Withdraw, Current, Accepted
<1>2. ledger'[i] = [ledger[i] EXCEPT !.status = "WITHDRAWN"]
  BY DEF Withdraw, TypeOK
<1>3. ledger'[i] \in Row
  BY <1>1, <1>2 DEF Row, Statuses
<1>4. TypeOK'
  BY <1>3 DEF Withdraw, TypeOK
<1> QED
  BY <1>1, <1>2, <1>3, <1>4, NoneIsNoRow DEF Row, Withdraw, TypeOK

\* Acceptance adds one import, current and replaced by nothing.
LEMMA AcceptEffect ==
  ASSUME TypeOK, NEW i \in Imports, NEW h \in Hashes, NEW k \in Keys, NEW s \in Scopes,
         Accept(i, h, k, s)
  PROVE  /\ TypeOK'
         /\ ledger[i] = None /\ ledger'[i] \in Row /\ ledger'[i] # None
         /\ ledger'[i].hash = h /\ ledger'[i].key = k /\ ledger'[i].scope = s
         /\ ledger'[i].status = "IMPORTED" /\ ledger'[i].replacedBy = None
         /\ \A j \in Imports : j # i => ledger'[j] = ledger[j]
         /\ \A j \in Imports : ledger[j] # None => ledger[j].hash # h /\ ledger[j].key # k
<1>1. ledger'[i] = [hash |-> h, key |-> k, scope |-> s, status |-> "IMPORTED", replacedBy |-> None]
  BY DEF Accept, TypeOK
<1>2. ledger'[i] \in Row
  BY <1>1 DEF Row, Statuses
<1> QED
  BY <1>1, <1>2, NoneIsNoRow DEF Accept, Accepted, TypeOK

\* A replacement adds one import and turns one current import of its scope over to it.
LEMMA ReplaceEffect ==
  ASSUME TypeOK, NEW i \in Imports, NEW h \in Hashes, NEW k \in Keys, NEW s \in Scopes,
         NEW old \in Imports, AcceptReplacing(i, h, k, s, old)
  PROVE  /\ TypeOK' /\ old # i
         /\ ledger[i] = None /\ ledger'[i] \in Row /\ ledger'[i] # None
         /\ ledger'[i].hash = h /\ ledger'[i].key = k /\ ledger'[i].scope = s
         /\ ledger'[i].status = "IMPORTED" /\ ledger'[i].replacedBy = None
         /\ ledger[old] \in Row /\ ledger[old] # None /\ ledger[old].status = "IMPORTED"
         /\ ledger[old].scope = s
         /\ ledger'[old] \in Row /\ ledger'[old] # None
         /\ ledger'[old].status = "REPLACED" /\ ledger'[old].replacedBy = i
         /\ ledger'[old].hash = ledger[old].hash /\ ledger'[old].key = ledger[old].key
         /\ ledger'[old].scope = s
         /\ \A j \in Imports : j # i /\ j # old => ledger'[j] = ledger[j]
         /\ \A j \in Imports : ledger[j] # None => ledger[j].hash # h /\ ledger[j].key # k
<1>1. old # i /\ ledger[i] = None /\ ledger[old] \in Row /\ ledger[old] # None
      /\ ledger[old].status = "IMPORTED" /\ ledger[old].scope = s
  BY DEF AcceptReplacing, Current, Accepted, TypeOK
<1>2. ledger'[i] = [hash |-> h, key |-> k, scope |-> s, status |-> "IMPORTED", replacedBy |-> None]
  BY <1>1 DEF AcceptReplacing, TypeOK
<1>3. ledger'[old] = [ledger[old] EXCEPT !.status = "REPLACED", !.replacedBy = i]
  BY <1>1 DEF AcceptReplacing, TypeOK
<1>4. ledger'[i] \in Row /\ ledger'[old] \in Row
  <2>1. ledger'[i] \in Row
    BY <1>2 DEF Row, Statuses
  <2>2. [ledger[old] EXCEPT !.status = "REPLACED", !.replacedBy = i] \in Row
    BY <1>1 DEF Row, Statuses
  <2> QED
    BY <2>1, <2>2, <1>3
<1>5. \A j \in Imports : j # i /\ j # old => ledger'[j] = ledger[j]
  BY DEF AcceptReplacing, TypeOK
<1>6. TypeOK'
  BY <1>4 DEF AcceptReplacing, TypeOK
<1>7. \A j \in Imports : ledger[j] # None => ledger[j].hash # h /\ ledger[j].key # k
  BY DEF AcceptReplacing, Accepted
<1>8. /\ ledger'[old].status = "REPLACED" /\ ledger'[old].replacedBy = i
      /\ ledger'[old].hash = ledger[old].hash /\ ledger'[old].key = ledger[old].key
      /\ ledger'[old].scope = s
  BY <1>1, <1>3 DEF Row
<1>9. /\ ledger'[i].hash = h /\ ledger'[i].key = k /\ ledger'[i].scope = s
      /\ ledger'[i].status = "IMPORTED" /\ ledger'[i].replacedBy = None
  BY <1>2
<1>10. ledger'[i] # None /\ ledger'[old] # None
  BY <1>4, NoneIsNoRow
<1> QED
  BY <1>1, <1>4, <1>5, <1>6, <1>7, <1>8, <1>9, <1>10

-----------------------------------------------------------------------------
\* Every row of the ledger keeps its shape.
THEOREM LedgerTypes == Spec => []TypeOK
<1>1. Init => TypeOK
  BY DEF Init, TypeOK
<1>2. TypeOK /\ [Next]_ledger => TypeOK'
  <2> SUFFICES ASSUME TypeOK, [Next]_ledger PROVE TypeOK'
    OBVIOUS
  <2>1. CASE UNCHANGED ledger
    BY <2>1 DEF TypeOK
  <2> QED
    BY <2>1, WithdrawEffect, AcceptEffect, ReplaceEffect DEF Next
<1> QED
  BY <1>1, <1>2, PTL DEF Spec

\* The unique columns: no two accepted imports share a file or a key.
LEMMA LedgerUnique == Spec => []OneImportPerFile
<1>1. Init => OneImportPerFile
  BY DEF Init, OneImportPerFile, Accepted
<1>2. TypeOK /\ OneImportPerFile /\ [Next]_ledger => OneImportPerFile'
  <2> SUFFICES ASSUME TypeOK, OneImportPerFile, [Next]_ledger PROVE OneImportPerFile'
    OBVIOUS
  <2> USE DEF OneImportPerFile, Accepted
  <2>1. ASSUME NEW i \in Imports, Withdraw(i) PROVE OneImportPerFile'
    BY <2>1, WithdrawEffect, NoneIsNoRow
  <2>2. ASSUME NEW i \in Imports, NEW h \in Hashes, NEW k \in Keys, NEW s \in Scopes, Accept(i, h, k, s)
        PROVE  OneImportPerFile'
    BY <2>2, AcceptEffect
  <2>3. ASSUME NEW i \in Imports, NEW h \in Hashes, NEW k \in Keys, NEW s \in Scopes,
               NEW old \in Imports, AcceptReplacing(i, h, k, s, old)
        PROVE  OneImportPerFile'
    BY <2>3, ReplaceEffect
  <2>4. CASE UNCHANGED ledger
    BY <2>4
  <2> QED
    BY <2>1, <2>2, <2>3, <2>4 DEF Next
<1> QED
  BY <1>1, <1>2, LedgerTypes, PTL DEF Spec

\* A replaced import always names an accepted replacement of its own artist and
\* type, and no replacement stands for two imports.
THEOREM LedgerReplacements == Spec => []ReplacementsAgree
<1>1. Init => ReplacementsAgree
  BY DEF Init, ReplacementsAgree, Accepted
<1>2. TypeOK /\ ReplacementsAgree /\ [Next]_ledger => ReplacementsAgree'
  <2> SUFFICES ASSUME TypeOK, ReplacementsAgree, [Next]_ledger PROVE ReplacementsAgree'
    OBVIOUS
  <2> USE DEF ReplacementsAgree, Accepted
  <2>0. \A j \in Imports : ledger[j] # None => ledger[j].replacedBy \in Imports \union {None}
    BY DEF TypeOK, Row
  <2>1. ASSUME NEW i \in Imports, Withdraw(i) PROVE ReplacementsAgree'
    <3>1. \A j \in Imports :
            /\ ledger'[j] = None <=> ledger[j] = None
            /\ ledger[j] # None => /\ ledger'[j].replacedBy = ledger[j].replacedBy
                                   /\ ledger'[j].scope = ledger[j].scope
      BY <2>1, WithdrawEffect, NoneIsNoRow
    <3>2. ledger[i].replacedBy = None
      BY <2>1, WithdrawEffect, NoneIsNoRow
    <3>3. \A j \in Imports : ledger[j] # None =>
            (ledger'[j].status = "REPLACED" <=> ledger[j].status = "REPLACED")
      BY <2>1, WithdrawEffect, NoneIsNoRow
    <3> QED
      BY <3>1, <3>2, <3>3, <2>0, NoneIsNoRow
  <2>2. ASSUME NEW i \in Imports, NEW h \in Hashes, NEW k \in Keys, NEW s \in Scopes, Accept(i, h, k, s)
        PROVE  ReplacementsAgree'
    BY <2>2, <2>0, AcceptEffect, NoneIsNoRow
  <2>3. ASSUME NEW i \in Imports, NEW h \in Hashes, NEW k \in Keys, NEW s \in Scopes,
               NEW old \in Imports, AcceptReplacing(i, h, k, s, old)
        PROVE  ReplacementsAgree'
    <3>1. \A j \in Imports : ledger[j] # None => ledger[j].replacedBy # i
      BY <2>3, ReplaceEffect, NoneIsNoRow
    <3>2. ledger[old].replacedBy = None
      BY <2>3, ReplaceEffect
    <3>3. ASSUME NEW j \in Imports, ledger'[j] # None, j # i, j # old
          PROVE  ledger[j] # None /\ ledger'[j] = ledger[j] /\ ledger'[j].replacedBy # i
      BY <3>1, <3>3, <2>3, ReplaceEffect
    <3> QED
      BY <3>1, <3>2, <3>3, <2>0, <2>3, ReplaceEffect, NoneIsNoRow
  <2>4. CASE UNCHANGED ledger
    BY <2>4
  <2> QED
    BY <2>1, <2>2, <2>3, <2>4 DEF Next
<1> QED
  BY <1>1, <1>2, LedgerTypes, PTL DEF Spec

\* No step loses an accepted import, or changes its file, key or scope, or
\* touches one that is withdrawn or replaced.
THEOREM LedgerHistory == Spec => HistoryIsKept
<1>1. TypeOK /\ [Next]_ledger => [HistoryStep]_ledger
  <2> SUFFICES ASSUME TypeOK, Next PROVE HistoryStep
    OBVIOUS
  <2> USE DEF HistoryStep, Accepted
  <2>1. ASSUME NEW i \in Imports, Withdraw(i) PROVE HistoryStep
    BY <2>1, WithdrawEffect
  <2>2. ASSUME NEW i \in Imports, NEW h \in Hashes, NEW k \in Keys, NEW s \in Scopes, Accept(i, h, k, s)
        PROVE  HistoryStep
    BY <2>2, AcceptEffect
  <2>3. ASSUME NEW i \in Imports, NEW h \in Hashes, NEW k \in Keys, NEW s \in Scopes,
               NEW old \in Imports, AcceptReplacing(i, h, k, s, old)
        PROVE  HistoryStep
    BY <2>3, ReplaceEffect
  <2> QED
    BY <2>1, <2>2, <2>3 DEF Next
<1> QED
  BY <1>1, LedgerTypes, PTL DEF Spec, HistoryIsKept
=============================================================================
