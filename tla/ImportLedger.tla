---------------------------- MODULE ImportLedger ----------------------------
(***************************************************************************)
(* What the import history promises, whichever service writes it: a set of *)
(* accepted imports, each holding its file and its idempotency key for     *)
(* ever, of which some are withdrawn and some are replaced by a later one. *)
(* Acceptance (with the replacement it may carry) and withdrawal are       *)
(* atomic here; SpotifyImport implements them with requests that read,     *)
(* upload and write in separate steps.                                     *)
(***************************************************************************)
CONSTANTS
  Imports,   \* identities an import may have
  Hashes,    \* file contents, told apart by SHA-256
  Keys,      \* client idempotency keys
  Scopes,    \* an artist together with an import type
  None

VARIABLE ledger

Statuses == {"IMPORTED", "WITHDRAWN", "REPLACED"}

Row == [hash : Hashes, key : Keys, scope : Scopes, status : Statuses,
        replacedBy : Imports \union {None}]

ASSUME NoneIsNoRow == None \notin Imports /\ None \notin Row

Accepted(i) == ledger[i] # None

\* An import whose figures are shown: accepted, not withdrawn, not replaced.
Current(i) == Accepted(i) /\ ledger[i].status = "IMPORTED"

Init == ledger = [i \in Imports |-> None]

\* File and key are unique columns: a taken one refuses the acceptance.
Accept(i, h, k, s) ==
  /\ ~Accepted(i)
  /\ \A j \in Imports : Accepted(j) => ledger[j].hash # h /\ ledger[j].key # k
  /\ ledger' = [ledger EXCEPT ![i] =
       [hash |-> h, key |-> k, scope |-> s, status |-> "IMPORTED", replacedBy |-> None]]

\* Mutant: an import that is no longer current is replaced again.
AcceptReplacingAny(i, h, k, s, old) ==
  /\ ~Accepted(i)
  /\ \A j \in Imports : Accepted(j) => ledger[j].hash # h /\ ledger[j].key # k
  /\ Accepted(old) /\ ledger[old].scope = s
  /\ ledger' = [ledger EXCEPT
       ![i] = [hash |-> h, key |-> k, scope |-> s, status |-> "IMPORTED", replacedBy |-> None],
       ![old] = [@ EXCEPT !.status = "REPLACED", !.replacedBy = i]]

AcceptReplacing(i, h, k, s, old) ==
  /\ ~Accepted(i)
  /\ \A j \in Imports : Accepted(j) => ledger[j].hash # h /\ ledger[j].key # k
  /\ Current(old) /\ ledger[old].scope = s
  /\ ledger' = [ledger EXCEPT
       ![i] = [hash |-> h, key |-> k, scope |-> s, status |-> "IMPORTED", replacedBy |-> None],
       ![old] = [@ EXCEPT !.status = "REPLACED", !.replacedBy = i]]

\* Mutant: a replaced import is withdrawn as well.
WithdrawAccepted(i) ==
  /\ Accepted(i)
  /\ ledger' = [ledger EXCEPT ![i].status = "WITHDRAWN"]

Withdraw(i) ==
  /\ Current(i)
  /\ ledger' = [ledger EXCEPT ![i].status = "WITHDRAWN"]

Next ==
  \E i \in Imports :
    \/ Withdraw(i)
    \/ \E h \in Hashes, k \in Keys, s \in Scopes :
         Accept(i, h, k, s) \/ \E old \in Imports : AcceptReplacing(i, h, k, s, old)

Spec == Init /\ [][Next]_ledger

-----------------------------------------------------------------------------
\* The ledger holds rows of the declared shape.
TypeOK == ledger \in [Imports -> Row \union {None}]

\* No two accepted imports hold the same bytes, and no two the same idempotency
\* key, however long ago one of them was withdrawn or replaced.  The ledger has it
\* from its guards; that the service keeps it is SpotifyRowsUnique.
OneImportPerFile ==
  \A i, j \in Imports : Accepted(i) /\ Accepted(j) /\ i # j =>
    ledger[i].hash # ledger[j].hash /\ ledger[i].key # ledger[j].key

\* The two columns that say "replaced" agree, the replacement is an accepted
\* import of the same artist and type, and it replaced nothing else.
ReplacementsAgree ==
  \A i \in Imports : Accepted(i) =>
    /\ ledger[i].status = "REPLACED" <=> ledger[i].replacedBy # None
    /\ ledger[i].replacedBy # None =>
         /\ Accepted(ledger[i].replacedBy)
         /\ ledger[i].replacedBy # i
         /\ ledger[ledger[i].replacedBy].scope = ledger[i].scope
         /\ \A j \in Imports :
              Accepted(j) /\ ledger[j].replacedBy = ledger[i].replacedBy => j = i

\* One step of the property below.
HistoryStep ==
  \A i \in Imports : Accepted(i) =>
    /\ ledger'[i] # None
    /\ ledger'[i].hash = ledger[i].hash
    /\ ledger'[i].key = ledger[i].key
    /\ ledger'[i].scope = ledger[i].scope
    /\ ledger[i].status # "IMPORTED" => ledger'[i] = ledger[i]

\* History is append-only: an accepted import keeps its file, key and scope,
\* and a withdrawn or replaced one never changes again.
HistoryIsKept == [][HistoryStep]_ledger
=============================================================================
