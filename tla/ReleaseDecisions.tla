-------------------------- MODULE ReleaseDecisions --------------------------
(***************************************************************************)
(* What lib/analytics/release-mapping-service.ts promises: a request that  *)
(* is answered has decided about its row, or ended its alias, in one step, *)
(* on the rows, aliases and snapshots of that moment; one that is refused  *)
(* or lost has decided nothing.                                            *)
(*                                                                         *)
(* A row's release is None while the row is unmatched.                     *)
(***************************************************************************)
CONSTANTS Imports, Rows, Scopes, Releases, Changes, None

\* An alias that a request creates carries its name, others that of their scope.
Aliases == Changes \union Scopes

VARIABLES
  row,
  alias,
  snapshot,
  asked      \* what each request asks for

vars == <<row, alias, snapshot, asked>>
tables == <<row, alias, snapshot>>

Row == [import : Imports, scope : Scopes, release : Releases \union {None},
        alias : Aliases \union {None}]
Alias == [scope : Scopes, release : Releases, status : {"ACTIVE", "SUPERSEDED", "REVOKED"},
          supersededBy : Aliases \union {None}]

Request ==
  [kind : {"confirm", "remap"}, row : Rows, to : Releases, wantsAlias : BOOLEAN, target : {None}]
  \union
  [kind : {"unmatch"}, row : Rows, to : {None}, wantsAlias : {FALSE}, target : {None}]
  \union
  [kind : {"revoke"}, row : {None}, to : {None}, wantsAlias : {FALSE}, target : Aliases]
Void(kind) == [kind |-> kind, row |-> None, to |-> None, wantsAlias |-> FALSE, target |-> None]

Fits(a, r, rel) ==
  alias[a] # None /\ alias[a].scope = row[r].scope /\ alias[a].release = rel

Active(aliases, scope) ==
  {a \in Aliases : /\ aliases[a] # None /\ aliases[a].scope = scope
                   /\ aliases[a].status = "ACTIVE"}

Init ==
  /\ row \in [Rows -> Row]
  /\ alias \in [Aliases -> Alias \union {None}]
  /\ snapshot \in [Rows -> Releases \union {None}]
  /\ \A a, b \in Aliases : alias[a] # None /\ alias[b] # None =>
       /\ alias[a].status = "ACTIVE" /\ alias[a].supersededBy = None
       /\ alias[a].scope = alias[b].scope => a = b
  /\ \A q, r \in Rows :
       q # r /\ row[q].import = row[r].import /\ snapshot[q] # None => snapshot[q] # snapshot[r]
  /\ \A r \in Rows : /\ row[r].release # None => row[r].release = snapshot[r]
                     /\ row[r].alias # None => Fits(row[r].alias, r, row[r].release)
  /\ asked = [c \in Changes |-> Void("none")]

-----------------------------------------------------------------------------
(* Requests come, and are refused *)

Becomes(c, q) == asked' = [asked EXCEPT ![c] = q]

\* A request is refused at once unless the row or the alias is what it is meant for.
MayAsk(q) ==
  /\ q.kind = "confirm" => row[q.row].release = None
  /\ q.kind = "remap" => row[q.row].release \notin {None, q.to}
  /\ q.kind = "revoke" => alias[q.target] # None /\ alias[q.target].status = "ACTIVE"

Ask(c) ==
  /\ asked[c] = Void("none")
  /\ \E q \in Request : Becomes(c, q) /\ MayAsk(q)
  /\ UNCHANGED tables

Refuse(c) ==
  /\ asked[c] \in Request
  /\ Becomes(c, Void("none"))
  /\ UNCHANGED tables

-----------------------------------------------------------------------------
(* Decisions *)

Decide(r, rel, a) == row' = [row EXCEPT ![r].release = rel, ![r].alias = a]

\* No other row of the import is confirmed for the release.
Free(r, rel) ==
  \A q \in Rows \ {r} : row[q].import = row[r].import => row[q].release # rel

\* The snapshot a row once got stays; a row without one gets it for its release.
Figures(r, rel) ==
  \/ snapshot[r] # None /\ UNCHANGED snapshot
  \/ /\ snapshot[r] = None
     /\ \A q \in Rows : row[q].import = row[r].import => snapshot[q] # rel
     /\ snapshot' = [snapshot EXCEPT ![r] = rel]

\* The request applies no alias, one that is there (though it may just have ended),
\* or a new one, if "before" has no active one of the scope.
Apply(c, a, before) ==
  LET q == asked[c] IN
  \/ ~q.wantsAlias /\ a = None /\ alias' = before
  \/ q.wantsAlias /\ a # None /\ Fits(a, q.row, q.to) /\ alias' = before
  \/ /\ q.wantsAlias /\ a = c /\ alias[c] = None
     /\ Active(before, row[q.row].scope) = {}
     /\ alias' = [before EXCEPT ![c] = [scope |-> row[q.row].scope, release |-> q.to,
                                        status |-> "ACTIVE", supersededBy |-> None]]

\* It may meet a row that is confirmed by now: of two confirmations at once of a
\* row that kept its snapshot both may be answered, and the later one stands.
Confirm(c, a) ==
  LET q == asked[c] IN
  /\ Decide(q.row, q.to, a)
  /\ Free(q.row, q.to)
  /\ Figures(q.row, q.to)
  /\ Apply(c, a, alias)

\* An alias that is revoked, or superseded by another.
Ended(a, by) ==
  IF by = None THEN [alias[a] EXCEPT !.status = "REVOKED"]
  ELSE [alias[a] EXCEPT !.status = "SUPERSEDED", !.supersededBy = by]

\* The row's alias, "old", ends with the remap; if it has ended already, it may
\* once more, or not (None).
Remap(c, a) ==
  LET q == asked[c] IN
  /\ Decide(q.row, q.to, a)
  /\ row[q.row].release \notin {None, q.to}
  /\ Free(q.row, q.to)
  /\ \E old \in {None, row[q.row].alias} :
       /\ row[q.row].alias \in Active(alias, row[q.row].scope) => old = row[q.row].alias
       /\ Apply(c, a, IF old = None THEN alias ELSE [alias EXCEPT ![old] = Ended(old, a)])
  /\ UNCHANGED snapshot

Unmatch(c) == Decide(asked[c].row, None, None) /\ UNCHANGED <<alias, snapshot>>

Revoke(c) ==
  /\ alias' = [alias EXCEPT ![asked[c].target] = Ended(asked[c].target, None)]
  /\ UNCHANGED <<row, snapshot>>

Answer(c) ==
  /\ asked[c] \in Request
  /\ Becomes(c, Void("answered"))
  /\ \/ asked[c].kind = "confirm" /\ \E a \in Aliases \union {None} : Confirm(c, a)
     \/ asked[c].kind = "remap" /\ \E a \in Aliases \union {None} : Remap(c, a)
     \/ asked[c].kind = "unmatch" /\ Unmatch(c)
     \/ asked[c].kind = "revoke" /\ Revoke(c)

Next == \E c \in Changes : Ask(c) \/ Refuse(c) \/ Answer(c)

Spec == Init /\ [][Next]_vars
=============================================================================
