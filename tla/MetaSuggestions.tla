---------------------------- MODULE MetaSuggestions ----------------------------
(***************************************************************************)
(* What an import does to a promotion campaign: after its transaction, a   *)
(* commit, a replay or a withdrawal generates the campaign's interval      *)
(* suggestions again from the resolutions; so does the owner's button.     *)
(* Composes MetaImport with generateMetaIntervalSuggestions of             *)
(* lib/analytics/campaign-timeline-service.ts.                             *)
(*                                                                         *)
(* One campaign with one confirmed link that covers all days; its          *)
(* suggested intervals live and end with their evidence, see               *)
(* CampaignTimeline for what the owner does with them.                     *)
(***************************************************************************)
EXTENDS MetaImport

CONSTANT Buttons   \* requests of the owner to generate suggestions

VARIABLES
  current, superseded, \* CampaignEvidence by suggestionState: <<key, fingerprint>>
  gen,                 \* one generation per request
  overlapped           \* history: did two generations run at the same time?

suggestionVars == <<current, superseded, gen, overlapped>>
vars == <<metaVars, suggestionVars>>

Generations == Requests \union Buttons

\* The fingerprint of the resolutions a generation read names all of them.
Fact == [id : Requests, version : Nat, winner : Commits, spend : {0, 1}]
NoFacts == [d \in Days |-> None]

Init ==
  /\ MetaInit
  /\ current = {} /\ superseded = {} /\ overlapped = FALSE
  /\ gen = [g \in Generations |-> [pc |-> "off", facts |-> NoFacts, prior |-> {}, done |-> 0]]

-----------------------------------------------------------------------------
(* Windows of activity *)

\* Resolutions whose winner belongs to an accepted, eligible batch.
Facts == [d \in Days |->
  LET row == resolution[d]
  IN IF row = None THEN None
     ELSE LET b == batch[row.winner]
          IN IF b.state # "ACCEPTED" \/ ~Export[b.file].eligible THEN None
             ELSE [id |-> row.id, version |-> row.version, winner |-> row.winner,
                   spend |-> Export[b.file].spend[d]]]

Spent(facts, amount) == {d \in Days : facts[d] # None /\ facts[d].spend = amount}

\* A window starts on a day of spending before which an explicit zero follows the
\* previous one.  Unknown days never end a window.
Starts(facts) == {d \in Spent(facts, 1) :
  \A e \in Spent(facts, 1) : e < d => \E z \in Spent(facts, 0) : e < z /\ z < d}
Windows(facts) == Cardinality(Starts(facts))
Desired(facts) == {<<i, facts>> : i \in 1..Windows(facts)}

-----------------------------------------------------------------------------
(* generateMetaIntervalSuggestions *)

Running(g) == gen[g].pc \in {"evidence", "write"}
Untouched == UNCHANGED <<metaVars>>

\* synchronizeMetaCampaignEvidence after an import, or the button.
ReadFacts(g) ==
  /\ gen[g].pc = "off"
  /\ g \in Requests => request[g].pc \in {"committed", "replayed", "withdrawn"}
  /\ gen' = [gen EXCEPT ![g] = [@ EXCEPT !.pc = "evidence", !.facts = Facts]]
  /\ overlapped' = (overlapped \/ \E o \in Generations : Running(o))
  /\ Untouched /\ UNCHANGED <<current, superseded>>

ReadEvidence(g) ==
  /\ gen[g].pc = "evidence"
  /\ gen' = [gen EXCEPT ![g] = [@ EXCEPT !.pc = "write", !.prior = current]]
  /\ Untouched /\ UNCHANGED <<current, superseded, overlapped>>

End(g, answer) == gen' = [gen EXCEPT ![g] = [@ EXCEPT !.pc = answer, !.prior = {}]]

\* One transaction per window, in order: an unchanged suggestion is left alone,
\* another one is created and supersedes what was read under its key.  The
\* source record, key and fingerprint together, is unique for ever.
WriteWindow(g) ==
  LET i == gen[g].done + 1
      evidence == <<i, gen[g].facts>>
      under == {e \in gen[g].prior : e[1] = i}
  IN
  /\ gen[g].pc = "write" /\ i <= Windows(gen[g].facts)
  /\ \E prior \in IF under = {} THEN {{}} ELSE {{e} : e \in under} :
       \/ /\ prior = {evidence}
          /\ gen' = [gen EXCEPT ![g].done = i] /\ UNCHANGED <<current, superseded>>
       \/ /\ prior # {evidence} /\ evidence \notin current \union superseded
          /\ current' = (current \ prior) \union {evidence}
          /\ superseded' = superseded \union prior
          /\ gen' = [gen EXCEPT ![g].done = i]
       \/ /\ prior # {evidence} /\ evidence \in current \union superseded
          /\ End(g, "retry") /\ UNCHANGED <<current, superseded>>
  /\ Untouched /\ UNCHANGED overlapped

\* Mutant: it answers when the windows are written.
RetireNothing(g) ==
  /\ gen[g].pc = "write" /\ gen[g].done = Windows(gen[g].facts)
  /\ End(g, "synced")
  /\ Untouched /\ UNCHANGED <<current, superseded, overlapped>>

\* What was read under the keys of windows that are gone, one transaction each.
Retire(g) ==
  LET stale == {e \in gen[g].prior : e[1] > Windows(gen[g].facts)}
  IN
  /\ gen[g].pc = "write" /\ gen[g].done = Windows(gen[g].facts)
  /\ IF stale = {} THEN End(g, "synced") /\ UNCHANGED <<current, superseded>>
     ELSE \E e \in stale :
            /\ current' = current \ {e} /\ superseded' = superseded \union {e}
            /\ gen' = [gen EXCEPT ![g].prior = @ \ {e}]
  /\ Untouched /\ UNCHANGED overlapped

\* A query fails, and the caller is asked to retry.
Fail(g) == /\ Faults /\ Running(g) /\ End(g, "retry")
           /\ Untouched /\ UNCHANGED <<current, superseded, overlapped>>

Next ==
  \/ MetaNext /\ UNCHANGED suggestionVars
  \/ \E g \in Generations : \/ ReadFacts(g) \/ ReadEvidence(g) \/ WriteWindow(g)
                            \/ Retire(g) \/ Fail(g)

Spec == Init /\ [][Next]_vars

-----------------------------------------------------------------------------
(* Properties *)

Evidence == (1..Cardinality(Days)) \X [Days -> Fact \union {None}]

\* Rows have the declared shape; what a suggestion names has the shape of facts.
TypeOK ==
  /\ MetaTypeOK
  /\ \A e \in current \union superseded :
       e[1] \in 1..Cardinality(Days) /\ \A d \in Days : e[2][d] \in Fact \union {None}
  /\ overlapped \in BOOLEAN

\* A generation that answers SYNCED has left exactly the windows of the facts it
\* read as the current suggestions, whatever was suggested before, as long as no
\* two generations ever ran at the same time.
SyncedIsTrue == [][\A g \in Generations :
  /\ ~overlapped /\ gen[g].pc = "write" /\ gen'[g].pc = "synced"
  => current' = Desired(gen[g].facts)]_vars

-----------------------------------------------------------------------------
(* A statement of the repository that the code does not keep *)

\* "Withdrawal recalculates from the remaining canonical observations and can
\* restore the earlier suggestion set": once everything that was asked for is
\* done, without faults or races, the suggestions are those of the remaining facts.
WithdrawalRestores ==
  /\ \A r \in Requests : request[r].pc \in Answers \union {"idle"}
  /\ \A g \in Generations : gen[g].pc # "off" \/ (g \in Requests /\ request[g].pc = "idle")
  /\ \A g \in Generations : ~Running(g)
  /\ raced = {} /\ ~overlapped
  => current = Desired(Facts)
=============================================================================
