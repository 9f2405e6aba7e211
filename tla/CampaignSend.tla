----------------------------- MODULE CampaignSend -----------------------------
(***************************************************************************)
(* Sending one email campaign to its audience: the send route with its     *)
(* status lock, delivery loop and delivery log, while the owner edits or   *)
(* deletes the campaign and subscribers come and go.                       *)
(* Sources: app/api/campaigns, lib/repositories/audience.ts, lib/email.    *)
(*                                                                         *)
(* The copy of the email is left out (a saved campaign always has a        *)
(* subject and a body), and so is the audience filter, which narrows the   *)
(* audience by a subscriber's source.                                      *)
(***************************************************************************)
EXTENDS Integers, FiniteSets

CONSTANTS
  Sends,        \* send requests for the campaign
  Edits,        \* PUT requests
  Deletes,      \* DELETE requests
  Subscribers, None,
  Faults,       \* may the database fail, and may a request die?
  MaxChanges    \* bound on what subscribers and the owner do to subscriptions

VARIABLES
  campaign,     \* the EmailCampaign row, or None
  subscriber,   \* the Subscriber rows, or None
  logs,         \* the EmailSendLog rows of the campaign
  mail,         \* what the provider accepted: <<send, subscriber>>
  send, edit, delete,
  changes

vars == <<campaign, subscriber, logs, mail, send, edit, delete, changes>>
audience == <<subscriber, changes>>
requests == <<send, edit, delete>>

Campaign == [status : {"draft", "sending", "sent", "failed"}, sentAt : BOOLEAN]
Subscriber == [status : {"active", "unsubscribed"}, consent : BOOLEAN]
\* Subscribers are ids, and no id is used twice: one who signs up again after
\* being deleted is another member of Subscribers.
Deleted == [status |-> "deleted", consent |-> FALSE]
Log == [send : Sends, to : Subscribers, status : {"sent", "failed"}]

ASSUME CampaignConstants ==
  /\ Faults \in BOOLEAN
  /\ MaxChanges \in Nat
  /\ None \notin Campaign \union Subscriber \union Subscribers
  /\ IsFiniteSet(Sends) /\ IsFiniteSet(Edits)

\* POST /api/campaigns has created the row; nobody has sent it.
Init ==
  /\ campaign = [status |-> "draft", sentAt |-> FALSE]
  /\ subscriber \in [Subscribers -> {[status |-> "active", consent |-> TRUE], None}]
  /\ logs = {} /\ mail = {}
  /\ send = [x \in Sends |-> [pc |-> "idle", recipients |-> {}, queue |-> {}, to |-> None,
                            sent |-> FALSE, failed |-> FALSE, unheard |-> {}]]
  /\ edit = [e \in Edits |-> [pc |-> "idle", seen |-> None]]
  /\ delete = [d \in Deletes |-> "idle"]
  /\ changes = 0

-----------------------------------------------------------------------------
(* POST /api/campaigns/[id]/send: each await is a step *)

Delivering == {"deliver", "logSent", "logFailed"}
Refused(x) == send' = [send EXCEPT ![x].pc = "refused"]

SendRead(x) ==
  /\ send[x].pc = "idle"
  /\ IF campaign # None /\ campaign.status \notin {"sending", "sent"}
     THEN send' = [send EXCEPT ![x].pc = "list"]
     ELSE Refused(x)
  /\ UNCHANGED <<campaign, audience, logs, mail, edit, delete>>

\* getAudienceWhereClause: active subscribers who gave their consent.
Reachable == {s \in Subscribers :
  subscriber[s] = [status |-> "active", consent |-> TRUE]}

SendList(x) ==
  /\ send[x].pc = "list"
  /\ IF Reachable = {} THEN Refused(x)
     ELSE send' = [send EXCEPT ![x] =
            [@ EXCEPT !.pc = "lock", !.recipients = Reachable, !.queue = Reachable]]
  /\ UNCHANGED <<campaign, audience, logs, mail, edit, delete>>

\* Mutants: the lock trusts the read; it forgets that a campaign may be sent.
SendLockBlind(x) ==
  /\ send[x].pc = "lock"
  /\ IF campaign # None
     THEN /\ campaign' = [status |-> "sending", sentAt |-> FALSE]
          /\ send' = [send EXCEPT ![x].pc = "deliver"]
     ELSE Refused(x) /\ UNCHANGED campaign
  /\ UNCHANGED <<audience, logs, mail, edit, delete>>

SendLockAfterSent(x) ==
  /\ send[x].pc = "lock"
  /\ IF campaign # None /\ campaign.status # "sending"
     THEN /\ campaign' = [status |-> "sending", sentAt |-> FALSE]
          /\ send' = [send EXCEPT ![x].pc = "deliver"]
     ELSE Refused(x) /\ UNCHANGED campaign
  /\ UNCHANGED <<audience, logs, mail, edit, delete>>

\* markCampaignSendingIfReady: the conditional update is the lock.
SendLock(x) ==
  /\ send[x].pc = "lock"
  /\ IF campaign # None /\ campaign.status \notin {"sending", "sent"}
     THEN /\ campaign' = [status |-> "sending", sentAt |-> FALSE]
          /\ send' = [send EXCEPT ![x].pc = "deliver"]
     ELSE Refused(x) /\ UNCHANGED campaign
  /\ UNCHANGED <<audience, logs, mail, edit, delete>>

\* Mutant: the provider's answer is not looked at.
DeliverUnchecked(x) ==
  /\ send[x].pc = "deliver"
  /\ \E s \in send[x].queue :
       /\ mail' \in {mail, mail \union {<<x, s>>}}
       /\ send' = [send EXCEPT ![x].pc = "logSent", ![x].queue = @ \ {s}, ![x].to = s]
  /\ UNCHANGED <<campaign, audience, logs, edit, delete>>

\* The provider accepts the email and says so; or it refuses, or its answer is
\* lost, which the route cannot tell apart.
Deliver(x) ==
  /\ send[x].pc = "deliver"
  /\ \E s \in send[x].queue :
       \/ /\ mail' = mail \union {<<x, s>>}
          /\ send' = [send EXCEPT ![x].pc = "logSent", ![x].queue = @ \ {s}, ![x].to = s]
       \/ /\ mail' \in {mail, mail \union {<<x, s>>}}
          /\ send' = [send EXCEPT ![x].pc = "logFailed", ![x].queue = @ \ {s}, ![x].to = s]
  /\ UNCHANGED <<campaign, audience, logs, edit, delete>>

LogOf(x, status) == [send |-> x, to |-> send[x].to, status |-> status]

\* A log row refers to the campaign and to the subscriber: both must exist.
Loggable(x) == campaign # None /\ subscriber[send[x].to] # Deleted

\* The log is written inside the try block of the delivery: when it cannot be,
\* the email counts as failed. So it does when the row is written and the answer
\* of the database is lost: the row stays, and "unheard" remembers it.
LogSent(x) ==
  /\ send[x].pc = "logSent"
  /\ \/ /\ Loggable(x)
        /\ logs' = logs \union {LogOf(x, "sent")}
        /\ \/ send' = [send EXCEPT ![x].pc = "deliver", ![x].sent = TRUE]
           \/ /\ Faults
              /\ send' = [send EXCEPT ![x].pc = "logFailed", ![x].unheard = @ \union {send[x].to}]
     \/ /\ ~Loggable(x) \/ Faults
        /\ send' = [send EXCEPT ![x].pc = "logFailed"]
        /\ UNCHANGED logs
  /\ UNCHANGED <<campaign, audience, mail, edit, delete>>

\* Mutant: a failure that cannot be logged is passed over.
LogFailedSwallowed(x) ==
  /\ send[x].pc = "logFailed"
  /\ send' = [send EXCEPT ![x].pc = "deliver", ![x].failed = TRUE]
  /\ logs' \in {logs, logs \union {LogOf(x, "failed")}}
  /\ UNCHANGED <<campaign, audience, mail, edit, delete>>

\* Outside of it, a log that cannot be written, or is written unheard, ends the
\* request with an error.
LogFailed(x) ==
  /\ send[x].pc = "logFailed"
  /\ \/ /\ Loggable(x)
        /\ logs' = logs \union {LogOf(x, "failed")}
        /\ \/ send' = [send EXCEPT ![x].pc = "deliver", ![x].failed = TRUE]
           \/ Faults /\ send' = [send EXCEPT ![x].pc = "error"]
     \/ /\ ~Loggable(x) \/ Faults
        /\ send' = [send EXCEPT ![x].pc = "error"]
        /\ UNCHANGED logs
  /\ UNCHANGED <<campaign, audience, mail, edit, delete>>

\* Mutants: the status counts successes; the status is not updated at the end.
FinishCountsSent(x) ==
  LET status == IF send[x].sent THEN "sent" ELSE "failed" IN
  /\ send[x].pc = "deliver" /\ send[x].queue = {}
  /\ IF campaign # None
     THEN /\ campaign' = [status |-> status, sentAt |-> send[x].sent]
          /\ send' = [send EXCEPT ![x].pc = status]
     ELSE /\ send' = [send EXCEPT ![x].pc = "error"]
          /\ UNCHANGED campaign
  /\ UNCHANGED <<audience, logs, mail, edit, delete>>

FinishWithoutStatus(x) ==
  /\ send[x].pc = "deliver" /\ send[x].queue = {}
  /\ send' = [send EXCEPT ![x].pc = "sent"]
  /\ UNCHANGED <<campaign, audience, logs, mail, edit, delete>>

\* sentCount and failedCount decide sentAt and the final status, which is
\* written over whatever status the row has by now.
Finish(x) ==
  LET status == IF send[x].failed THEN "failed" ELSE "sent" IN
  /\ send[x].pc = "deliver" /\ send[x].queue = {}
  /\ IF campaign # None
     THEN /\ campaign' = [status |-> status, sentAt |-> send[x].sent]
          /\ send' = [send EXCEPT ![x].pc = status]
     ELSE /\ send' = [send EXCEPT ![x].pc = "error"]
          /\ UNCHANGED campaign
  /\ UNCHANGED <<audience, logs, mail, edit, delete>>

\* The platform kills the function, or a query of it fails.
SendDies(x) ==
  /\ Faults
  /\ send[x].pc \in Delivering \union {"list", "lock"}
  /\ send' = [send EXCEPT ![x].pc = "error"]
  /\ UNCHANGED <<campaign, audience, logs, mail, edit, delete>>

-----------------------------------------------------------------------------
(* PUT and DELETE /api/campaigns/[id] *)

\* The route reads the campaign and keeps its status only when it is sent;
\* saveCampaign reads again, refuses a sent one, and upserts.
EditRead(e) ==
  /\ edit[e].pc = "idle"
  /\ edit' = [edit EXCEPT ![e] =
       [pc |-> IF campaign = None THEN "refused" ELSE "reread", seen |-> campaign]]
  /\ UNCHANGED <<campaign, audience, logs, mail, send, delete>>

EditReread(e) ==
  /\ edit[e].pc = "reread"
  /\ edit' = [edit EXCEPT ![e].pc =
       IF campaign # None /\ campaign.status = "sent" THEN "refused" ELSE "upsert"]
  /\ UNCHANGED <<campaign, audience, logs, mail, send, delete>>

EditUpsert(e) ==
  /\ edit[e].pc = "upsert"
  /\ campaign' = [status |-> IF edit[e].seen.status = "sent" THEN "sent" ELSE "draft",
                  sentAt |-> edit[e].seen.sentAt]
  /\ edit' = [edit EXCEPT ![e].pc = "saved"]
  /\ UNCHANGED <<audience, logs, mail, send, delete>>

DeleteRead(d) ==
  /\ delete[d] = "idle"
  /\ delete' = [delete EXCEPT ![d] =
       IF campaign = None \/ campaign.status = "sent" THEN "refused" ELSE "remove"]
  /\ UNCHANGED <<campaign, audience, logs, mail, send, edit>>

\* The campaign's delivery log goes with it (onDelete: Cascade).
DeleteRow(d) ==
  /\ delete[d] = "remove"
  /\ delete' = [delete EXCEPT ![d] = "removed"]
  /\ campaign' = None
  /\ logs' = IF campaign = None THEN logs ELSE {}
  /\ UNCHANGED <<audience, mail, send, edit>>

-----------------------------------------------------------------------------
(* Subscribers: the claim route, the unsubscribe page and the audience page *)

Change(s, row) ==
  /\ changes < MaxChanges /\ subscriber[s] # Deleted
  /\ changes' = changes + 1
  /\ subscriber' = [subscriber EXCEPT ![s] = row]
  /\ UNCHANGED <<campaign, logs, mail, requests>>

\* A signup of a known address makes it active again.
UpsertExclusiveSubscriber(s) ==
  \E consent \in BOOLEAN : Change(s, [status |-> "active", consent |-> consent])

UnsubscribeByToken(s) ==
  /\ subscriber[s] # None /\ subscriber[s].status = "active"
  /\ Change(s, [subscriber[s] EXCEPT !.status = "unsubscribed"])

\* createSubscriber and updateSubscriber write whatever the owner enters.
SaveSubscriber(s) == \E row \in Subscriber : Change(s, row)

DeleteSubscriber(s) == subscriber[s] # None /\ Change(s, Deleted)

-----------------------------------------------------------------------------
SendStep(x) ==
  \/ SendRead(x) \/ SendList(x) \/ SendLock(x)
  \/ Deliver(x) \/ LogSent(x) \/ LogFailed(x) \/ Finish(x)

Next ==
  \/ \E x \in Sends : SendStep(x) \/ SendDies(x)
  \/ \E e \in Edits : EditRead(e) \/ EditReread(e) \/ EditUpsert(e)
  \/ \E d \in Deletes : DeleteRead(d) \/ DeleteRow(d)
  \/ \E s \in Subscribers :
       UpsertExclusiveSubscriber(s) \/ UnsubscribeByToken(s) \/ SaveSubscriber(s) \/ DeleteSubscriber(s)

Spec == Init /\ [][Next]_vars

\* A request that the platform does not kill goes on to its end.
FairSpec == Spec /\ \A x \in Sends : WF_vars(SendStep(x))

-----------------------------------------------------------------------------
SendType ==
  [pc : {"idle", "list", "lock", "refused", "sent", "failed", "error"} \union Delivering,
   recipients : SUBSET Subscribers, queue : SUBSET Subscribers, to : Subscribers \union {None},
   sent : BOOLEAN, failed : BOOLEAN, unheard : SUBSET Subscribers]

\* Every variable has its type.
TypeOK ==
  /\ campaign \in Campaign \union {None}
  /\ subscriber \in [Subscribers -> Subscriber \union {Deleted, None}]
  /\ logs \subseteq Log
  /\ mail \subseteq Sends \X Subscribers
  /\ send \in [Sends -> SendType]
  /\ edit \in [Edits -> [pc : {"idle", "reread", "upsert", "refused", "saved"}, seen : Campaign \union {None}]]
  /\ delete \in [Deletes -> {"idle", "remove", "refused", "removed"}]
  /\ changes \in 0..MaxChanges

\* The requests that email the audience or have sent the campaign, and the edits
\* that may have given the lock away in between.
Emailing == {x \in Sends : send[x].pc \in Delivering \union {"sent"}}
Saved == {e \in Edits : edit[e].pc = "saved"}

\* One request emails the audience or has sent the campaign, and one more for
\* every saved edit that made it a draft again: "This campaign is already
\* sending. Wait for it to finish before trying again." (send route).
OneSendPerDraft == Cardinality(Emailing) <= 1 + Cardinality(Saved)

\* Once a send ended as sent, no other request emails a campaign that no edit
\* has been saved to: "This campaign is already sending or has already been
\* sent." (send route).
NothingAfterSent ==
  [][(\E x \in Sends : send[x].pc = "sent") /\ Saved = {} => UNCHANGED mail]_vars

\* The campaign was not deleted: a deletion takes the delivery log along, and an
\* edit that saves the campaign afterwards does not bring it back.
LogKept == \A d \in Deletes : delete[d] # "removed"

\* A campaign that shows as sent has reached everyone on the list one request
\* drew up, and its log says so.
SentMeansDelivered ==
  campaign # None /\ campaign.status = "sent" /\ LogKept =>
    /\ campaign.sentAt
    /\ \E x \in Sends :
         /\ send[x].pc = "sent" /\ send[x].recipients # {}
         /\ \A s \in send[x].recipients :
              <<x, s>> \in mail /\ [send |-> x, to |-> s, status |-> "sent"] \in logs

\* The delivery log claims no delivery that the provider did not accept; one
\* recipient is logged both as sent and as failed only when the database wrote the
\* first row and its answer was lost (the catch of the send route cannot tell); and
\* a request that ends with "Campaign sent successfully." has logged no failure.
LogsAreTrue == \A l \in logs :
  /\ l.status = "sent" =>
       /\ <<l.send, l.to>> \in mail
       /\ [l EXCEPT !.status = "failed"] \in logs => l.to \in send[l.send].unheard
  /\ l.status = "failed" => send[l.send].pc # "sent"

\* A campaign that shows as failed has a failed delivery in its log, which the
\* operator is told to review.
FailureIsLogged ==
  campaign # None /\ campaign.status = "failed" /\ LogKept => \E l \in logs : l.status = "failed"

\* Unless a request ends with an error, the lock is given back, or the campaign
\* is deleted with it.
SendEnds ==
  [](\A x \in Sends : send[x].pc # "error") =>
    ((campaign # None /\ campaign.status = "sending") ~>
     (campaign = None \/ campaign.status # "sending"))
=============================================================================
