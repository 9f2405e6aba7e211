------------------------- MODULE CampaignSend_proofs -------------------------
(***************************************************************************)
(* Theorems about CampaignSend, for every finite set of requests and every *)
(* set of subscribers.                                                     *)
(*   CampaignTypes      every variable keeps its type.                     *)
(*   CampaignLogs       the delivery log is true, but for rows whose       *)
(*                      acknowledgement was lost, which it tells apart.    *)
(*   CampaignLock       one request emails the audience or has sent the    *)
(*                      campaign, and one more for every saved edit, and   *)
(*   CampaignSentOnce   none does after a send that ended as sent, until   *)
(*                      an edit is saved.                                  *)
(*   CampaignDelivered  a sent campaign has reached all of its recipients, *)
(*   CampaignFailure    and a failed one shows why, until it is deleted.   *)
(***************************************************************************)
EXTENDS CampaignSend, FiniteSetTheorems, TLAPS

-----------------------------------------------------------------------------
(* Types *)

\* A request that logs a delivery knows its recipient, and an edit that goes on
\* has seen a campaign.
InputInv ==
  /\ \A x \in Sends : send[x].pc \in {"logSent", "logFailed"} => send[x].to \in Subscribers
  /\ \A e \in Edits : edit[e].pc \in {"reread", "upsert"} => edit[e].seen # None

LEMMA InitTypes == Init => TypeOK /\ InputInv
<1> SUFFICES ASSUME Init PROVE TypeOK /\ InputInv
  OBVIOUS
<1> DEFINE none == [pc |-> "idle", recipients |-> {}, queue |-> {}, to |-> None,
                    sent |-> FALSE, failed |-> FALSE, unheard |-> {}]
<1>1. none \in SendType BY DEF SendType
<1> HIDE DEF none
<1>2. send \in [Sends -> SendType] BY <1>1 DEF Init, none
<1>3. [status |-> "active", consent |-> TRUE] \in Subscriber BY DEF Subscriber
<1>4. subscriber \in [Subscribers -> Subscriber \union {Deleted, None}] BY <1>3 DEF Init
<1>5. edit \in [Edits -> [pc : {"idle", "reread", "upsert", "refused", "saved"}, seen : Campaign \union {None}]]
  BY DEF Init
<1>6. campaign \in Campaign BY DEF Init, Campaign
<1>7. changes \in 0..MaxChanges BY CampaignConstants DEF Init
<1>8. TypeOK BY <1>2, <1>4, <1>5, <1>6, <1>7 DEF Init, TypeOK
<1>9. InputInv BY DEF Init, InputInv
<1> QED BY <1>8, <1>9

\* A step of a send request changes its own row and no other.
LEMMA SendRow ==
  ASSUME TypeOK, InputInv, NEW x \in Sends, SendStep(x) \/ SendDies(x)
  PROVE  /\ send' = [send EXCEPT ![x] = send'[x]]
         /\ send'[x] \in SendType
         /\ send'[x].pc \in {"logSent", "logFailed"} => send'[x].to \in Subscribers
<1>1. send[x] \in SendType /\ x \in DOMAIN send BY DEF TypeOK
<1> USE <1>1
<1>2. CASE SendRead(x) BY <1>2 DEF SendRead, Refused, SendType
<1>3. CASE SendList(x)
  <2>1. Reachable \in SUBSET Subscribers
    <3>1. \A s \in Reachable : s \in Subscribers BY DEF Reachable
    <3> QED BY <3>1
  <2> DEFINE R == Reachable
  <2> HIDE DEF R
  <2>2. send' = [send EXCEPT ![x].pc = "refused"] \/
        send' = [send EXCEPT ![x] = [@ EXCEPT !.pc = "lock", !.recipients = R, !.queue = R]]
    BY <1>3 DEF SendList, Refused, R
  <2>3. [send[x] EXCEPT !.pc = "refused"] \in SendType BY DEF SendType
  <2>4. [send[x] EXCEPT !.pc = "lock", !.recipients = R, !.queue = R] \in SendType
    BY <2>1 DEF SendType, R
  <2>5. send'[x] \in {[send[x] EXCEPT !.pc = "refused"],
                     [send[x] EXCEPT !.pc = "lock", !.recipients = R, !.queue = R]}
    BY <2>2
  <2>6. send' = [send EXCEPT ![x] = send'[x]] BY <2>2
  <2>7. send'[x].pc \in {"refused", "lock"} BY <2>5 DEF SendType
  <2> QED BY <2>3, <2>4, <2>5, <2>6, <2>7
<1>4. CASE SendLock(x) BY <1>4 DEF SendLock, Refused, SendType, Delivering
<1>5. CASE Deliver(x)
  <2>1. PICK s \in send[x].queue, p \in {"logSent", "logFailed"} :
          send' = [send EXCEPT ![x].pc = p, ![x].queue = @ \ {s}, ![x].to = s]
    BY <1>5 DEF Deliver
  <2>2. s \in Subscribers BY DEF SendType
  <2>3. [[[send[x] EXCEPT !.pc = p] EXCEPT !.queue = @ \ {s}] EXCEPT !.to = s] \in SendType
    BY <2>1, <2>2 DEF SendType, Delivering
  <2> QED BY <2>1, <2>2, <2>3 DEF SendType
<1>6. CASE LogSent(x) BY <1>6 DEF LogSent, SendType, Delivering, InputInv
<1>7. CASE LogFailed(x) BY <1>7 DEF LogFailed, SendType, Delivering, InputInv
<1>8. CASE Finish(x) BY <1>8 DEF Finish, SendType
<1>9. CASE SendDies(x) BY <1>9 DEF SendDies, SendType
<1> QED BY <1>2, <1>3, <1>4, <1>5, <1>6, <1>7, <1>8, <1>9 DEF SendStep

\* What a step of a send request does to the tables.
LEMMA SendTables ==
  ASSUME TypeOK, InputInv, NEW x \in Sends, SendStep(x) \/ SendDies(x)
  PROVE  /\ campaign' \in Campaign \union {None}
         /\ logs' \subseteq Log
         /\ mail' \subseteq Sends \X Subscribers
         /\ UNCHANGED <<subscriber, changes, edit, delete>>
<1>1. send[x] \in SendType BY DEF TypeOK
<1>2. CASE SendRead(x) \/ SendList(x) \/ SendDies(x)
  BY <1>2 DEF SendRead, SendList, SendDies, TypeOK, audience, Refused
<1>3. CASE SendLock(x)
  <2>1. [status |-> "sending", sentAt |-> FALSE] \in Campaign BY DEF Campaign
  <2> QED BY <1>3, <2>1 DEF SendLock, TypeOK, audience
<1>6. CASE Finish(x)
  <2>1. \A status \in {"sent", "failed"} : [status |-> status, sentAt |-> send[x].sent] \in Campaign
    BY <1>1 DEF Campaign, SendType
  <2> QED BY <1>6, <2>1 DEF Finish, TypeOK, audience
<1>4. CASE Deliver(x)
  <2>1. PICK s \in send[x].queue : mail' \in {mail, mail \union {<<x, s>>}} BY <1>4 DEF Deliver
  <2>2. <<x, s>> \in Sends \X Subscribers BY <1>1, <2>1 DEF SendType
  <2>3. mail' \subseteq Sends \X Subscribers BY <2>1, <2>2 DEF TypeOK
  <2>4. UNCHANGED <<campaign, logs, subscriber, changes, edit, delete>> BY <1>4 DEF Deliver, audience
  <2> QED BY <2>3, <2>4 DEF TypeOK
<1>5. CASE LogSent(x) \/ LogFailed(x)
  <2>1. send[x].to \in Subscribers BY <1>5 DEF LogSent, LogFailed, InputInv
  <2>2. LogOf(x, "sent") \in Log /\ LogOf(x, "failed") \in Log BY <2>1 DEF LogOf, Log
  <2> QED BY <1>5, <2>2 DEF LogSent, LogFailed, TypeOK, audience
<1> QED BY <1>2, <1>3, <1>4, <1>5, <1>6 DEF SendStep

OtherStep ==
  \/ \E e \in Edits : EditRead(e) \/ EditReread(e) \/ EditUpsert(e)
  \/ \E d \in Deletes : DeleteRead(d) \/ DeleteRow(d)
  \/ \E s \in Subscribers :
       UpsertExclusiveSubscriber(s) \/ UnsubscribeByToken(s) \/ SaveSubscriber(s) \/ DeleteSubscriber(s)

\* The steps of the others leave the requests alone, and the log but for a deletion.
LEMMA OthersKeep ==
  ASSUME OtherStep \/ UNCHANGED vars
  PROVE  /\ UNCHANGED <<send, mail>>
         /\ logs' = logs \/ logs' = {}
BY DEF OtherStep, EditRead, EditReread, EditUpsert, DeleteRead, DeleteRow, UpsertExclusiveSubscriber,
  UnsubscribeByToken, SaveSubscriber, DeleteSubscriber, Change, requests, vars

LEMMA EditTypes ==
  ASSUME TypeOK, InputInv, NEW e \in Edits, EditRead(e) \/ EditReread(e) \/ EditUpsert(e)
  PROVE  TypeOK' /\ InputInv'
<1> DEFINE EditType == [pc : {"idle", "reread", "upsert", "refused", "saved"}, seen : Campaign \union {None}]
<1>1. edit \in [Edits -> EditType] BY DEF TypeOK
<1>2. UNCHANGED <<subscriber, changes, logs, mail, send, delete>>
  BY DEF EditRead, EditReread, EditUpsert, audience
<1>3. /\ edit' = [edit EXCEPT ![e] = edit'[e]] /\ edit'[e] \in EditType
      /\ edit'[e].pc \in {"reread", "upsert"} => edit'[e].seen # None
  <2>1. CASE EditRead(e) BY <1>1, <2>1 DEF EditRead, TypeOK
  <2>2. CASE EditReread(e) BY <1>1, <2>2 DEF EditReread, InputInv
  <2>3. CASE EditUpsert(e) BY <1>1, <2>3 DEF EditUpsert
  <2> QED BY <2>1, <2>2, <2>3
<1>4. campaign' \in Campaign \union {None}
  <2>1. CASE EditUpsert(e)
    <3>1. edit[e].seen \in Campaign BY <1>1, <2>1 DEF EditUpsert, InputInv
    <3> QED BY <2>1, <3>1 DEF EditUpsert, Campaign
  <2>2. CASE EditRead(e) \/ EditReread(e) BY <2>2 DEF EditRead, EditReread, TypeOK
  <2> QED BY <2>1, <2>2
<1> HIDE DEF EditType
<1>5. edit' \in [Edits -> EditType] BY <1>1, <1>3
<1>6. TypeOK' BY <1>2, <1>4, <1>5 DEF TypeOK, EditType
<1>7. InputInv' BY <1>1, <1>2, <1>3 DEF InputInv
<1> QED BY <1>6, <1>7

LEMMA DeleteTypes ==
  ASSUME TypeOK, InputInv, NEW d \in Deletes, DeleteRead(d) \/ DeleteRow(d)
  PROVE  TypeOK' /\ InputInv'
<1>1. UNCHANGED <<subscriber, changes, mail, send, edit>> BY DEF DeleteRead, DeleteRow, audience
<1>2. campaign' \in Campaign \union {None} /\ logs' \subseteq Log
  BY DEF DeleteRead, DeleteRow, TypeOK
<1>3. delete' \in [Deletes -> {"idle", "remove", "refused", "removed"}] BY DEF DeleteRead, DeleteRow, TypeOK
<1> QED BY <1>1, <1>2, <1>3 DEF TypeOK, InputInv

LEMMA AudienceTypes ==
  ASSUME TypeOK, InputInv, NEW s \in Subscribers,
         \/ UpsertExclusiveSubscriber(s) \/ UnsubscribeByToken(s)
         \/ SaveSubscriber(s) \/ DeleteSubscriber(s)
  PROVE  TypeOK' /\ InputInv'
<1>1. PICK row \in Subscriber \union {Deleted} : Change(s, row)
  <2>1. CASE UpsertExclusiveSubscriber(s)
    BY <2>1 DEF UpsertExclusiveSubscriber, Subscriber
  <2>2. CASE UnsubscribeByToken(s)
    <3>1. Change(s, [subscriber[s] EXCEPT !.status = "unsubscribed"]) /\ subscriber[s] # None
          /\ subscriber[s] # Deleted
      BY <2>2 DEF UnsubscribeByToken, Change
    <3>2. subscriber[s] \in Subscriber BY <3>1 DEF TypeOK
    <3>3. [subscriber[s] EXCEPT !.status = "unsubscribed"] \in Subscriber BY <3>2 DEF Subscriber
    <3> QED BY <3>1, <3>3
  <2>3. CASE SaveSubscriber(s) BY <2>3 DEF SaveSubscriber
  <2>4. CASE DeleteSubscriber(s) BY <2>4 DEF DeleteSubscriber
  <2> QED BY <2>1, <2>2, <2>3, <2>4
<1>2. UNCHANGED <<campaign, logs, mail, send, edit, delete>> BY <1>1 DEF Change, requests
<1>3. subscriber' \in [Subscribers -> Subscriber \union {Deleted, None}] BY <1>1 DEF Change, TypeOK
<1>4. changes' \in 0..MaxChanges BY <1>1, CampaignConstants DEF Change, TypeOK
<1> QED BY <1>2, <1>3, <1>4 DEF TypeOK, InputInv

LEMMA StepTypes == TypeOK /\ InputInv /\ [Next]_vars => TypeOK' /\ InputInv'
<1> SUFFICES ASSUME TypeOK, InputInv, [Next]_vars PROVE TypeOK' /\ InputInv'
  OBVIOUS
<1>1. ASSUME NEW x \in Sends, SendStep(x) \/ SendDies(x) PROVE TypeOK' /\ InputInv'
  <2>1. send' \in [Sends -> SendType] BY <1>1, SendRow DEF TypeOK
  <2>2. TypeOK' BY <1>1, <2>1, SendTables DEF TypeOK
  <2>3. InputInv' BY <1>1, SendRow, SendTables DEF InputInv, TypeOK
  <2> QED BY <2>2, <2>3
<1>2. ASSUME OtherStep PROVE TypeOK' /\ InputInv'
  BY <1>2, EditTypes, DeleteTypes, AudienceTypes DEF OtherStep
<1>3. CASE UNCHANGED vars
  BY <1>3 DEF vars, TypeOK, InputInv
<1> QED BY <1>1, <1>2, <1>3 DEF Next, OtherStep

\* Every variable keeps its type, whatever the requests, the owner and the
\* subscribers do.
THEOREM CampaignTypes == Spec => []TypeOK
<1> QED BY InitTypes, StepTypes, PTL DEF Spec

-----------------------------------------------------------------------------
(* The delivery log *)

\* Nobody on a request's queue is in its log, nor is the one it is about to log,
\* unless that row was written unheard; a delivery about to be logged as sent was
\* accepted; and a failure in the log is counted, or ended the request.
LogInv == \A x \in Sends :
  /\ send[x].pc \in {"idle", "list", "lock"} => \A l \in logs : l.send # x
  /\ send[x].pc \in Delivering =>
       \A l \in logs : l.send = x => l.to \notin send[x].queue
  /\ send[x].pc \in {"logSent", "logFailed"} =>
       /\ send[x].to \notin send[x].queue
       /\ \A l \in logs : l.send = x /\ l.to = send[x].to =>
            send[x].pc = "logFailed" /\ l.status = "sent" /\ l.to \in send[x].unheard
  /\ send[x].pc = "logSent" => <<x, send[x].to>> \in mail
  /\ send[x].pc = "sent" => ~send[x].failed
  /\ \A l \in logs : l.send = x /\ l.status = "failed" =>
       send[x].failed \/ send[x].pc = "error"

\* A send step adds no log row but one of its own, for the recipient at hand.
LEMMA LogGrows ==
  ASSUME TypeOK, InputInv, NEW x \in Sends, SendStep(x) \/ SendDies(x)
  PROVE  /\ mail \subseteq mail'
         /\ \/ logs' = logs
            \/ /\ send[x].pc = "logSent" /\ logs' = logs \union {LogOf(x, "sent")}
               /\ \/ send' = [send EXCEPT ![x].pc = "deliver", ![x].sent = TRUE]
                  \/ send' = [send EXCEPT ![x].pc = "logFailed", ![x].unheard = @ \union {send[x].to}]
            \/ /\ send[x].pc = "logFailed" /\ logs' = logs \union {LogOf(x, "failed")}
               /\ \/ send' = [send EXCEPT ![x].pc = "deliver", ![x].failed = TRUE]
                  \/ send' = [send EXCEPT ![x].pc = "error"]
<1>1. CASE SendRead(x) \/ SendList(x) \/ SendLock(x) \/ Finish(x) \/ SendDies(x)
  BY <1>1 DEF SendRead, SendList, SendLock, Finish, SendDies
<1>2. CASE Deliver(x) BY <1>2 DEF Deliver
<1>3. CASE LogSent(x) BY <1>3 DEF LogSent
<1>4. CASE LogFailed(x) BY <1>4 DEF LogFailed
<1> QED BY <1>1, <1>2, <1>3, <1>4 DEF SendStep

\* How a send step moves the request along.
LEMMA SendMoves ==
  ASSUME TypeOK, InputInv, NEW x \in Sends, SendStep(x) \/ SendDies(x)
  PROVE  \/ /\ send'[x].pc \notin Delivering
            /\ send'[x].pc \in {"idle", "list", "lock"} => send[x].pc \in {"idle", "list", "lock"}
            /\ logs' = logs /\ send'[x].unheard = send[x].unheard
            /\ send'[x].failed = send[x].failed
            /\ send'[x].pc = "sent" => ~send[x].failed
            /\ send[x].pc # "error"
         \/ /\ send[x].pc = "lock" /\ send'[x].pc = "deliver" /\ logs' = logs
            /\ send'[x].unheard = send[x].unheard /\ send'[x].failed = send[x].failed
         \/ /\ send[x].pc = "deliver" /\ logs' = logs
            /\ send'[x].pc \in {"logSent", "logFailed"}
            /\ send'[x].to \in send[x].queue
            /\ send'[x].queue = send[x].queue \ {send'[x].to}
            /\ send'[x].pc = "logSent" => <<x, send'[x].to>> \in mail'
            /\ send'[x].unheard = send[x].unheard /\ send'[x].failed = send[x].failed
         \/ /\ send[x].pc = "logSent" /\ send'[x].pc = "logFailed"
            /\ send'[x].to = send[x].to /\ send'[x].queue = send[x].queue
            /\ send'[x].failed = send[x].failed
            /\ \/ logs' = logs /\ send'[x].unheard = send[x].unheard
               \/ /\ logs' = logs \union {LogOf(x, "sent")}
                  /\ send'[x].unheard = send[x].unheard \union {send[x].to}
         \/ /\ send[x].pc = "logSent" /\ send'[x].pc = "deliver"
            /\ logs' = logs \union {LogOf(x, "sent")}
            /\ send'[x].queue = send[x].queue
            /\ send'[x].unheard = send[x].unheard /\ send'[x].failed = send[x].failed
         \/ /\ send[x].pc = "logFailed"
            /\ logs' = logs \union {LogOf(x, "failed")}
            /\ send'[x].queue = send[x].queue /\ send'[x].unheard = send[x].unheard
            /\ (send'[x].pc = "deliver" /\ send'[x].failed) \/ send'[x].pc = "error"
<1>1. send[x] \in SendType /\ x \in DOMAIN send BY DEF TypeOK
<1>2. CASE SendRead(x) \/ SendDies(x)
  BY <1>1, <1>2 DEF SendRead, SendDies, Refused, SendType, Delivering
<1>3. CASE SendList(x)
  <2>1. logs' = logs /\ send[x].pc = "list" BY <1>3 DEF SendList
  <2>2. CASE Reachable = {}
    <3>1. send'[x] = [send[x] EXCEPT !.pc = "refused"] BY <1>1, <1>3, <2>2 DEF SendList, Refused
    <3> QED BY <1>1, <2>1, <3>1 DEF SendType, Delivering
  <2>3. CASE Reachable # {}
    <3>1. send'[x] = [send[x] EXCEPT !.pc = "lock", !.recipients = Reachable, !.queue = Reachable]
      BY <1>1, <1>3, <2>3 DEF SendList
    <3> QED BY <1>1, <2>1, <3>1 DEF SendType, Delivering
  <2> QED BY <2>2, <2>3
<1>4. CASE SendLock(x) BY <1>1, <1>4 DEF SendLock, Refused, SendType, Delivering
<1>5. CASE Deliver(x)
  <2>1. PICK s \in send[x].queue, p \in {"logSent", "logFailed"} :
          /\ send' = [send EXCEPT ![x].pc = p, ![x].queue = @ \ {s}, ![x].to = s]
          /\ p = "logSent" => <<x, s>> \in mail'
    BY <1>5 DEF Deliver
  <2>2. /\ send'[x].pc = p /\ send'[x].queue = send[x].queue \ {s} /\ send'[x].to = s
        /\ send'[x].unheard = send[x].unheard /\ send'[x].failed = send[x].failed
    BY <1>1, <2>1 DEF SendType
  <2> QED BY <1>5, <2>1, <2>2 DEF Deliver
<1>6. CASE LogSent(x)
  <2>1. send[x].pc = "logSent" BY <1>6 DEF LogSent
  <2>2. CASE /\ logs' = logs \union {LogOf(x, "sent")}
             /\ send' = [send EXCEPT ![x].pc = "deliver", ![x].sent = TRUE]
    BY <1>1, <2>1, <2>2 DEF SendType, Delivering
  <2>3. CASE /\ logs' = logs \union {LogOf(x, "sent")}
             /\ send' = [send EXCEPT ![x].pc = "logFailed", ![x].unheard = @ \union {send[x].to}]
    <3>1. send'[x] = [send[x] EXCEPT !.pc = "logFailed", !.unheard = @ \union {send[x].to}]
      BY <1>1, <2>3
    <3>2. /\ send'[x].pc = "logFailed" /\ send'[x].unheard = send[x].unheard \union {send[x].to}
          /\ send'[x].to = send[x].to /\ send'[x].queue = send[x].queue
          /\ send'[x].failed = send[x].failed
      BY <1>1, <3>1 DEF SendType
    <3> QED BY <2>1, <2>3, <3>2
  <2>4. CASE logs' = logs /\ send' = [send EXCEPT ![x].pc = "logFailed"]
    BY <1>1, <2>1, <2>4 DEF SendType, Delivering
  <2> QED BY <1>6, <2>2, <2>3, <2>4 DEF LogSent
<1>7. CASE LogFailed(x)
  <2>1. send[x].pc = "logFailed" BY <1>7 DEF LogFailed
  <2>2. CASE /\ logs' = logs \union {LogOf(x, "failed")}
             /\ send' = [send EXCEPT ![x].pc = "deliver", ![x].failed = TRUE]
    BY <1>1, <2>1, <2>2 DEF SendType
  <2>3. CASE /\ logs' = logs \union {LogOf(x, "failed")}
             /\ send' = [send EXCEPT ![x].pc = "error"]
    BY <1>1, <2>1, <2>3 DEF SendType
  <2>4. CASE logs' = logs /\ send' = [send EXCEPT ![x].pc = "error"]
    BY <1>1, <2>1, <2>4 DEF SendType, Delivering
  <2> QED BY <1>7, <2>2, <2>3, <2>4 DEF LogFailed
<1>8. CASE Finish(x) BY <1>1, <1>8 DEF Finish, SendType, Delivering
<1> QED BY <1>2, <1>3, <1>4, <1>5, <1>6, <1>7, <1>8 DEF SendStep

\* What was written unheard stays remembered.
LEMMA UnheardStays ==
  ASSUME TypeOK, InputInv, NEW x \in Sends, SendStep(x) \/ SendDies(x)
  PROVE  send[x].unheard \subseteq send'[x].unheard
<1>1. send[x] \in SendType /\ x \in DOMAIN send BY DEF TypeOK
<1>2. CASE SendList(x)
  <2>1. CASE Reachable = {} BY <1>1, <1>2, <2>1 DEF SendList, Refused, SendType
  <2>2. CASE Reachable # {}
    <3>1. send'[x] = [send[x] EXCEPT !.pc = "lock", !.recipients = Reachable, !.queue = Reachable]
      BY <1>1, <1>2, <2>2 DEF SendList
    <3> QED BY <1>1, <3>1 DEF SendType
  <2> QED BY <2>1, <2>2
<1>3. CASE SendRead(x) \/ SendLock(x) \/ LogFailed(x) \/ Finish(x) \/ SendDies(x)
  BY <1>1, <1>3 DEF SendRead, SendLock, LogFailed, Finish, SendDies, Refused, SendType
<1>4. CASE Deliver(x) \/ LogSent(x)
  <2>1. send[x].pc \in {"deliver", "logSent"} BY <1>4 DEF Deliver, LogSent
  <2> QED BY <2>1, SendMoves DEF Delivering
<1> QED BY <1>2, <1>3, <1>4 DEF SendStep

LEMMA LogStep ==
  TypeOK /\ InputInv /\ LogInv /\ LogsAreTrue /\ [Next]_vars => LogInv' /\ LogsAreTrue'
<1> SUFFICES ASSUME TypeOK, InputInv, LogInv, LogsAreTrue, [Next]_vars
             PROVE  LogInv' /\ LogsAreTrue'
  OBVIOUS
<1>1. ASSUME NEW x \in Sends, SendStep(x) \/ SendDies(x) PROVE LogInv' /\ LogsAreTrue'
  <2>1. mail \subseteq mail' BY <1>1, LogGrows
  <2>0. logs \subseteq Log /\ logs' \subseteq Log BY <1>1, SendTables DEF TypeOK
  <2>2. ASSUME NEW y \in Sends, y # x
        PROVE  send'[y] = send[y] /\ \A l \in logs' : l.send = y => l \in logs
    <3>1. send'[y] = send[y] BY <1>1, <2>2, SendRow DEF TypeOK
    <3>2. LogOf(x, "sent").send = x /\ LogOf(x, "failed").send = x BY DEF LogOf
    <3>3. \A l \in logs' : l.send = y => l \in logs BY <1>1, <2>2, <3>2, LogGrows
    <3> QED BY <3>1, <3>3
  <2>3. /\ LogOf(x, "sent").send = x /\ LogOf(x, "failed").send = x
        /\ LogOf(x, "sent").to = send[x].to /\ LogOf(x, "failed").to = send[x].to
        /\ LogOf(x, "sent").status = "sent" /\ LogOf(x, "failed").status = "failed"
    BY DEF LogOf
  <2>9. /\ send[x].pc \in {"idle", "list", "lock"} => \A l \in logs : l.send # x
        /\ send[x].pc \in Delivering => \A l \in logs : l.send = x => l.to \notin send[x].queue
        /\ send[x].pc \in {"logSent", "logFailed"} =>
             /\ send[x].to \notin send[x].queue
             /\ \A l \in logs : l.send = x /\ l.to = send[x].to =>
                  send[x].pc = "logFailed" /\ l.status = "sent" /\ l.to \in send[x].unheard
        /\ send[x].pc = "logSent" => <<x, send[x].to>> \in mail
        /\ send[x].pc = "sent" => ~send[x].failed
        /\ \A l \in logs : l.send = x /\ l.status = "failed" =>
             send[x].failed \/ send[x].pc = "error"
    BY DEF LogInv
  <2>4. /\ send'[x].pc \in {"idle", "list", "lock"} => \A l \in logs' : l.send # x
        /\ send'[x].pc \in Delivering =>
             \A l \in logs' : l.send = x => l.to \notin send'[x].queue
        /\ send'[x].pc \in {"logSent", "logFailed"} =>
             /\ send'[x].to \notin send'[x].queue
             /\ \A l \in logs' : l.send = x /\ l.to = send'[x].to =>
                  send'[x].pc = "logFailed" /\ l.status = "sent" /\ l.to \in send'[x].unheard
        /\ send'[x].pc = "logSent" => <<x, send'[x].to>> \in mail'
        /\ send'[x].pc = "sent" => ~send'[x].failed
        /\ \A l \in logs' : l.send = x /\ l.status = "failed" =>
             send'[x].failed \/ send'[x].pc = "error"
    <3>2. send'[x].pc \in {"idle", "list", "lock"} => \A l \in logs' : l.send # x
      BY <1>1, <2>9, SendMoves DEF Delivering
    <3>3. send'[x].pc \in Delivering => \A l \in logs' : l.send = x => l.to \notin send'[x].queue
      <4>1. send[x] \in SendType BY DEF TypeOK
      <4>2. send'[x].pc \in Delivering /\ send[x].pc = "lock" => logs' = logs /\ \A l \in logs : l.send # x
        BY <1>1, <2>9, SendMoves DEF Delivering
      <4>3. send'[x].pc \in Delivering /\ send[x].pc # "lock" =>
              send[x].pc \in Delivering /\ send'[x].queue \subseteq send[x].queue
        BY <1>1, SendMoves DEF Delivering
      <4>4. send[x].pc \in {"logSent", "logFailed"} \/ logs' = logs
        BY <1>1, SendMoves
      <4>5. \A l \in logs' : l \in logs \/ l = LogOf(x, "sent") \/ l = LogOf(x, "failed")
        BY <1>1, SendMoves
      <4>6. \A l \in logs' : l \in logs \/ l.to = send[x].to BY <2>3, <4>5
      <4> QED BY <2>9, <4>2, <4>3, <4>4, <4>6 DEF Delivering
    <3>4. send'[x].pc \in {"logSent", "logFailed"} => send'[x].to \notin send'[x].queue
      BY <1>1, <2>9, SendMoves DEF Delivering
    <3>5. send'[x].pc \in {"logSent", "logFailed"} =>
            \A l \in logs' : l.send = x /\ l.to = send'[x].to =>
              send'[x].pc = "logFailed" /\ l.status = "sent" /\ l.to \in send'[x].unheard
      BY <1>1, <2>3, <2>9, SendMoves DEF Delivering
    <3>6. send'[x].pc = "logSent" => <<x, send'[x].to>> \in mail'
      BY <1>1, <2>9, SendMoves DEF Delivering
    <3>7. send'[x].pc = "sent" => ~send'[x].failed
      BY <1>1, <2>9, SendMoves DEF Delivering
    <3>8. \A l \in logs' : l.send = x /\ l.status = "failed" =>
            send'[x].failed \/ send'[x].pc = "error"
      BY <1>1, <2>3, <2>9, SendMoves DEF Delivering
    <3> QED BY <3>2, <3>3, <3>4, <3>5, <3>6, <3>7, <3>8
  <2>5. LogInv' BY <2>1, <2>2, <2>4 DEF LogInv, Delivering
  <2>6. ASSUME NEW l \in logs', l.status = "sent" PROVE <<l.send, l.to>> \in mail'
    BY <1>1, <2>1, <2>3, <2>6, <2>9, LogGrows DEF LogsAreTrue
  <2>7. ASSUME NEW l \in logs', NEW k \in logs', l.status = "sent",
               k = [l EXCEPT !.status = "failed"]
        PROVE  l.to \in send'[l.send].unheard
    <3>1. /\ l \in Log /\ k \in Log /\ k.status = "failed" /\ k.send = l.send /\ k.to = l.to
      BY <2>0, <2>7 DEF Log
    <3>2. l.send \in Sends BY <3>1 DEF Log
    <3>3. CASE l \in logs /\ k \in logs
      <4>1. l.to \in send[l.send].unheard BY <2>7, <3>3 DEF LogsAreTrue
      <4>2. CASE l.send = x BY <1>1, <4>1, <4>2, SendMoves, UnheardStays
      <4>3. CASE l.send # x BY <2>2, <3>2, <4>1, <4>3
      <4> QED BY <4>2, <4>3
    <3>4. CASE l \in logs /\ k \notin logs
      <4>1. /\ send[x].pc = "logFailed" /\ k = LogOf(x, "failed")
        BY <1>1, <2>3, <3>1, <3>4, LogGrows
      <4>2. l.send = x /\ l.to = send[x].to BY <2>3, <3>1, <4>1
      <4>3. l.to \in send[x].unheard BY <2>9, <3>4, <4>1, <4>2
      <4> QED BY <1>1, <4>2, <4>3, UnheardStays
    <3>5. CASE l \notin logs
      <4>1. send[x].pc = "logSent" /\ l = LogOf(x, "sent") /\ logs' = logs \union {LogOf(x, "sent")}
        BY <1>1, <2>3, <2>7, <3>5, LogGrows
      <4>2. k \in logs BY <2>3, <3>1, <4>1
      <4>3. k.send = x /\ k.to = send[x].to BY <2>3, <3>1, <4>1
      <4> QED BY <2>9, <4>1, <4>2, <4>3
    <3> QED BY <3>3, <3>4, <3>5
  <2>8. ASSUME NEW l \in logs', l.status = "failed" PROVE send'[l.send].pc # "sent"
    <3>1. l.send \in Sends BY <2>0 DEF Log
    <3> QED BY <2>5, <2>8, <3>1 DEF LogInv
  <2> QED BY <2>5, <2>6, <2>7, <2>8 DEF LogsAreTrue
<1>2. ASSUME OtherStep \/ UNCHANGED vars PROVE LogInv' /\ LogsAreTrue'
  <2>1. UNCHANGED <<send, mail>> /\ (logs' = logs \/ logs' = {}) BY <1>2, OthersKeep
  <2> QED BY <2>1 DEF LogInv, LogsAreTrue, Delivering
<1> QED BY <1>1, <1>2 DEF Next, OtherStep

LEMMA InitLog == Init => LogInv /\ LogsAreTrue
  BY DEF Init, LogInv, LogsAreTrue, Delivering

\* createEmailSendLog claims no delivery the provider did not accept; the delivery
\* loop logs a recipient as both sent and failed only after a row of it was
\* written unheard; and a request that ends as sent logged no failure.
THEOREM CampaignLogs == Spec => []LogsAreTrue
<1>1. Init => TypeOK /\ InputInv /\ LogInv /\ LogsAreTrue BY InitTypes, InitLog
<1>2. TypeOK /\ InputInv /\ LogInv /\ LogsAreTrue /\ [Next]_vars
        => TypeOK' /\ InputInv' /\ LogInv' /\ LogsAreTrue'
  BY StepTypes, LogStep
<1> QED BY <1>1, <1>2, PTL DEF Spec

-----------------------------------------------------------------------------
(* The lock *)

\* While a campaign can be sent, a saved edit stands for every request that
\* emails its audience or has sent it: one more may take the lock.
LockInv ==
  /\ OneSendPerDraft
  /\ campaign # None /\ campaign.status \notin {"sending", "sent"} =>
       Cardinality(Emailing) <= Cardinality(Saved)

\* A send step takes the lock, gives it back, or leaves the campaign alone.
LEMMA CampaignMoves ==
  ASSUME TypeOK, InputInv, NEW x \in Sends, SendStep(x) \/ SendDies(x)
  PROVE  \/ /\ UNCHANGED campaign
            /\ send'[x].pc # "sent"
            /\ send'[x].pc \in Delivering => send[x].pc \in Delivering
         \/ /\ campaign # None /\ campaign.status \notin {"sending", "sent"}
            /\ campaign' # None /\ campaign'.status = "sending"
            /\ send[x].pc = "lock" /\ send'[x].pc = "deliver"
         \/ /\ campaign # None /\ campaign' # None
            /\ send[x].pc = "deliver" /\ send[x].queue = {} /\ send[x].pc \in Delivering
            /\ campaign'.sentAt = send[x].sent
            /\ send' = [send EXCEPT ![x].pc = campaign'.status]
            /\ campaign'.status = IF send[x].failed THEN "failed" ELSE "sent"
<1>1. send[x] \in SendType /\ x \in DOMAIN send BY DEF TypeOK
<1>2. CASE SendRead(x) \/ SendList(x) \/ SendDies(x)
  <2>1. UNCHANGED campaign BY <1>2 DEF SendRead, SendList, SendDies
  <2>2. send'[x].pc \in {"list", "lock", "refused", "error"}
    <3>1. CASE SendRead(x) \/ SendDies(x)
      BY <1>1, <3>1 DEF SendRead, SendDies, Refused, SendType
    <3>2. CASE SendList(x) BY <1>1, <3>2 DEF SendList, Refused, SendType
    <3> QED BY <1>2, <3>1, <3>2
  <2> QED BY <2>1, <2>2 DEF Delivering
<1>3. CASE SendLock(x)
  <2>1. [status |-> "sending", sentAt |-> FALSE] \in Campaign BY DEF Campaign
  <2>2. CASE campaign # None /\ campaign.status \notin {"sending", "sent"}
    <3>1. campaign' = [status |-> "sending", sentAt |-> FALSE]
          /\ send[x].pc = "lock" /\ send'[x].pc = "deliver"
      BY <1>1, <1>3, <2>2 DEF SendLock, SendType
    <3>2. campaign' # None BY <2>1, <3>1, CampaignConstants
    <3> QED BY <2>2, <3>1, <3>2
  <2>3. CASE ~(campaign # None /\ campaign.status \notin {"sending", "sent"})
    <3>1. UNCHANGED campaign /\ send'[x].pc = "refused"
      BY <1>1, <1>3, <2>3 DEF SendLock, Refused, SendType
    <3> QED BY <3>1 DEF Delivering
  <2> QED BY <2>2, <2>3
<1>4. CASE Deliver(x) \/ LogSent(x) \/ LogFailed(x)
  <2>1. UNCHANGED campaign /\ send[x].pc \in Delivering
    BY <1>4 DEF Deliver, LogSent, LogFailed, Delivering
  <2>2. send'[x].pc # "sent"
    <3>1. CASE Deliver(x)
      <4>1. PICK s \in send[x].queue, p \in {"logSent", "logFailed"} :
              send' = [send EXCEPT ![x].pc = p, ![x].queue = @ \ {s}, ![x].to = s]
        BY <3>1 DEF Deliver
      <4> QED BY <1>1, <4>1 DEF SendType
    <3>2. CASE LogSent(x) \/ LogFailed(x) BY <1>1, <3>2 DEF LogSent, LogFailed, SendType
    <3> QED BY <1>4, <3>1, <3>2
  <2> QED BY <2>1, <2>2
<1>5. CASE Finish(x)
  <2>1. \A status \in {"sent", "failed"} : [status |-> status, sentAt |-> send[x].sent] \in Campaign
    BY <1>1 DEF Campaign, SendType
  <2>2. CASE campaign = None
    <3>1. UNCHANGED campaign /\ send'[x].pc = "error" BY <1>1, <1>5, <2>2 DEF Finish, SendType
    <3> QED BY <3>1 DEF Delivering
  <2>3. CASE campaign # None
    <3> DEFINE status == IF send[x].failed THEN "failed" ELSE "sent"
    <3>1. /\ campaign' = [status |-> status, sentAt |-> send[x].sent]
          /\ send' = [send EXCEPT ![x].pc = status]
          /\ send[x].pc = "deliver" /\ send[x].queue = {}
      BY <1>5, <2>3 DEF Finish
    <3>2. campaign' # None BY <2>1, <3>1, CampaignConstants
    <3> QED BY <2>3, <3>1, <3>2 DEF Delivering
  <2> QED BY <2>2, <2>3
<1> QED BY <1>2, <1>3, <1>4, <1>5 DEF SendStep

LEMMA Counts == /\ IsFiniteSet(Emailing) /\ Cardinality(Emailing) \in Nat
                /\ IsFiniteSet(Saved) /\ Cardinality(Saved) \in Nat
<1>1. Emailing \subseteq Sends BY DEF Emailing
<1>2. Saved \subseteq Edits BY DEF Saved
<1> QED BY <1>1, <1>2, CampaignConstants, FS_Subset, FS_CardinalityType

\* Taking the lock counts one request more, and a failed send one less.
LEMMA SendCounts ==
  ASSUME TypeOK, InputInv, LockInv, NEW x \in Sends, SendStep(x) \/ SendDies(x)
  PROVE  LockInv'
<1>1. \A y \in Sends : y # x => send'[y] = send[y] BY SendRow DEF TypeOK
<1>2. Saved' = Saved BY SendTables DEF Saved
<1>3. send[x] \in SendType /\ x \in DOMAIN send BY DEF TypeOK
<1>4. ASSUME Emailing' \subseteq Emailing PROVE Cardinality(Emailing') <= Cardinality(Emailing)
  BY <1>4, Counts, FS_Subset
<1>5. Cardinality(Emailing') \in Nat
  <2>1. Emailing' \subseteq Sends BY DEF Emailing
  <2> QED BY <2>1, CampaignConstants, FS_Subset, FS_CardinalityType
<1>6. CASE /\ UNCHANGED campaign
           /\ send'[x].pc # "sent"
           /\ send'[x].pc \in Delivering => send[x].pc \in Delivering
  <2>1. Emailing' \subseteq Emailing BY <1>1, <1>6 DEF Emailing, Delivering
  <2> QED BY <1>2, <1>4, <1>5, <1>6, <2>1, Counts DEF LockInv, OneSendPerDraft
<1>7. CASE /\ campaign # None /\ campaign.status \notin {"sending", "sent"}
           /\ campaign' # None /\ campaign'.status = "sending"
           /\ send[x].pc = "lock" /\ send'[x].pc = "deliver"
  <2>1. x \notin Emailing /\ Emailing' = Emailing \union {x}
    BY <1>1, <1>7 DEF Emailing, Delivering
  <2>2. Cardinality(Emailing') = Cardinality(Emailing) + 1 BY <2>1, Counts, FS_AddElement
  <2> QED BY <1>2, <1>7, <2>2, Counts DEF LockInv, OneSendPerDraft
<1>8. CASE /\ send[x].pc \in Delivering /\ send'[x].pc = "sent" /\ campaign'.status = "sent"
  <2>1. Emailing' \subseteq Emailing BY <1>1, <1>8 DEF Emailing, Delivering
  <2> QED BY <1>2, <1>4, <1>5, <1>8, <2>1, Counts DEF LockInv, OneSendPerDraft
<1>9. CASE /\ send[x].pc \in Delivering /\ send'[x].pc = "failed"
  <2>1. x \in Emailing /\ Emailing' = Emailing \ {x} BY <1>1, <1>9 DEF Emailing, Delivering
  <2>2. Cardinality(Emailing') = Cardinality(Emailing) - 1 BY <2>1, Counts, FS_RemoveElement
  <2> QED BY <1>2, <1>5, <2>2, Counts DEF LockInv, OneSendPerDraft
<1> QED BY <1>3, <1>6, <1>7, <1>8, <1>9, CampaignMoves DEF SendType

\* A saved edit counts one edit more; nobody else makes the campaign a draft.
LEMMA OtherCounts ==
  ASSUME TypeOK, LockInv, OtherStep \/ UNCHANGED vars
  PROVE  LockInv'
<1>1. Emailing' = Emailing BY OthersKeep DEF Emailing
<1>2. ASSUME NEW e \in Edits, EditUpsert(e) PROVE LockInv'
  <2>1. e \notin Saved /\ Saved' = Saved \union {e}
    BY <1>2 DEF EditUpsert, Saved, TypeOK
  <2>2. Cardinality(Saved') = Cardinality(Saved) + 1 BY <2>1, Counts, FS_AddElement
  <2> QED BY <1>1, <2>2, Counts DEF LockInv, OneSendPerDraft
<1>3. ASSUME NEW e \in Edits, EditRead(e) \/ EditReread(e) PROVE LockInv'
  <2>1. UNCHANGED campaign /\ Saved' = Saved
    BY <1>3 DEF EditRead, EditReread, Saved, TypeOK
  <2> QED BY <1>1, <2>1 DEF LockInv, OneSendPerDraft
<1>4. ASSUME UNCHANGED edit, campaign' \in {campaign, None} PROVE LockInv'
  <2>1. Saved' = Saved BY <1>4 DEF Saved
  <2> QED BY <1>1, <1>4, <2>1 DEF LockInv, OneSendPerDraft
<1>5. ASSUME NEW d \in Deletes, DeleteRead(d) \/ DeleteRow(d) PROVE LockInv'
  BY <1>4, <1>5 DEF DeleteRead, DeleteRow
<1>6. ASSUME NEW s \in Subscribers,
             UpsertExclusiveSubscriber(s) \/ UnsubscribeByToken(s) \/ SaveSubscriber(s) \/ DeleteSubscriber(s)
      PROVE  LockInv'
  BY <1>4, <1>6 DEF UpsertExclusiveSubscriber, UnsubscribeByToken, SaveSubscriber, DeleteSubscriber,
    Change, requests
<1>7. CASE UNCHANGED vars BY <1>4, <1>7 DEF vars
<1> QED BY <1>2, <1>3, <1>5, <1>6, <1>7 DEF OtherStep

LEMMA LockStep ==
  TypeOK /\ InputInv /\ LockInv /\ [Next]_vars => TypeOK' /\ InputInv' /\ LockInv'
BY StepTypes, SendCounts, OtherCounts DEF Next, OtherStep

LEMMA InitLock == Init => LockInv
<1> SUFFICES ASSUME Init PROVE LockInv
  OBVIOUS
<1>1. Emailing = {} BY DEF Init, Emailing, Delivering
<1>2. Cardinality(Emailing) = 0 BY <1>1, FS_EmptySet
<1> QED BY <1>2, Counts DEF LockInv, OneSendPerDraft

\* markCampaignSendingIfReady is a lock: at most one request emails the audience
\* or has sent the campaign, and one more for every saved edit.
THEOREM CampaignLock == Spec => []OneSendPerDraft
<1>1. Init => TypeOK /\ InputInv /\ LockInv BY InitTypes, InitLock
<1>2. LockInv => OneSendPerDraft BY DEF LockInv
<1> QED BY <1>1, <1>2, LockStep, PTL DEF Spec

\* And once the send route ended a send as sent, no request emails the campaign
\* any more, unless an edit was saved to it.
THEOREM CampaignSentOnce == Spec => NothingAfterSent
<1>1. Init => TypeOK /\ InputInv /\ LockInv BY InitTypes, InitLock
<1>2. TypeOK /\ InputInv /\ LockInv /\ [Next]_vars =>
        [(\E x \in Sends : send[x].pc = "sent") /\ Saved = {} => UNCHANGED mail]_vars
  <2> SUFFICES ASSUME TypeOK, InputInv, LockInv, [Next]_vars, Saved = {},
                      NEW z \in Sends, send[z].pc = "sent"
               PROVE  UNCHANGED mail
    OBVIOUS
  <2>1. Cardinality(Emailing) <= 1 BY Counts, FS_EmptySet DEF LockInv, OneSendPerDraft
  <2>2. \A y \in Sends : send[y].pc \notin Delivering
    <3> SUFFICES ASSUME NEW y \in Sends, send[y].pc \in Delivering PROVE FALSE
      OBVIOUS
    <3>1. y # z BY DEF Delivering
    <3>2. z \in Emailing /\ y \in Emailing \ {z} BY <3>1 DEF Emailing
    <3>3. /\ IsFiniteSet(Emailing \ {z})
          /\ Cardinality(Emailing \ {z}) = Cardinality(Emailing) - 1
      BY <3>2, Counts, FS_RemoveElement
    <3>4. Cardinality(Emailing \ {z}) \in Nat BY <3>3, FS_CardinalityType
    <3>5. Cardinality(Emailing \ {z}) = 0 BY <2>1, <3>3, <3>4, Counts
    <3> QED BY <3>2, <3>3, <3>5, FS_EmptySet
  <2>3. ASSUME NEW x \in Sends, SendStep(x) \/ SendDies(x) PROVE UNCHANGED mail
    <3>1. ~Deliver(x) BY <2>2 DEF Deliver, Delivering
    <3> QED BY <2>3, <3>1 DEF SendStep, SendRead, SendList, SendLock, LogSent, LogFailed, Finish, SendDies
  <2>4. ASSUME OtherStep \/ UNCHANGED vars PROVE UNCHANGED mail BY <2>4, OthersKeep
  <2> QED BY <2>3, <2>4 DEF Next, OtherStep
<1> QED BY <1>1, <1>2, LockStep, PTL DEF Spec, NothingAfterSent

-----------------------------------------------------------------------------
(* What a sent campaign shows *)

\* Until the campaign is deleted there is one, and every recipient of a request is
\* on its queue, or about to be logged, or logged as sent, or counted as failed.
KeptInv == LogKept => campaign # None

ProgressInv == LogKept =>
  \A x \in Sends :
    /\ send[x].pc \in {"idle", "list", "lock"} => ~send[x].failed
    /\ send[x].pc = "lock" => send[x].recipients # {} /\ send[x].queue = send[x].recipients
    /\ send[x].pc \in Delivering \union {"sent"} =>
         /\ send[x].recipients # {}
         /\ \A s \in send[x].recipients :
              \/ s \in send[x].queue
              \/ send[x].pc \in {"logSent", "logFailed"} /\ s = send[x].to
              \/ [send |-> x, to |-> s, status |-> "sent"] \in logs
              \/ send[x].failed
    /\ \A l \in logs : l.send = x /\ l.status = "sent" =>
         send[x].sent \/ send[x].failed \/ send[x].pc \in {"logFailed", "error", "refused"}
    /\ send[x].pc = "sent" => send[x].queue = {} /\ ~send[x].failed

\* A campaign that shows as sent, or that an edit has seen as sent and may write
\* back, was sent by a request.
SentRow(row) == row # None /\ row.status = "sent" =>
  row.sentAt /\ \E x \in Sends : send[x].pc = "sent"

SentInv == LogKept => SentRow(campaign) /\ \A e \in Edits : SentRow(edit[e].seen)

\* Only a deletion takes the log, and only the campaign's own steps touch it.
LEMMA LogIsKept ==
  ASSUME TypeOK, OtherStep \/ UNCHANGED vars, LogKept'
  PROVE  LogKept /\ UNCHANGED logs
<1>1. ASSUME NEW d \in Deletes, DeleteRead(d) PROVE LogKept /\ UNCHANGED logs
  BY <1>1 DEF DeleteRead, LogKept, TypeOK
<1>2. ASSUME NEW d \in Deletes, DeleteRow(d) PROVE FALSE
  BY <1>2 DEF DeleteRow, LogKept, TypeOK
<1>3. ASSUME NEW e \in Edits, EditRead(e) \/ EditReread(e) \/ EditUpsert(e)
      PROVE  LogKept /\ UNCHANGED logs
  BY <1>3 DEF EditRead, EditReread, EditUpsert, LogKept, audience
<1>4. ASSUME NEW s \in Subscribers,
             UpsertExclusiveSubscriber(s) \/ UnsubscribeByToken(s) \/ SaveSubscriber(s) \/ DeleteSubscriber(s)
      PROVE  LogKept /\ UNCHANGED logs
  BY <1>4 DEF UpsertExclusiveSubscriber, UnsubscribeByToken, SaveSubscriber, DeleteSubscriber,
    Change, requests, LogKept
<1>5. CASE UNCHANGED vars BY <1>5 DEF vars, LogKept
<1> QED BY <1>1, <1>2, <1>3, <1>4, <1>5 DEF OtherStep

\* How the others change the campaign: a draft or what an edit has seen, or gone.
LEMMA OthersKeepCampaign ==
  ASSUME TypeOK, InputInv, KeptInv, OtherStep \/ UNCHANGED vars, LogKept'
  PROVE  /\ campaign' # None
         /\ \/ UNCHANGED campaign
            \/ campaign'.status = "draft"
            \/ /\ campaign'.status = "sent"
               /\ \E e \in Edits : /\ edit[e].seen # None /\ edit[e].seen.status = "sent"
                                  /\ campaign'.sentAt = edit[e].seen.sentAt
         /\ \A e \in Edits : edit'[e].seen \in {edit[e].seen, campaign}
<1>1. LogKept BY LogIsKept
<1>2. campaign # None BY <1>1 DEF KeptInv
<1>3. ASSUME NEW e \in Edits, EditRead(e) \/ EditReread(e)
      PROVE  UNCHANGED campaign /\ \A f \in Edits : edit'[f].seen \in {edit[f].seen, campaign}
  BY <1>3 DEF EditRead, EditReread, TypeOK
<1>4. ASSUME NEW e \in Edits, EditUpsert(e)
      PROVE  /\ campaign' # None
             /\ \/ campaign'.status = "draft"
                \/ /\ campaign'.status = "sent"
                   /\ edit[e].seen # None /\ edit[e].seen.status = "sent"
                   /\ campaign'.sentAt = edit[e].seen.sentAt
             /\ \A f \in Edits : edit'[f].seen \in {edit[f].seen, campaign}
  <2>1. edit[e].seen # None /\ edit[e].seen \in Campaign
    BY <1>4 DEF EditUpsert, InputInv, TypeOK
  <2>2. \A status \in {"draft", "sent"} : [status |-> status, sentAt |-> edit[e].seen.sentAt] \in Campaign
    BY <2>1 DEF Campaign
  <2>3. \A f \in Edits : edit'[f].seen = edit[f].seen BY <1>4 DEF EditUpsert, TypeOK
  <2> QED BY <1>4, <2>1, <2>2, <2>3, CampaignConstants DEF EditUpsert
<1>5. ASSUME NEW d \in Deletes, DeleteRead(d) \/ DeleteRow(d) PROVE UNCHANGED <<campaign, edit>>
  BY <1>5 DEF DeleteRead, DeleteRow, LogKept, TypeOK
<1>6. ASSUME NEW s \in Subscribers,
             UpsertExclusiveSubscriber(s) \/ UnsubscribeByToken(s) \/ SaveSubscriber(s) \/ DeleteSubscriber(s)
      PROVE  UNCHANGED <<campaign, edit>>
  BY <1>6 DEF UpsertExclusiveSubscriber, UnsubscribeByToken, SaveSubscriber, DeleteSubscriber,
    Change, requests
<1>7. CASE UNCHANGED vars BY <1>2, <1>7 DEF vars
<1> QED BY <1>2, <1>3, <1>4, <1>5, <1>6, <1>7 DEF OtherStep

LEMMA KeptStep ==
  ASSUME TypeOK, InputInv, KeptInv, [Next]_vars
  PROVE  KeptInv'
<1> SUFFICES ASSUME LogKept' PROVE campaign' # None
  BY DEF KeptInv
<1>1. ASSUME NEW x \in Sends, SendStep(x) \/ SendDies(x) PROVE campaign' # None
  <2>1. LogKept BY <1>1, SendTables DEF LogKept
  <2> QED BY <1>1, <2>1, CampaignMoves DEF KeptInv
<1>2. ASSUME OtherStep \/ UNCHANGED vars PROVE campaign' # None
  BY <1>2, OthersKeepCampaign
<1> QED BY <1>1, <1>2 DEF Next, OtherStep

LEMMA ProgressStep ==
  ASSUME TypeOK, InputInv, KeptInv, ProgressInv, [Next]_vars
  PROVE  ProgressInv'
<1> SUFFICES ASSUME LogKept' PROVE ProgressInv'
  BY DEF ProgressInv
<1>1. ASSUME NEW x \in Sends, SendStep(x) \/ SendDies(x) PROVE ProgressInv'
  <2>0. send[x] \in SendType /\ x \in DOMAIN send BY DEF TypeOK
  <2>9. LogKept BY <1>1, SendTables DEF LogKept
  <2>1. campaign # None BY <2>9 DEF KeptInv
  <2>2. ASSUME NEW y \in Sends, y # x
        PROVE  /\ send'[y] = send[y] /\ logs \subseteq logs'
               /\ \A l \in logs' : l.send = y => l \in logs
    <3>1. send'[y] = send[y] BY <1>1, <2>2, SendRow DEF TypeOK
    <3>2. LogOf(x, "sent").send = x /\ LogOf(x, "failed").send = x BY DEF LogOf
    <3>3. \A l \in logs' : l.send = y => l \in logs BY <1>1, <2>2, <3>2, LogGrows
    <3>4. logs \subseteq logs' BY <1>1, LogGrows
    <3> QED BY <3>1, <3>3, <3>4
  <2>3. /\ send[x].pc \in {"idle", "list", "lock"} => ~send[x].failed
        /\ send[x].pc = "lock" => send[x].recipients # {} /\ send[x].queue = send[x].recipients
        /\ send[x].pc \in Delivering \union {"sent"} =>
             /\ send[x].recipients # {}
             /\ \A s \in send[x].recipients :
                  \/ s \in send[x].queue
                  \/ send[x].pc \in {"logSent", "logFailed"} /\ s = send[x].to
                  \/ [send |-> x, to |-> s, status |-> "sent"] \in logs
                  \/ send[x].failed
        /\ \A l \in logs : l.send = x /\ l.status = "sent" =>
             send[x].sent \/ send[x].failed \/ send[x].pc \in {"logFailed", "error", "refused"}
    BY <2>9 DEF ProgressInv
  <2> DEFINE Progress ==
        /\ send'[x].pc \in {"idle", "list", "lock"} => ~send'[x].failed
        /\ send'[x].pc = "lock" => send'[x].recipients # {} /\ send'[x].queue = send'[x].recipients
        /\ send'[x].pc \in Delivering \union {"sent"} =>
             /\ send'[x].recipients # {}
             /\ \A s \in send'[x].recipients :
                  \/ s \in send'[x].queue
                  \/ send'[x].pc \in {"logSent", "logFailed"} /\ s = send'[x].to
                  \/ [send |-> x, to |-> s, status |-> "sent"] \in logs'
                  \/ send'[x].failed
        /\ \A l \in logs' : l.send = x /\ l.status = "sent" =>
             send'[x].sent \/ send'[x].failed \/ send'[x].pc \in {"logFailed", "error", "refused"}
        /\ send'[x].pc = "sent" => send'[x].queue = {} /\ ~send'[x].failed
  <2>4. Progress
    <3>1. CASE SendRead(x) \/ SendDies(x)
      <4>1. /\ send'[x] \in {[send[x] EXCEPT !.pc = "list"], [send[x] EXCEPT !.pc = "refused"],
                             [send[x] EXCEPT !.pc = "error"]}
            /\ UNCHANGED logs
            /\ send'[x].pc = "list" => send[x].pc = "idle"
        <5>1. CASE SendRead(x)
          <6>1. send[x].pc = "idle" /\ UNCHANGED logs BY <5>1 DEF SendRead
          <6>2. send'[x] \in {[send[x] EXCEPT !.pc = "list"], [send[x] EXCEPT !.pc = "refused"]}
            BY <2>0, <5>1 DEF SendRead, Refused
          <6> QED BY <6>1, <6>2
        <5>2. CASE SendDies(x)
          <6>1. send'[x] = [send[x] EXCEPT !.pc = "error"] /\ UNCHANGED logs
            BY <2>0, <5>2 DEF SendDies
          <6> QED BY <2>0, <6>1 DEF SendType
        <5> QED BY <3>1, <5>1, <5>2
      <4> QED BY <2>0, <2>3, <4>1 DEF SendType, Delivering
    <3>2. CASE SendList(x)
      <4>1. UNCHANGED logs /\ send[x].pc = "list" BY <3>2 DEF SendList
      <4>2. CASE Reachable = {}
        <5>1. send'[x] = [send[x] EXCEPT !.pc = "refused"] BY <2>0, <3>2, <4>2 DEF SendList, Refused
        <5> QED BY <2>0, <2>3, <4>1, <5>1 DEF SendType, Delivering
      <4>3. CASE Reachable # {}
        <5>1. send'[x] = [send[x] EXCEPT !.pc = "lock", !.recipients = Reachable, !.queue = Reachable]
          BY <2>0, <3>2, <4>3 DEF SendList
        <5> QED BY <2>0, <2>3, <4>1, <4>3, <5>1 DEF SendType, Delivering
      <4> QED BY <4>2, <4>3
    <3>3. CASE SendLock(x)
      <4>1. /\ send'[x] \in {[send[x] EXCEPT !.pc = "deliver"], [send[x] EXCEPT !.pc = "refused"]}
            /\ UNCHANGED logs /\ send[x].pc = "lock"
        BY <2>0, <3>3 DEF SendLock, Refused
      <4> QED BY <2>0, <2>3, <4>1 DEF SendType, Delivering
    <3>4. CASE Deliver(x)
      <4>1. PICK t \in send[x].queue, p \in {"logSent", "logFailed"} :
              send' = [send EXCEPT ![x].pc = p, ![x].queue = @ \ {t}, ![x].to = t]
        BY <3>4 DEF Deliver
      <4>2. UNCHANGED logs /\ send[x].pc = "deliver" BY <3>4 DEF Deliver
      <4>3. /\ send'[x].pc = p /\ send'[x].queue = send[x].queue \ {t} /\ send'[x].to = t
            /\ send'[x].recipients = send[x].recipients /\ send'[x].sent = send[x].sent
            /\ send'[x].failed = send[x].failed
        BY <2>0, <4>1 DEF SendType
      <4> QED BY <2>3, <4>2, <4>3 DEF Delivering
    <3>5. CASE LogSent(x)
      <4>1. CASE /\ logs' = logs \union {LogOf(x, "sent")}
                 /\ send' = [send EXCEPT ![x].pc = "deliver", ![x].sent = TRUE]
        <5>1. /\ send'[x].pc = "deliver" /\ send'[x].queue = send[x].queue
              /\ send'[x].recipients = send[x].recipients /\ send'[x].sent
              /\ send'[x].failed = send[x].failed
          BY <2>0, <4>1 DEF SendType
        <5>2. send[x].pc = "logSent" BY <3>5 DEF LogSent
        <5>3. LogOf(x, "sent") = [send |-> x, to |-> send[x].to, status |-> "sent"] BY DEF LogOf
        <5>4. \A s \in send'[x].recipients :
                \/ s \in send'[x].queue
                \/ [send |-> x, to |-> s, status |-> "sent"] \in logs'
                \/ send'[x].failed
          BY <2>3, <4>1, <5>1, <5>2, <5>3 DEF Delivering
        <5> QED BY <2>3, <5>1, <5>2, <5>4 DEF Delivering
      <4>2. CASE logs' = logs /\ send' = [send EXCEPT ![x].pc = "logFailed"]
        <5>1. send'[x] = [send[x] EXCEPT !.pc = "logFailed"] BY <2>0, <4>2
        <5> QED BY <2>0, <2>3, <3>5, <4>2, <5>1 DEF Delivering, LogSent, SendType
      <4>3. CASE /\ logs' = logs \union {LogOf(x, "sent")}
                 /\ send' = [send EXCEPT ![x].pc = "logFailed", ![x].unheard = @ \union {send[x].to}]
        <5>1. send'[x] = [send[x] EXCEPT !.pc = "logFailed", !.unheard = @ \union {send[x].to}]
          BY <2>0, <4>3
        <5>2. /\ send'[x].pc = "logFailed" /\ send'[x].queue = send[x].queue
              /\ send'[x].to = send[x].to /\ send'[x].recipients = send[x].recipients
              /\ send'[x].failed = send[x].failed /\ send'[x].sent = send[x].sent
          BY <2>0, <5>1 DEF SendType
        <5>3. send[x].pc = "logSent" BY <3>5 DEF LogSent
        <5> QED BY <2>3, <4>3, <5>2, <5>3 DEF Delivering
      <4> QED BY <3>5, <4>1, <4>2, <4>3 DEF LogSent
    <3>6. CASE LogFailed(x)
      <4>1. CASE /\ logs' = logs \union {LogOf(x, "failed")}
                 /\ send' = [send EXCEPT ![x].pc = "deliver", ![x].failed = TRUE]
        <5>1. /\ send'[x].pc = "deliver" /\ send'[x].failed
              /\ send'[x].recipients = send[x].recipients /\ send'[x].sent = send[x].sent
          BY <2>0, <4>1 DEF SendType
        <5>2. send[x].pc = "logFailed" BY <3>6 DEF LogFailed
        <5>3. LogOf(x, "failed").status = "failed" BY DEF LogOf
        <5> QED BY <2>3, <5>1, <5>2, <5>3 DEF Delivering
      <4>2. CASE logs' = logs /\ send' = [send EXCEPT ![x].pc = "error"]
        <5>1. send'[x] = [send[x] EXCEPT !.pc = "error"] BY <2>0, <4>2
        <5> QED BY <2>0, <2>3, <3>6, <4>2, <5>1 DEF Delivering, LogFailed, SendType
      <4>3. CASE /\ logs' = logs \union {LogOf(x, "failed")}
                 /\ send' = [send EXCEPT ![x].pc = "error"]
        <5>1. send'[x].pc = "error" BY <2>0, <4>3 DEF SendType
        <5> QED BY <5>1 DEF Delivering
      <4> QED BY <3>6, <4>1, <4>2, <4>3 DEF LogFailed
    <3>7. CASE Finish(x)
      <4>1. /\ UNCHANGED logs /\ send[x].pc = "deliver" /\ send[x].queue = {}
            /\ send'[x] = [send[x] EXCEPT !.pc = IF send[x].failed THEN "failed" ELSE "sent"]
        BY <2>0, <2>1, <3>7 DEF Finish
      <4> QED BY <2>0, <2>3, <4>1 DEF SendType, Delivering
    <3> QED BY <1>1, <3>1, <3>2, <3>3, <3>4, <3>5, <3>6, <3>7 DEF SendStep
  <2> QED BY <2>9, <2>2, <2>4 DEF ProgressInv, Delivering
<1>2. ASSUME OtherStep \/ UNCHANGED vars PROVE ProgressInv'
  <2>1. LogKept /\ UNCHANGED <<logs, send>> BY <1>2, OthersKeep, LogIsKept
  <2> QED BY <2>1 DEF ProgressInv, Delivering
<1> QED BY <1>1, <1>2 DEF Next, OtherStep

LEMMA SentStep ==
  ASSUME TypeOK, InputInv, KeptInv, ProgressInv, SentInv, [Next]_vars
  PROVE  SentInv'
<1> SUFFICES ASSUME LogKept'
             PROVE  SentRow(campaign)' /\ \A e \in Edits : SentRow(edit[e].seen)'
  BY DEF SentInv
<1>1. ASSUME NEW x \in Sends, SendStep(x) \/ SendDies(x)
      PROVE  SentRow(campaign)' /\ \A e \in Edits : SentRow(edit[e].seen)'
  <2>1. LogKept /\ edit' = edit BY <1>1, SendTables DEF LogKept
  <2>2. SentRow(campaign) /\ \A e \in Edits : SentRow(edit[e].seen) BY <2>1 DEF SentInv
  <2>3. ASSUME NEW y \in Sends, send[y].pc = "sent" PROVE send'[y].pc = "sent"
    <3>1. send[x].pc # "sent"
      BY <1>1 DEF SendStep, SendRead, SendList, SendLock, Deliver, LogSent, LogFailed, Finish, SendDies,
        Delivering
    <3> QED BY <1>1, <2>3, <3>1, SendRow DEF TypeOK
  <2>4. \A e \in Edits : SentRow(edit[e].seen)' BY <2>1, <2>2, <2>3 DEF SentRow
  <2>5. CASE UNCHANGED campaign BY <2>2, <2>3, <2>4, <2>5 DEF SentRow
  <2>6. CASE campaign'.status = "sending" BY <2>4, <2>6 DEF SentRow
  <2>7. CASE /\ campaign # None /\ campaign' # None
             /\ send[x].pc = "deliver" /\ send[x].queue = {}
             /\ campaign'.sentAt = send[x].sent
             /\ send' = [send EXCEPT ![x].pc = campaign'.status]
             /\ campaign'.status = IF send[x].failed THEN "failed" ELSE "sent"
    <3>1. CASE send[x].failed BY <2>4, <2>7, <3>1 DEF SentRow
    <3>2. CASE ~send[x].failed
      <4>1. PICK s \in send[x].recipients : [send |-> x, to |-> s, status |-> "sent"] \in logs
        BY <2>1, <2>7, <3>2 DEF ProgressInv, Delivering
      <4>2. send[x].sent BY <2>1, <2>7, <3>2, <4>1 DEF ProgressInv
      <4>3. send'[x].pc = "sent" BY <2>7, <3>2 DEF TypeOK
      <4> QED BY <2>4, <2>7, <4>2, <4>3 DEF SentRow
    <3> QED BY <3>1, <3>2
  <2> QED BY <1>1, <2>5, <2>6, <2>7, CampaignMoves
<1>2. ASSUME OtherStep \/ UNCHANGED vars
      PROVE  SentRow(campaign)' /\ \A e \in Edits : SentRow(edit[e].seen)'
  <2>1. LogKept /\ send' = send BY <1>2, OthersKeep, LogIsKept
  <2>2. SentRow(campaign) /\ \A e \in Edits : SentRow(edit[e].seen) BY <2>1 DEF SentInv
  <2>3. SentRow(campaign)' BY <1>2, <2>1, <2>2, OthersKeepCampaign DEF SentRow
  <2>4. ASSUME NEW e \in Edits PROVE SentRow(edit[e].seen)'
    <3>1. edit'[e].seen = edit[e].seen \/ edit'[e].seen = campaign BY <1>2, OthersKeepCampaign
    <3> QED BY <2>1, <2>2, <3>1 DEF SentRow
  <2> QED BY <2>3, <2>4
<1> QED BY <1>1, <1>2 DEF Next, OtherStep

LEMMA InitProgress == Init => KeptInv /\ ProgressInv /\ SentInv
<1> SUFFICES ASSUME Init PROVE KeptInv /\ ProgressInv /\ SentInv
  OBVIOUS
<1>1. [status |-> "draft", sentAt |-> FALSE] \in Campaign BY DEF Campaign
<1>2. KeptInv BY <1>1, CampaignConstants DEF Init, KeptInv
<1>3. ProgressInv BY DEF Init, ProgressInv, Delivering
<1>4. SentInv BY DEF Init, SentInv, SentRow
<1> QED BY <1>2, <1>3, <1>4

LEMMA Delivered == LogsAreTrue /\ ProgressInv /\ SentInv => SentMeansDelivered
<1> SUFFICES ASSUME LogsAreTrue, ProgressInv, SentInv,
                    campaign # None, campaign.status = "sent", LogKept
             PROVE  campaign.sentAt /\ \E x \in Sends :
                      /\ send[x].pc = "sent" /\ send[x].recipients # {}
                      /\ \A s \in send[x].recipients :
                           <<x, s>> \in mail /\ [send |-> x, to |-> s, status |-> "sent"] \in logs
  BY DEF SentMeansDelivered
<1>0. campaign.sentAt BY DEF SentInv, SentRow
<1>1. PICK x \in Sends : send[x].pc = "sent" BY DEF SentInv, SentRow
<1>2. /\ send[x].recipients # {}
      /\ \A s \in send[x].recipients : [send |-> x, to |-> s, status |-> "sent"] \in logs
  BY <1>1 DEF ProgressInv
<1>3. \A s \in send[x].recipients : <<x, s>> \in mail BY <1>2 DEF LogsAreTrue
<1> QED BY <1>0, <1>1, <1>2, <1>3

\* A campaign that shows as sent has reached everyone the send route listed, and
\* the log says so, whatever edits are saved in between, until it is deleted.
THEOREM CampaignDelivered == Spec => []SentMeansDelivered
<1> DEFINE Inv == TypeOK /\ InputInv /\ LogInv /\ LogsAreTrue /\ KeptInv /\ ProgressInv /\ SentInv
<1>1. Init => Inv BY InitTypes, InitLog, InitProgress
<1>2. Inv /\ [Next]_vars => Inv'
  BY StepTypes, LogStep, KeptStep, ProgressStep, SentStep
<1>3. Inv => SentMeansDelivered BY Delivered
<1> QED BY <1>1, <1>2, <1>3, PTL DEF Spec

-----------------------------------------------------------------------------
(* What a failed campaign shows *)

\* A request that counts a failure has logged one, and the log is still there.
FailureInv ==
  /\ LogKept
  /\ (\E x \in Sends : send[x].failed) \/ (campaign # None /\ campaign.status = "failed")
  => \E l \in logs : l.status = "failed"

LEMMA SendKeepsFailures ==
  ASSUME TypeOK, InputInv, FailureInv, NEW x \in Sends, SendStep(x) \/ SendDies(x)
  PROVE  FailureInv'
<1>1. \A y \in Sends : y # x => send'[y] = send[y] BY SendRow DEF TypeOK
<1>2. logs \subseteq logs' BY LogGrows
<1>3. send'[x].failed => send[x].failed \/ \E l \in logs' : l.status = "failed"
  <2>0. send[x] \in SendType /\ x \in DOMAIN send BY DEF TypeOK
  <2>1. CASE SendList(x) BY <2>0, <2>1 DEF SendList, Refused, SendType
  <2>2. CASE SendRead(x) \/ SendLock(x) \/ Finish(x) \/ SendDies(x) \/ LogSent(x)
    BY <2>0, <2>2 DEF SendRead, SendLock, Finish, SendDies, LogSent, Refused, SendType
  <2>3. CASE Deliver(x) BY <2>0, <2>3 DEF Deliver, SendType
  <2>4. CASE LogFailed(x)
    <3>1. LogOf(x, "failed").status = "failed" BY DEF LogOf
    <3> QED BY <2>0, <2>4, <3>1 DEF LogFailed, SendType
  <2> QED BY <2>1, <2>2, <2>3, <2>4 DEF SendStep
<1>4. campaign' # None /\ campaign'.status = "failed" =>
        send[x].failed \/ (campaign # None /\ campaign.status = "failed")
  BY CampaignMoves
<1>5. LogKept' => LogKept BY SendTables DEF LogKept
<1> QED BY <1>1, <1>2, <1>3, <1>4, <1>5 DEF FailureInv

LEMMA FailureStep ==
  ASSUME TypeOK, InputInv, KeptInv, FailureInv, [Next]_vars
  PROVE  FailureInv'
<1>1. ASSUME NEW x \in Sends, SendStep(x) \/ SendDies(x) PROVE FailureInv'
  BY <1>1, SendKeepsFailures
<1>2. ASSUME OtherStep \/ UNCHANGED vars, LogKept'
      PROVE  /\ LogKept /\ UNCHANGED <<logs, send>>
             /\ campaign'.status = "failed" => campaign # None /\ campaign.status = "failed"
  <2>1. LogKept /\ UNCHANGED <<logs, send>> BY <1>2, OthersKeep, LogIsKept
  <2> QED BY <1>2, <2>1, OthersKeepCampaign DEF KeptInv
<1>3. ASSUME OtherStep \/ UNCHANGED vars PROVE FailureInv' BY <1>2, <1>3 DEF FailureInv
<1> QED BY <1>1, <1>3 DEF Next, OtherStep

\* A campaign that the send route marked as failed has a failed delivery in its
\* log, whatever edits are saved in between, until it is deleted.
THEOREM CampaignFailure == Spec => []FailureIsLogged
<1>1. Init => TypeOK /\ InputInv /\ KeptInv /\ FailureInv
  <2>1. Init => FailureInv BY DEF Init, FailureInv
  <2> QED BY <2>1, InitTypes, InitProgress
<1>2. TypeOK /\ InputInv /\ KeptInv /\ FailureInv /\ [Next]_vars =>
        TypeOK' /\ InputInv' /\ KeptInv' /\ FailureInv'
  BY StepTypes, KeptStep, FailureStep
<1>3. FailureInv => FailureIsLogged BY DEF FailureInv, FailureIsLogged
<1> QED BY <1>1, <1>2, <1>3, PTL DEF Spec
=============================================================================
