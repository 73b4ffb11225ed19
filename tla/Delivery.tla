------------------------------- MODULE Delivery -------------------------------
(***************************************************************************)
(* From an event to the devices: src/apps/notifications and the device     *)
(* tokens of src/api/v1/notifications.                                     *)
(*                                                                         *)
(* An event task reads its booking or stadium and queues a push and, for   *)
(* most kinds, a text message to one user.  A push goes to each active     *)
(* token of the user; meanwhile devices are registered and deregistered.   *)
(***************************************************************************)
EXTENDS Naturals, FiniteSets

CONSTANTS
    Notices,        \* events
    Kind,           \* the NotificationType of each,
    Recipient,      \* and the user it concerns
    Users,
    Nobody,
    Tokens,         \* FCM tokens: one per installed app
    MaxRetries,     \* max_retries=3
    FcmConfigured,  \* GOOGLE_APPLICATION_CREDENTIALS is set
    DeliveryFaults  \* "broker": it refuses a task; "crash": a worker is killed

\* CHANNELS: whether a kind is pushed and whether it is sent as a text.
Channels ==
    [booking_confirmed_player |-> << TRUE, TRUE >>,
     booking_confirmed_owner  |-> << TRUE, TRUE >>,
     booking_cancelled_player |-> << TRUE, FALSE >>,
     booking_cancelled_owner  |-> << TRUE, TRUE >>,
     stadium_approved         |-> << TRUE, TRUE >>,
     stadium_rejected         |-> << TRUE, TRUE >>]

\* The event tasks that call send_sms_to_user.
Texted ==
    {"booking_confirmed_player", "booking_confirmed_owner", "booking_cancelled_owner",
     "stadium_approved", "stadium_rejected"}

\* No task looks the channels up: the two lists have to agree.
ASSUME ChannelsFollowed == Texted = {kind \in DOMAIN Channels : Channels[kind][2]}

ASSUME DeliveryAssumption ==
    /\ Kind \in [Notices -> DOMAIN Channels]
    /\ Recipient \in [Notices -> Users]
    /\ Nobody \notin Users
    /\ MaxRetries \in Nat
    /\ FcmConfigured \in BOOLEAN
    /\ DeliveryFaults \subseteq {"broker", "crash"}

VARIABLES
    device,         \* the DeviceToken rows: of whom, and whether active
    event,          \* of each notice, where its event task is
    push,           \* of each notice, its send_push_to_user task
    text,           \* of each notice, its send_sms_to_user task
    received,       \* history: how often each device got the push of a notice,
    lost            \* and how often FCM's answer to that did not arrive

history == << received, lost >>

delivery == << device, event, push, text, received, lost >>

\* No row, task or message.
None == [at |-> "none"]
Done == [at |-> "done"]

Try(n) == [at |-> "queued", tries |-> n]

DeliveryInit ==
    /\ device \in [Tokens -> [of : {Nobody}, active : {FALSE}]]
    /\ event = [n \in Notices |-> None]
    /\ push = [n \in Notices |-> None]
    /\ text = [n \in Notices |-> None]
    /\ received = [n \in Notices |-> [t \in Tokens |-> 0]]
    /\ lost = [n \in Notices |-> [t \in Tokens |-> 0]]

-----------------------------------------------------------------------------
(* Device tokens *)

\* post(): update_or_create gives the token to the user of the request.
Register(u, t) ==
    /\ device' = [device EXCEPT ![t] = [of |-> u, active |-> TRUE]]
    /\ UNCHANGED << event, push, text, history >>

\* delete()
Deregister(u, t) ==
    /\ device[t].of = u
    /\ device' = [device EXCEPT ![t].active = FALSE]
    /\ UNCHANGED << event, push, text, history >>

-----------------------------------------------------------------------------
(* Event tasks *)

\* .delay() by a view or a service
Announce(n) ==
    /\ event[n] = None
    /\ event' = [event EXCEPT ![n] = [at |-> "queued"]]
    /\ UNCHANGED << device, push, text, history >>

\* The booking or the stadium, if it is still there; then the push.
RunEvent(n) ==
    /\ event[n].at = "queued"
    /\ \/ /\ push' = [push EXCEPT ![n] = Try(0)]
          /\ event' = [event EXCEPT ![n] = IF Kind[n] \in Texted THEN [at |-> "text"] ELSE Done]
       \/ event' = [event EXCEPT ![n] = Done] /\ UNCHANGED push
    /\ UNCHANGED << device, text, history >>

QueueText(n) ==
    /\ event[n].at = "text"
    /\ text' = [text EXCEPT ![n] = Try(0)]
    /\ event' = [event EXCEPT ![n] = Done]
    /\ UNCHANGED << device, push, history >>

\* A refused .delay() or a killed worker ends an event task for good: it has
\* retries, but nothing calls retry().
LoseEvent(n) ==
    /\ DeliveryFaults # {}
    /\ event[n].at \in {"queued", "text"}
    /\ event' = [event EXCEPT ![n] = Done]
    /\ UNCHANGED << device, push, text, history >>

-----------------------------------------------------------------------------
(* send_push_to_user *)

ActiveTokens(u) == {t \in Tokens : device[t].of = u /\ device[t].active}

StartPush(n) ==
    /\ push[n].at = "queued"
    /\ push' = [push EXCEPT ![n] = [at |-> "sending", tries |-> push[n].tries, sent |-> 0,
                                    error |-> FALSE, dead |-> {}, todo |-> ActiveTokens(Recipient[n])]]
    /\ UNCHANGED << device, event, text, history >>

\* What send_push does with one token: it returns TRUE; it returns FALSE for a
\* token Firebase does not know or without credentials; or it raises FCMError,
\* either because nothing was sent, or because FCM took the message and its
\* answer was lost (every FirebaseError, a timeout as well, becomes FCMError).
Answers == IF FcmConfigured THEN {"sent", "dead", "error", "lost"} ELSE {"dead"}

Delivers(answer) == answer \in {"sent", "lost"}

Raises(answer) == answer \in {"error", "lost"}

\* An error is recorded and the loop goes on; a dead token is next.
Send(n) ==
    /\ push[n].at = "sending"
    /\ push[n].dead = {}
    /\ \E t \in push[n].todo, answer \in Answers :
          /\ received' = [received EXCEPT ![n][t] = IF Delivers(answer) THEN @ + 1 ELSE @]
          /\ lost' = [lost EXCEPT ![n][t] = IF answer = "lost" THEN @ + 1 ELSE @]
          /\ push' = [push EXCEPT ![n].todo = @ \ {t},
                                  ![n].sent = IF answer = "sent" THEN @ + 1 ELSE @,
                                  ![n].error = @ \/ Raises(answer),
                                  ![n].dead = IF answer = "dead" THEN {t} ELSE {}]
    /\ UNCHANGED << device, event, text >>

\* Whoever has registered the token by now.
Deactivate(n) ==
    /\ push[n].at = "sending"
    /\ \E t \in push[n].dead : device' = [device EXCEPT ![t].active = FALSE]
    /\ push' = [push EXCEPT ![n].dead = {}]
    /\ UNCHANGED << event, text, history >>

\* Not the code: whoever could not be reached is tried again.
RetryAnyError(n) == push[n].error

\* Only when nothing is known to have got through.
MustRetry(n) == push[n].sent = 0 /\ push[n].error

\* Not the code: the retries are not limited.
AgainForever(task) == Try(0)

\* retry() raises the error when there have been MaxRetries.
Again(task) == IF task.tries < MaxRetries THEN Try(task.tries + 1) ELSE Done

FinishPush(n) ==
    /\ push[n].at = "sending"
    /\ push[n].todo = {} /\ push[n].dead = {}
    /\ push' = [push EXCEPT ![n] = IF MustRetry(n) THEN Again(push[n]) ELSE Done]
    /\ UNCHANGED << device, event, text, history >>

\* The task was acknowledged when it started and does not come back.
LosePush(n) ==
    /\ "crash" \in DeliveryFaults
    /\ push[n].at = "sending"
    /\ push' = [push EXCEPT ![n] = Done]
    /\ UNCHANGED << device, event, text, history >>

-----------------------------------------------------------------------------
(* send_sms_to_user *)

\* Sent, or not sent because of the configuration, or an error that
\* is not Twilio's; or Twilio's, which is tried again.
TextOutcomes(task) == {Done, Again(task)}

SendText(n) ==
    /\ text[n].at = "queued"
    /\ \E outcome \in TextOutcomes(text[n]) : text' = [text EXCEPT ![n] = outcome]
    /\ UNCHANGED << device, event, push, history >>

-----------------------------------------------------------------------------
WorkerStep(n) ==
    \/ RunEvent(n) \/ QueueText(n)
    \/ StartPush(n) \/ Send(n) \/ Deactivate(n) \/ FinishPush(n)
    \/ SendText(n)

DeliveryNext ==
    \/ \E n \in Notices : Announce(n) \/ WorkerStep(n) \/ LoseEvent(n) \/ LosePush(n)
    \/ \E u \in Users, t \in Tokens : Register(u, t) \/ Deregister(u, t)

\* The workers consume the queue "notifications".
DeliverySpec ==
    DeliveryInit /\ [][DeliveryNext]_delivery /\ \A n \in Notices : WF_delivery(WorkerStep(n))

-----------------------------------------------------------------------------
(* Properties *)

(* Whatever fails, is retried, or is registered anew between two tries: a  *)
(* device gets the push of an event again only after an answer of FCM for  *)
(* that device was lost (fcm.py 89-91), one copy for each, and never more  *)
(* often than the task is tried.  A device whose answer arrived is not     *)
(* sent to again because another one failed (tasks.py 66-67).              *)
NoNeedlessCopy ==
    \A n \in Notices, t \in Tokens :
       received[n][t] <= 1 + lost[n][t] /\ received[n][t] <= 1 + MaxRetries

(* Every event that is announced comes to an end: its tasks are worked off *)
(* or given up.                                                            *)
EveryTaskEnds ==
    \A n \in Notices :
       event[n] # None ~> event[n] = Done /\ {push[n], text[n]} \subseteq {None, Done}
===============================================================================
