--------------------------- MODULE MessagingProofs ----------------------------
(***************************************************************************)
(* Proofs about Delivery and Otp.                                          *)
(*                                                                         *)
(* Delivery: a device gets the push of an event again only where an answer *)
(* of FCM was lost.  A try sends to a snapshot of the tokens, each once;   *)
(* another try starts only if the one before had no answer of success, so  *)
(* all that was received until then was received without an answer.        *)
(*                                                                         *)
(* Otp: while no two calls disturb each other, the limits of requests and  *)
(* of wrong guesses hold, and a code logs in once.  A counter is never     *)
(* below the number of events in its window, because its key expires no    *)
(* earlier than the youngest of them leaves the window.                    *)
(***************************************************************************)
EXTENDS Delivery, Otp, FiniteSetTheorems, TLAPS

-----------------------------------------------------------------------------
(* Delivery *)

Tries == 0..MaxRetries

Sending ==
    [at : {"sending"}, tries : Tries, sent : Nat, error : BOOLEAN,
     dead : SUBSET Tokens, todo : SUBSET Tokens]

PushStates == {None, Done} \cup [at : {"queued"}, tries : Tries] \cup Sending

EventStates == {None, Done, [at |-> "queued"], [at |-> "text"]}

Counts == [Tokens -> Nat]

DeliveryType ==
    /\ event \in [Notices -> EventStates]
    /\ push \in [Notices -> PushStates]
    /\ received \in [Notices -> Counts]
    /\ lost \in [Notices -> Counts]

\* All that t has received was received without an answer, once a try at most.
Unanswered(n, t, tries) == received[n][t] = lost[n][t] /\ received[n][t] <= tries

\* One copy more than answers were lost, and one more than the task was tried again.
OneMore(n, t, tries) == received[n][t] <= 1 + lost[n][t] /\ received[n][t] <= 1 + tries

\* The event task queues the push once; a try that has had no answer of success
\* leaves nothing that was received with an answer.
Copies(n) ==
    /\ event[n].at \in {"none", "queued"} => push[n] = None
    /\ push[n].at = "none" => \A t \in Tokens : Unanswered(n, t, 0)
    /\ push[n].at = "queued" => \A t \in Tokens : Unanswered(n, t, push[n].tries)
    /\ push[n].at = "sending" => \A t \in Tokens :
          /\ OneMore(n, t, push[n].tries)
          /\ t \in push[n].todo => Unanswered(n, t, push[n].tries)
          /\ push[n].sent = 0 => received[n][t] = lost[n][t]
    /\ push[n].at = "done" => \A t \in Tokens : OneMore(n, t, MaxRetries)

DeliveryInv == DeliveryType /\ \A n \in Notices : Copies(n)

\* Before the first event nothing has been sent.
LEMMA DeliveryInvInit == DeliveryInit => DeliveryInv
BY DEF DeliveryInit, DeliveryInv, DeliveryType, Copies, Unanswered, None, PushStates,
       EventStates, Counts

\* A step of the tasks of one notice leaves the others alone.
LEMMA OneNotice ==
    ASSUME DeliveryInv, NEW n \in Notices, NEW e \in EventStates, NEW p \in PushStates,
           NEW r \in Counts, NEW l \in Counts,
           event' = [event EXCEPT ![n] = e],
           push' = [push EXCEPT ![n] = p],
           received' = [received EXCEPT ![n] = r],
           lost' = [lost EXCEPT ![n] = l],
           Copies(n)'
    PROVE  DeliveryInv'
<1>1. DeliveryType'
  BY DEF DeliveryInv, DeliveryType
<1>2. ASSUME NEW m \in Notices, m # n
      PROVE  Copies(m)'
  <2>1. /\ event'[m] = event[m] /\ push'[m] = push[m]
        /\ received'[m] = received[m] /\ lost'[m] = lost[m]
    BY <1>2 DEF DeliveryInv, DeliveryType
  <2>2. Copies(m)
    BY DEF DeliveryInv
  <2> QED
    BY <2>1, <2>2 DEF Copies, Unanswered, OneMore
<1> QED
  BY <1>1, <1>2 DEF DeliveryInv

\* The forms in which steps leave a variable alone.
LEMMA Untouched ==
    ASSUME DeliveryInv, NEW n \in Notices
    PROVE  /\ event = [event EXCEPT ![n] = event[n]] /\ event[n] \in EventStates
           /\ push = [push EXCEPT ![n] = push[n]] /\ push[n] \in PushStates
           /\ received = [received EXCEPT ![n] = received[n]] /\ received[n] \in Counts
           /\ lost = [lost EXCEPT ![n] = lost[n]] /\ lost[n] \in Counts
           /\ Copies(n)
           /\ push[n].at = "sending" => push[n] \in Sending
           /\ event[n].at = "queued" => event[n] = [at |-> "queued"]
BY DEF DeliveryInv, DeliveryType, PushStates, EventStates, Sending, None, Done

\* A step of the tasks of n that sends nothing.
LEMMA NothingSent ==
    ASSUME DeliveryInv, NEW n \in Notices, NEW e \in EventStates, NEW p \in PushStates,
           event' = [event EXCEPT ![n] = e],
           push' = [push EXCEPT ![n] = p],
           UNCHANGED history,
           e.at \in {"none", "queued"} => p = None,
           p.at = "none" => \A t \in Tokens : Unanswered(n, t, 0),
           p.at = "queued" => \A t \in Tokens : Unanswered(n, t, p.tries),
           p.at = "sending" => \A t \in Tokens :
              /\ OneMore(n, t, p.tries)
              /\ t \in p.todo => Unanswered(n, t, p.tries)
              /\ p.sent = 0 => received[n][t] = lost[n][t],
           p.at = "done" => \A t \in Tokens : OneMore(n, t, MaxRetries)
    PROVE  DeliveryInv'
<1>1. /\ received' = [received EXCEPT ![n] = received[n]] /\ received[n] \in Counts
      /\ lost' = [lost EXCEPT ![n] = lost[n]] /\ lost[n] \in Counts
  BY Untouched DEF history
<1>2. event'[n] = e /\ push'[n] = p /\ received' = received /\ lost' = lost
  BY DEF DeliveryInv, DeliveryType, history
<1>3. Copies(n)'
  BY <1>2 DEF Copies, Unanswered, OneMore
<1> QED
  BY <1>1, <1>3, OneNotice

\* Events and the tasks they queue send no push.
LEMMA EventKeeps ==
    ASSUME DeliveryInv, NEW n \in Notices,
           Announce(n) \/ RunEvent(n) \/ QueueText(n) \/ LoseEvent(n)
    PROVE  DeliveryInv'
<1>a. /\ push = [push EXCEPT ![n] = push[n]] /\ push[n] \in PushStates /\ Copies(n)
      /\ event[n].at = "queued" => event[n] = [at |-> "queued"]
  BY Untouched
<1>1. CASE Announce(n)
  <2>1. /\ event' = [event EXCEPT ![n] = [at |-> "queued"]]
        /\ push' = [push EXCEPT ![n] = push[n]]
        /\ UNCHANGED history
        /\ push[n] = None
    BY <1>1, <1>a DEF Announce, Copies, None
  <2>2. [at |-> "queued"] \in EventStates
    BY DEF EventStates
  <2> QED
    BY <1>a, <2>1, <2>2, NothingSent DEF Copies, None
<1>2. CASE RunEvent(n)
  <2>1. PICK e \in {Done, [at |-> "text"]}, p \in {Try(0), push[n]} :
           /\ event' = [event EXCEPT ![n] = e]
           /\ push' = [push EXCEPT ![n] = p]
           /\ UNCHANGED history
    BY <1>2, <1>a DEF RunEvent
  <2>2. push[n] = None /\ \A t \in Tokens : Unanswered(n, t, 0)
    BY <1>2, <1>a DEF RunEvent, Copies, None
  <2>3. Try(0) \in PushStates
    BY DeliveryAssumption DEF PushStates, Try, Tries
  <2>4. e \in EventStates /\ e.at \in {"done", "text"}
    BY DEF EventStates, Done
  <2>5. p \in PushStates /\ p.at \in {"none", "queued"} /\ (p.at = "queued" => p.tries = 0)
    BY <2>2, <2>3 DEF Try, None, PushStates
  <2> QED
    BY <2>1, <2>2, <2>4, <2>5, NothingSent
<1>3. CASE QueueText(n) \/ LoseEvent(n)
  <2>1. /\ event' = [event EXCEPT ![n] = Done]
        /\ push' = [push EXCEPT ![n] = push[n]]
        /\ UNCHANGED history
    BY <1>3, <1>a DEF QueueText, LoseEvent
  <2>2. Done \in EventStates /\ Done.at = "done"
    BY DEF EventStates, Done
  <2> QED
    BY <1>a, <2>1, <2>2, NothingSent DEF Copies
<1> QED
  BY <1>1, <1>2, <1>3

\* One token: whoever had nothing answered before has one copy more than answers lost.
LEMMA SendKeeps ==
    ASSUME DeliveryInv, NEW n \in Notices, Send(n)
    PROVE  DeliveryInv'
<1>1. PICK t \in push[n].todo, answer \in Answers :
         /\ received' = [received EXCEPT ![n][t] = IF Delivers(answer) THEN @ + 1 ELSE @]
         /\ lost' = [lost EXCEPT ![n][t] = IF answer = "lost" THEN @ + 1 ELSE @]
         /\ push' = [push EXCEPT ![n].todo = @ \ {t},
                                 ![n].sent = IF answer = "sent" THEN @ + 1 ELSE @,
                                 ![n].error = @ \/ Raises(answer),
                                 ![n].dead = IF answer = "dead" THEN {t} ELSE {}]
  BY DEF Send
<1> DEFINE got == IF Delivers(answer) THEN received[n][t] + 1 ELSE received[n][t]
           gone == IF answer = "lost" THEN lost[n][t] + 1 ELSE lost[n][t]
           more == IF answer = "sent" THEN push[n].sent + 1 ELSE push[n].sent
           err == push[n].error \/ Raises(answer)
           dead == IF answer = "dead" THEN {t} ELSE {}
           todo == push[n].todo \ {t}
           r == [received[n] EXCEPT ![t] = got]
           l == [lost[n] EXCEPT ![t] = gone]
           p == [push[n] EXCEPT !.todo = todo, !.sent = more, !.error = err, !.dead = dead]
<1>2. /\ event' = event /\ push[n] \in Sending /\ push[n].at = "sending" /\ Copies(n)
      /\ event[n] \in EventStates /\ event' = [event EXCEPT ![n] = event[n]]
      /\ received[n] \in Counts /\ lost[n] \in Counts
  BY Untouched DEF Send
<1>3. /\ push[n].tries \in Tries /\ push[n].sent \in Nat /\ push[n].error \in BOOLEAN
      /\ push[n].todo \in SUBSET Tokens /\ t \in Tokens
  BY <1>2 DEF Sending
<1>4. received[n][t] \in Nat /\ lost[n][t] \in Nat
  BY <1>2, <1>3 DEF Counts
<1>5. received' = [received EXCEPT ![n] = r] /\ lost' = [lost EXCEPT ![n] = l]
  BY <1>1
<1>6. push' = [push EXCEPT ![n] = p]
  BY <1>1
<1>7. got \in Nat /\ gone \in Nat /\ more \in Nat
  BY <1>3, <1>4
<1>8. err \in BOOLEAN /\ dead \in SUBSET Tokens /\ todo \in SUBSET Tokens
  BY <1>3 DEF Raises
<1>9. r \in Counts /\ l \in Counts
  <2> HIDE DEF got, gone
  <2> QED
    BY <1>2, <1>3, <1>7 DEF Counts
<1>10. p \in Sending
  <2> HIDE DEF more, err, dead, todo
  <2> QED
    BY <1>2, <1>7, <1>8 DEF Sending
<1>11. /\ event'[n] = event[n] /\ push'[n] = p /\ received'[n] = r /\ lost'[n] = l
  <2> HIDE DEF p, r, l
  <2> QED
    BY <1>2, <1>5, <1>6 DEF DeliveryInv, DeliveryType
<1>12. /\ received[n][t] = lost[n][t] /\ received[n][t] <= push[n].tries
       /\ push[n].tries \in Nat
  BY <1>2, <1>3, DeliveryAssumption DEF Copies, Unanswered, Tries
<1>13. got <= 1 + gone /\ got <= 1 + push[n].tries /\ (more = 0 => got = gone)
  BY <1>3, <1>4, <1>12 DEF Delivers
<1>14. ASSUME NEW u \in Tokens
       PROVE  /\ r[u] <= 1 + l[u] /\ r[u] <= 1 + push[n].tries
              /\ u \in todo => r[u] = l[u] /\ r[u] <= push[n].tries
              /\ more = 0 => r[u] = l[u]
  <2>1. CASE u = t
    <3>1. r[u] = got /\ l[u] = gone
      BY <1>2, <1>3, <2>1 DEF Counts
    <3> HIDE DEF got, gone, more, r, l
    <3> QED
      BY <1>13, <2>1, <3>1
  <2>2. CASE u # t
    <3>1. r[u] = received[n][u] /\ l[u] = lost[n][u]
      BY <1>2, <2>2 DEF Counts
    <3>2. more = 0 => push[n].sent = 0
      BY <1>3
    <3>3. /\ OneMore(n, u, push[n].tries)
          /\ u \in push[n].todo => Unanswered(n, u, push[n].tries)
          /\ push[n].sent = 0 => received[n][u] = lost[n][u]
      BY <1>2 DEF Copies
    <3> HIDE DEF got, gone, more, r, l
    <3> QED
      BY <3>1, <3>2, <3>3 DEF OneMore, Unanswered
  <2> QED
    BY <2>1, <2>2
<1>15. event[n].at \notin {"none", "queued"}
  BY <1>2 DEF Copies, None
<1>16. Copies(n)'
  <2>1. push'[n].at = "sending" /\ push'[n].tries = push[n].tries
        /\ push'[n].todo = todo /\ push'[n].sent = more
    <3> HIDE DEF more, err, dead, todo
    <3> QED
      BY <1>2, <1>11 DEF Sending
  <2> HIDE DEF got, gone, more, err, dead, todo, r, l, p
  <2> QED
    BY <1>11, <1>14, <1>15, <2>1 DEF Copies, OneMore, Unanswered
<1> HIDE DEF got, gone, more, err, dead, todo, r, l, p
<1>17. p \in PushStates
  BY <1>10 DEF PushStates
<1> QED
  BY <1>2, <1>5, <1>6, <1>9, <1>16, <1>17, OneNotice

\* A try starts where the last one left off, and is repeated only without an answer.
LEMMA PushKeeps ==
    ASSUME DeliveryInv, NEW n \in Notices,
           StartPush(n) \/ Deactivate(n) \/ FinishPush(n) \/ LosePush(n)
    PROVE  DeliveryInv'
<1>a. /\ event[n] \in EventStates /\ event' = [event EXCEPT ![n] = event[n]]
      /\ UNCHANGED history /\ Copies(n)
      /\ push[n].at \in {"queued", "sending"}
      /\ push[n] \in PushStates /\ (push[n].at = "sending" => push[n] \in Sending)
  BY Untouched DEF StartPush, Deactivate, FinishPush, LosePush
<1>b. event[n].at \notin {"none", "queued"}
  BY <1>a DEF Copies, None
<1>c. push[n].tries \in Tries /\ push[n].tries \in Nat
  BY <1>a, DeliveryAssumption DEF PushStates, Sending, None, Done, Tries
<1>d. \A t \in Tokens : received[n][t] \in Nat /\ lost[n][t] \in Nat
  BY DEF DeliveryInv, DeliveryType, Counts
<1>1. CASE StartPush(n)
  <2> DEFINE p == [at |-> "sending", tries |-> push[n].tries, sent |-> 0, error |-> FALSE,
                   dead |-> {}, todo |-> ActiveTokens(Recipient[n])]
  <2>1. push' = [push EXCEPT ![n] = p] /\ push[n].at = "queued"
    BY <1>1 DEF StartPush
  <2>2. p \in PushStates
    BY <1>c DEF PushStates, Sending, ActiveTokens
  <2>3. \A t \in Tokens : Unanswered(n, t, push[n].tries)
    BY <1>a, <2>1 DEF Copies
  <2>4. \A t \in Tokens : OneMore(n, t, push[n].tries) /\ received[n][t] = lost[n][t]
    <3> TAKE t \in Tokens
    <3>1. received[n][t] \in Nat /\ lost[n][t] \in Nat /\ Unanswered(n, t, push[n].tries)
      BY <1>d, <2>3
    <3> QED
      BY <1>c, <3>1 DEF Unanswered, OneMore
  <2>5. p.at = "sending" /\ p.tries = push[n].tries
    OBVIOUS
  <2> HIDE DEF p
  <2> QED
    BY <1>a, <1>b, <2>1, <2>2, <2>3, <2>4, <2>5, NothingSent
<1>2. CASE Deactivate(n)
  <2> DEFINE p == [push[n] EXCEPT !.dead = {}]
  <2>1. push' = [push EXCEPT ![n] = p] /\ push[n] \in Sending
    BY <1>2, <1>a DEF Deactivate
  <2>2. /\ p \in Sending /\ p.at = "sending" /\ p.tries = push[n].tries
        /\ p.todo = push[n].todo /\ p.sent = push[n].sent
    BY <2>1 DEF Sending
  <2>3. p \in PushStates
    BY <2>2 DEF PushStates
  <2>4. push[n].at = "sending"
    BY <1>2 DEF Deactivate
  <2> HIDE DEF p
  <2> QED
    BY <1>a, <1>b, <2>1, <2>2, <2>3, <2>4, NothingSent DEF Copies
<1>3. CASE FinishPush(n) \/ LosePush(n)
  <2>1. PICK p \in {Again(push[n]), Done} :
           /\ push' = [push EXCEPT ![n] = p]
           /\ p # Done => push[n].sent = 0
    BY <1>3 DEF FinishPush, LosePush, MustRetry
  <2>2. push[n] \in Sending /\ push[n].at = "sending"
    BY <1>3, <1>a DEF FinishPush, LosePush
  <2>3. p = Done \/ (p = Try(push[n].tries + 1) /\ push[n].tries + 1 \in Tries)
    BY <1>c, DeliveryAssumption DEF Again, Tries
  <2>4. p \in PushStates /\ p.at \in {"queued", "done"}
    BY <2>3 DEF PushStates, Try, Done
  <2>5. ASSUME p.at = "queued", NEW t \in Tokens
        PROVE  Unanswered(n, t, p.tries)
    <3>1. p.tries = push[n].tries + 1 /\ push[n].sent = 0
      BY <2>1, <2>3, <2>5 DEF Try, Done
    <3>2. received[n][t] = lost[n][t] /\ OneMore(n, t, push[n].tries)
      BY <1>a, <2>2, <3>1 DEF Copies
    <3>3. received[n][t] \in Nat /\ lost[n][t] \in Nat
      BY <1>d
    <3>4. received[n][t] <= 1 + push[n].tries
      BY <3>2 DEF OneMore
    <3>5. received[n][t] <= push[n].tries + 1
      BY <1>c, <3>3, <3>4
    <3> QED
      BY <3>1, <3>2, <3>5 DEF Unanswered
  <2>6. \A t \in Tokens : OneMore(n, t, MaxRetries)
    <3>1. \A t \in Tokens : OneMore(n, t, push[n].tries)
      BY <1>a, <2>2 DEF Copies
    <3> QED
      BY <1>c, <1>d, <3>1, DeliveryAssumption DEF OneMore, Tries
  <2> QED
    BY <1>a, <1>b, <2>1, <2>4, <2>5, <2>6, NothingSent
<1> QED
  BY <1>1, <1>2, <1>3

\* Every step keeps the invariant of the pushes.
LEMMA DeliveryInvStep == DeliveryInv /\ [DeliveryNext]_delivery => DeliveryInv'
<1> SUFFICES ASSUME DeliveryInv, [DeliveryNext]_delivery PROVE DeliveryInv'
  OBVIOUS
<1>1. CASE event' = event /\ push' = push /\ UNCHANGED history
  BY <1>1 DEF DeliveryInv, DeliveryType, Copies, Unanswered, OneMore, history
<1>2. ASSUME NEW u \in Users, NEW t \in Tokens, Register(u, t) \/ Deregister(u, t)
      PROVE  DeliveryInv'
  BY <1>1, <1>2 DEF Register, Deregister
<1>3. ASSUME NEW n \in Notices, SendText(n)
      PROVE  DeliveryInv'
  BY <1>1, <1>3 DEF SendText
<1> QED
  BY <1>1, <1>2, <1>3, EventKeeps, SendKeeps, PushKeeps
     DEF DeliveryNext, WorkerStep, delivery, history

\* In every stage of its push an event has sent a device no copy without a reason.
LEMMA CopiesHaveReasons ==
    ASSUME DeliveryInv, NEW n \in Notices, NEW t \in Tokens
    PROVE  OneMore(n, t, MaxRetries)
<1>1. received[n][t] \in Nat /\ lost[n][t] \in Nat
  BY DEF DeliveryInv, DeliveryType, Counts
<1>2. push[n] \in PushStates /\ Copies(n)
  BY DEF DeliveryInv, DeliveryType
<1>3. CASE push[n] \in {None, Done}
  BY <1>1, <1>2, <1>3, DeliveryAssumption DEF Copies, None, Done, Unanswered, OneMore
<1>4. CASE push[n] \notin {None, Done}
  <2>1. push[n].at \in {"queued", "sending"} /\ push[n].tries \in Tries
    BY <1>2, <1>4 DEF PushStates, Sending
  <2> QED
    BY <1>1, <1>2, <2>1, DeliveryAssumption DEF Copies, Unanswered, OneMore, Tries
<1> QED
  BY <1>3, <1>4

(* A device gets the push of an event again only after an answer of FCM    *)
(* for it was lost, and never more often than the task is tried: for any   *)
(* number of events, users, devices and retries, whatever workers,         *)
(* Firebase and the broker do and whoever registers a device in between.   *)
THEOREM NoCopyWithoutReason == DeliverySpec => []NoNeedlessCopy
<1>1. DeliveryInv => NoNeedlessCopy
  BY CopiesHaveReasons DEF NoNeedlessCopy, OneMore
<1> QED
  BY <1>1, DeliveryInvInit, DeliveryInvStep, PTL DEF DeliverySpec

-----------------------------------------------------------------------------
(* Otp: the histories *)

(* An event is added under a number of its own.                            *)
LEMMA OnceCounts ==
    ASSUME NEW span \in Nat \ {0}, NEW events \in SUBSET Event(span), IsFiniteSet(events),
           Numbered(events), ~ disturbed
    PROVE  /\ Once(events) \subseteq Event(span)
           /\ IsFiniteSet(Once(events))
           /\ Cardinality(Once(events)) = Cardinality(events) + 1
           /\ Numbered(Once(events))
<1> DEFINE now == ThisTick(events)
           new == [age |-> 0, nth |-> Cardinality(now) + 1]
<1>1. now \in SUBSET events /\ IsFiniteSet(now) /\ Cardinality(now) \in Nat
  BY FS_Subset, FS_CardinalityType DEF ThisTick
<1>2. new \in Event(span) /\ new.age = 0 /\ new.nth = Cardinality(now) + 1
  BY <1>1 DEF Event
<1>3. new \notin now
  BY <1>1, <1>2 DEF Numbered
<1>4. new \notin events
  BY <1>2, <1>3 DEF ThisTick
<1>5. Once(events) = events \cup {new}
  BY DEF Once
<1>6. IsFiniteSet(Once(events)) /\ Cardinality(Once(events)) = Cardinality(events) + 1
  BY <1>4, <1>5, FS_AddElement
<1>7. ThisTick(Once(events)) = now \cup {new}
  BY <1>2, <1>5 DEF ThisTick
<1>8. Cardinality(now \cup {new}) = Cardinality(now) + 1
  BY <1>1, <1>3, FS_AddElement
<1>9. \A e \in now : e.nth \in Nat
  BY <1>1 DEF Event
<1>10. ASSUME NEW e \in now \cup {new}
       PROVE  e.nth <= Cardinality(now) + 1
  <2>1. CASE e \in now
    BY <1>1, <1>9, <2>1 DEF Numbered
  <2>2. CASE e = new
    BY <1>1, <1>2, <2>2
  <2> QED
    BY <1>10, <2>1, <2>2
<1>11. Numbered(Once(events))
  BY <1>7, <1>8, <1>10 DEF Numbered
<1> QED
  BY <1>2, <1>5, <1>6, <1>11

(* As time passes events leave a history and none comes.                   *)
LEMMA OlderShrinks ==
    ASSUME NEW span \in Nat \ {0}, NEW events \in SUBSET Event(span), IsFiniteSet(events)
    PROVE  /\ Older(events, span) \subseteq Event(span)
           /\ IsFiniteSet(Older(events, span))
           /\ Cardinality(Older(events, span)) <= Cardinality(events)
           /\ Numbered(Older(events, span))
           /\ \A x \in Older(events, span) :
                 \E e \in events : x.age = e.age + 1 /\ e.age + 1 < span /\ e.age \in Nat
<1> DEFINE kept == {d \in events : d.age + 1 < span}
           aged == [e \in kept |-> [age |-> e.age + 1, nth |-> e.nth]]
           older == Older(events, span)
<1>1. kept \in SUBSET events /\ IsFiniteSet(kept) /\ Cardinality(kept) <= Cardinality(events)
      /\ Cardinality(kept) \in Nat /\ Cardinality(events) \in Nat
  BY FS_Subset, FS_CardinalityType
<1>2. \A e \in kept : e.age \in 0 .. span - 1 /\ e.nth \in Nat /\ e.age + 1 < span
  BY DEF Event
<1>3. older = {aged[e] : e \in kept}
  BY DEF Older
<1>4. aged \in Surjection(kept, older)
  BY <1>3 DEF Surjection
<1>5. IsFiniteSet(older) /\ Cardinality(older) <= Cardinality(kept)
  BY <1>1, <1>4, FS_Surjection
<1>6. Cardinality(older) \in Nat
  BY <1>5, FS_CardinalityType
<1>7. \A x \in older : \E e \in kept : x = [age |-> e.age + 1, nth |-> e.nth]
  BY <1>3
<1>8. older \subseteq Event(span)
  BY <1>2, <1>7 DEF Event
<1>9. \A x \in older : \E e \in events : x.age = e.age + 1 /\ e.age + 1 < span /\ e.age \in Nat
  BY <1>2, <1>7
<1>10. ThisTick(older) = {}
  BY <1>9 DEF ThisTick
<1>11. Numbered(older)
  BY <1>10 DEF Numbered
<1> HIDE DEF kept, aged, older
<1>12. Cardinality(older) <= Cardinality(events)
  BY <1>1, <1>5, <1>6
<1> QED
  BY <1>5, <1>8, <1>9, <1>11, <1>12 DEF older

(* A counter that covers a history still covers it a tick later, also when *)
(* its key has expired.                                                    *)
LEMMA CoveredLater ==
    ASSUME NEW span \in Nat \ {0}, NEW events \in SUBSET Event(span), IsFiniteSet(events),
           NEW counter \in Nat, NEW ttl \in Nat, Covers(counter, ttl, events, span)
    PROVE  Covers(IF Left(ttl) = 0 THEN 0 ELSE counter, Left(ttl), Older(events, span), span)
<1> DEFINE older == Older(events, span)
<1>1. /\ IsFiniteSet(older) /\ Cardinality(older) <= Cardinality(events)
      /\ \A x \in older :
            \E e \in events : x.age = e.age + 1 /\ e.age + 1 < span /\ e.age \in Nat
  BY OlderShrinks
<1>2. Cardinality(older) \in Nat /\ Cardinality(events) \in Nat
  BY <1>1, FS_CardinalityType
<1> HIDE DEF older
<1>3. Left(ttl) \in Nat /\ (ttl # 0 => ttl = Left(ttl) + 1) /\ (ttl = 0 => Left(ttl) = 0)
  BY DEF Left
<1>4. \A x \in older : span <= x.age + Left(ttl) /\ Left(ttl) # 0
  <2> SUFFICES ASSUME NEW x \in older
               PROVE  span <= x.age + Left(ttl) /\ Left(ttl) # 0
    OBVIOUS
  <2>1. PICK e \in events : x.age = e.age + 1 /\ e.age + 1 < span /\ e.age \in Nat
    BY <1>1
  <2>2. span <= e.age + ttl
    BY DEF Covers
  <2> QED
    BY <1>3, <2>1, <2>2
<1>5. CASE Left(ttl) = 0
  <2>1. older = {}
    BY <1>4, <1>5
  <2> QED
    BY <1>4, <1>5, <2>1, FS_EmptySet DEF Covers, older
<1>6. CASE Left(ttl) # 0
  <2>1. Cardinality(older) <= counter
    BY <1>1, <1>2 DEF Covers
  <2> QED
    BY <1>4, <1>6, <2>1 DEF Covers, older
<1> QED
  BY <1>5, <1>6

\* A counted event is an event of the window.
LEMMA OnceTyped ==
    ASSUME NEW span \in Nat \ {0}, NEW events \in SUBSET Event(span), IsFiniteSet(events)
    PROVE  Once(events) \subseteq Event(span) /\ IsFiniteSet(Once(events))
<1> DEFINE new == [age |-> 0, nth |-> Cardinality(ThisTick(events)) + 1]
<1>1. Cardinality(ThisTick(events)) \in Nat
  BY FS_Subset, FS_CardinalityType DEF ThisTick
<1>2. new \in Event(span)
  BY <1>1 DEF Event
<1> HIDE DEF new
<1>3. Once(events) = events \/ Once(events) = events \cup {new}
  BY DEF Once, new
<1>4. IsFiniteSet(events \cup {new})
  BY FS_AddElement
<1> QED
  BY <1>2, <1>3, <1>4

-----------------------------------------------------------------------------
(* Otp: types *)

\* What the locals of a call are at each statement.
LEMMA CallLocals ==
    ASSUME NEW s \in CallState
    PROVE  /\ s.at \in {"store", "bump"} => s.requests \in Nat
           /\ s.at \in {"attempts", "purge", "clear", "login", "code"} => s.guess \in Codes
           /\ s.at \in {"code", "count"} => s.attempts \in Nat
           /\ s.at \in {"purge", "clear"} => \A l \in {"clear", "login"} : [s EXCEPT !.at = l] \in CallState
BY DEF CallState, NoCall

\* The types hold at the start,
LEMMA OtpTypeInit == OtpInit => OtpTypeOK
<1> SUFFICES ASSUME OtpInit PROVE OtpTypeOK
  OBVIOUS
<1>1. NoCall \in CallState
  BY DEF CallState
<1>2. call \in [Callers -> CallState]
  BY <1>1 DEF OtpInit
<1>3. issued = {} /\ guessed = {} /\ IsFiniteSet({})
  BY FS_EmptySet DEF OtpInit
<1>4. /\ code = NoCode /\ codeTtl = 0 /\ attempts = 0 /\ lockTtl = 0 /\ requests = 0
      /\ requestTtl = 0 /\ accepted = {} /\ disturbed = FALSE
  BY DEF OtpInit
<1>5. {codeTtl, attempts, lockTtl, requests, requestTtl} \subseteq Nat
  BY <1>4
<1>6. issued \subseteq Event(RequestTicks) /\ guessed \subseteq Event(LockTicks)
  BY <1>3
<1> QED
  BY <1>2, <1>3, <1>4, <1>5, <1>6 DEF OtpTypeOK

\* after a change of one call's statement,
LEMMA ThenTyped ==
    ASSUME OtpTypeOK, NEW c \in Callers, NEW next \in CallState, Then(c, next)
    PROVE  call' \in [Callers -> CallState]
BY DEF OtpTypeOK, Then

\* after each statement of a call,
LEMMA CallerTyped ==
    ASSUME OtpTypeOK, NEW c \in Callers, CallerStep(c)
    PROVE  OtpTypeOK'
<1> USE DEF OtpTypeOK, cache, otpHistory, Calling
<1>a. LockTicks \in Nat \ {0} /\ RequestTicks \in Nat \ {0}
  BY OtpAssumption
<1>b. /\ Once(issued) \subseteq Event(RequestTicks) /\ IsFiniteSet(Once(issued))
      /\ Once(guessed) \subseteq Event(LockTicks) /\ IsFiniteSet(Once(guessed))
  BY <1>a, OnceTyped
<1>c. NoCall \in CallState
  BY DEF CallState
<1>d. call[c] \in CallState
  OBVIOUS
<1>1. CASE BeginRequest(c)
  <2>1. [at |-> "requests"] \in CallState
    BY DEF CallState
  <2> QED
    BY <1>1, <2>1, ThenTyped DEF BeginRequest, Receive
<1>2. CASE ReadRequests(c)
  <2>1. [at |-> "store", requests |-> requests] \in CallState
    BY DEF CallState
  <2> QED
    BY <1>2, <1>c, <2>1, ThenTyped DEF ReadRequests
<1>3. CASE StoreCode(c)
  <2>1. [at |-> "bump", requests |-> call[c].requests] \in CallState
    BY <1>3, <1>d, CallLocals DEF StoreCode, CallState
  <2> QED
    BY <1>3, <1>b, <2>1, ThenTyped DEF StoreCode
<1>4. CASE BumpRequests(c)
  <2>1. call[c].requests \in Nat
    BY <1>4, <1>d, CallLocals DEF BumpRequests
  <2>2. call[c].requests + 1 \in Nat
    BY <2>1
  <2> QED
    BY <1>4, <2>2, <1>a, <1>c, <2>1, ThenTyped DEF BumpRequests
<1>5. CASE BeginVerify(c)
  <2>1. \A guess \in Codes : [at |-> "attempts", guess |-> guess] \in CallState
    BY DEF CallState
  <2> QED
    BY <1>5, <2>1, ThenTyped DEF BeginVerify, Receive
<1>6. CASE ReadAttempts(c)
  <2>1. call[c].guess \in Codes
    BY <1>6, <1>d, CallLocals DEF ReadAttempts
  <2>2. [at |-> "code", guess |-> call[c].guess, attempts |-> attempts] \in CallState
    BY <2>1 DEF CallState
  <2> QED
    BY <1>6, <1>c, <2>2, ThenTyped DEF ReadAttempts
<1>7. CASE ReadCode(c)
  <2>1. call[c].guess \in Codes /\ call[c].attempts \in Nat
    BY <1>7, <1>d, CallLocals DEF ReadCode
  <2>2. /\ [at |-> "purge", guess |-> call[c].guess] \in CallState
        /\ [at |-> "count", attempts |-> call[c].attempts] \in CallState
    BY <2>1 DEF CallState
  <2> QED
    BY <1>7, <1>c, <2>2, ThenTyped DEF ReadCode
<1>8. CASE CountWrong(c)
  <2>1. call[c].attempts \in Nat
    BY <1>8, <1>d, CallLocals DEF CountWrong
  <2>2. call[c].attempts + 1 \in Nat
    BY <2>1
  <2> QED
    BY <1>8, <2>2, <1>a, <1>b, <1>c, <2>1, ThenTyped DEF CountWrong
<1>9. CASE PurgeCode(c)
  <2>1. [call[c] EXCEPT !.at = "clear"] \in CallState
    BY <1>9, <1>d, CallLocals DEF PurgeCode
  <2> QED
    BY <1>9, <2>1, ThenTyped DEF PurgeCode
<1>10. CASE ClearAttempts(c)
  <2>1. [call[c] EXCEPT !.at = "login"] \in CallState
    BY <1>10, <1>d, CallLocals DEF ClearAttempts
  <2> QED
    BY <1>10, <2>1, ThenTyped, FS_EmptySet DEF ClearAttempts
<1>11. CASE Login(c)
  <2>1. call[c].guess \in Codes
    BY <1>11, <1>d, CallLocals DEF Login
  <2> QED
    BY <1>11, <1>c, <2>1, ThenTyped DEF Login
<1>12. CASE CallCrash(c)
  BY <1>12, <1>c, ThenTyped DEF CallCrash
<1> QED
  BY <1>1, <1>2, <1>3, <1>4, <1>5, <1>6, <1>7, <1>8, <1>9, <1>10, <1>11, <1>12 DEF CallerStep

\* and after each step.
LEMMA OtpTypeStep == OtpTypeOK /\ [OtpNext]_otp => OtpTypeOK'
<1> SUFFICES ASSUME OtpTypeOK, [OtpNext]_otp PROVE OtpTypeOK'
  OBVIOUS
<1>1. CASE Tick
  <2>1. \A ttl \in Nat : Left(ttl) \in Nat
    BY DEF Left
  <2>2. /\ Older(issued, RequestTicks) \subseteq Event(RequestTicks)
        /\ IsFiniteSet(Older(issued, RequestTicks))
        /\ Older(guessed, LockTicks) \subseteq Event(LockTicks)
        /\ IsFiniteSet(Older(guessed, LockTicks))
    BY OlderShrinks, OtpAssumption DEF OtpTypeOK
  <2> QED
    BY <1>1, <2>1, <2>2 DEF Tick, OtpTypeOK
<1>2. CASE \E c \in Callers : CallerStep(c)
  BY <1>2, CallerTyped
<1>3. CASE UNCHANGED otp
  BY <1>3 DEF otp, cache, otpHistory, OtpTypeOK
<1> QED
  BY <1>1, <1>2, <1>3 DEF OtpNext

-----------------------------------------------------------------------------
(* Otp: as long as no calls overlap *)

OneCall == \A c, d \in Callers : c # d => Calling(c, "idle") \/ Calling(d, "idle")

\* While calls do not overlap, a step is of the only call under way.
LEMMA Undisturbed ==
    ASSUME OtpTypeOK, NEW c \in Callers, CallerStep(c), OneCall, ~ disturbed'
    PROVE  /\ ~ disturbed /\ OneCall'
           /\ \A d \in Callers : d # c => call'[d] = call[d] /\ Calling(d, "idle")
<1> USE DEF otpHistory, cache
<1>1. ~ disturbed
  BY DEF OtpTypeOK, CallerStep, BeginRequest, Receive, ReadRequests, StoreCode, BumpRequests,
         BeginVerify, ReadAttempts, ReadCode, CountWrong, PurgeCode, ClearAttempts, Login, CallCrash
<1>2. PICK next : Then(c, next)
  BY DEF CallerStep, BeginRequest, Receive, ReadRequests, StoreCode, BumpRequests,
         BeginVerify, ReadAttempts, ReadCode, CountWrong, PurgeCode, ClearAttempts, Login, CallCrash
<1>3. \A d \in Callers : d # c => call'[d] = call[d]
  BY <1>2 DEF Then, OtpTypeOK
<1>4. CASE Calling(c, "idle")
  <2>1. \A d \in Callers : Calling(d, "idle")
    BY <1>4 DEF OtpTypeOK, CallerStep, BeginRequest, Receive, ReadRequests, StoreCode, BumpRequests,
         BeginVerify, ReadAttempts, ReadCode, CountWrong, PurgeCode, ClearAttempts, Login, CallCrash,
         Calling
  <2> QED
    BY <1>1, <1>3, <2>1 DEF OneCall, Calling
<1>5. CASE ~ Calling(c, "idle")
  <2>1. \A d \in Callers : d # c => Calling(d, "idle")
    BY <1>5 DEF OneCall
  <2> QED
    BY <1>1, <1>3, <2>1 DEF OneCall, Calling
<1> QED
  BY <1>4, <1>5

\* The parts of the invariant that speak of one caller.
RequestRead(c) ==
    /\ call[c].at \in {"store", "bump"} => call[c].requests < MaxRequests
    /\ Calling(c, "store") => Cardinality(issued) <= call[c].requests
    /\ Calling(c, "bump") => Cardinality(issued) <= call[c].requests + 1

GuessRead(c) ==
    call[c].at \in {"code", "count"} =>
        call[c].attempts < MaxAttempts /\ Cardinality(guessed) <= call[c].attempts

CodeRead(c) ==
    /\ call[c].at \in {"purge", "clear", "login"} => call[c].guess \notin accepted
    /\ Calling(c, "purge") => code \in {call[c].guess, NoCode}
    /\ call[c].at \in {"clear", "login"} => code = NoCode

\* Limits, counters and the sizes of the histories are numbers.
LEMMA Bounds ==
    ASSUME OtpTypeOK
    PROVE  /\ MaxRequests \in Nat \ {0} /\ MaxAttempts \in Nat \ {0}
           /\ RequestTicks \in Nat \ {0} /\ LockTicks \in Nat \ {0}
           /\ requests \in Nat /\ attempts \in Nat
           /\ Cardinality(issued) \in Nat /\ Cardinality(guessed) \in Nat
BY OtpAssumption, FS_CardinalityType DEF OtpTypeOK

\* The request counter covers the codes of the window after each statement.
LEMMA RequestsKept ==
    ASSUME OtpTypeOK, RequestsCounted, NEW c \in Callers, CallerStep(c), ~ disturbed, ~ disturbed',
           \A d \in Callers : d # c => call'[d] = call[d] /\ Calling(d, "idle")
    PROVE  RequestsCounted'
<1> USE DEF cache, otpHistory, Calling
<1>a. /\ MaxRequests \in Nat \ {0} /\ RequestTicks \in Nat \ {0} /\ requests \in Nat
      /\ Cardinality(issued) \in Nat /\ RequestRead(c) /\ call[c] \in CallState
  BY Bounds DEF RequestsCounted, RequestRead, OtpTypeOK
<1>b. /\ requests' <= MaxRequests /\ Numbered(issued)'
      /\ ~ Calling(c, "bump")' => Covers(requests, requestTtl, issued, RequestTicks)'
      /\ RequestRead(c)'
      => RequestsCounted'
  BY DEF RequestsCounted, RequestRead
<1>c. ASSUME UNCHANGED << requests, requestTtl, issued >>, ~ Calling(c, "bump"),
             call'[c].at \notin {"store", "bump"}
      PROVE  RequestsCounted'
  BY <1>b, <1>c DEF RequestsCounted, RequestRead, Covers, Numbered, ThisTick
<1>1. CASE ReadRequests(c)
  <2>1. UNCHANGED << requests, requestTtl, issued >> /\ call[c].at = "requests"
    BY <1>1 DEF ReadRequests
  <2>2. Covers(requests, requestTtl, issued, RequestTicks)
    BY <2>1 DEF RequestsCounted
  <2>3. RequestRead(c)'
    <3>1. CASE requests >= MaxRequests
      BY <1>1, <3>1 DEF ReadRequests, Then, NoCall, RequestRead, OtpTypeOK
    <3>2. CASE ~ (requests >= MaxRequests)
      <4>1. call'[c] = [at |-> "store", requests |-> requests]
        BY <1>1, <3>2 DEF ReadRequests, Then, OtpTypeOK
      <4> QED
        BY <1>a, <2>1, <2>2, <3>2, <4>1 DEF RequestRead, Covers
    <3> QED
      BY <3>1, <3>2
  <2> QED
    BY <1>b, <2>1, <2>2, <2>3 DEF RequestsCounted, Covers, Numbered, ThisTick
<1>2. CASE StoreCode(c)
  <2>1. /\ issued' = Once(issued) /\ UNCHANGED << requests, requestTtl >>
        /\ call[c].at = "store" /\ call'[c] = [at |-> "bump", requests |-> call[c].requests]
    BY <1>2 DEF StoreCode, Then, OtpTypeOK
  <2>2. Cardinality(issued') = Cardinality(issued) + 1 /\ Numbered(issued')
    BY <1>a, <2>1, OnceCounts DEF OtpTypeOK, RequestsCounted
  <2>3. call[c].requests \in Nat /\ call[c].requests < MaxRequests
        /\ Cardinality(issued) <= call[c].requests
    BY <1>a, <2>1, CallLocals DEF RequestRead
  <2>4. call'[c].at = "bump" /\ call'[c].requests = call[c].requests
    BY <2>1
  <2>5. RequestRead(c)'
    BY <1>a, <2>2, <2>3, <2>4 DEF RequestRead
  <2>6. Numbered(issued)'
    BY <2>2 DEF Numbered, ThisTick
  <2> QED
    BY <1>b, <2>1, <2>4, <2>5, <2>6 DEF RequestsCounted
<1>3. CASE BumpRequests(c)
  <2>1. /\ UNCHANGED issued /\ requestTtl' = RequestTicks
        /\ requests' = call[c].requests + 1 /\ call[c].at = "bump" /\ call'[c] = NoCall
    BY <1>3 DEF BumpRequests, Then, OtpTypeOK
  <2>2. call[c].requests \in Nat /\ call[c].requests < MaxRequests
        /\ Cardinality(issued) <= call[c].requests + 1
    BY <1>a, <2>1, CallLocals DEF RequestRead
  <2>3. \A e \in issued : RequestTicks <= e.age + RequestTicks
    BY <1>a DEF OtpTypeOK, Event
  <2>4. Covers(requests, requestTtl, issued, RequestTicks)'
    BY <2>1, <2>2, <2>3 DEF Covers
  <2>5. RequestRead(c)'
    BY <2>1 DEF RequestRead, NoCall
  <2>6. requests' <= MaxRequests
    BY <1>a, <2>1, <2>2
  <2> QED
    BY <1>b, <2>1, <2>4, <2>5, <2>6 DEF RequestsCounted, Numbered, ThisTick
<1>4. CASE CallCrash(c)
  <2>1. UNCHANGED << requests, requestTtl, issued >> /\ call'[c] = NoCall
    BY <1>4 DEF CallCrash, Then, OtpTypeOK
  <2>2. call[c].at # "bump"
    BY <1>4 DEF CallCrash
  <2> QED
    BY <1>c, <2>1, <2>2 DEF NoCall
<1>5. CASE BeginRequest(c) \/ BeginVerify(c)
  <2>1. UNCHANGED << requests, requestTtl, issued >> /\ call[c].at = "idle"
    BY <1>5 DEF BeginRequest, BeginVerify, Receive
  <2>2. call'[c].at \in {"requests", "attempts"}
    BY <1>5 DEF BeginRequest, BeginVerify, Receive, Then, OtpTypeOK
  <2> QED
    BY <1>c, <2>1, <2>2
<1>6. CASE ReadAttempts(c) \/ ReadCode(c)
  <2>1. UNCHANGED << requests, requestTtl, issued >> /\ call[c].at \in {"attempts", "code"}
    BY <1>6 DEF ReadAttempts, ReadCode
  <2>2. call'[c].at \in {"idle", "code", "purge", "count"}
    BY <1>6 DEF ReadAttempts, ReadCode, Then, NoCall, OtpTypeOK
  <2> QED
    BY <1>c, <2>1, <2>2
<1>7. CASE CountWrong(c) \/ Login(c)
  <2>1. UNCHANGED << requests, requestTtl, issued >> /\ call[c].at \in {"count", "login"}
    BY <1>7 DEF CountWrong, Login
  <2>2. call'[c].at = "idle"
    BY <1>7 DEF CountWrong, Login, Then, NoCall, OtpTypeOK
  <2> QED
    BY <1>c, <2>1, <2>2
<1>8. CASE PurgeCode(c) \/ ClearAttempts(c)
  <2>1. UNCHANGED << requests, requestTtl, issued >> /\ call[c].at \in {"purge", "clear"}
    BY <1>8 DEF PurgeCode, ClearAttempts
  <2>2. \A l \in {"clear", "login"} : [call[c] EXCEPT !.at = l].at = l
    BY <1>a, <2>1 DEF CallState, NoCall
  <2>3. call'[c].at \in {"clear", "login"}
    BY <1>8, <2>2 DEF PurgeCode, ClearAttempts, Then, OtpTypeOK
  <2> QED
    BY <1>c, <2>1, <2>3
<1> QED
  BY <1>1, <1>2, <1>3, <1>4, <1>5, <1>6, <1>7, <1>8 DEF CallerStep

\* The attempt counter covers the wrong guesses of the window after each statement.
LEMMA GuessesKept ==
    ASSUME OtpTypeOK, GuessesCounted, NEW c \in Callers, CallerStep(c), ~ disturbed, ~ disturbed',
           \A d \in Callers : d # c => call'[d] = call[d] /\ Calling(d, "idle")
    PROVE  GuessesCounted'
<1> USE DEF cache, otpHistory, Calling
<1>a. /\ MaxAttempts \in Nat \ {0} /\ LockTicks \in Nat \ {0} /\ attempts \in Nat
      /\ Cardinality(guessed) \in Nat /\ GuessRead(c) /\ call[c] \in CallState
  BY Bounds DEF GuessesCounted, GuessRead, OtpTypeOK
<1>b. /\ attempts' <= MaxAttempts /\ Numbered(guessed)'
      /\ Covers(attempts, lockTtl, guessed, LockTicks)' /\ GuessRead(c)'
      => GuessesCounted'
  BY DEF GuessesCounted, GuessRead
<1>c. ASSUME UNCHANGED << attempts, lockTtl, guessed >>, GuessRead(c)'
      PROVE  GuessesCounted'
  BY <1>b, <1>c DEF GuessesCounted, Covers, Numbered, ThisTick
<1>d. ASSUME UNCHANGED << attempts, lockTtl, guessed >>, call'[c].at \notin {"code", "count"}
      PROVE  GuessesCounted'
  BY <1>c, <1>d DEF GuessRead
<1>1. CASE ReadAttempts(c)
  <2>1. UNCHANGED << attempts, lockTtl, guessed >>
    BY <1>1 DEF ReadAttempts
  <2>2. CASE attempts >= MaxAttempts
    BY <1>1, <1>d, <2>1, <2>2 DEF ReadAttempts, Then, NoCall, OtpTypeOK
  <2>3. CASE ~ (attempts >= MaxAttempts)
    <3>1. call'[c] = [at |-> "code", guess |-> call[c].guess, attempts |-> attempts]
      BY <1>1, <2>3 DEF ReadAttempts, Then, OtpTypeOK
    <3>2. GuessRead(c)'
      BY <1>a, <2>1, <2>3, <3>1 DEF GuessRead, GuessesCounted, Covers
    <3> QED
      BY <1>c, <2>1, <3>2
  <2> QED
    BY <2>2, <2>3
<1>2. CASE ReadCode(c)
  <2>1. UNCHANGED << attempts, lockTtl, guessed >> /\ call[c].at = "code"
    BY <1>2 DEF ReadCode
  <2>2. CASE call'[c].at \notin {"code", "count"}
    BY <1>d, <2>1, <2>2
  <2>3. CASE call'[c].at \in {"code", "count"}
    <3>1. call'[c] = [at |-> "count", attempts |-> call[c].attempts]
      BY <1>2, <2>3 DEF ReadCode, Then, NoCall, OtpTypeOK
    <3>2. GuessRead(c)'
      BY <1>a, <2>1, <3>1 DEF GuessRead
    <3> QED
      BY <1>c, <2>1, <3>2
  <2> QED
    BY <2>2, <2>3
<1>3. CASE CountWrong(c)
  <2>1. /\ guessed' = Once(guessed) /\ lockTtl' = LockTicks
        /\ attempts' = call[c].attempts + 1 /\ call[c].at = "count" /\ call'[c] = NoCall
    BY <1>3 DEF CountWrong, Then, OtpTypeOK
  <2>2. call[c].attempts \in Nat /\ call[c].attempts < MaxAttempts
        /\ Cardinality(guessed) <= call[c].attempts
    BY <1>a, <2>1, CallLocals DEF GuessRead
  <2>3. /\ Cardinality(guessed') = Cardinality(guessed) + 1 /\ Numbered(guessed')
        /\ guessed' \subseteq Event(LockTicks)
    BY <1>a, <2>1, OnceCounts DEF OtpTypeOK, GuessesCounted
  <2>4. \A e \in guessed' : LockTicks <= e.age + LockTicks
    BY <1>a, <2>3 DEF Event
  <2>5. Cardinality(guessed') <= attempts'
    BY <1>a, <2>1, <2>2, <2>3
  <2>6. Covers(attempts, lockTtl, guessed, LockTicks)'
    BY <2>1, <2>4, <2>5 DEF Covers
  <2>7. GuessRead(c)'
    BY <2>1 DEF GuessRead, NoCall
  <2>8. attempts' <= MaxAttempts
    BY <1>a, <2>1, <2>2
  <2>9. Numbered(guessed)'
    BY <2>3 DEF Numbered, ThisTick
  <2> QED
    BY <1>b, <2>6, <2>7, <2>8, <2>9
<1>4. CASE ClearAttempts(c)
  <2>1. attempts' = 0 /\ lockTtl' = 0 /\ guessed' = {} /\ call[c].at = "clear"
    BY <1>4 DEF ClearAttempts
  <2>2. [call[c] EXCEPT !.at = "login"].at = "login"
    BY <1>a, <2>1 DEF CallState, NoCall
  <2>3. call'[c].at = "login"
    BY <1>4, <2>2 DEF ClearAttempts, Then, OtpTypeOK
  <2>4. Covers(attempts, lockTtl, guessed, LockTicks)' /\ Numbered(guessed)'
    BY <2>1, FS_EmptySet DEF Covers, Numbered, ThisTick
  <2>5. GuessRead(c)'
    BY <2>3 DEF GuessRead
  <2> QED
    BY <1>a, <1>b, <2>1, <2>4, <2>5
<1>5. CASE PurgeCode(c)
  <2>1. UNCHANGED << attempts, lockTtl, guessed >> /\ call[c].at = "purge"
    BY <1>5 DEF PurgeCode
  <2>2. [call[c] EXCEPT !.at = "clear"].at = "clear"
    BY <1>a, <2>1 DEF CallState, NoCall
  <2>3. call'[c].at = "clear"
    BY <1>5, <2>2 DEF PurgeCode, Then, OtpTypeOK
  <2> QED
    BY <1>d, <2>1, <2>3
<1>6. CASE BeginRequest(c) \/ ReadRequests(c) \/ StoreCode(c) \/ BumpRequests(c)
  <2>1. UNCHANGED << attempts, lockTtl, guessed >>
    BY <1>6 DEF BeginRequest, Receive, ReadRequests, StoreCode, BumpRequests
  <2>2. call'[c].at \in {"idle", "requests", "store", "bump"}
    BY <1>6 DEF BeginRequest, Receive, ReadRequests, StoreCode, BumpRequests, Then, NoCall, OtpTypeOK
  <2> QED
    BY <1>d, <2>1, <2>2
<1>7. CASE BeginVerify(c) \/ Login(c) \/ CallCrash(c)
  <2>1. UNCHANGED << attempts, lockTtl, guessed >>
    BY <1>7 DEF BeginVerify, Receive, Login, CallCrash
  <2>2. call'[c].at \in {"idle", "attempts"}
    BY <1>7 DEF BeginVerify, Receive, Login, CallCrash, Then, NoCall, OtpTypeOK
  <2> QED
    BY <1>d, <2>1, <2>2
<1> QED
  BY <1>1, <1>2, <1>3, <1>4, <1>5, <1>6, <1>7 DEF CallerStep

\* A code that has logged in is neither stored nor about to log in.
LEMMA CodesKept ==
    ASSUME OtpTypeOK, CodesFresh, NEW c \in Callers, CallerStep(c), ~ disturbed, ~ disturbed',
           \A d \in Callers : d # c => call'[d] = call[d] /\ Calling(d, "idle")
    PROVE  CodesFresh'
<1> USE DEF cache, otpHistory, Calling
<1>a. code \notin accepted /\ CodeRead(c) /\ call[c] \in CallState
  BY DEF CodesFresh, CodeRead, OtpTypeOK
<1>b. code' \notin accepted' /\ CodeRead(c)' => CodesFresh'
  BY DEF CodesFresh, CodeRead
<1>c. ASSUME UNCHANGED << code, accepted >>, call'[c].at \notin {"purge", "clear", "login"}
      PROVE  CodesFresh'
  BY <1>a, <1>b, <1>c DEF CodeRead
<1>1. CASE StoreCode(c)
  <2>1. code' \notin accepted' /\ call'[c].at = "bump"
    BY <1>1 DEF StoreCode, Then, OtpTypeOK
  <2> QED
    BY <1>b, <2>1 DEF CodeRead
<1>2. CASE ReadCode(c)
  <2>1. UNCHANGED << code, accepted >>
    BY <1>2 DEF ReadCode
  <2>2. CASE call'[c].at \notin {"purge", "clear", "login"}
    BY <1>c, <2>1, <2>2
  <2>3. CASE call'[c].at \in {"purge", "clear", "login"}
    <3>1. call'[c] = [at |-> "purge", guess |-> call[c].guess] /\ code = call[c].guess
      BY <1>2, <2>3 DEF ReadCode, Then, NoCall, OtpTypeOK
    <3>2. call'[c].at = "purge" /\ call'[c].guess = code
      BY <3>1
    <3>3. CodeRead(c)'
      BY <1>a, <2>1, <3>2 DEF CodeRead
    <3> QED
      BY <1>a, <1>b, <2>1, <3>3
  <2> QED
    BY <2>2, <2>3
<1>3. CASE PurgeCode(c)
  <2>1. accepted' = accepted /\ code' = NoCode /\ call[c].at = "purge"
    BY <1>3 DEF PurgeCode
  <2>2. [call[c] EXCEPT !.at = "clear"].at = "clear"
        /\ [call[c] EXCEPT !.at = "clear"].guess = call[c].guess
    BY <1>a, <2>1 DEF CallState, NoCall
  <2>3. call'[c].at = "clear" /\ call'[c].guess = call[c].guess
    BY <1>3, <2>2 DEF PurgeCode, Then, OtpTypeOK
  <2>4. NoCode \notin accepted
    BY OtpAssumption DEF OtpTypeOK
  <2> QED
    BY <1>a, <1>b, <2>1, <2>3, <2>4 DEF CodeRead
<1>4. CASE ClearAttempts(c)
  <2>1. UNCHANGED << code, accepted >> /\ call[c].at = "clear"
    BY <1>4 DEF ClearAttempts
  <2>2. [call[c] EXCEPT !.at = "login"].at = "login"
        /\ [call[c] EXCEPT !.at = "login"].guess = call[c].guess
    BY <1>a, <2>1 DEF CallState, NoCall
  <2>3. call'[c].at = "login" /\ call'[c].guess = call[c].guess
    BY <1>4, <2>2 DEF ClearAttempts, Then, OtpTypeOK
  <2> QED
    BY <1>a, <1>b, <2>1, <2>3 DEF CodeRead
<1>5. CASE Login(c)
  <2>1. /\ code' = code /\ accepted' = accepted \cup {call[c].guess}
        /\ call[c].at = "login" /\ call'[c] = NoCall
    BY <1>5 DEF Login, Then, OtpTypeOK
  <2>2. code = NoCode /\ call[c].guess \in Codes
    BY <1>a, <2>1, CallLocals DEF CodeRead
  <2>3. code' \notin accepted'
    BY <2>1, <2>2, OtpAssumption DEF OtpTypeOK
  <2> QED
    BY <1>b, <2>1, <2>3 DEF CodeRead, NoCall
<1>6. CASE BeginRequest(c) \/ ReadRequests(c) \/ BumpRequests(c) \/ BeginVerify(c)
  <2>1. UNCHANGED << code, accepted >>
    BY <1>6 DEF BeginRequest, BeginVerify, Receive, ReadRequests, BumpRequests
  <2>2. call'[c].at \in {"idle", "requests", "store", "attempts"}
    BY <1>6 DEF BeginRequest, BeginVerify, Receive, ReadRequests, BumpRequests, Then, NoCall, OtpTypeOK
  <2> QED
    BY <1>c, <2>1, <2>2
<1>7. CASE ReadAttempts(c) \/ CountWrong(c) \/ CallCrash(c)
  <2>1. UNCHANGED << code, accepted >>
    BY <1>7 DEF ReadAttempts, CountWrong, CallCrash
  <2>2. call'[c].at \in {"idle", "code"}
    BY <1>7 DEF ReadAttempts, CountWrong, CallCrash, Then, NoCall, OtpTypeOK
  <2> QED
    BY <1>c, <2>1, <2>2
<1> QED
  BY <1>1, <1>2, <1>3, <1>4, <1>5, <1>6, <1>7 DEF CallerStep

\* When a key expires, the events it counted have left the window.
LEMMA TickKeeps ==
    ASSUME OtpTypeOK, RequestsCounted, GuessesCounted, CodesFresh, Tick
    PROVE  RequestsCounted' /\ GuessesCounted' /\ CodesFresh'
<1> USE DEF cache, otpHistory, Calling
<1>a. /\ RequestTicks \in Nat \ {0} /\ LockTicks \in Nat \ {0}
      /\ MaxRequests \in Nat /\ MaxAttempts \in Nat /\ requests \in Nat /\ attempts \in Nat
      /\ Cardinality(issued) \in Nat /\ Cardinality(guessed) \in Nat
  BY Bounds
<1>b. /\ issued' = Older(issued, RequestTicks) /\ guessed' = Older(guessed, LockTicks)
      /\ requestTtl' = Left(requestTtl) /\ lockTtl' = Left(lockTtl)
      /\ requests' = (IF Left(requestTtl) = 0 THEN 0 ELSE requests)
      /\ attempts' = (IF Left(lockTtl) = 0 THEN 0 ELSE attempts)
      /\ UNCHANGED << call, accepted >> /\ code' \in {code, NoCode}
  BY DEF Tick
<1>c. /\ Cardinality(issued') <= Cardinality(issued) /\ Numbered(issued') /\ IsFiniteSet(issued')
      /\ Cardinality(guessed') <= Cardinality(guessed) /\ Numbered(guessed') /\ IsFiniteSet(guessed')
  BY <1>a, <1>b, OlderShrinks DEF OtpTypeOK
<1>d. Cardinality(issued') \in Nat /\ Cardinality(guessed') \in Nat
  BY <1>c, FS_CardinalityType
<1>1. RequestsCounted'
  <2>1. requests' <= MaxRequests /\ Numbered(issued)'
    BY <1>a, <1>b, <1>c DEF RequestsCounted, Numbered, ThisTick
  <2>2. ASSUME \A c \in Callers : ~ Calling(c, "bump")'
        PROVE  Covers(requests, requestTtl, issued, RequestTicks)'
    <3>1. Covers(requests, requestTtl, issued, RequestTicks)
      BY <1>b, <2>2 DEF RequestsCounted
    <3>2. Covers(IF Left(requestTtl) = 0 THEN 0 ELSE requests, Left(requestTtl),
                 Older(issued, RequestTicks), RequestTicks)
      BY <1>a, <3>1, CoveredLater DEF OtpTypeOK
    <3> QED
      BY <1>b, <3>2 DEF Covers
  <2>3. ASSUME NEW c \in Callers
        PROVE  /\ call[c].at \in {"store", "bump"} => call[c].requests < MaxRequests
               /\ Calling(c, "store") => Cardinality(issued') <= call[c].requests
               /\ Calling(c, "bump") => Cardinality(issued') <= call[c].requests + 1
    <3>1. call[c].at \in {"store", "bump"} => call[c].requests \in Nat
      BY CallLocals DEF OtpTypeOK
    <3> QED
      BY <1>a, <1>c, <1>d, <3>1 DEF RequestsCounted
  <2> QED
    BY <1>b, <2>1, <2>2, <2>3 DEF RequestsCounted
<1>2. GuessesCounted'
  <2>1. attempts' <= MaxAttempts /\ Numbered(guessed)'
    BY <1>a, <1>b, <1>c DEF GuessesCounted, Numbered, ThisTick
  <2>2. Covers(attempts, lockTtl, guessed, LockTicks)'
    <3>1. Covers(IF Left(lockTtl) = 0 THEN 0 ELSE attempts, Left(lockTtl),
                 Older(guessed, LockTicks), LockTicks)
      BY <1>a, CoveredLater DEF OtpTypeOK, GuessesCounted
    <3> QED
      BY <1>b, <3>1 DEF Covers
  <2>3. ASSUME NEW c \in Callers, call[c].at \in {"code", "count"}
        PROVE  call[c].attempts < MaxAttempts /\ Cardinality(guessed') <= call[c].attempts
    <3>1. call[c].attempts \in Nat
      BY <2>3, CallLocals DEF OtpTypeOK
    <3> QED
      BY <1>a, <1>c, <1>d, <2>3, <3>1 DEF GuessesCounted
  <2> QED
    BY <1>b, <2>1, <2>2, <2>3 DEF GuessesCounted
<1>3. CodesFresh'
  <2>1. NoCode \notin accepted
    BY OtpAssumption DEF OtpTypeOK
  <2> QED
    BY <1>b, <2>1 DEF CodesFresh
<1> QED
  BY <1>1, <1>2, <1>3

\* Every step keeps the invariant of the one-time passwords.
LEMMA OtpStep == OtpInv /\ [OtpNext]_otp => OtpInv'
<1> SUFFICES ASSUME OtpInv, [OtpNext]_otp PROVE OtpInv'
  OBVIOUS
<1>1. OtpTypeOK /\ OtpTypeOK'
  BY OtpTypeStep DEF OtpInv
<1>2. ASSUME NEW c \in Callers, CallerStep(c), ~ disturbed'
      PROVE  OneCall' /\ RequestsCounted' /\ GuessesCounted' /\ CodesFresh'
  <2>1. ~ disturbed
    BY <1>1, <1>2 DEF OtpTypeOK, CallerStep, BeginRequest, Receive, ReadRequests, StoreCode,
         BumpRequests, BeginVerify, ReadAttempts, ReadCode, CountWrong, PurgeCode, ClearAttempts,
         Login, CallCrash, otpHistory
  <2>2. OneCall /\ RequestsCounted /\ GuessesCounted /\ CodesFresh
    BY <2>1 DEF OtpInv, OneCall
  <2>3. OneCall' /\ \A d \in Callers : d # c => call'[d] = call[d] /\ Calling(d, "idle")
    BY <1>1, <1>2, <2>2, Undisturbed
  <2> QED
    BY <1>1, <1>2, <2>1, <2>2, <2>3, RequestsKept, GuessesKept, CodesKept
<1>3. ASSUME Tick, ~ disturbed'
      PROVE  OneCall' /\ RequestsCounted' /\ GuessesCounted' /\ CodesFresh'
  <2>1. ~ disturbed /\ call' = call
    BY <1>3 DEF Tick
  <2>2. OneCall /\ RequestsCounted /\ GuessesCounted /\ CodesFresh
    BY <2>1 DEF OtpInv, OneCall
  <2> QED
    BY <1>1, <1>3, <2>1, <2>2, TickKeeps DEF OneCall, Calling
<1>4. ASSUME UNCHANGED otp, ~ disturbed'
      PROVE  OneCall' /\ RequestsCounted' /\ GuessesCounted' /\ CodesFresh'
  <2>1. UNCHANGED << code, attempts, lockTtl, requests, requestTtl, call, issued, guessed, accepted,
                     disturbed >>
    BY <1>4 DEF otp, cache, otpHistory
  <2>2. OneCall /\ RequestsCounted /\ GuessesCounted /\ CodesFresh
    BY <1>4, <2>1 DEF OtpInv, OneCall
  <2> QED
    BY <2>1, <2>2 DEF OneCall, RequestsCounted, GuessesCounted, CodesFresh, Covers, Numbered,
                      ThisTick, Calling
<1>5. ~ disturbed' => OneCall' /\ RequestsCounted' /\ GuessesCounted' /\ CodesFresh'
  BY <1>2, <1>3, <1>4 DEF OtpNext
<1> QED
  BY <1>1, <1>5 DEF OtpInv, OneCall

\* It holds at the start,
LEMMA OtpInvInit == OtpInit => OtpInv
<1> SUFFICES ASSUME OtpInit PROVE OtpInv
  OBVIOUS
<1>1. OtpTypeOK
  BY OtpTypeInit
<1>2. issued = {} /\ guessed = {} /\ Cardinality({}) = 0 /\ ThisTick({}) = {}
  BY FS_EmptySet DEF OtpInit, ThisTick
<1>3. \A c \in Callers : call[c].at = "idle"
  BY DEF OtpInit, NoCall
<1>4. requests = 0 /\ attempts = 0 /\ accepted = {}
  BY DEF OtpInit
<1>5. RequestsCounted
  BY <1>1, <1>2, <1>3, <1>4, Bounds DEF RequestsCounted, Numbered, Covers, Calling
<1>6. GuessesCounted
  BY <1>1, <1>2, <1>3, <1>4, Bounds DEF GuessesCounted, Numbered, Covers, Calling
<1>7. CodesFresh
  BY <1>3, <1>4 DEF CodesFresh, Calling
<1> QED
  BY <1>1, <1>3, <1>5, <1>6, <1>7 DEF OtpInv, Calling

\* and hence always.
LEMMA OtpAlways == OtpSpec => []OtpInv
BY OtpInvInit, OtpStep, PTL DEF OtpSpec

(***************************************************************************)
(* The limits of otp.py hold for any number of threads, any limits and any *)
(* times to live, as long as no two calls overlap and no request ends      *)
(* between storing and counting its code: no window of REQUEST_TTL sees    *)
(* more codes than allowed, and none of LOCK_TTL more wrong guesses.       *)
(***************************************************************************)
THEOREM LimitsAreKept == OtpSpec => []LimitsHold
<1>1. OtpInv => LimitsHold
  <2> SUFFICES ASSUME OtpInv, ~ disturbed
               PROVE  Cardinality(issued) <= MaxRequests /\ Cardinality(guessed) <= MaxAttempts
    BY DEF LimitsHold
  <2>1. OtpTypeOK /\ RequestsCounted /\ GuessesCounted
    BY DEF OtpInv
  <2>2. /\ MaxRequests \in Nat /\ MaxAttempts \in Nat /\ requests \in Nat /\ attempts \in Nat
        /\ Cardinality(issued) \in Nat /\ Cardinality(guessed) \in Nat
    BY <2>1, Bounds
  <2>3. Cardinality(guessed) <= MaxAttempts
    BY <2>1, <2>2 DEF GuessesCounted, Covers
  <2>4. CASE \A c \in Callers : ~ Calling(c, "bump")
    BY <2>1, <2>2, <2>3, <2>4 DEF RequestsCounted, Covers
  <2>5. ASSUME NEW c \in Callers, Calling(c, "bump")
        PROVE  Cardinality(issued) <= MaxRequests
    <3>1. call[c].requests \in Nat
      BY <2>1, <2>5, CallLocals DEF OtpTypeOK, Calling
    <3>2. call[c].requests < MaxRequests /\ Cardinality(issued) <= call[c].requests + 1
      BY <2>1, <2>5 DEF RequestsCounted, Calling
    <3> QED
      BY <2>2, <3>1, <3>2
  <2> QED
    BY <2>3, <2>4, <2>5
<1> QED
  BY <1>1, OtpAlways, PTL

(***************************************************************************)
(* A code is good for one login as long as no calls overlap, wherever      *)
(* calls are cut short and whichever keys expire.                          *)
(***************************************************************************)
THEOREM CodesLogInOnce == OtpSpec => CodeUsedOnce
<1>1. OtpInv => \A c \in Callers : Login(c) /\ ~ disturbed => call[c].guess \notin accepted
  BY DEF OtpInv, CodesFresh, Login, Calling
<1> QED
  BY <1>1, OtpAlways, PTL DEF OtpSpec, CodeUsedOnce
===============================================================================
