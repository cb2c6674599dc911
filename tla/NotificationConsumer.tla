------------------------ MODULE NotificationConsumer ------------------------
(***************************************************************************)
(* notification-service's event consumer: the durable queue                *)
(* "notification_events" with manual acknowledgements, the one goroutine   *)
(* that runs handleMessage on each delivery, and the table                 *)
(* notification_events that deduplicates by a hash of the body.            *)
(*                                                                         *)
(* handleMessage runs one SQL statement after another, each a transaction  *)
(* of its own.  The effects of an event are left abstract here: an event   *)
(* is a number of statements that ProcessProjectEvent runs (the upsert of  *)
(* the task row, the deadline reminder, the notification).  A statement    *)
(* may succeed, fail, or report a failure although it was committed.       *)
(***************************************************************************)
EXTENDS Naturals, Sequences

CONSTANTS
    MaxEvents,       \* how many events the producers publish
    MaxStatements    \* most statements the handler of one event runs

ASSUME ConsumerAssumption ==
    /\ MaxEvents \in Nat
    /\ MaxStatements \in Nat

EventIds == 1..MaxEvents
NoEvent == 0

\* The body published as the i-th message.  Only bodies of kind "event"
\* are JSON with an event_type.
Unpublished == [kind |-> "unpublished", statements |-> 0]
Bodies ==
    [kind : {"malformed", "untyped"}, statements : {0}]
      \cup [kind : {"event"}, statements : 0..MaxStatements]

VARIABLES
    body,        \* body[i]: the i-th message routed to the queue
    ready,       \* broker: messages waiting for delivery
    unacked,     \* broker: messages delivered and not yet acknowledged
    buffer,      \* client: deliveries not yet taken by the goroutine
    current,     \* the message handleMessage works on
    phase,       \* where handleMessage stands
    statement,   \* statements of ProcessProjectEvent completed by this call
    link,        \* "up", "cut" (channel closed, process alive) or "down"
    saved,       \* keys with a row in notification_events
    processed,   \* keys whose row has processed_at
    done,        \* done[i]: statements of event i committed so far
    faulted,     \* history: events hit by a fault after they were recorded
    requeued     \* history: events sent back because recording failed

brokerVars == <<body, ready, unacked>>
handlerVars == <<buffer, current, phase, statement>>
dbVars == <<saved, processed, done>>
historyVars == <<faulted, requeued>>
vars == <<brokerVars, handlerVars, link, dbVars, historyVars>>

Published(i) == body[i].kind # "unpublished"
IsEvent(i) == body[i].kind = "event"

\* The broker has let go of message i.
Gone(i) == Published(i) /\ i \notin ready \cup unacked

\* Types, and a message in hand exactly while handleMessage runs.
TypeOK ==
    /\ body \in [EventIds -> Bodies \cup {Unpublished}]
    /\ ready \in SUBSET EventIds
    /\ unacked \in SUBSET EventIds
    /\ buffer \in Seq(EventIds)
    /\ current \in EventIds \cup {NoEvent}
    /\ phase \in {"idle", "save", "process", "mark", "ack"}
    /\ phase = "idle" <=> current = NoEvent
    /\ statement \in Nat
    /\ link \in {"up", "cut", "down"}
    /\ saved \in SUBSET EventIds
    /\ processed \in SUBSET EventIds
    /\ done \in [EventIds -> Nat]
    /\ faulted \in SUBSET EventIds
    /\ requeued \in SUBSET EventIds

Init ==
    /\ body = [i \in EventIds |-> Unpublished]
    /\ ready = {}
    /\ unacked = {}
    /\ buffer = <<>>
    /\ current = NoEvent
    /\ phase = "idle"
    /\ statement = 0
    /\ link = "up"
    /\ saved = {}
    /\ processed = {}
    /\ done = [i \in EventIds |-> 0]
    /\ faulted = {}
    /\ requeued = {}

-----------------------------------------------------------------------------
(* The broker. *)

\* A publisher's message is routed to the queue.  The queue is durable and
\* declared by an earlier run, so messages arrive whatever the link is.
Publish(i, b) ==
    /\ ~Published(i)
    /\ \A j \in EventIds : j < i => Published(j)
    /\ body' = [body EXCEPT ![i] = b]
    /\ ready' = ready \cup {i}
    /\ UNCHANGED <<unacked, handlerVars, link, dbVars, historyVars>>

\* No prefetch limit is set, so the broker pushes whatever is ready, oldest
\* first.  A requeued message returns to its old place in the queue.
Deliver(i) ==
    /\ link = "up"
    /\ i \in ready
    /\ \A j \in ready : i <= j
    /\ ready' = ready \ {i}
    /\ unacked' = unacked \cup {i}
    /\ buffer' = Append(buffer, i)
    /\ UNCHANGED <<body, current, phase, statement, link, dbVars, historyVars>>

\* Acknowledging, or rejecting without requeue, deletes the message (the
\* queue has no dead-letter exchange).  On a closed channel neither reaches
\* the broker, which has already taken its messages back.
Settle(i) ==
    /\ unacked' = IF link = "up" THEN unacked \ {i} ELSE unacked
    /\ UNCHANGED ready

\* Nack(false, true)
Requeue(i) ==
    /\ unacked' = IF link = "up" THEN unacked \ {i} ELSE unacked
    /\ ready' = IF link = "up" THEN ready \cup {i} ELSE ready

-----------------------------------------------------------------------------
(* handleMessage: one goroutine, one delivery at a time. *)

\* Variant: the goroutine forgets to let go of the message.
ReturnHolding ==
    /\ current' = current
    /\ phase' = "idle"
    /\ statement' = 0

Return ==
    /\ current' = NoEvent
    /\ phase' = "idle"
    /\ statement' = 0

\* Variant: a goroutine per message, so any of them may run first.
TakeAnyEvent ==
    /\ phase = "idle"
    /\ \E k \in DOMAIN buffer :
          /\ IsEvent(buffer[k])
          /\ current' = buffer[k]
          /\ buffer' = SubSeq(buffer, 1, k - 1)
                         \o SubSeq(buffer, k + 1, Len(buffer))
    /\ phase' = "save"
    /\ UNCHANGED <<brokerVars, statement, link, dbVars, historyVars>>

\* The range loop takes the next delivery.
TakeEvent ==
    /\ phase = "idle"
    /\ buffer # <<>>
    /\ IsEvent(Head(buffer))
    /\ current' = Head(buffer)
    /\ buffer' = Tail(buffer)
    /\ phase' = "save"
    /\ UNCHANGED <<brokerVars, statement, link, dbVars, historyVars>>

\* Not JSON: Nack without requeue.  No event_type: Ack.
DiscardMessage ==
    /\ phase = "idle"
    /\ buffer # <<>>
    /\ ~IsEvent(Head(buffer))
    /\ buffer' = Tail(buffer)
    /\ Settle(Head(buffer))
    /\ UNCHANGED <<body, current, phase, statement, link, dbVars, historyVars>>

\* Variant: the test of `inserted` is inverted.
SaveInsertsButSkips ==
    /\ phase = "save"
    /\ current \notin saved
    /\ saved' = saved \cup {current}
    /\ phase' = "ack"
    /\ UNCHANGED <<brokerVars, buffer, current, statement, link, processed,
                   done, historyVars>>

\* INSERT ... ON CONFLICT (event_key) DO NOTHING inserted the row.
SaveInserts ==
    /\ phase = "save"
    /\ current \notin saved
    /\ saved' = saved \cup {current}
    /\ phase' = "process"
    /\ UNCHANGED <<brokerVars, buffer, current, statement, link, processed,
                   done, historyVars>>

\* Variant: `inserted` is not looked at.
SaveIgnoresRow ==
    /\ phase = "save"
    /\ current \in saved
    /\ phase' = "process"
    /\ UNCHANGED <<brokerVars, buffer, current, statement, link, dbVars,
                   historyVars>>

\* The row was there: the message is acknowledged and nothing else is done.
SaveFindsRow ==
    /\ phase = "save"
    /\ current \in saved
    /\ phase' = "ack"
    /\ UNCHANGED <<brokerVars, buffer, current, statement, link, dbVars,
                   historyVars>>

\* The INSERT reports an error, which does not say that no row was written.
InsertUncertain ==
    \/ UNCHANGED <<saved, faulted>>
    \/ /\ current \notin saved
       /\ saved' = saved \cup {current}
       /\ faulted' = faulted \cup {current}

\* Variant: Nack(false, false), the message is rejected for good.
SaveFailsAndDrops ==
    /\ phase = "save"
    /\ InsertUncertain
    /\ requeued' = requeued \cup {current}
    /\ Settle(current)
    /\ Return
    /\ UNCHANGED <<body, buffer, link, processed, done>>

\* Variant: handleMessage returns without answering the broker.
SaveFailsSilently ==
    /\ phase = "save"
    /\ InsertUncertain
    /\ requeued' = requeued \cup {current}
    /\ Return
    /\ UNCHANGED <<brokerVars, buffer, link, processed, done>>

SaveFails ==
    /\ phase = "save"
    /\ InsertUncertain
    /\ requeued' = requeued \cup {current}
    /\ Requeue(current)
    /\ Return
    /\ UNCHANGED <<body, buffer, link, processed, done>>

\* One statement of ProcessProjectEvent commits.
RunStatement ==
    /\ phase = "process"
    /\ statement < body[current].statements
    /\ statement' = statement + 1
    /\ done' = [done EXCEPT ![current] = @ + 1]
    /\ UNCHANGED <<brokerVars, buffer, current, phase, link, saved, processed,
                   historyVars>>

\* ProcessProjectEvent returns nil.
FinishProcessing ==
    /\ phase = "process"
    /\ statement = body[current].statements
    /\ phase' = "mark"
    /\ UNCHANGED <<brokerVars, buffer, current, statement, link, dbVars,
                   historyVars>>

\* A statement that reports an error may have committed all the same.
StatementUncertain ==
    \/ UNCHANGED done
    \/ done' = [done EXCEPT ![current] = @ + 1]

\* Variant: the row is deleted so that the redelivery does the work again.
StatementFailureForgets ==
    /\ phase = "process"
    /\ statement < body[current].statements
    /\ StatementUncertain
    /\ faulted' = faulted \cup {current}
    /\ saved' = saved \ {current}
    /\ Requeue(current)
    /\ Return
    /\ UNCHANGED <<body, buffer, link, processed, requeued>>

\* ProcessProjectEvent returns an error: the rest of the statements is given
\* up and the message goes back to the queue, where its row will be found.
StatementFails ==
    /\ phase = "process"
    /\ statement < body[current].statements
    /\ StatementUncertain
    /\ faulted' = faulted \cup {current}
    /\ Requeue(current)
    /\ Return
    /\ UNCHANGED <<body, buffer, link, saved, processed, requeued>>

\* MarkEventProcessed commits.
MarkSucceeds ==
    /\ phase = "mark"
    /\ processed' = processed \cup {current}
    /\ phase' = "ack"
    /\ UNCHANGED <<brokerVars, buffer, current, statement, link, saved, done,
                   historyVars>>

\* MarkEventProcessed reports an error.
MarkFails ==
    /\ phase = "mark"
    /\ processed' \in {processed, processed \cup {current}}
    /\ Requeue(current)
    /\ Return
    /\ UNCHANGED <<body, buffer, link, saved, done, historyVars>>

AckMessage ==
    /\ phase = "ack"
    /\ Settle(current)
    /\ Return
    /\ UNCHANGED <<body, buffer, link, dbVars, historyVars>>

-----------------------------------------------------------------------------
(* Faults.  Nothing in the service notices a closed channel: the range loop *)
(* ends and the health check goes on reporting SERVING.                     *)

TakeBackUnacked ==
    /\ ready' = ready \cup unacked
    /\ unacked' = {}
    /\ buffer' = <<>>

\* The channel closes; the call in progress runs on.
CutLink ==
    /\ link = "up"
    /\ link' = "cut"
    /\ TakeBackUnacked
    /\ UNCHANGED <<body, current, phase, statement, dbVars, historyVars>>

\* The process dies wherever it stands.
Crash ==
    /\ link # "down"
    /\ link' = "down"
    /\ TakeBackUnacked
    /\ faulted' = IF phase = "process" THEN faulted \cup {current} ELSE faulted
    /\ Return
    /\ UNCHANGED <<body, dbVars, requeued>>

\* main: connect, declare, consume.
Restart ==
    /\ link = "down"
    /\ link' = "up"
    /\ UNCHANGED <<brokerVars, handlerVars, dbVars, historyVars>>

-----------------------------------------------------------------------------
SaveSucceeds == SaveInserts \/ SaveFindsRow

\* Every way on from a call that has got past SaveRawEvent.
ProcessAndAnswer ==
    \/ RunStatement \/ FinishProcessing \/ StatementFails
    \/ MarkSucceeds \/ MarkFails
    \/ AckMessage

Next ==
    \/ \E i \in EventIds, b \in Bodies : Publish(i, b)
    \/ \E i \in EventIds : Deliver(i)
    \/ TakeEvent
    \/ DiscardMessage
    \/ SaveInserts
    \/ SaveFindsRow
    \/ SaveFails
    \/ RunStatement
    \/ FinishProcessing
    \/ StatementFails
    \/ MarkSucceeds
    \/ MarkFails
    \/ AckMessage
    \/ CutLink
    \/ Crash
    \/ Restart

Spec == Init /\ [][Next]_vars

\* The broker delivers, the goroutine is scheduled and a statement that was
\* sent comes back, one way or the other.  The database does not refuse
\* SaveRawEvent for ever.  Publishing, faults and restarts owe nothing.
Fairness ==
    /\ WF_vars(\E i \in EventIds : Deliver(i))
    /\ WF_vars(TakeEvent \/ DiscardMessage)
    /\ SF_vars(SaveSucceeds)
    /\ WF_vars(ProcessAndAnswer)

FairSpec == Spec /\ Fairness

-----------------------------------------------------------------------------
(* Properties. *)

\* No statement of an event's handler is committed twice, whatever is
\* redelivered: the row of notification_events is written before the first.
AtMostOnce == \A i \in EventIds : done[i] <= body[i].statements

\* An event the broker has deleted has its row in notification_events: no
\* failed insert, crash or lost connection makes it vanish unrecorded.
RecordedBeforeGone ==
    \A i \in EventIds : IsEvent(i) /\ Gone(i) => i \in saved

\* processed_at vouches for every effect of the event.
ProcessedMeansApplied ==
    \A i \in processed : i \in saved /\ done[i] = body[i].statements

\* An event is left half applied only by an error or a crash that struck
\* while it was being recorded or processed.
LostOnlyByFault ==
    \A i \in saved :
        \/ done[i] = body[i].statements
        \/ i = current /\ phase = "process"
        \/ i \in faulted

\* Events take effect in the order they were published, save for one that
\* SaveRawEvent sent back to the queue.
InOrderUnlessRequeued ==
    \A i, j \in EventIds :
        /\ i < j
        /\ IsEvent(i)
        /\ j \in saved
        /\ i \notin saved
        => i \in requeued

\* As long as the consumer stays connected from some point on, every message
\* is finally answered and leaves the queue.
EventuallySettled ==
    <>[](link = "up") => \A i \in EventIds : Published(i) ~> Gone(i)

-----------------------------------------------------------------------------
(* The promise of EventDelivery, read off the tables. *)

FateOf(i) ==
    CASE ~Published(i) -> "unpublished"
      [] Published(i) /\ ~IsEvent(i) ->
            IF Gone(i) THEN "discarded" ELSE "waiting"
      [] IsEvent(i) /\ i \notin saved -> "waiting"
      [] i \in saved /\ i = current /\ phase = "process" -> "started"
      [] OTHER ->
            IF done[i] = body[i].statements THEN "applied" ELSE "lost"

Delivery == INSTANCE EventDelivery
                WITH fate <- [i \in EventIds |-> FateOf(i)]

\* Each step of the consumer is a step of EventDelivery or changes no fate.
DeliversAtMostOnce == Delivery!Spec

=============================================================================
