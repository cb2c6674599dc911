--------------------- MODULE NotificationConsumerProofs ---------------------
(***************************************************************************)
(* The safety of the notification consumer, for any number of events and   *)
(* of statements per event.  One inductive invariant carries all of it: a  *)
(* key without a row has had no statement run, and the call in progress    *)
(* has counted exactly the statements committed for its event.             *)
(***************************************************************************)
EXTENDS NotificationConsumer, TLAPS

\* What waits in the queue, in the client or in the handler was published.
Routed ==
    /\ \A i \in ready \cup unacked : Published(i)
    /\ \A k \in DOMAIN buffer : Published(buffer[k])

\* The call in progress, against the tables.
CallInv ==
    /\ phase # "idle" => current \in EventIds /\ IsEvent(current)
    /\ phase \in {"process", "mark", "ack"} => current \in saved
    /\ phase = "process" => /\ statement = done[current]
                            /\ statement <= body[current].statements
    /\ phase = "mark" => done[current] = body[current].statements
    /\ phase = "idle" => statement = 0
    /\ phase = "save" => statement = 0

\* The tables, whatever the call in progress does.
TableInv ==
    /\ \A i \in saved : IsEvent(i)
    /\ \A i \in EventIds \ saved : done[i] = 0

IInv ==
    /\ TypeOK
    /\ Routed
    /\ CallInv
    /\ TableInv
    /\ AtMostOnce
    /\ RecordedBeforeGone
    /\ ProcessedMeansApplied
    /\ LostOnlyByFault

LEMMA NoEventIsNone == NoEvent \notin EventIds
  BY ConsumerAssumption DEF NoEvent, EventIds

LEMMA BodyFacts ==
    /\ \A b \in Bodies \cup {Unpublished} :
          /\ b.statements \in Nat
          /\ b.kind = "unpublished" => b.statements = 0
    /\ \A b \in Bodies : b.kind # "unpublished"
  BY ConsumerAssumption DEF Bodies, Unpublished

\* Initially nothing is published and nothing recorded.
LEMMA InitIInv == Init => IInv
  BY ConsumerAssumption
     DEF Init, IInv, TypeOK, Routed, CallInv, TableInv, AtMostOnce,
         RecordedBeforeGone, ProcessedMeansApplied, LostOnlyByFault, EventIds,
         NoEvent, Unpublished, Published, IsEvent, Gone

LEMMA PublishIInv ==
    ASSUME IInv, NEW i \in EventIds, NEW b \in Bodies, Publish(i, b)
    PROVE  IInv'
<1>1. TypeOK'
  BY DEF IInv, TypeOK, Publish, handlerVars, dbVars, historyVars
<1>2. Routed'
  BY BodyFacts DEF IInv, TypeOK, Routed, Publish, Published, handlerVars
<1>3. CallInv' /\ TableInv'
  BY BodyFacts DEF IInv, TypeOK, CallInv, TableInv, Publish, Published,
                   IsEvent, handlerVars, dbVars
<1>4. AtMostOnce' /\ ProcessedMeansApplied' /\ LostOnlyByFault'
  BY BodyFacts DEF IInv, TypeOK, TableInv, AtMostOnce, ProcessedMeansApplied,
                   LostOnlyByFault, Publish, Published, IsEvent, handlerVars,
                   dbVars, historyVars
<1>5. RecordedBeforeGone'
  BY BodyFacts DEF IInv, TypeOK, RecordedBeforeGone, Publish, Published,
                   IsEvent, Gone, dbVars
<1>6. QED  BY <1>1, <1>2, <1>3, <1>4, <1>5 DEF IInv

\* The broker moves a message to the client.
LEMMA DeliverIInv ==
    ASSUME IInv, NEW i \in EventIds, Deliver(i)
    PROVE  IInv'
<1>1. TypeOK'
  BY DEF IInv, TypeOK, CallInv, Deliver, dbVars, historyVars
<1>2. Routed'
  BY DEF IInv, TypeOK, Routed, Deliver, Published, dbVars, historyVars
<1>3. CallInv'
  BY DEF IInv, TypeOK, CallInv, TableInv, Deliver, IsEvent, dbVars, historyVars
<1>4. TableInv' /\ AtMostOnce'
  BY DEF IInv, TypeOK, CallInv, TableInv, AtMostOnce, Deliver, IsEvent,
         dbVars, historyVars
<1>5. ProcessedMeansApplied' /\ LostOnlyByFault'
  BY DEF IInv, TypeOK, CallInv, TableInv, ProcessedMeansApplied,
         LostOnlyByFault, Deliver, dbVars, historyVars
<1>6. RecordedBeforeGone'
  BY DEF IInv, TypeOK, CallInv, RecordedBeforeGone, Deliver, Published,
         IsEvent, Gone, dbVars, historyVars
<1>7. QED  BY <1>1, <1>2, <1>3, <1>4, <1>5, <1>6 DEF IInv

\* The goroutine takes the next delivery.
LEMMA TakeEventIInv ==
    ASSUME IInv, TakeEvent
    PROVE  IInv'
<1>1. TypeOK'
  BY NoEventIsNone DEF IInv, TypeOK, CallInv, TakeEvent, brokerVars, dbVars, historyVars
<1>2. Routed'
  BY DEF IInv, TypeOK, Routed, TakeEvent, Published, brokerVars, dbVars,
         historyVars
<1>3. CallInv'
  BY DEF IInv, TypeOK, CallInv, TableInv, TakeEvent, IsEvent, brokerVars,
         dbVars, historyVars
<1>4. TableInv' /\ AtMostOnce'
  BY DEF IInv, TypeOK, CallInv, TableInv, AtMostOnce, TakeEvent, IsEvent,
         brokerVars, dbVars, historyVars
<1>5. ProcessedMeansApplied' /\ LostOnlyByFault'
  BY DEF IInv, TypeOK, CallInv, TableInv, ProcessedMeansApplied,
         LostOnlyByFault, TakeEvent, brokerVars, dbVars, historyVars
<1>6. RecordedBeforeGone'
  BY DEF IInv, TypeOK, CallInv, RecordedBeforeGone, TakeEvent, Published,
         IsEvent, Gone, brokerVars, dbVars, historyVars
<1>7. QED  BY <1>1, <1>2, <1>3, <1>4, <1>5, <1>6 DEF IInv

\* A body that is no event is dropped.
LEMMA DiscardIInv ==
    ASSUME IInv, DiscardMessage
    PROVE  IInv'
<1>1. TypeOK'
  BY DEF IInv, TypeOK, CallInv, DiscardMessage, Settle, dbVars, historyVars
<1>2. Routed'
  BY DEF IInv, TypeOK, Routed, DiscardMessage, Published, Settle, dbVars,
         historyVars
<1>3. CallInv'
  BY DEF IInv, TypeOK, CallInv, TableInv, DiscardMessage, IsEvent, Settle,
         dbVars, historyVars
<1>4. TableInv' /\ AtMostOnce'
  BY DEF IInv, TypeOK, CallInv, TableInv, AtMostOnce, DiscardMessage,
         IsEvent, Settle, dbVars, historyVars
<1>5. ProcessedMeansApplied' /\ LostOnlyByFault'
  BY DEF IInv, TypeOK, CallInv, TableInv, ProcessedMeansApplied,
         LostOnlyByFault, DiscardMessage, Settle, dbVars, historyVars
<1>6. RecordedBeforeGone'
  BY DEF IInv, TypeOK, CallInv, RecordedBeforeGone, DiscardMessage, Published,
         IsEvent, Gone, Settle, dbVars, historyVars
<1>7. QED  BY <1>1, <1>2, <1>3, <1>4, <1>5, <1>6 DEF IInv

\* A first delivery: no statement of the event has run yet.
LEMMA SaveInsertsIInv ==
    ASSUME IInv, SaveInserts
    PROVE  IInv'
<1>1. TypeOK'
  BY DEF IInv, TypeOK, CallInv, SaveInserts, brokerVars, historyVars
<1>2. Routed'
  BY DEF IInv, TypeOK, Routed, SaveInserts, Published, brokerVars, historyVars
<1>3. CallInv'
  BY BodyFacts DEF IInv, TypeOK, CallInv, TableInv, SaveInserts, IsEvent,
         brokerVars, historyVars
<1>4. TableInv' /\ AtMostOnce'
  BY BodyFacts DEF IInv, TypeOK, CallInv, TableInv, AtMostOnce, SaveInserts,
         IsEvent, brokerVars, historyVars
<1>5. ProcessedMeansApplied' /\ LostOnlyByFault'
  BY BodyFacts DEF IInv, TypeOK, CallInv, TableInv, ProcessedMeansApplied,
         LostOnlyByFault, SaveInserts, brokerVars, historyVars
<1>6. RecordedBeforeGone'
  BY DEF IInv, TypeOK, CallInv, RecordedBeforeGone, SaveInserts, Published,
         IsEvent, Gone, brokerVars, historyVars
<1>7. QED  BY <1>1, <1>2, <1>3, <1>4, <1>5, <1>6 DEF IInv

\* A redelivery, or a message whose insert was reported as failed.
LEMMA SaveFindsRowIInv ==
    ASSUME IInv, SaveFindsRow
    PROVE  IInv'
<1>1. TypeOK'
  BY DEF IInv, TypeOK, CallInv, SaveFindsRow, brokerVars, dbVars, historyVars
<1>2. Routed'
  BY DEF IInv, TypeOK, Routed, SaveFindsRow, Published, brokerVars, dbVars,
         historyVars
<1>3. CallInv'
  BY DEF IInv, TypeOK, CallInv, TableInv, SaveFindsRow, IsEvent, brokerVars,
         dbVars, historyVars
<1>4. TableInv' /\ AtMostOnce'
  BY DEF IInv, TypeOK, CallInv, TableInv, AtMostOnce, SaveFindsRow, IsEvent,
         brokerVars, dbVars, historyVars
<1>5. ProcessedMeansApplied' /\ LostOnlyByFault'
  BY DEF IInv, TypeOK, CallInv, TableInv, ProcessedMeansApplied,
         LostOnlyByFault, SaveFindsRow, brokerVars, dbVars, historyVars
<1>6. RecordedBeforeGone'
  BY DEF IInv, TypeOK, CallInv, RecordedBeforeGone, SaveFindsRow, Published,
         IsEvent, Gone, brokerVars, dbVars, historyVars
<1>7. QED  BY <1>1, <1>2, <1>3, <1>4, <1>5, <1>6 DEF IInv

\* An insert that fails, with or without a row left behind.
LEMMA SaveFailsIInv ==
    ASSUME IInv, SaveFails
    PROVE  IInv'
<1>1. TypeOK'
  BY DEF IInv, TypeOK, CallInv, SaveFails, InsertUncertain, Requeue, Return,
         NoEvent
<1>2. Routed'
  BY DEF IInv, TypeOK, Routed, CallInv, SaveFails, Published, IsEvent,
         InsertUncertain, Requeue, Return, NoEvent
<1>3. CallInv'
  BY DEF CallInv, SaveFails, Return
<1>4. TableInv' /\ AtMostOnce'
  BY DEF IInv, TypeOK, CallInv, TableInv, AtMostOnce, SaveFails, IsEvent,
         InsertUncertain, Requeue, Return, NoEvent
<1>5. ProcessedMeansApplied' /\ LostOnlyByFault'
  BY DEF IInv, TypeOK, CallInv, TableInv, ProcessedMeansApplied,
         LostOnlyByFault, SaveFails, InsertUncertain, Requeue, Return, NoEvent
<1>6. RecordedBeforeGone'
  BY DEF IInv, TypeOK, CallInv, RecordedBeforeGone, SaveFails, Published,
         IsEvent, Gone, InsertUncertain, Requeue, Return, NoEvent
<1>7. QED  BY <1>1, <1>2, <1>3, <1>4, <1>5, <1>6 DEF IInv

\* One more statement of the call in progress.
LEMMA RunStatementIInv ==
    ASSUME IInv, RunStatement
    PROVE  IInv'
<1>1. TypeOK'
  BY DEF IInv, TypeOK, CallInv, RunStatement, brokerVars, historyVars
<1>2. Routed'
  BY DEF IInv, TypeOK, Routed, RunStatement, Published, brokerVars, historyVars
<1>3. CallInv'
  BY BodyFacts DEF IInv, TypeOK, CallInv, TableInv, RunStatement, IsEvent,
         brokerVars, historyVars
<1>4. TableInv' /\ AtMostOnce'
  BY BodyFacts DEF IInv, TypeOK, CallInv, TableInv, AtMostOnce, RunStatement,
         IsEvent, brokerVars, historyVars
<1>5. ProcessedMeansApplied' /\ LostOnlyByFault'
  BY BodyFacts DEF IInv, TypeOK, CallInv, TableInv, ProcessedMeansApplied,
         LostOnlyByFault, RunStatement, brokerVars, historyVars
<1>6. RecordedBeforeGone'
  BY DEF IInv, TypeOK, CallInv, RecordedBeforeGone, RunStatement, Published,
         IsEvent, Gone, brokerVars, historyVars
<1>7. QED  BY <1>1, <1>2, <1>3, <1>4, <1>5, <1>6 DEF IInv

\* ProcessProjectEvent returns.
LEMMA FinishIInv ==
    ASSUME IInv, FinishProcessing
    PROVE  IInv'
<1>1. TypeOK'
  BY DEF IInv, TypeOK, CallInv, FinishProcessing, brokerVars, dbVars,
         historyVars
<1>2. Routed'
  BY DEF IInv, TypeOK, Routed, FinishProcessing, Published, brokerVars,
         dbVars, historyVars
<1>3. CallInv'
  BY DEF IInv, TypeOK, CallInv, TableInv, FinishProcessing, IsEvent,
         brokerVars, dbVars, historyVars
<1>4. TableInv' /\ AtMostOnce'
  BY DEF IInv, TypeOK, CallInv, TableInv, AtMostOnce, FinishProcessing,
         IsEvent, brokerVars, dbVars, historyVars
<1>5. ProcessedMeansApplied' /\ LostOnlyByFault'
  BY DEF IInv, TypeOK, CallInv, TableInv, ProcessedMeansApplied,
         LostOnlyByFault, FinishProcessing, brokerVars, dbVars, historyVars
<1>6. RecordedBeforeGone'
  BY DEF IInv, TypeOK, CallInv, RecordedBeforeGone, FinishProcessing,
         Published,
         IsEvent, Gone, brokerVars, dbVars, historyVars
<1>7. QED  BY <1>1, <1>2, <1>3, <1>4, <1>5, <1>6 DEF IInv

\* The call is given up half way.
LEMMA StatementFailsIInv ==
    ASSUME IInv, StatementFails
    PROVE  IInv'
<1>1. /\ current \in EventIds
      /\ current \in saved
      /\ IsEvent(current)
      /\ done[current] < body[current].statements
  BY DEF IInv, CallInv, StatementFails
<1>2. done' \in [EventIds -> Nat]
  BY <1>1 DEF IInv, TypeOK, StatementFails, StatementUncertain
<1>3. \A i \in EventIds : i # current => done'[i] = done[i]
  BY <1>1 DEF IInv, TypeOK, StatementFails, StatementUncertain
<1>4. done'[current] \in {done[current], done[current] + 1}
  BY <1>1 DEF IInv, TypeOK, StatementFails, StatementUncertain
<1>5. UNCHANGED <<body, buffer, link, saved, processed, requeued>>
  BY DEF StatementFails
<1>6. faulted' = faulted \cup {current} /\ phase' = "idle"
  BY DEF StatementFails, Return
<1>7. TypeOK'
  BY <1>1, <1>2 DEF IInv, TypeOK, StatementFails, Requeue, Return
<1>8. Routed'
  BY <1>1 DEF IInv, TypeOK, Routed, StatementFails, Requeue, Published,
              IsEvent
<1>9. CallInv'
  BY DEF CallInv, StatementFails, Return
<1>10. TableInv'
  BY <1>1, <1>3, <1>5 DEF IInv, TableInv, IsEvent
<1>11. AtMostOnce'
  <2>1. body[current].statements \in Nat /\ done[current] \in Nat
    BY <1>1, BodyFacts DEF IInv, TypeOK
  <2>2. done'[current] <= body[current].statements
    BY <1>1, <1>4, <2>1
  <2>3. QED  BY <2>2, <1>3, <1>5 DEF IInv, AtMostOnce
<1>12. ProcessedMeansApplied'
  BY <1>1, <1>3, <1>5 DEF IInv, TypeOK, ProcessedMeansApplied
<1>13. LostOnlyByFault'
  BY <1>3, <1>5, <1>6 DEF IInv, TypeOK, LostOnlyByFault
<1>14. RecordedBeforeGone'
  BY <1>1, <1>5 DEF IInv, TypeOK, RecordedBeforeGone, StatementFails,
                    Requeue, Published, IsEvent, Gone
<1>15. QED
  BY <1>7, <1>8, <1>9, <1>10, <1>11, <1>12, <1>13, <1>14 DEF IInv

\* processed_at is written.
LEMMA MarkSucceedsIInv ==
    ASSUME IInv, MarkSucceeds
    PROVE  IInv'
<1>1. TypeOK'
  BY DEF IInv, TypeOK, CallInv, MarkSucceeds, brokerVars, historyVars
<1>2. Routed'
  BY DEF IInv, TypeOK, Routed, MarkSucceeds, Published, brokerVars, historyVars
<1>3. CallInv'
  BY DEF IInv, TypeOK, CallInv, TableInv, MarkSucceeds, IsEvent, brokerVars,
         historyVars
<1>4. TableInv' /\ AtMostOnce'
  BY DEF IInv, TypeOK, CallInv, TableInv, AtMostOnce, MarkSucceeds, IsEvent,
         brokerVars, historyVars
<1>5. ProcessedMeansApplied' /\ LostOnlyByFault'
  BY DEF IInv, TypeOK, CallInv, TableInv, ProcessedMeansApplied,
         LostOnlyByFault, MarkSucceeds, brokerVars, historyVars
<1>6. RecordedBeforeGone'
  BY DEF IInv, TypeOK, CallInv, RecordedBeforeGone, MarkSucceeds, Published,
         IsEvent, Gone, brokerVars, historyVars
<1>7. QED  BY <1>1, <1>2, <1>3, <1>4, <1>5, <1>6 DEF IInv

\* processed_at may or may not be written.
LEMMA MarkFailsIInv ==
    ASSUME IInv, MarkFails
    PROVE  IInv'
<1>1. TypeOK'
  BY DEF IInv, TypeOK, CallInv, MarkFails, Requeue, Return, NoEvent,
         historyVars
<1>2. Routed'
  BY DEF IInv, TypeOK, Routed, CallInv, MarkFails, Published, IsEvent,
         Requeue, Return, NoEvent, historyVars
<1>3. CallInv'
  BY DEF CallInv, MarkFails, Return
<1>4. TableInv' /\ AtMostOnce'
  BY DEF IInv, TypeOK, CallInv, TableInv, AtMostOnce, MarkFails, IsEvent,
         Requeue, Return, NoEvent, historyVars
<1>5. ProcessedMeansApplied' /\ LostOnlyByFault'
  BY DEF IInv, TypeOK, CallInv, TableInv, ProcessedMeansApplied,
         LostOnlyByFault, MarkFails, Requeue, Return, NoEvent, historyVars
<1>6. RecordedBeforeGone'
  BY DEF IInv, TypeOK, CallInv, RecordedBeforeGone, MarkFails, Published,
         IsEvent, Gone, Requeue, Return, NoEvent, historyVars
<1>7. QED  BY <1>1, <1>2, <1>3, <1>4, <1>5, <1>6 DEF IInv

\* The message is acknowledged: its row is there.
LEMMA AckIInv ==
    ASSUME IInv, AckMessage
    PROVE  IInv'
<1>1. TypeOK'
  BY DEF IInv, TypeOK, CallInv, AckMessage, Settle, Return, NoEvent, dbVars,
         historyVars
<1>2. Routed'
  BY DEF IInv, TypeOK, Routed, AckMessage, Published, Settle, Return,
         NoEvent, dbVars, historyVars
<1>3. CallInv'
  BY DEF CallInv, AckMessage, Return
<1>4. TableInv' /\ AtMostOnce'
  BY DEF IInv, TypeOK, CallInv, TableInv, AtMostOnce, AckMessage, IsEvent,
         Settle, Return, NoEvent, dbVars, historyVars
<1>5. ProcessedMeansApplied' /\ LostOnlyByFault'
  BY DEF IInv, TypeOK, CallInv, TableInv, ProcessedMeansApplied,
         LostOnlyByFault, AckMessage, Settle, Return, NoEvent, dbVars,
         historyVars
<1>6. RecordedBeforeGone'
  BY DEF IInv, TypeOK, CallInv, RecordedBeforeGone, AckMessage, Published,
         IsEvent, Gone, Settle, Return, NoEvent, dbVars, historyVars
<1>7. QED  BY <1>1, <1>2, <1>3, <1>4, <1>5, <1>6 DEF IInv

\* The channel closes under the call in progress.
LEMMA CutLinkIInv ==
    ASSUME IInv, CutLink
    PROVE  IInv'
<1>1. TypeOK'
  BY DEF IInv, TypeOK, CallInv, CutLink, TakeBackUnacked, dbVars, historyVars
<1>2. Routed'
  BY DEF IInv, TypeOK, Routed, CutLink, Published, TakeBackUnacked, dbVars,
         historyVars
<1>3. CallInv'
  BY DEF IInv, TypeOK, CallInv, TableInv, CutLink, IsEvent, TakeBackUnacked,
         dbVars, historyVars
<1>4. TableInv' /\ AtMostOnce'
  BY DEF IInv, TypeOK, CallInv, TableInv, AtMostOnce, CutLink, IsEvent,
         TakeBackUnacked, dbVars, historyVars
<1>5. ProcessedMeansApplied' /\ LostOnlyByFault'
  BY DEF IInv, TypeOK, CallInv, TableInv, ProcessedMeansApplied,
         LostOnlyByFault, CutLink, TakeBackUnacked, dbVars, historyVars
<1>6. RecordedBeforeGone'
  BY DEF IInv, TypeOK, CallInv, RecordedBeforeGone, CutLink, Published,
         IsEvent, Gone, TakeBackUnacked, dbVars, historyVars
<1>7. QED  BY <1>1, <1>2, <1>3, <1>4, <1>5, <1>6 DEF IInv

\* The process dies.
LEMMA CrashIInv ==
    ASSUME IInv, Crash
    PROVE  IInv'
<1>1. TypeOK'
  BY DEF IInv, TypeOK, CallInv, Crash, TakeBackUnacked, Return, NoEvent, dbVars
<1>2. Routed'
  BY DEF IInv, TypeOK, Routed, Crash, Published, TakeBackUnacked, Return,
         NoEvent, dbVars
<1>3. CallInv'
  BY DEF CallInv, Crash, Return
<1>4. TableInv' /\ AtMostOnce'
  BY DEF IInv, TypeOK, CallInv, TableInv, AtMostOnce, Crash, IsEvent,
         TakeBackUnacked, Return, NoEvent, dbVars
<1>5. ProcessedMeansApplied' /\ LostOnlyByFault'
  BY DEF IInv, TypeOK, CallInv, TableInv, ProcessedMeansApplied,
         LostOnlyByFault, Crash, TakeBackUnacked, Return, NoEvent, dbVars
<1>6. RecordedBeforeGone'
  BY DEF IInv, TypeOK, CallInv, RecordedBeforeGone, Crash, Published,
         IsEvent, Gone, TakeBackUnacked, Return, NoEvent, dbVars
<1>7. QED  BY <1>1, <1>2, <1>3, <1>4, <1>5, <1>6 DEF IInv

\* A new process connects.
LEMMA RestartIInv ==
    ASSUME IInv, Restart
    PROVE  IInv'
<1>1. TypeOK'
  BY DEF IInv, TypeOK, CallInv, Restart, brokerVars, handlerVars, dbVars,
         historyVars
<1>2. Routed'
  BY DEF IInv, TypeOK, Routed, Restart, Published, brokerVars, handlerVars,
         dbVars, historyVars
<1>3. CallInv'
  BY DEF IInv, TypeOK, CallInv, TableInv, Restart, IsEvent, brokerVars,
         handlerVars, dbVars, historyVars
<1>4. TableInv' /\ AtMostOnce'
  BY DEF IInv, TypeOK, CallInv, TableInv, AtMostOnce, Restart, IsEvent,
         brokerVars, handlerVars, dbVars, historyVars
<1>5. ProcessedMeansApplied' /\ LostOnlyByFault'
  BY DEF IInv, TypeOK, CallInv, TableInv, ProcessedMeansApplied,
         LostOnlyByFault, Restart, brokerVars, handlerVars, dbVars, historyVars
<1>6. RecordedBeforeGone'
  BY DEF IInv, TypeOK, CallInv, RecordedBeforeGone, Restart, Published,
         IsEvent, Gone, brokerVars, handlerVars, dbVars, historyVars
<1>7. QED  BY <1>1, <1>2, <1>3, <1>4, <1>5, <1>6 DEF IInv

-----------------------------------------------------------------------------

\* The strengthened invariant holds throughout every behaviour.
THEOREM ConsumerInvariant == Spec => []IInv
<1>1. Init => IInv
  BY InitIInv
<1>2. IInv /\ [Next]_vars => IInv'
  <2> SUFFICES ASSUME IInv, [Next]_vars
               PROVE  IInv'
    OBVIOUS
  <2>1. CASE UNCHANGED vars
    BY <2>1 DEF vars, brokerVars, handlerVars, dbVars, historyVars, IInv,
                TypeOK, Routed, CallInv, TableInv, AtMostOnce,
                RecordedBeforeGone, ProcessedMeansApplied, LostOnlyByFault,
                Published, IsEvent, Gone
  <2>2. CASE Next
    BY <2>2, PublishIInv, DeliverIInv, TakeEventIInv, DiscardIInv,
       SaveInsertsIInv, SaveFindsRowIInv, SaveFailsIInv, RunStatementIInv,
       FinishIInv, StatementFailsIInv, MarkSucceedsIInv, MarkFailsIInv,
       AckIInv, CutLinkIInv, CrashIInv, RestartIInv
       DEF Next
  <2>3. QED  BY <2>1, <2>2
<1>3. QED  BY <1>1, <1>2, PTL DEF Spec

\* handleMessage and the tables keep their types.
THEOREM ConsumerTypeCorrect == Spec => []TypeOK
<1>1. IInv => TypeOK
  BY DEF IInv
<1>2. QED  BY <1>1, ConsumerInvariant, PTL

\* No redelivery, crash or failed insert makes a statement run twice.
THEOREM EffectsAtMostOnce == Spec => []AtMostOnce
<1>1. IInv => AtMostOnce
  BY DEF IInv
<1>2. QED  BY <1>1, ConsumerInvariant, PTL

\* The broker deletes an event only after its row is in the database.
THEOREM NothingVanishesUnrecorded == Spec => []RecordedBeforeGone
<1>1. IInv => RecordedBeforeGone
  BY DEF IInv
<1>2. QED  BY <1>1, ConsumerInvariant, PTL

\* processed_at is never written for an event with an effect missing.
THEOREM ProcessedIsApplied == Spec => []ProcessedMeansApplied
<1>1. IInv => ProcessedMeansApplied
  BY DEF IInv
<1>2. QED  BY <1>1, ConsumerInvariant, PTL

\* Without a fault after it was recorded, a recorded event is applied in full.
THEOREM LossNeedsAFault == Spec => []LostOnlyByFault
<1>1. IInv => LostOnlyByFault
  BY DEF IInv
<1>2. QED  BY <1>1, ConsumerInvariant, PTL

-----------------------------------------------------------------------------
(* Order.  Whether an event may have been overtaken depends on where the    *)
(* messages are: a second invariant, on top of the first, follows them from *)
(* the queue through the client to the handler.                             *)

\* An event that is neither recorded nor was ever sent back.
Fresh(i) == IsEvent(i) /\ i \notin saved \cup requeued

PublishedInOrder ==
    \A i, j \in EventIds : i < j /\ Published(j) => Published(i)

\* While the channel is open, the client has what the broker has delivered;
\* when it closes, the broker takes everything back.
DeliveriesAtHand ==
    /\ link = "up" =>
          \A i \in unacked : i = current \/ \E k \in DOMAIN buffer : buffer[k] = i
    /\ link # "up" => unacked = {}

\* What was published after a fresh event is behind it everywhere.
FreshFirst ==
    \A i, j \in EventIds :
        i < j /\ Fresh(i) =>
            /\ j \notin saved
            /\ j # current
            /\ \A q \in DOMAIN buffer :
                  buffer[q] = j => \/ i = current
                                   \/ \E p \in DOMAIN buffer : p < q /\ buffer[p] = i

OrderInv == PublishedInOrder /\ DeliveriesAtHand /\ FreshFirst

LEMMA OrderUntouched ==
    ASSUME OrderInv,
           UNCHANGED <<body, unacked, buffer, current, link, saved, requeued>>
    PROVE  OrderInv'
BY DEF OrderInv, PublishedInOrder, DeliveriesAtHand, FreshFirst, Fresh,
       Published, IsEvent

LEMMA PublishKeepsOrder ==
    ASSUME IInv, OrderInv, NEW i \in EventIds, NEW b \in Bodies, Publish(i, b)
    PROVE  OrderInv'
<1>1. /\ UNCHANGED <<unacked, buffer, current, link, saved, requeued>>
      /\ ~Published(i) /\ \A j \in EventIds : j < i => Published(j)
      /\ \A j \in EventIds : j # i => body'[j] = body[j]
      /\ body'[i] = b
  BY DEF Publish, handlerVars, dbVars, historyVars, IInv, TypeOK
<1>2. \A j \in EventIds : i < j => ~Published(j)
  BY <1>1 DEF OrderInv, PublishedInOrder
<1>3. \A j \in EventIds : i < j =>
          j \notin saved /\ j # current /\ \A q \in DOMAIN buffer : buffer[q] # j
  BY <1>2, NoEventIsNone
     DEF IInv, TypeOK, Routed, CallInv, TableInv, IsEvent, Published
<1>4. PublishedInOrder'
  BY <1>1, BodyFacts DEF OrderInv, PublishedInOrder, Published
<1>5. FreshFirst'
  BY <1>1, <1>3 DEF OrderInv, FreshFirst, Fresh, IsEvent
<1> QED
  BY <1>1, <1>4, <1>5 DEF OrderInv, DeliveriesAtHand

\* The oldest message goes out first, so every fresh event before it is with
\* the client already.
LEMMA DeliverKeepsOrder ==
    ASSUME IInv, OrderInv, NEW i \in EventIds, Deliver(i)
    PROVE  OrderInv'
<1>1. /\ UNCHANGED <<body, current, link, saved, requeued>>
      /\ link = "up" /\ i \in ready /\ \A j \in ready : i <= j
      /\ unacked' = unacked \cup {i}
      /\ buffer' = Append(buffer, i)
  BY DEF Deliver, dbVars, historyVars
<1>2. /\ Len(buffer) \in Nat /\ DOMAIN buffer = 1..Len(buffer)
      /\ DOMAIN buffer' = 1..(Len(buffer) + 1)
      /\ \A q \in DOMAIN buffer : buffer'[q] = buffer[q]
      /\ buffer'[Len(buffer) + 1] = i
  BY <1>1 DEF IInv, TypeOK
<1>3. ASSUME NEW j \in EventIds, j < i, Fresh(j)
      PROVE  j = current \/ \E p \in DOMAIN buffer : buffer[p] = j
  <2>1. Published(j)
    BY <1>1, <1>3 DEF OrderInv, PublishedInOrder, IInv, Routed
  <2>2. j \in ready \cup unacked
    BY <1>3, <2>1 DEF IInv, RecordedBeforeGone, Fresh, Gone
  <2>3. j \in unacked
    BY <1>1, <1>3, <2>2 DEF IInv, TypeOK, EventIds
  <2> QED
    BY <1>1, <2>3 DEF OrderInv, DeliveriesAtHand
<1>4. ASSUME NEW h \in EventIds, NEW j \in EventIds, h < j, Fresh(h),
             NEW q \in DOMAIN buffer', buffer'[q] = j
      PROVE  h = current \/ \E p \in DOMAIN buffer' : p < q /\ buffer'[p] = h
  <2>1. CASE q \in DOMAIN buffer
    <3>1. h = current \/ \E p \in DOMAIN buffer : p < q /\ buffer[p] = h
      BY <1>2, <1>4, <2>1 DEF OrderInv, FreshFirst
    <3> QED
      BY <1>2, <3>1
  <2>2. CASE q = Len(buffer) + 1
    <3>1. j = i
      BY <1>2, <1>4, <2>2
    <3>2. h = current \/ \E p \in DOMAIN buffer : buffer[p] = h
      BY <1>3, <1>4, <3>1
    <3> QED
      BY <1>2, <2>2, <3>2
  <2> QED
    BY <1>2, <2>1, <2>2
<1>5. FreshFirst'
  BY <1>1, <1>4 DEF OrderInv, FreshFirst, Fresh, IsEvent
<1>6. DeliveriesAtHand'
  BY <1>1, <1>2 DEF OrderInv, DeliveriesAtHand
<1>7. PublishedInOrder'
  BY <1>1 DEF OrderInv, PublishedInOrder, Published
<1> QED
  BY <1>5, <1>6, <1>7 DEF OrderInv

\* The buffer without its first message.
LEMMA BufferTail ==
    ASSUME TypeOK, buffer # <<>>, buffer' = Tail(buffer)
    PROVE  /\ Len(buffer) \in Nat \ {0} /\ DOMAIN buffer = 1..Len(buffer)
           /\ Head(buffer) = buffer[1] /\ Head(buffer) \in EventIds
           /\ DOMAIN buffer' = 1..(Len(buffer) - 1)
           /\ \A q \in DOMAIN buffer' : buffer'[q] = buffer[q + 1]
           /\ \A q \in DOMAIN buffer : q # 1 =>
                 q - 1 \in DOMAIN buffer' /\ buffer'[q - 1] = buffer[q]
BY DEF TypeOK

LEMMA TakeEventKeepsOrder ==
    ASSUME IInv, OrderInv, TakeEvent
    PROVE  OrderInv'
<1>1. /\ UNCHANGED <<body, unacked, link, saved, requeued>>
      /\ buffer # <<>> /\ buffer' = Tail(buffer)
      /\ current = NoEvent /\ current' = Head(buffer)
  BY DEF TakeEvent, brokerVars, dbVars, historyVars, IInv, TypeOK
<1>2. TypeOK /\ NoEvent \notin EventIds
  BY NoEventIsNone DEF IInv
<1>3. ASSUME NEW h \in EventIds, NEW j \in EventIds, h < j, Fresh(h)
      PROVE  /\ j \notin saved
             /\ j # current'
             /\ \A q \in DOMAIN buffer' : buffer'[q] = j =>
                   \/ h = current'
                   \/ \E p \in DOMAIN buffer' : p < q /\ buffer'[p] = h
  <2>1. \A q \in DOMAIN buffer : buffer[q] = j =>
            \E p \in DOMAIN buffer : p < q /\ buffer[p] = h
    BY <1>1, <1>2, <1>3 DEF OrderInv, FreshFirst
  <2>2. j # current'
    BY <1>1, <1>2, <2>1, BufferTail
  <2>3. ASSUME NEW q \in DOMAIN buffer', buffer'[q] = j
        PROVE  \/ h = current'
               \/ \E p \in DOMAIN buffer' : p < q /\ buffer'[p] = h
    <3>1. PICK p \in DOMAIN buffer : p < q + 1 /\ buffer[p] = h
      BY <1>1, <1>2, <2>1, <2>3, BufferTail
    <3>2. CASE p = 1
      BY <1>1, <1>2, <3>1, <3>2, BufferTail
    <3>3. CASE p # 1
      <4>1. p - 1 \in DOMAIN buffer' /\ buffer'[p - 1] = h /\ p - 1 < q
        BY <1>1, <1>2, <3>1, <3>3, BufferTail
      <4> QED
        BY <4>1
    <3> QED
      BY <3>2, <3>3
  <2> QED
    BY <1>3, <2>2, <2>3 DEF OrderInv, FreshFirst
<1>4. FreshFirst'
  BY <1>1, <1>3 DEF FreshFirst, Fresh, IsEvent
<1>5. DeliveriesAtHand'
  <2>1. ASSUME NEW i \in unacked, link = "up"
        PROVE  i = current' \/ \E k \in DOMAIN buffer' : buffer'[k] = i
    <3>1. PICK k \in DOMAIN buffer : buffer[k] = i
      BY <1>1, <1>2, <2>1 DEF OrderInv, DeliveriesAtHand, TypeOK
    <3>2. CASE k = 1
      BY <1>1, <1>2, <3>1, <3>2, BufferTail
    <3>3. CASE k # 1
      BY <1>1, <1>2, <3>1, <3>3, BufferTail
    <3> QED
      BY <3>2, <3>3
  <2> QED
    BY <1>1, <2>1 DEF OrderInv, DeliveriesAtHand
<1>6. PublishedInOrder'
  BY <1>1 DEF OrderInv, PublishedInOrder, Published
<1> QED
  BY <1>4, <1>5, <1>6 DEF OrderInv

\* What is discarded is no event, so nothing fresh leaves its place.
LEMMA DiscardKeepsOrder ==
    ASSUME IInv, OrderInv, DiscardMessage
    PROVE  OrderInv'
<1>1. /\ UNCHANGED <<body, current, link, saved, requeued>>
      /\ buffer # <<>> /\ buffer' = Tail(buffer)
      /\ ~IsEvent(Head(buffer))
      /\ unacked' = IF link = "up" THEN unacked \ {Head(buffer)} ELSE unacked
  BY DEF DiscardMessage, Settle, dbVars, historyVars
<1>2. TypeOK
  BY DEF IInv
<1>3. ASSUME NEW h \in EventIds, NEW j \in EventIds, h < j, Fresh(h)
      PROVE  \A q \in DOMAIN buffer' : buffer'[q] = j =>
                \/ h = current
                \/ \E p \in DOMAIN buffer' : p < q /\ buffer'[p] = h
  <2>1. SUFFICES ASSUME NEW q \in DOMAIN buffer', buffer'[q] = j, h # current
                 PROVE  \E p \in DOMAIN buffer' : p < q /\ buffer'[p] = h
    OBVIOUS
  <2>2. PICK p \in DOMAIN buffer : p < q + 1 /\ buffer[p] = h
    BY <1>1, <1>2, <1>3, <2>1, BufferTail DEF OrderInv, FreshFirst
  <2>3. p # 1
    BY <1>1, <1>2, <1>3, <2>2, BufferTail DEF Fresh
  <2>4. p - 1 \in DOMAIN buffer' /\ buffer'[p - 1] = h /\ p - 1 < q
    BY <1>1, <1>2, <2>2, <2>3, BufferTail
  <2> QED
    BY <2>4
<1>4. FreshFirst'
  BY <1>1, <1>3 DEF OrderInv, FreshFirst, Fresh, IsEvent
<1>5. DeliveriesAtHand'
  <2>1. ASSUME NEW i \in unacked', link = "up"
        PROVE  i = current \/ \E k \in DOMAIN buffer' : buffer'[k] = i
    <3>1. i \in unacked /\ i # Head(buffer)
      BY <1>1, <2>1
    <3>2. CASE i # current
      <4>1. PICK k \in DOMAIN buffer : buffer[k] = i
        BY <2>1, <3>1, <3>2 DEF OrderInv, DeliveriesAtHand
      <4>2. k # 1
        BY <1>1, <1>2, <3>1, <4>1, BufferTail
      <4> QED
        BY <1>1, <1>2, <4>1, <4>2, BufferTail
    <3> QED
      BY <3>2
  <2>2. link # "up" => unacked' = {}
    BY <1>1 DEF OrderInv, DeliveriesAtHand
  <2> QED
    BY <1>1, <2>1, <2>2 DEF DeliveriesAtHand
<1>6. PublishedInOrder'
  BY <1>1 DEF OrderInv, PublishedInOrder, Published
<1> QED
  BY <1>4, <1>5, <1>6 DEF OrderInv

LEMMA SaveInsertsKeepsOrder ==
    ASSUME IInv, OrderInv, SaveInserts
    PROVE  OrderInv'
<1>1. /\ UNCHANGED <<body, unacked, buffer, current, link, requeued>>
      /\ saved' = saved \cup {current}
  BY DEF SaveInserts, brokerVars, historyVars
<1>2. FreshFirst'
  BY <1>1 DEF OrderInv, FreshFirst, Fresh, IsEvent
<1> QED
  BY <1>1, <1>2 DEF OrderInv, PublishedInOrder, Published, DeliveriesAtHand

\* The call ends, and its event, not fresh any more, is the client's no more.
LEMMA ReturnKeepsOrder ==
    ASSUME IInv, OrderInv, phase # "idle", Return,
           UNCHANGED <<body, buffer, link>>,
           unacked' = IF link = "up" THEN unacked \ {current} ELSE unacked,
           saved' \in {saved, saved \cup {current}},
           requeued' \in {requeued, requeued \cup {current}},
           current \in saved' \cup requeued'
    PROVE  OrderInv'
<1>1. ASSUME NEW h \in EventIds, NEW j \in EventIds, h < j, Fresh(h)'
      PROVE  /\ j \notin saved'
             /\ j # current'
             /\ \A q \in DOMAIN buffer : buffer[q] = j =>
                   \E p \in DOMAIN buffer : p < q /\ buffer[p] = h
  <2>1. Fresh(h) /\ h # current
    BY <1>1 DEF Fresh, IsEvent
  <2>2. j # current' /\ j # NoEvent
    BY NoEventIsNone DEF Return
  <2> QED
    BY <1>1, <2>1, <2>2 DEF OrderInv, FreshFirst
<1>2. FreshFirst'
  BY <1>1 DEF FreshFirst
<1>3. DeliveriesAtHand'
  BY DEF OrderInv, DeliveriesAtHand
<1> QED
  BY <1>2, <1>3 DEF OrderInv, PublishedInOrder, Published

LEMMA TakeBackKeepsOrder ==
    ASSUME IInv, OrderInv, TakeBackUnacked, link' # "up",
           UNCHANGED <<body, saved, requeued>>, current' \in {current, NoEvent}
    PROVE  OrderInv'
<1>1. FreshFirst'
  BY NoEventIsNone DEF OrderInv, FreshFirst, Fresh, IsEvent, TakeBackUnacked
<1> QED
  BY <1>1 DEF OrderInv, PublishedInOrder, Published, DeliveriesAtHand,
              TakeBackUnacked

LEMMA RestartKeepsOrder ==
    ASSUME OrderInv, Restart
    PROVE  OrderInv'
BY DEF Restart, brokerVars, handlerVars, dbVars, historyVars, OrderInv,
       PublishedInOrder, Published, DeliveriesAtHand, FreshFirst, Fresh, IsEvent

LEMMA StepKeepsOrder ==
    ASSUME IInv, OrderInv, Next
    PROVE  OrderInv'
<1>1. CASE SaveFindsRow \/ RunStatement \/ FinishProcessing \/ MarkSucceeds
  BY <1>1, OrderUntouched
     DEF SaveFindsRow, RunStatement, FinishProcessing, MarkSucceeds,
         brokerVars, dbVars, historyVars
<1>2. CASE SaveFails
  <2>1. current \in saved' \cup requeued'
    BY <1>2 DEF SaveFails
  <2> QED
    BY <1>2, <2>1, ReturnKeepsOrder DEF SaveFails, InsertUncertain, Requeue
<1>3. CASE StatementFails
  BY <1>3, ReturnKeepsOrder DEF StatementFails, Requeue, IInv, CallInv
<1>4. CASE MarkFails
  BY <1>4, ReturnKeepsOrder DEF MarkFails, Requeue, IInv, CallInv, historyVars
<1>5. CASE AckMessage
  BY <1>5, ReturnKeepsOrder
     DEF AckMessage, Settle, IInv, CallInv, dbVars, historyVars
<1>6. CASE CutLink
  BY <1>6, TakeBackKeepsOrder DEF CutLink, dbVars, historyVars
<1>7. CASE Crash
  BY <1>7, TakeBackKeepsOrder DEF Crash, Return, dbVars
<1> QED
  BY <1>1, <1>2, <1>3, <1>4, <1>5, <1>6, <1>7, PublishKeepsOrder,
     DeliverKeepsOrder, TakeEventKeepsOrder, DiscardKeepsOrder,
     SaveInsertsKeepsOrder, RestartKeepsOrder DEF Next

\* An event is overtaken only after SaveRawEvent sent it back: neither errors
\* in its statements, nor a closed channel, nor restarts change the order in
\* which events take effect.
THEOREM OrderIsKept == Spec => []InOrderUnlessRequeued
<1>1. Init => OrderInv
  BY DEF Init, OrderInv, PublishedInOrder, DeliveriesAtHand, FreshFirst, Fresh,
         Published, IsEvent, Unpublished
<1>2. IInv /\ OrderInv /\ [Next]_vars => OrderInv'
  <2> SUFFICES ASSUME IInv, OrderInv, [Next]_vars PROVE OrderInv'
    OBVIOUS
  <2>1. CASE UNCHANGED vars
    BY <2>1, OrderUntouched
       DEF vars, brokerVars, handlerVars, dbVars, historyVars
  <2> QED
    BY <2>1, StepKeepsOrder
<1>3. OrderInv => InOrderUnlessRequeued
  BY DEF OrderInv, FreshFirst, Fresh, InOrderUnlessRequeued
<1> QED
  BY <1>1, <1>2, <1>3, ConsumerInvariant, PTL DEF Spec

-----------------------------------------------------------------------------
(* The consumer implements EventDelivery: each step changes the fate of one *)
(* event at most, along an edge of EventDelivery.                           *)

\* The fate of event i moves along an edge of EventDelivery.
FateMoves(i) ==
    \/ FateOf(i) = "unpublished" /\ FateOf(i)' = "waiting"
    \/ FateOf(i) = "waiting" /\ FateOf(i)' = "discarded"
    \/ FateOf(i) = "waiting" /\ FateOf(i)' = "started"
    \/ FateOf(i) \in {"waiting", "started"} /\ FateOf(i)' = "applied"
    \/ FateOf(i) \in {"waiting", "started"} /\ FateOf(i)' = "lost"

FateStays(i) == FateOf(i)' = FateOf(i)

LEMMA FatesStay ==
    ASSUME \A i \in EventIds : FateStays(i)
    PROVE  UNCHANGED [i \in EventIds |-> FateOf(i)]
  BY DEF FateStays

LEMMA OneFateMoves ==
    ASSUME NEW i \in EventIds,
           FateMoves(i),
           \A j \in EventIds \ {i} : FateStays(j)
    PROVE  Delivery!Next
<1> DEFINE fate == [j \in EventIds |-> FateOf(j)]
<1>1. \A to : FateOf(i)' = to => fate' = [fate EXCEPT ![i] = to]
  BY DEF FateStays
<1>2. fate[i] = FateOf(i)
  OBVIOUS
<1>3. FateOf(i)' = "lost" =>
         fate' = [j \in EventIds |-> IF j \in {i} THEN "lost" ELSE fate[j]]
  BY DEF FateStays
<1>4. \/ Delivery!Publish(i) \/ Delivery!Discard(i) \/ Delivery!Begin(i)
      \/ Delivery!Apply(i) \/ Delivery!Lose({i})
  BY <1>1, <1>2, <1>3
     DEF FateMoves, Delivery!Publish, Delivery!Discard, Delivery!Begin,
         Delivery!Apply, Delivery!Lose, Delivery!Become, Delivery!EventIds,
         EventIds
<1>5. {i} \in SUBSET EventIds
  OBVIOUS
<1>6. QED  BY <1>4, <1>5 DEF Delivery!Next, Delivery!EventIds, EventIds

LEMMA InitFates ==
    ASSUME Init
    PROVE  Delivery!Init
<1>1. \A i \in EventIds : FateOf(i) = "unpublished"
  BY DEF Init, FateOf, Published, IsEvent, Unpublished
<1>2. [i \in EventIds |-> FateOf(i)] = [i \in EventIds |-> "unpublished"]
  BY <1>1
<1>3. QED  BY <1>2 DEF Delivery!Init, Delivery!EventIds, EventIds

\* The step of each action, seen on the fates.
LEMMA StepFates ==
    ASSUME IInv, IInv', Next
    PROVE  \/ \A i \in EventIds : FateStays(i)
           \/ \E i \in EventIds :
                 /\ FateMoves(i)
                 /\ \A j \in EventIds \ {i} : FateStays(j)
<1>1. ASSUME NEW i \in EventIds, NEW b \in Bodies, Publish(i, b)
      PROVE  FateMoves(i) /\ \A j \in EventIds \ {i} : FateStays(j)
  BY <1>1, BodyFacts
     DEF IInv, TypeOK, TableInv, Publish, FateMoves, FateStays, FateOf,
         Published, IsEvent, Gone, handlerVars, dbVars
<1>2. ASSUME NEW i \in EventIds, Deliver(i)
      PROVE  \A j \in EventIds : FateStays(j)
  BY <1>2 DEF IInv, TypeOK, Deliver, FateStays, FateOf, Published, IsEvent,
              Gone, dbVars
<1>3. CASE TakeEvent
  BY <1>3 DEF IInv, TypeOK, TakeEvent, FateStays, FateOf, Published, IsEvent,
              Gone, brokerVars, dbVars
<1>4. CASE DiscardMessage
  BY <1>4 DEF IInv, TypeOK, Routed, DiscardMessage, Settle, FateMoves,
              FateStays, FateOf, Published, IsEvent, Gone, dbVars
<1>5. CASE SaveInserts
  BY <1>5 DEF IInv, TypeOK, CallInv, SaveInserts, FateMoves, FateStays,
              FateOf, Published, IsEvent, Gone, brokerVars
<1>6. CASE SaveFindsRow
  BY <1>6 DEF IInv, TypeOK, SaveFindsRow, FateStays, FateOf, Published,
              IsEvent, Gone, brokerVars, dbVars
<1>7. CASE SaveFails
  BY <1>7 DEF IInv, TypeOK, CallInv, SaveFails, InsertUncertain, Requeue,
              Return, FateMoves, FateStays, FateOf, Published, IsEvent, Gone
<1>8. CASE RunStatement
  BY <1>8 DEF IInv, TypeOK, CallInv, RunStatement, FateStays, FateOf,
              Published, IsEvent, Gone, brokerVars
<1>9. CASE FinishProcessing
  BY <1>9 DEF IInv, TypeOK, CallInv, FinishProcessing, FateMoves, FateStays,
              FateOf, Published, IsEvent, Gone, brokerVars, dbVars
<1>10. CASE StatementFails
  BY <1>10 DEF IInv, TypeOK, CallInv, StatementFails, StatementUncertain,
               Requeue, Return, FateMoves, FateStays, FateOf, Published,
               IsEvent, Gone
<1>11. CASE MarkSucceeds
  BY <1>11 DEF IInv, TypeOK, MarkSucceeds, FateStays, FateOf, Published,
               IsEvent, Gone, brokerVars
<1>12. CASE MarkFails
  BY <1>12 DEF IInv, TypeOK, CallInv, MarkFails, Requeue, Return, FateStays,
               FateOf, Published, IsEvent, Gone
<1>13. CASE AckMessage
  BY <1>13 DEF IInv, TypeOK, CallInv, AckMessage, Settle, Return, FateStays,
               FateOf, Published, IsEvent, Gone, dbVars
<1>14. CASE CutLink
  BY <1>14 DEF IInv, TypeOK, CutLink, TakeBackUnacked, FateStays, FateOf,
               Published, IsEvent, Gone, dbVars
<1>15. CASE Crash
  BY <1>15 DEF IInv, TypeOK, CallInv, Crash, TakeBackUnacked, Return, NoEvent,
               EventIds, FateMoves, FateStays, FateOf, Published, IsEvent,
               Gone, dbVars
<1>16. CASE Restart
  BY <1>16 DEF Restart, FateStays, FateOf, Published, IsEvent, Gone,
               brokerVars, handlerVars, dbVars
<1>17. QED
  BY <1>1, <1>2, <1>3, <1>4, <1>5, <1>6, <1>7, <1>8, <1>9, <1>10, <1>11,
     <1>12, <1>13, <1>14, <1>15, <1>16 DEF Next

\* Every behaviour of the consumer is one of EventDelivery.
THEOREM ConsumerImplementsDelivery == Spec => DeliversAtMostOnce
<1>1. Init => Delivery!Init
  BY InitFates
<1>2. IInv /\ IInv' /\ [Next]_vars
        => [Delivery!Next]_[i \in EventIds |-> FateOf(i)]
  <2> SUFFICES ASSUME IInv, IInv', [Next]_vars
               PROVE  [Delivery!Next]_[i \in EventIds |-> FateOf(i)]
    OBVIOUS
  <2>1. CASE UNCHANGED vars
    <3>1. \A i \in EventIds : FateStays(i)
      BY <2>1 DEF vars, brokerVars, handlerVars, dbVars, FateStays, FateOf,
                  Published, IsEvent, Gone
    <3>2. QED  BY <3>1, FatesStay
  <2>2. CASE Next
    BY <2>2, StepFates, FatesStay, OneFateMoves
  <2>3. QED  BY <2>1, <2>2
<1>3. QED
  BY <1>1, <1>2, ConsumerInvariant, PTL
     DEF Spec, DeliversAtMostOnce, Delivery!Spec

=============================================================================
