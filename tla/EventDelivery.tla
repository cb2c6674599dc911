--------------------------- MODULE EventDelivery ---------------------------
(***************************************************************************)
(* What a queue consumer of this system promises about one event: its      *)
(* effects are started at most once, and once the event has come to rest   *)
(* (applied, lost half way, or discarded unread) no redelivery wakes it    *)
(* up again.  Nothing promises that a published event is applied: a        *)
(* database error or a restart in the middle of its effects loses it.      *)
(*                                                                         *)
(* NotificationConsumer and TaskAnalytics implement this specification.    *)
(***************************************************************************)
EXTENDS Naturals

CONSTANT MaxEvents   \* how many events the producers publish

EventIds == 1..MaxEvents   \* an event is named by its place in the queue

VARIABLE fate              \* what has become of each event

Resting == {"applied", "lost", "discarded"}
Fates == {"unpublished", "waiting", "started"} \cup Resting

Init == fate = [i \in EventIds |-> "unpublished"]

Become(i, from, to) ==
    /\ fate[i] \in from
    /\ fate' = [fate EXCEPT ![i] = to]

Publish(i) == Become(i, {"unpublished"}, "waiting")

\* The body is no event of this system: it is dropped without a trace.
Discard(i) == Become(i, {"waiting"}, "discarded")

\* The first delivery that records the event starts its effects.
Begin(i) == Become(i, {"waiting"}, "started")

\* All effects are in the database.
Apply(i) == Become(i, {"waiting", "started"}, "applied")

\* A fault stops the effects short, for good, of one event or of several.
Lose(lot) ==
    /\ \A i \in lot : fate[i] \in {"waiting", "started"}
    /\ fate' = [i \in EventIds |-> IF i \in lot THEN "lost" ELSE fate[i]]

Next ==
    \/ \E i \in EventIds : Publish(i) \/ Discard(i) \/ Begin(i) \/ Apply(i)
    \/ \E lot \in SUBSET EventIds : Lose(lot)

Spec == Init /\ [][Next]_fate

=============================================================================
