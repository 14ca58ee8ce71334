------------------------------ MODULE Publisher ------------------------------
(***************************************************************************)
(* liercd's publish queue (pkg/liercd/publisher.go) and how main stops it    *)
(* (cmd/liercd/main.go).  Enqueue never blocks: it drops when the queue is   *)
(* full.  Run publishes one event at a time, retrying it until nsqd takes    *)
(* it; once its context is done, Flush carries on with what Run left, until  *)
(* it is through or out of time.  nsqd is external: it may refuse an event,  *)
(* take it, or take it without our learning of it.                          *)
(***************************************************************************)
EXTENDS Naturals, Sequences

CONSTANTS MaxEvents,   \* bound on the calls of Enqueue
          QueueSize    \* the capacity of the channel

ASSUME QueueAssumption == MaxEvents \in Nat /\ QueueSize \in Nat

Events == 1 .. MaxEvents

VARIABLES
  calls,     \* how many times Enqueue was called: call n enqueues event n
  queue,     \* p.queue
  hand,      \* the event Run or Flush is publishing, p.pending in between
  topic,     \* what nsqd has taken; an immediate repeat is shown once
  running,   \* Run's context is not done
  flushing,  \* Flush's context is not done
  pc,        \* where the goroutine of Run, then of Flush, is
  accepted,  \* history: the events Enqueue queued
  left       \* what Flush returned

vars == <<calls, queue, hand, topic, running, flushing, pc, accepted, left>>

\* hand is a sequence of at most one event, so that what is left to publish
\* is hand \o queue.
Empty == <<>>

Init ==
  /\ calls = 0 /\ queue = Empty /\ hand = Empty /\ topic = Empty
  /\ running = TRUE /\ flushing = TRUE
  /\ pc = "run"
  /\ accepted = Empty /\ left = 0

-----------------------------------------------------------------------------
HasRoom == Len(queue) < QueueSize

\* The command API stays up until liercd exits, and so do Enqueue's callers.
Enqueue ==
  /\ calls < MaxEvents /\ pc # "exited"
  /\ calls' = calls + 1
  /\ IF HasRoom
     THEN queue' = Append(queue, calls') /\ accepted' = Append(accepted, calls')
     ELSE UNCHANGED <<queue, accepted>>
  /\ UNCHANGED <<hand, topic, running, flushing, pc, left>>

\* main, once the connections are closed.
StopRunning ==
  /\ running /\ running' = FALSE
  /\ UNCHANGED <<calls, queue, hand, topic, flushing, pc, accepted, left>>

FlushTimeout ==
  /\ pc \in {"flush", "flushing", "flushRetry"}
  /\ flushing /\ flushing' = FALSE
  /\ UNCHANGED <<calls, queue, hand, topic, running, pc, accepted, left>>

Take(from, to) ==
  /\ pc = from /\ pc' = to
  /\ queue # Empty
  /\ hand' = <<Head(queue)>> /\ queue' = Tail(queue)

RunTakes ==
  /\ Take("run", "publishing")
  /\ UNCHANGED <<calls, topic, running, flushing, accepted, left>>

ForgetPending == "flush"                                           \* mutant
AfterRun == IF pc = "run" THEN "flush" ELSE "flushing"

\* Run returns: main goes on with Flush, first with what Run had in hand.
RunStops ==
  /\ ~running
  /\ pc \in {"run", "retry"}
  /\ pc' = AfterRun
  /\ UNCHANGED <<calls, queue, hand, topic, running, flushing, accepted, left>>

-----------------------------------------------------------------------------
(* publish, called by Run or by Flush                                      *)

Publishing == pc \in {"publishing", "flushing"}

\* nsqd takes the event in hand.
TopicWith(e) == IF topic # Empty /\ topic[Len(topic)] = e THEN topic
                ELSE Append(topic, e)

Forget == hand' = Empty

PublishSucceeds ==
  /\ Publishing
  /\ topic' = TopicWith(hand[1])
  /\ Forget
  /\ pc' = IF pc = "publishing" THEN "run" ELSE "flush"
  /\ UNCHANGED <<calls, queue, running, flushing, accepted, left>>

\* Publish returns an error; nsqd may have the event all the same.
AfterError == UNCHANGED hand

PublishFails ==
  /\ Publishing
  /\ topic' \in {topic, TopicWith(hand[1])}
  /\ pc' = IF pc = "publishing" THEN "retry" ELSE "flushRetry"
  /\ AfterError
  /\ UNCHANGED <<calls, queue, running, flushing, accepted, left>>

SkipAfterError ==                                                  \* mutant
  /\ pc \in {"retry", "flushRetry"}
  /\ pc' = IF pc = "retry" THEN "run" ELSE "flush"
  /\ Forget
  /\ UNCHANGED <<calls, queue, topic, running, flushing, accepted, left>>

Retry ==
  /\ pc \in {"retry", "flushRetry"}
  /\ pc' = IF pc = "retry" THEN "publishing" ELSE "flushing"
  /\ UNCHANGED <<calls, queue, hand, topic, running, flushing, accepted, left>>

-----------------------------------------------------------------------------
(* Flush                                                                   *)

FlushTakes ==
  /\ Take("flush", "flushing")
  /\ UNCHANGED <<calls, topic, running, flushing, accepted, left>>

Exit(n) == pc' = "exited" /\ left' = n

FlushEnds ==
  /\ pc = "flush" /\ queue = Empty
  /\ Exit(0)
  /\ UNCHANGED <<calls, queue, hand, topic, running, flushing, accepted>>

QueuedOnly == Len(queue)                                           \* mutant
LeftOver == Len(queue) + 1

FlushGivesUp ==
  /\ pc = "flushRetry" /\ ~flushing
  /\ Exit(LeftOver)
  /\ UNCHANGED <<calls, queue, hand, topic, running, flushing, accepted>>

Next ==
  \/ Enqueue \/ StopRunning \/ FlushTimeout
  \/ RunTakes \/ RunStops
  \/ PublishSucceeds \/ PublishFails \/ Retry
  \/ FlushTakes \/ FlushEnds \/ FlushGivesUp

Spec == Init /\ [][Next]_vars

Goroutine ==
  \/ RunTakes \/ RunStops \/ PublishSucceeds \/ PublishFails \/ Retry
  \/ FlushTakes \/ FlushEnds \/ FlushGivesUp

\* The goroutine that runs Run, then Flush, is scheduled, and nsqd does not
\* refuse events for ever.
FairSpec == Spec /\ WF_vars(Goroutine) /\ SF_vars(PublishSucceeds)

-----------------------------------------------------------------------------
(* Properties                                                              *)

\* Every variable keeps its type; the channel never exceeds its capacity.
TypeOK ==
  /\ calls \in 0 .. MaxEvents
  /\ queue \in Seq(Events) /\ Len(queue) <= QueueSize
  /\ hand \in Seq(Events) /\ Len(hand) <= 1
  /\ topic \in Seq(Events) /\ accepted \in Seq(Events)
  /\ running \in BOOLEAN /\ flushing \in BOOLEAN
  /\ pc \in {"run", "publishing", "retry", "flush", "flushing", "flushRetry",
             "exited"}
  /\ left \in Nat

\* The event in hand may be on the topic already, when Publish failed after
\* nsqd took it.
Undelivered ==
  IF topic # Empty /\ hand # Empty /\ topic[Len(topic)] = hand[1]
  THEN queue ELSE hand \o queue

\* nsqd gets the accepted events in order: each is on the topic, in hand or
\* in the queue, through failures, a stop in the middle of a retry, and Flush.
NothingLost == accepted = topic \o Undelivered

\* What Flush reports as unpublished when liercd exits covers all that nsqd
\* has not got, and at most one event that it has.
ExitReportsLoss ==
  pc = "exited" => Len(accepted) - Len(topic) \in {left, left - 1}

\* The queue keeps the promise of an outbox: the channel and the event in
\* hand together are its capacity.
Out == INSTANCE Outbox WITH Capacity <- QueueSize + 1,
                            stream <- topic, waiting <- Undelivered
ImplementsOutbox == Out!Spec

\* Every accepted event reaches nsqd, unless the final flush runs out of time.
Delivered ==
  \A n \in Events : Len(accepted) >= n ~> Len(topic) >= n \/ ~flushing
=============================================================================
