--------------------------- MODULE PublisherProofs ---------------------------
(***************************************************************************)
(* Proofs about Publisher for any number of events and any queue size.      *)
(* NothingLost is inductive once it is known when an event is in hand        *)
(* (HandInv) and that events are numbered as they are accepted (OrderInv):   *)
(* without the latter, the event just taken from the queue could be mistaken *)
(* for the copy that a failed Publish left on the topic.                     *)
(***************************************************************************)
EXTENDS Publisher, SequenceTheorems, TLAPS

HandInv ==
  /\ pc \in {"run", "flush"} => hand = Empty
  /\ pc \in {"publishing", "retry", "flushing", "flushRetry"} => Len(hand) = 1
  /\ pc = "exited" => left = Len(hand) + Len(queue)

OrderInv ==
  /\ \A i \in 1 .. Len(accepted) : accepted[i] <= calls
  /\ \A i, j \in 1 .. Len(accepted) : i < j => accepted[i] < accepted[j]

IInv == TypeOK /\ HandInv /\ OrderInv /\ NothingLost

Taken == topic # Empty /\ hand # Empty /\ topic[Len(topic)] = hand[1]

-----------------------------------------------------------------------------
(* Sequences                                                               *)

\* Taking the head off a sequence and putting it in front again.
LEMMA TakeFirst ==
  ASSUME NEW S, NEW s \in Seq(S), s # <<>>
  PROVE  /\ <<Head(s)>> \o Tail(s) = s
         /\ <<Head(s)>> \in Seq(S) /\ Len(<<Head(s)>>) = 1
         /\ Head(s) = s[1] /\ Tail(s) \in Seq(S)
<1>1. /\ Head(s) = s[1] /\ Head(s) \in S /\ Tail(s) \in Seq(S)
      /\ Len(s) \in Nat \ {0} /\ Len(Tail(s)) = Len(s) - 1
      /\ \A i \in 1 .. Len(s) - 1 : Tail(s)[i] = s[i + 1]
  BY HeadTailProperties
<1>2. <<Head(s)>> \in Seq(S) /\ Len(<<Head(s)>>) = 1 /\ <<Head(s)>>[1] = s[1]
  BY <1>1
<1>3. /\ <<Head(s)>> \o Tail(s) \in Seq(S)
      /\ Len(<<Head(s)>> \o Tail(s)) = Len(s)
      /\ \A i \in 1 .. Len(s) : (<<Head(s)>> \o Tail(s))[i] =
                                  IF i <= 1 THEN <<Head(s)>>[i] ELSE Tail(s)[i - 1]
  BY <1>1, <1>2, ConcatProperties
<1>4. \A i \in 1 .. Len(s) : (<<Head(s)>> \o Tail(s))[i] = s[i]
  BY <1>1, <1>2, <1>3
<1>5. <<Head(s)>> \o Tail(s) = s
  BY <1>3, <1>4, SeqEqual
<1>6. QED
  BY <1>1, <1>2, <1>5

\* A sequence of one element is that element.
LEMMA Single ==
  ASSUME NEW S, NEW s \in Seq(S), Len(s) = 1
  PROVE  s = <<s[1]>> /\ s[1] \in S /\ s # <<>>
<1>1. s[1] \in S
  BY ElementOfSeq
<1>2. <<s[1]>> \in Seq(S) /\ Len(<<s[1]>>) = 1 /\ <<s[1]>>[1] = s[1]
  BY <1>1
<1>3. s = <<s[1]>>
  BY <1>2, SeqEqual
<1>4. s # <<>>
  OBVIOUS
<1>5. QED
  BY <1>1, <1>3, <1>4

\* Events can be compared.
LEMMA IntEvents ==
  ASSUME NEW s \in Seq(Events)
  PROVE  \A i \in 1 .. Len(s) : s[i] \in Int
<1>1. \A i \in 1 .. Len(s) : s[i] \in Events
  BY ElementOfSeq
<1>2. QED
  BY <1>1 DEF Events

\* What Append adds, and what it leaves.
LEMMA AppendLast ==
  ASSUME NEW S, NEW s \in Seq(S), NEW e \in S
  PROVE  /\ Append(s, e) \in Seq(S) /\ Append(s, e) # <<>>
         /\ Len(Append(s, e)) = Len(s) + 1
         /\ Append(s, e)[Len(s) + 1] = e
         /\ \A i \in 1 .. Len(s) : Append(s, e)[i] = s[i]
OBVIOUS

\* Moving an element from the front of t to the end of s keeps s and t.
LEMMA MoveOver ==
  ASSUME NEW S, NEW s \in Seq(S), NEW t \in Seq(S), NEW e \in S
  PROVE  /\ s \o (<<e>> \o t) = Append(s, e) \o t
         /\ <<e>> \o t # <<>> /\ Head(<<e>> \o t) = e /\ Tail(<<e>> \o t) = t
OBVIOUS

-----------------------------------------------------------------------------
(* Each step, seen through what is still to be delivered                   *)

\* Undelivered is what is in hand and queued, and a sequence of events.
LEMMA UndeliveredType ==
  ASSUME TypeOK
  PROVE  /\ Undelivered = IF Taken THEN queue ELSE hand \o queue
         /\ Undelivered \in Seq(Events)
BY DEF TypeOK, Undelivered, Taken

\* An event still in the queue is not on the topic.
LEMMA Fresh ==
  ASSUME IInv, hand = Empty, queue # Empty, topic # Empty
  PROVE  topic[Len(topic)] # Head(queue)
<1> USE DEF Empty
<1>1. accepted = topic \o queue
  BY ConcatEmptySeq DEF IInv, TypeOK, NothingLost, Undelivered
<1>2. /\ Len(topic) \in Nat \ {0} /\ Len(queue) \in Nat \ {0}
      /\ Head(queue) = queue[1]
      /\ topic \in Seq(Events) /\ queue \in Seq(Events) /\ accepted \in Seq(Events)
  BY DEF IInv, TypeOK
<1>3. /\ Len(accepted) = Len(topic) + Len(queue)
      /\ accepted[Len(topic)] = topic[Len(topic)]
      /\ accepted[Len(topic) + 1] = queue[1]
  BY <1>1, <1>2, ConcatProperties
<1>4. accepted[Len(topic)] < accepted[Len(topic) + 1]
  BY <1>2, <1>3 DEF IInv, OrderInv
<1>5. accepted[Len(topic)] \in Int /\ accepted[Len(topic) + 1] \in Int
  <2>1. Len(topic) \in 1 .. Len(accepted) /\ Len(topic) + 1 \in 1 .. Len(accepted)
    BY <1>2, <1>3
  <2>2. QED
    BY <1>2, <2>1, IntEvents
<1>6. QED
  BY <1>2, <1>3, <1>4, <1>5

\* Taking an event out of the queue leaves it to be delivered.
LEMMA TakeStep ==
  ASSUME IInv, NEW from \in {"run", "flush"}, NEW to, Take(from, to),
         topic' = topic
  PROVE  /\ hand' \in Seq(Events) /\ Len(hand') = 1
         /\ queue' \in Seq(Events) /\ Len(queue') <= QueueSize
         /\ Undelivered' = Undelivered
<1> USE DEF Empty
<1>1. hand = Empty /\ queue # Empty /\ queue \in Seq(Events)
  BY DEF Take, IInv, HandInv, TypeOK
<1>2. /\ hand' = <<Head(queue)>> /\ queue' = Tail(queue)
      /\ hand' \in Seq(Events) /\ Len(hand') = 1 /\ hand'[1] = Head(queue)
      /\ queue' \in Seq(Events) /\ hand' \o queue' = queue
  BY <1>1, TakeFirst DEF Take
<1>3. Len(queue') <= QueueSize
  BY <1>1, <1>2, HeadTailProperties, QueueAssumption DEF IInv, TypeOK
<1>4. Undelivered = queue
  BY <1>1, ConcatEmptySeq DEF Undelivered
<1>5. ~Taken'
  BY <1>1, <1>2, Fresh DEF Taken
<1>6. Undelivered' = hand' \o queue'
  BY <1>5 DEF Undelivered, Taken
<1>7. QED
  BY <1>2, <1>3, <1>4, <1>6

\* A publish that reaches nsqd delivers the event in hand, unless it had it.
LEMMA DeliverStep ==
  ASSUME TypeOK, Len(hand) = 1, topic' = TopicWith(hand[1]),
         queue' = queue, hand' \in {hand, Empty}
  PROVE  /\ topic' \in Seq(Events)
         /\ Undelivered' = queue
         /\ \/ Taken /\ topic' = topic /\ Undelivered = queue
            \/ /\ Undelivered # Empty /\ queue = Tail(Undelivered)
               /\ topic' = Append(topic, Head(Undelivered))
         /\ topic' \o Undelivered' = topic \o Undelivered
<1> USE DEF Empty
<1>1. /\ hand = <<hand[1]>> /\ hand[1] \in Events /\ hand # Empty
      /\ queue \in Seq(Events) /\ topic \in Seq(Events)
  BY Single DEF TypeOK
<1>2. /\ topic' \in Seq(Events)
      /\ topic' # Empty /\ topic'[Len(topic')] = hand[1]
  <2>1. CASE Taken
    BY <1>1, <2>1 DEF TopicWith, Taken
  <2>2. CASE ~Taken
    <3>1. topic' = Append(topic, hand[1])
      BY <1>1, <2>2 DEF TopicWith, Taken
    <3>2. QED
      BY <1>1, <3>1, AppendLast
  <2>3. QED
    BY <2>1, <2>2
<1>3. Undelivered' = queue
  <2>1. CASE hand' = hand
    BY <1>1, <1>2, <2>1 DEF Undelivered
  <2>2. CASE hand' = Empty
    BY <1>1, <2>2, ConcatEmptySeq DEF Undelivered
  <2>3. QED
    BY <2>1, <2>2
<1>4. CASE Taken
  <2>1. topic' = topic /\ Undelivered = queue
    BY <1>4 DEF TopicWith, Undelivered, Taken
  <2>2. QED
    BY <1>2, <1>3, <1>4, <2>1
<1>5. CASE ~Taken
  <2>1. topic' = Append(topic, hand[1])
    BY <1>1, <1>5 DEF TopicWith, Taken
  <2>2. Undelivered = <<hand[1]>> \o queue
    BY <1>1, <1>5 DEF Undelivered, Taken
  <2>3. /\ topic \o (<<hand[1]>> \o queue) = Append(topic, hand[1]) \o queue
        /\ Undelivered # Empty /\ Head(Undelivered) = hand[1]
        /\ Tail(Undelivered) = queue
    BY <1>1, <2>2, MoveOver
  <2>4. QED
    BY <1>2, <1>3, <2>1, <2>2, <2>3
<1>6. QED
  BY <1>4, <1>5

\* Enqueue adds its event at the end of what is to be delivered.
LEMMA EnqueueStep ==
  ASSUME TypeOK, Enqueue, HasRoom
  PROVE  /\ calls' \in Events
         /\ queue' = Append(queue, calls') /\ accepted' = Append(accepted, calls')
         /\ Undelivered' = Append(Undelivered, calls')
         /\ topic' = topic /\ hand' = hand
<1>1. calls' \in Events
  BY QueueAssumption DEF TypeOK, Enqueue, Events
<1>2. /\ queue' = Append(queue, calls') /\ accepted' = Append(accepted, calls')
      /\ topic' = topic /\ hand' = hand
  BY DEF Enqueue
<1>3. CASE Taken
  <2>1. Undelivered = queue /\ Undelivered' = queue'
    BY <1>2, <1>3 DEF Undelivered, Taken
  <2>2. QED
    BY <1>1, <1>2, <2>1
<1>4. CASE ~Taken
  <2>1. Undelivered = hand \o queue /\ Undelivered' = hand \o queue'
    BY <1>2, <1>4 DEF Undelivered, Taken
  <2>2. hand \in Seq(Events) /\ queue \in Seq(Events)
    BY DEF TypeOK
  <2>3. ASSUME NEW e \in Events
        PROVE  Append(hand \o queue, e) = hand \o Append(queue, e)
    BY <2>2
  <2>4. QED
    BY <1>1, <1>2, <2>1, <2>3
<1>5. QED
  BY <1>1, <1>2, <1>3, <1>4

-----------------------------------------------------------------------------
(* The invariant                                                           *)

\* The inductive invariant holds before anything is queued.
LEMMA InitIInv == Init => IInv
<1> SUFFICES ASSUME Init PROVE IInv
  OBVIOUS
<1> USE DEF Init, Empty
<1>1. TypeOK
  BY QueueAssumption DEF TypeOK
<1>2. HandInv /\ OrderInv
  BY DEF HandInv, OrderInv
<1>3. NothingLost
  BY DEF NothingLost, Undelivered
<1>4. QED
  BY <1>1, <1>2, <1>3 DEF IInv

\* Every step keeps the inductive invariant.
LEMMA NextIInv == IInv /\ [Next]_vars => IInv'
<1> SUFFICES ASSUME IInv, [Next]_vars PROVE IInv'
  OBVIOUS
<1> USE DEF Empty
<1>1. /\ TypeOK /\ HandInv /\ OrderInv /\ NothingLost
      /\ Undelivered \in Seq(Events)
  BY UndeliveredType DEF IInv
<1>2. ASSUME UNCHANGED <<topic, hand, queue>> PROVE Undelivered' = Undelivered
  BY <1>2 DEF Undelivered
<1>3. CASE Enqueue
  <2>1. CASE HasRoom
    <3>1. /\ calls' \in Events
          /\ queue' = Append(queue, calls') /\ accepted' = Append(accepted, calls')
          /\ Undelivered' = Append(Undelivered, calls')
          /\ topic' = topic /\ hand' = hand
      BY <1>1, <1>3, <2>1, EnqueueStep
    <3>2. /\ calls' = calls + 1 /\ pc # "exited"
          /\ UNCHANGED <<running, flushing, pc, left>>
      BY <1>3 DEF Enqueue
    <3>3. Len(queue) < QueueSize
      BY <2>1 DEF HasRoom
    <3>4. TypeOK'
      BY <1>1, <3>1, <3>2, <3>3, QueueAssumption DEF TypeOK, Events
    <3>5. HandInv'
      BY <1>1, <3>1, <3>2 DEF HandInv
    <3>6. OrderInv'
      <4>1. accepted \in Seq(Events) /\ calls \in Int
        BY <1>1 DEF TypeOK
      <4>2. \A i \in 1 .. Len(accepted) : accepted[i] \in Int
        BY <4>1, IntEvents
      <4>3. /\ Len(accepted') = Len(accepted) + 1 /\ Len(accepted) \in Nat
            /\ accepted'[Len(accepted) + 1] = calls + 1
            /\ \A i \in 1 .. Len(accepted) : accepted'[i] = accepted[i]
        BY <3>1, <3>2, <4>1, AppendLast
      <4>4. QED
        BY <1>1, <3>2, <4>1, <4>2, <4>3 DEF OrderInv
    <3>7. NothingLost'
      <4>1. accepted' = Append(topic \o Undelivered, calls')
        BY <1>1, <3>1 DEF NothingLost
      <4>2. topic \in Seq(Events)
        BY <1>1 DEF TypeOK
      <4>3. ASSUME NEW e \in Events
            PROVE  Append(topic \o Undelivered, e) = topic \o Append(Undelivered, e)
        BY <1>1, <4>2
      <4>4. QED
        BY <3>1, <4>1, <4>3 DEF NothingLost
    <3>8. QED
      BY <3>4, <3>5, <3>6, <3>7 DEF IInv
  <2>2. CASE ~HasRoom
    <3>1. /\ calls < MaxEvents /\ calls' = calls + 1
          /\ UNCHANGED <<hand, queue, topic, accepted, running, flushing, pc, left>>
      BY <1>3, <2>2 DEF Enqueue
    <3>2. TypeOK'
      BY <1>1, <3>1, QueueAssumption DEF TypeOK
    <3>3. HandInv'
      BY <1>1, <3>1 DEF HandInv
    <3>4. OrderInv'
      <4>1. \A i \in 1 .. Len(accepted) : accepted[i] \in Int
        BY <1>1, IntEvents DEF TypeOK
      <4>2. QED
        BY <1>1, <3>1, <4>1 DEF OrderInv, TypeOK
    <3>5. NothingLost'
      BY <1>1, <1>2, <3>1 DEF NothingLost
    <3>6. QED
      BY <3>2, <3>3, <3>4, <3>5 DEF IInv
  <2>3. QED
    BY <2>1, <2>2
<1>4. CASE RunTakes \/ FlushTakes
  <2>1. UNCHANGED <<calls, topic, running, flushing, accepted, left>>
    BY <1>4 DEF RunTakes, FlushTakes
  <2>2. /\ hand' \in Seq(Events) /\ Len(hand') = 1
        /\ queue' \in Seq(Events) /\ Len(queue') <= QueueSize
        /\ Undelivered' = Undelivered
        /\ pc' \in {"publishing", "flushing"}
    <3>1. CASE RunTakes
      BY <2>1, <3>1, TakeStep DEF RunTakes, Take
    <3>2. CASE FlushTakes
      BY <2>1, <3>2, TakeStep DEF FlushTakes, Take
    <3>3. QED
      BY <1>4, <3>1, <3>2
  <2>3. QED
    BY <1>1, <2>1, <2>2 DEF IInv, TypeOK, HandInv, OrderInv, NothingLost
<1>5. CASE PublishSucceeds
  <2>1. /\ topic' = TopicWith(hand[1]) /\ hand' = Empty /\ Len(hand) = 1
        /\ pc' \in {"run", "flush"}
        /\ UNCHANGED <<calls, queue, running, flushing, accepted, left>>
    BY <1>1, <1>5 DEF PublishSucceeds, Publishing, Forget, HandInv
  <2>2. /\ topic' \in Seq(Events)
        /\ topic' \o Undelivered' = topic \o Undelivered
    BY <1>1, <2>1, DeliverStep
  <2>3. QED
    BY <1>1, <2>1, <2>2 DEF IInv, TypeOK, HandInv, OrderInv, NothingLost
<1>6. CASE PublishFails
  <2>1. /\ topic' \in {topic, TopicWith(hand[1])} /\ hand' = hand
        /\ Len(hand) = 1 /\ pc' \in {"retry", "flushRetry"}
        /\ UNCHANGED <<calls, queue, running, flushing, accepted, left>>
    BY <1>1, <1>6 DEF PublishFails, Publishing, AfterError, HandInv
  <2>2. /\ topic' \in Seq(Events)
        /\ topic' \o Undelivered' = topic \o Undelivered
    <3>1. CASE topic' = topic
      BY <1>1, <1>2, <2>1, <3>1 DEF TypeOK
    <3>2. CASE topic' = TopicWith(hand[1])
      BY <1>1, <2>1, <3>2, DeliverStep
    <3>3. QED
      BY <2>1, <3>1, <3>2
  <2>3. QED
    BY <1>1, <2>1, <2>2 DEF IInv, TypeOK, HandInv, OrderInv, NothingLost
<1>7. CASE StopRunning \/ FlushTimeout \/ RunStops \/ Retry
  <2>1. /\ UNCHANGED <<calls, queue, hand, topic, accepted, left>>
        /\ running' \in BOOLEAN /\ flushing' \in BOOLEAN
        /\ \/ pc' = pc
           \/ pc = "run" /\ pc' = "flush"
           \/ /\ pc \in {"retry", "flushRetry"}
              /\ pc' \in {"publishing", "flushing"}
    BY <1>1, <1>7 DEF StopRunning, FlushTimeout, RunStops, Retry, AfterRun, TypeOK
  <2>2. QED
    BY <1>1, <1>2, <2>1 DEF IInv, TypeOK, HandInv, OrderInv, NothingLost
<1>8. CASE FlushEnds
  <2>1. /\ UNCHANGED <<calls, queue, hand, topic, running, flushing, accepted>>
        /\ hand = Empty /\ queue = Empty /\ pc' = "exited" /\ left' = 0
    BY <1>1, <1>8 DEF FlushEnds, Exit, HandInv
  <2>2. QED
    BY <1>1, <1>2, <2>1 DEF IInv, TypeOK, HandInv, OrderInv, NothingLost
<1>9. CASE FlushGivesUp
  <2>1. /\ UNCHANGED <<calls, queue, hand, topic, running, flushing, accepted>>
        /\ Len(hand) = 1 /\ pc' = "exited" /\ left' = Len(queue) + 1
    BY <1>1, <1>9 DEF FlushGivesUp, Exit, LeftOver, HandInv
  <2>2. QED
    BY <1>1, <1>2, <2>1 DEF IInv, TypeOK, HandInv, OrderInv, NothingLost
<1>10. CASE UNCHANGED vars
  BY <1>1, <1>2, <1>10 DEF vars, IInv, TypeOK, HandInv, OrderInv, NothingLost
<1>11. QED
  BY <1>3, <1>4, <1>5, <1>6, <1>7, <1>8, <1>9, <1>10 DEF Next

\* The inductive invariant: types, what may be in hand where, the order
\* of the events, and that none is missing.
THEOREM Invariance == Spec => []IInv
BY InitIInv, NextIInv, PTL DEF Spec

\* Type correctness, and the bound of the channel.
THEOREM TypeCorrect == Spec => []TypeOK
BY Invariance, PTL DEF IInv

\* No accepted event is skipped, reordered or lost, whatever nsqd does and
\* whenever liercd is stopped.
THEOREM NothingLostHolds == Spec => []NothingLost
BY Invariance, PTL DEF IInv

\* The count Flush returns covers every event nsqd has not got.
THEOREM ExitReportsLossHolds == Spec => []ExitReportsLoss
<1>1. IInv => ExitReportsLoss
  <2> SUFFICES ASSUME IInv, pc = "exited"
               PROVE  Len(accepted) - Len(topic) \in {left, left - 1}
    BY DEF ExitReportsLoss
  <2>1. /\ accepted = topic \o Undelivered /\ left = Len(hand) + Len(queue)
        /\ topic \in Seq(Events) /\ queue \in Seq(Events) /\ hand \in Seq(Events)
        /\ Len(hand) <= 1
    BY DEF IInv, NothingLost, HandInv, TypeOK
  <2>2. Undelivered \in Seq(Events)
    BY UndeliveredType DEF IInv
  <2>3. Len(accepted) - Len(topic) = Len(Undelivered)
    BY <2>1, <2>2, ConcatProperties
  <2>4. CASE Taken
    <3>1. Len(hand) = 1
      <4>1. hand # <<>>
        BY <2>4 DEF Taken, Empty
      <4>2. Len(hand) \in Nat /\ Len(hand) # 0
        BY <2>1, <4>1, EmptySeq
      <4>3. Len(hand) <= 1
        BY <2>1
      <4>4. \A n \in Nat : n # 0 /\ n <= 1 => n = 1
        OBVIOUS
      <4>5. QED
        BY <4>2, <4>3, <4>4
    <3>2. QED
      BY <2>1, <2>3, <2>4, <3>1 DEF Undelivered, Taken
  <2>5. CASE ~Taken
    <3>1. Undelivered = hand \o queue
      BY <2>5 DEF Undelivered, Taken
    <3>2. QED
      BY <2>1, <2>3, <3>1, ConcatProperties
  <2>6. QED
    BY <2>4, <2>5
<1>2. QED
  BY <1>1, Invariance, PTL

-----------------------------------------------------------------------------
(* Refinement                                                              *)

\* The queue, with the event in hand, implements an outbox of one more than
\* the channel's capacity.
THEOREM Refinement == Spec => ImplementsOutbox
<1> USE DEF Empty
<1>1. Init => Out!Init
  BY DEF Init, Out!Init, Undelivered
<1>2. IInv /\ [Next]_vars => [Out!Next]_(Out!vars)
  <2> SUFFICES ASSUME IInv, [Next]_vars
               PROVE  Out!Next \/ UNCHANGED <<topic, Undelivered>>
    BY DEF Out!vars
  <2>1. /\ TypeOK /\ Undelivered \in Seq(Events)
    BY UndeliveredType DEF IInv
  <2>2. CASE UNCHANGED <<topic, hand, queue>>
    BY <2>2 DEF Undelivered
  <2>3. CASE Enqueue /\ HasRoom
    <3>1. /\ calls' \in Events /\ topic' = topic
          /\ Undelivered' = Append(Undelivered, calls')
      BY <2>1, <2>3, EnqueueStep
    <3>2. Len(Undelivered) < QueueSize + 1
      <4>1. /\ hand \in Seq(Events) /\ queue \in Seq(Events)
            /\ Len(hand) <= 1 /\ Len(queue) < QueueSize
        BY <2>1, <2>3 DEF TypeOK, HasRoom
      <4>2. Len(hand \o queue) = Len(hand) + Len(queue)
        BY <4>1, ConcatProperties
      <4>3. QED
        BY <4>1, <4>2, QueueAssumption DEF Undelivered
    <3>3. Out!Accept(calls')
      BY <3>1, <3>2 DEF Out!Accept
    <3>4. QED
      BY <3>1, <3>3 DEF Out!Next
  <2>4. CASE RunTakes \/ FlushTakes
    <3>1. topic' = topic
      BY <2>4 DEF RunTakes, FlushTakes
    <3>2. Undelivered' = Undelivered
      BY <2>4, <3>1, TakeStep DEF RunTakes, FlushTakes
    <3>3. QED
      BY <3>1, <3>2
  <2>5. CASE (PublishSucceeds \/ PublishFails) /\ topic' = TopicWith(hand[1])
    <3>1. Len(hand) = 1 /\ queue' = queue /\ hand' \in {hand, Empty}
      BY <2>5 DEF IInv, HandInv, PublishSucceeds, PublishFails, Publishing, Forget,
                  AfterError
    <3>2. /\ Undelivered' = queue
          /\ \/ topic' = topic /\ Undelivered = queue
             \/ /\ Undelivered # Empty /\ queue = Tail(Undelivered)
                /\ topic' = Append(topic, Head(Undelivered))
      BY <2>1, <2>5, <3>1, DeliverStep
    <3>3. QED
      BY <3>2 DEF Out!Next, Out!Deliver
  <2>6. QED
    BY <2>2, <2>3, <2>4, <2>5
    DEF Next, vars, Enqueue, StopRunning, FlushTimeout, RunStops, PublishSucceeds,
        PublishFails, AfterError, Retry, FlushEnds, FlushGivesUp
<1>3. QED
  BY <1>1, <1>2, Invariance, PTL DEF Spec, ImplementsOutbox, Out!Spec
=============================================================================
