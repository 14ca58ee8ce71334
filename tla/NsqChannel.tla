------------------------------ MODULE NsqChannel ------------------------------
(***************************************************************************)
(* The channel of one nsqd topic and the consumer lierc-logger has on it     *)
(* (pkg/logger/logger.go), with go-nsq's defaults: one message in flight,    *)
(* and a message whose handler fails, or whose answer does not reach nsqd    *)
(* in time, is deferred and delivered again, after others perhaps, until     *)
(* go-nsq gives it up.  First deliveries are in order.  External.            *)
(***************************************************************************)
EXTENDS Naturals, Sequences

CONSTANTS MaxMessages,  \* bound on the messages published
          MaxTries      \* go-nsq's MaxAttempts

ASSUME NsqAssumption == MaxMessages \in Nat /\ MaxTries \in Nat \ {0}

Messages == 1 .. MaxMessages
NoMessage == 0

VARIABLES
  waiting,   \* the messages not delivered yet, in order
  inFlight,  \* the message in the handler's hands
  deferred,  \* the messages to be delivered again
  tries,     \* how often each was delivered
  finished,  \* the messages whose handler succeeded, as nsqd knows
  givenUp    \* the messages that were tried too often

nsqVars == <<waiting, inFlight, deferred, tries, finished, givenUp>>

\* What was published before, and nothing delivered yet.
NsqInit(published) ==
  /\ waiting = published /\ inFlight = NoMessage /\ deferred = {}
  /\ tries = [m \in Messages |-> 0]
  /\ finished = {} /\ givenUp = {}

Publish(m) ==
  /\ waiting' = Append(waiting, m)
  /\ UNCHANGED <<inFlight, deferred, tries, finished, givenUp>>

Deliver(m) ==
  /\ inFlight = NoMessage /\ inFlight' = m
  /\ \/ waiting # <<>> /\ m = Head(waiting)
        /\ waiting' = Tail(waiting) /\ UNCHANGED deferred
     \/ m \in deferred /\ tries[m] < MaxTries
        /\ deferred' = deferred \ {m} /\ UNCHANGED waiting
  /\ tries' = [tries EXCEPT ![m] = @ + 1]
  /\ UNCHANGED <<finished, givenUp>>

GiveUp(m) ==
  /\ m \in deferred /\ tries[m] = MaxTries
  /\ deferred' = deferred \ {m}
  /\ givenUp' = givenUp \cup {m}
  /\ UNCHANGED <<waiting, inFlight, tries, finished>>

Finish ==
  /\ inFlight' = NoMessage
  /\ finished' = finished \cup {inFlight}
  /\ UNCHANGED <<waiting, deferred, tries, givenUp>>

Requeue ==
  /\ inFlight' = NoMessage
  /\ deferred' = deferred \cup {inFlight}
  /\ UNCHANGED <<waiting, tries, finished, givenUp>>

NsqTypeOK ==
  /\ waiting \in Seq(Messages)
  /\ inFlight \in Messages \cup {NoMessage}
  /\ deferred \subseteq Messages
  /\ tries \in [Messages -> 0 .. MaxTries]
  /\ finished \subseteq Messages /\ givenUp \subseteq Messages

\* Where a message is that nsqd is not through with.
OnItsWay(m) ==
  m = inFlight \/ m \in deferred \/ \E i \in 1 .. Len(waiting) : waiting[i] = m
=============================================================================
