------------------------------- MODULE Notifier -------------------------------
(***************************************************************************)
(* lierc-notify (pkg/notify/notifier.go) for one user.  Accumulate takes    *)
(* highlights off the queue one at a time and gathers them in the user's    *)
(* notification, whose timer each new one resets; the function of a timer   *)
(* that fires runs in a goroutine of its own, so that two notifications may *)
(* be on their way at once.  A panic anywhere ends the process, which is    *)
(* started again with nothing in memory.                                    *)
(***************************************************************************)
EXTENDS Naturals

CONSTANTS MaxHighlights   \* bound on the highlights that arrive

ASSUME NotifierAssumption == MaxHighlights \in Nat

Highlights == 1 .. MaxHighlights
NoNotification == 0

\* A notification is known by the first highlight in it.
VARIABLES
  taken,       \* how many highlights Accumulate has taken
  acc,         \* where Accumulate is with the last of them
  streams,     \* the user has streams open
  current,     \* n.Notifications[user]
  messages,    \* each notification's Messages
  timer,       \* whether each notification's Timer is armed
  run,         \* where the function of each notification's timer is
  limited,     \* n.Last[user] is less than UserRateLimit ago
  recent,      \* history: the notifications sent less than UserRateLimit ago
  forgotten,   \* history: those of recent whose process, and its Last, is gone
  deliveries,  \* history: how often each highlight was sent
  outcome      \* history: what became of each highlight

accVars == <<taken, acc>>
mapVars == <<current, messages, timer>>
limitVars == <<limited, recent, forgotten>>
vars == <<accVars, streams, mapVars, run, limitVars, deliveries, outcome>>

Init ==
  /\ taken = 0 /\ acc = "waiting"
  /\ streams \in BOOLEAN
  /\ current = NoNotification
  /\ messages = [n \in Highlights |-> {}]
  /\ timer = [n \in Highlights |-> FALSE]
  /\ run = [n \in Highlights |-> "idle"]
  /\ limited = FALSE /\ recent = {} /\ forgotten = {}
  /\ deliveries = [h \in Highlights |-> 0]
  /\ outcome = [h \in Highlights |-> "pending"]

Settle(hs, as) == outcome' = [h \in Highlights |-> IF h \in hs THEN as ELSE outcome[h]]

-----------------------------------------------------------------------------
(* Accumulate                                                              *)

\* handleHighlight hands a highlight over.  Accumulate asks the database and
\* the API between two looks at the map: it is assumed that a timer's
\* function gets to the map in the meantime.
Take ==
  /\ acc = "waiting" /\ acc' = "counting"
  /\ \A n \in Highlights : run[n] # "remove"
  /\ taken < MaxHighlights /\ taken' = taken + 1
  /\ UNCHANGED <<streams, mapVars, run, limitVars, deliveries, outcome>>

CountStreams ==
  /\ acc = "counting"
  /\ acc' = IF streams THEN "remove" ELSE "add"
  /\ UNCHANGED <<taken, streams, mapVars, run, limitVars, deliveries, outcome>>

RemoveOnly == current' = NoNotification /\ timer' = timer          \* mutant
RemoveNotification ==
  /\ current' = NoNotification
  /\ timer' = [n \in Highlights |-> timer[n] /\ n # current]

Held == IF current = NoNotification THEN {} ELSE messages[current]

AccumulateRemoves ==
  /\ acc = "remove" /\ acc' = "waiting"
  /\ RemoveNotification
  /\ Settle(Held \cup {taken}, "streams")
  /\ UNCHANGED <<taken, streams, messages, run, limitVars, deliveries>>

\* Stopped when there is something to add, and not armed again.
StopOnly(n) == timer' = [timer EXCEPT ![n] = current # n]          \* mutant
\* Reset, or AfterFunc for a new notification.
ResetTimer(n) == timer' = [timer EXCEPT ![n] = TRUE]

AddNotification ==
  LET n == IF current = NoNotification THEN taken ELSE current IN
  /\ acc = "add" /\ acc' = "waiting"
  /\ current' = n
  /\ messages' = [messages EXCEPT ![n] = @ \cup {taken}]
  /\ ResetTimer(n)
  /\ UNCHANGED <<taken, streams, run, limitVars, deliveries, outcome>>

-----------------------------------------------------------------------------
(* The function of notification n's timer                                  *)

RemoveLast == [fired |-> "count", count |-> "limit", limit |-> "send",
               send |-> "record", record |-> "remove", remove |-> "done"]  \* mutant
StepAfter == [fired |-> "remove", remove |-> "count", count |-> "limit",
              limit |-> "send", send |-> "record", record |-> "done"]

Goto(n, from, to) == run[n] = from /\ run' = [run EXCEPT ![n] = to]

TimerFires(n) ==
  /\ timer[n] /\ timer' = [timer EXCEPT ![n] = FALSE]
  /\ \E from \in {"idle", "done"} : Goto(n, from, StepAfter.fired)
  /\ UNCHANGED <<accVars, streams, current, messages, limitVars, deliveries,
                 outcome>>

RunRemoves(n) ==
  /\ Goto(n, "remove", StepAfter.remove)
  /\ RemoveNotification
  /\ UNCHANGED <<accVars, streams, messages, limitVars, deliveries, outcome>>

RunCounts(n) ==
  /\ \/ ~streams /\ Goto(n, "count", StepAfter.count) /\ UNCHANGED outcome
     \/ streams /\ Goto(n, "count", "done") /\ Settle(messages[n], "streams")
  /\ UNCHANGED <<accVars, streams, mapVars, limitVars, deliveries>>

\* UserRateLimit; GlobalRateLimit then only waits.
NotLimited == FALSE                                                \* mutant
UserRateLimit == limited

RunLimits(n) ==
  /\ \/ ~UserRateLimit /\ Goto(n, "limit", StepAfter.limit) /\ UNCHANGED outcome
     \/ UserRateLimit /\ Goto(n, "limit", "done") /\ Settle(messages[n], "limited")
  /\ UNCHANGED <<accVars, streams, mapVars, limitVars, deliveries>>

\* The email and the pushes; a push that fails is only logged.
Sends(n) ==
  /\ Goto(n, "send", StepAfter.send)
  /\ recent' = recent \cup {n}
  /\ deliveries' = [h \in Highlights |->
                      IF h \in messages[n] THEN deliveries[h] + 1 ELSE deliveries[h]]
  /\ Settle(messages[n], "sent")
  /\ UNCHANGED <<accVars, streams, mapVars, limited, forgotten>>

\* n.Last[user] = now.
Records(n) ==
  /\ Goto(n, "record", StepAfter.record)
  /\ limited' = TRUE
  /\ UNCHANGED <<accVars, streams, mapVars, recent, forgotten, deliveries, outcome>>

-----------------------------------------------------------------------------
(* Time, the user, and the end of the process                              *)

\* UserRateLimit passes since a notification was sent, or since Last, which
\* is later than the sending of all that are recorded in it.
SendAges(n) ==
  /\ n \in recent /\ recent' = recent \ {n}
  /\ forgotten' = forgotten \ {n}
  /\ UNCHANGED <<accVars, streams, mapVars, run, limited, deliveries, outcome>>

LimitPasses ==
  /\ limited /\ limited' = FALSE
  /\ \A n \in recent \ forgotten : run[n] # "done"
  /\ UNCHANGED <<accVars, streams, mapVars, run, recent, forgotten, deliveries,
                 outcome>>

StreamsChange ==
  /\ streams' = ~streams
  /\ UNCHANGED <<accVars, mapVars, run, limitVars, deliveries, outcome>>

\* A panic: the database, the stats of the API or the mail server failed, or
\* the runtime noticed UserRateLimit reading n.Last, without Mu, as it was
\* written.  What was sent remains sent, but nothing records it any more.
Dies ==
  /\ \/ acc = "counting"
     \/ \E n \in Highlights : run[n] \in {"count", "send"}
     \/ \E n, m \in Highlights : run[n] = "limit" /\ run[m] = "record"
  /\ acc' = "waiting"
  /\ current' = NoNotification
  /\ messages' = [n \in Highlights |-> {}]
  /\ timer' = [n \in Highlights |-> FALSE]
  /\ run' = [n \in Highlights |-> "idle"]
  /\ limited' = FALSE /\ forgotten' = recent
  /\ Settle({h \in 1 .. taken : outcome[h] = "pending"}, "lost")
  /\ UNCHANGED <<taken, streams, recent, deliveries>>

-----------------------------------------------------------------------------
AccumulateStep == CountStreams \/ AccumulateRemoves \/ AddNotification

RunStep(n) ==
  RunRemoves(n) \/ RunCounts(n) \/ RunLimits(n) \/ Sends(n) \/ Records(n)

Next ==
  \/ Take \/ AccumulateStep
  \/ \E n \in Highlights : TimerFires(n) \/ RunStep(n) \/ SendAges(n)
  \/ LimitPasses \/ StreamsChange \/ Dies

Spec == Init /\ [][Next]_vars

\* The goroutines are scheduled and a timer that is not reset fires.
FairSpec ==
  /\ Spec
  /\ WF_vars(AccumulateStep)
  /\ \A n \in Highlights : WF_vars(TimerFires(n)) /\ WF_vars(RunStep(n))

-----------------------------------------------------------------------------
(* Properties                                                              *)

Unsent == {"remove", "count", "limit", "send"}

\* A highlight the notifier has taken is sent at most once, though its
\* notification's timer may be reset after it has fired.
NotifiedOnce == \A h \in Highlights : deliveries[h] <= 1

\* A highlight that was neither sent nor dropped for a reason is on its way:
\* in hand, waiting for an armed timer, or in a notification not yet sent.
NothingForgotten ==
  \A h \in 1 .. taken : outcome[h] = "pending" =>
    \/ h = taken /\ acc # "waiting"
    \/ \E n \in Highlights :
         h \in messages[n] /\ ((current = n /\ timer[n]) \/ run[n] \in Unsent)

\* A notification passes the user's rate limit within the limit of an earlier
\* one only while that one is still being sent, or if the process has died
\* since: Last is not kept.
LimitHoldsAlone ==
  [][\A n \in Highlights : run[n] = "limit" /\ run'[n] = "send" =>
       \A m \in recent \ forgotten : run[m] = "record"]_vars

\* Every highlight taken is sent or dropped in the end, if only a process
\* that dies is started again.
Settled == \A h \in Highlights : taken >= h ~> outcome[h] # "pending"
=============================================================================
