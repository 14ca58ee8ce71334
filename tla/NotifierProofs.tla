--------------------------- MODULE NotifierProofs ---------------------------
(***************************************************************************)
(* Proofs about Notifier, for any number of highlights.  What the three      *)
(* properties rest on is how a notification grows old (MapInv): it is armed  *)
(* as long as it is on the map and its timer has not fired; once its         *)
(* function has taken it off the map, nothing can be added to it or arm it   *)
(* again.  So its highlights are its own (MessagesInv) and go out once       *)
(* (DeliveriesInv).                                                         *)
(***************************************************************************)
EXTENDS Notifier, TLAPS

Runs == {"idle", "remove", "count", "limit", "send", "record", "done"}

TypeOK ==
  /\ taken \in 0 .. MaxHighlights
  /\ acc \in {"waiting", "counting", "remove", "add"}
  /\ streams \in BOOLEAN
  /\ current \in Highlights \cup {NoNotification}
  /\ messages \in [Highlights -> SUBSET Highlights]
  /\ timer \in [Highlights -> BOOLEAN]
  /\ run \in [Highlights -> Runs]
  /\ limited \in BOOLEAN /\ recent \subseteq Highlights /\ forgotten \subseteq recent
  /\ deliveries \in [Highlights -> Nat]
  /\ outcome \in [Highlights -> {"pending", "streams", "limited", "sent", "lost"}]

\* The highlights that Accumulate is done with.
Gathered == IF acc = "waiting" THEN 1 .. taken ELSE 1 .. taken - 1

\* A timer's function that has yet to get to the map finds its own
\* notification there, or none because Accumulate has removed it.
MapInv ==
  /\ acc # "waiting" => taken > 0
  /\ current # NoNotification =>
       /\ current \in Gathered /\ run[current] \in {"idle", "remove"}
       /\ timer[current] \/ run[current] = "remove"
  /\ \A n \in Highlights :
       /\ timer[n] => current = n
       /\ run[n] = "remove" => \/ current = n
                               \/ current = NoNotification /\ acc = "waiting"
       /\ n \notin Gathered => run[n] = "idle" /\ messages[n] = {}

MessagesInv ==
  /\ \A n \in Highlights : messages[n] \subseteq Gathered
  /\ \A m, n \in Highlights : m # n => messages[m] \cap messages[n] = {}

DeliveriesInv ==
  /\ \A h \in Highlights \ Gathered : deliveries[h] = 0
  /\ \A n \in Highlights : run[n] \notin {"record", "done"} =>
       \A h \in messages[n] : deliveries[h] = 0

\* Last is later than the sending of every notification that this process has
\* recorded.
LimitInv ==
  \A n \in recent \ forgotten : run[n] = "record" \/ (run[n] = "done" /\ limited)

IInv ==
  /\ TypeOK /\ MapInv /\ MessagesInv /\ DeliveriesInv /\ LimitInv
  /\ NotifiedOnce /\ NothingForgotten

-----------------------------------------------------------------------------

\* A highlight is a number, and so is how many were taken.
LEMMA Numbers ==
  /\ Highlights \subseteq Nat \ {0} /\ NoNotification \notin Highlights
  /\ TypeOK => /\ taken \in Nat /\ Gathered \subseteq Highlights
               /\ taken > 0 => taken \in Highlights
               /\ acc # "waiting" => taken \notin Gathered
BY NotifierAssumption DEF Highlights, NoNotification, TypeOK, Gathered

\* Settling some highlights leaves the outcome of the others as it was.
LEMMA SettleOutcome ==
  ASSUME TypeOK, NEW hs, NEW as \in {"streams", "limited", "sent", "lost"},
         Settle(hs, as)
  PROVE  /\ outcome' \in [Highlights -> {"pending", "streams", "limited", "sent", "lost"}]
         /\ \A h \in Highlights : outcome'[h] = IF h \in hs THEN as ELSE outcome[h]
         /\ \A h \in Highlights :
              outcome'[h] = "pending" => h \notin hs /\ outcome[h] = "pending"
BY DEF Settle, TypeOK

LEMMA InitIInv == Init => IInv
<1> SUFFICES ASSUME Init PROVE IInv
  OBVIOUS
<1>1. TypeOK
  <2>1. taken \in 0 .. MaxHighlights
    BY NotifierAssumption DEF Init
  <2>2. /\ messages \in [Highlights -> SUBSET Highlights]
        /\ timer \in [Highlights -> BOOLEAN] /\ run \in [Highlights -> Runs]
        /\ deliveries \in [Highlights -> Nat]
    BY DEF Init, Runs
  <2>3. QED
    BY <2>1, <2>2 DEF Init, TypeOK
<1>2. Gathered = {}
  BY DEF Init, Gathered
<1>3. QED
  BY <1>1, <1>2 DEF Init, IInv, MapInv, MessagesInv, DeliveriesInv, LimitInv, NotifiedOnce,
                NothingForgotten

-----------------------------------------------------------------------------
(* Accumulate                                                              *)

\* Accumulate takes a highlight, or looks at the streams: the highlights it is
\* done with are the same.
LEMMA TakesIInv ==
  ASSUME IInv, Take \/ CountStreams
  PROVE  IInv'
<1> USE DEF IInv, mapVars, limitVars
<1>1. /\ UNCHANGED <<streams, mapVars, run, limitVars, deliveries, outcome>>
      /\ taken' \in 0 .. MaxHighlights /\ taken' > 0 /\ taken' \in Nat
      /\ acc' \in {"counting", "remove", "add"}
      /\ Gathered' = Gathered
      /\ \A n \in Highlights : run[n] # "remove" \/ acc # "waiting"
      /\ taken' = taken \/ (taken' = taken + 1 /\ acc = "waiting")
  BY Numbers, NotifierAssumption DEF Take, CountStreams, MapInv, TypeOK, Gathered
<1>2. TypeOK'
  BY <1>1 DEF TypeOK
<1>3. MapInv'
  BY <1>1 DEF MapInv
<1>4. MessagesInv' /\ DeliveriesInv' /\ LimitInv' /\ NotifiedOnce'
  BY <1>1 DEF MessagesInv, DeliveriesInv, LimitInv, NotifiedOnce
<1>5. NothingForgotten'
  BY <1>1, Numbers DEF NothingForgotten
<1>6. QED
  BY <1>2, <1>3, <1>4, <1>5

\* The streams are open: the notification on the map is dropped with the
\* highlight in hand.
LEMMA RemovesIInv ==
  ASSUME IInv, AccumulateRemoves
  PROVE  IInv'
<1> USE DEF IInv, limitVars
<1>1. /\ acc = "remove" /\ acc' = "waiting" /\ taken > 0 /\ taken \in Highlights
      /\ current' = NoNotification
      /\ timer' = [n \in Highlights |-> timer[n] /\ n # current]
      /\ UNCHANGED <<taken, streams, messages, run, limitVars, deliveries>>
      /\ Settle(Held \cup {taken}, "streams")
  BY Numbers DEF AccumulateRemoves, RemoveNotification, MapInv
<1>2. Gathered' = Gathered \cup {taken} /\ taken \notin Gathered
  BY <1>1, Numbers DEF Gathered
<1>3. /\ outcome' \in [Highlights -> {"pending", "streams", "limited", "sent", "lost"}]
      /\ \A h \in Highlights :
           outcome'[h] = "pending" => h \notin Held \cup {taken} /\ outcome[h] = "pending"
  BY <1>1, SettleOutcome
<1>4. timer' \in [Highlights -> BOOLEAN] /\ \A n \in Highlights : ~timer'[n]
  BY <1>1 DEF TypeOK, MapInv
<1>5. TypeOK'
  BY <1>1, <1>3, <1>4 DEF TypeOK
<1>6. MapInv'
  BY <1>1, <1>2, <1>4 DEF MapInv
<1>7. MessagesInv' /\ DeliveriesInv' /\ LimitInv' /\ NotifiedOnce'
  BY <1>1, <1>2 DEF MessagesInv, DeliveriesInv, LimitInv, NotifiedOnce
<1>8. NothingForgotten'
  <2> SUFFICES ASSUME NEW h \in 1 .. taken, outcome'[h] = "pending"
               PROVE  \E n \in Highlights : h \in messages[n] /\ run[n] \in Unsent
    BY <1>1 DEF NothingForgotten
  <2>1. h \in Highlights /\ h # taken /\ h \notin Held /\ outcome[h] = "pending"
    BY <1>1, <1>3, Numbers, NotifierAssumption DEF TypeOK, Highlights
  <2>2. PICK n \in Highlights :
          h \in messages[n] /\ ((current = n /\ timer[n]) \/ run[n] \in Unsent)
    BY <2>1 DEF NothingForgotten
  <2>3. current # n
    BY <2>1, <2>2, Numbers DEF Held
  <2>4. QED
    BY <2>2, <2>3
<1>9. QED
  BY <1>5, <1>6, <1>7, <1>8

\* The highlight in hand is added, to a new notification if there is none.
LEMMA AddsIInv ==
  ASSUME IInv, AddNotification
  PROVE  IInv'
<1> DEFINE n == IF current = NoNotification THEN taken ELSE current
<1> USE DEF IInv, limitVars
<1>1. /\ acc = "add" /\ acc' = "waiting" /\ taken > 0 /\ taken \in Highlights
      /\ current' = n /\ n \in Highlights
      /\ messages' = [messages EXCEPT ![n] = @ \cup {taken}]
      /\ timer' = [timer EXCEPT ![n] = TRUE]
      /\ UNCHANGED <<taken, streams, run, limitVars, deliveries, outcome>>
  BY Numbers DEF AddNotification, ResetTimer, MapInv, TypeOK
<1>2. Gathered' = Gathered \cup {taken} /\ taken \notin Gathered
  BY <1>1, Numbers DEF Gathered
<1>3. run[n] \in {"idle", "remove"} /\ n \in Gathered'
  BY <1>1, <1>2 DEF MapInv
<1>4. \A m \in Highlights :
        /\ m # n => messages'[m] = messages[m] /\ timer'[m] = timer[m]
        /\ m = n => messages'[m] = messages[m] \cup {taken} /\ timer'[m] = TRUE
  BY <1>1 DEF TypeOK
<1> HIDE DEF n
<1>5. TypeOK'
  BY <1>1, <1>4 DEF TypeOK
<1>6. MapInv'
  <2>1. \A m \in Highlights : m # n => ~timer[m] /\ run[m] # "remove"
    BY <1>1, Numbers DEF MapInv, n
  <2>2. QED
    BY <1>1, <1>2, <1>3, <1>4, <2>1, Numbers DEF MapInv
<1>7. MessagesInv'
  BY <1>1, <1>2, <1>4 DEF MessagesInv
<1>8. DeliveriesInv'
  BY <1>1, <1>2, <1>4 DEF DeliveriesInv
<1>9. LimitInv' /\ NotifiedOnce'
  BY <1>1 DEF LimitInv, NotifiedOnce
<1>10. NothingForgotten'
  <2> SUFFICES ASSUME NEW h \in 1 .. taken, outcome[h] = "pending"
               PROVE  \E m \in Highlights :
                        h \in messages'[m] /\ ((n = m /\ timer'[m]) \/ run[m] \in Unsent)
    BY <1>1 DEF NothingForgotten
  <2>1. CASE h = taken
    BY <1>1, <1>4, <2>1
  <2>2. CASE h # taken
    <3>1. PICK m \in Highlights :
            h \in messages[m] /\ ((current = m /\ timer[m]) \/ run[m] \in Unsent)
      BY <2>2 DEF NothingForgotten
    <3>2. current = m => m = n
      BY Numbers DEF n
    <3>3. QED
      BY <1>4, <3>1, <3>2
  <2>3. QED
    BY <2>1, <2>2
<1>11. QED
  BY <1>5, <1>6, <1>7, <1>8, <1>9, <1>10

-----------------------------------------------------------------------------
(* The function of a timer                                                 *)

LEMMA FiresIInv ==
  ASSUME IInv, NEW n \in Highlights, TimerFires(n)
  PROVE  IInv'
<1> USE DEF IInv, accVars, limitVars
<1>1. /\ timer[n] /\ timer' = [timer EXCEPT ![n] = FALSE]
      /\ run' = [run EXCEPT ![n] = "remove"]
      /\ UNCHANGED <<accVars, streams, current, messages, limitVars, deliveries, outcome>>
  BY DEF TimerFires, Goto, StepAfter
<1>2. /\ current = n /\ n \in Gathered /\ Gathered' = Gathered
      /\ run[n] = "idle"
  BY <1>1, Numbers DEF MapInv, Gathered, TimerFires, Goto
<1>3. \A m \in Highlights :
        /\ m # n => run'[m] = run[m] /\ timer'[m] = timer[m]
        /\ m = n => run'[m] = "remove" /\ timer'[m] = FALSE
  BY <1>1 DEF TypeOK
<1>4. TypeOK'
  BY <1>1 DEF TypeOK, Runs
<1>5. MapInv'
  BY <1>1, <1>2, <1>3 DEF MapInv
<1>6. MessagesInv' /\ DeliveriesInv' /\ NotifiedOnce'
  BY <1>1, <1>2, <1>3 DEF MessagesInv, DeliveriesInv, NotifiedOnce
<1>7. LimitInv'
  BY <1>1, <1>2, <1>3 DEF LimitInv, TypeOK
<1>8. NothingForgotten'
  BY <1>1, <1>2, <1>3 DEF NothingForgotten, Unsent
<1>9. QED
  BY <1>4, <1>5, <1>6, <1>7, <1>8

\* It takes its notification off the map.
LEMMA RunRemovesIInv ==
  ASSUME IInv, NEW n \in Highlights, RunRemoves(n)
  PROVE  IInv'
<1> USE DEF IInv, accVars, limitVars
<1>1. /\ run[n] = "remove" /\ run' = [run EXCEPT ![n] = "count"]
      /\ current' = NoNotification
      /\ timer' = [m \in Highlights |-> timer[m] /\ m # current]
      /\ UNCHANGED <<accVars, streams, messages, limitVars, deliveries, outcome>>
  BY DEF RunRemoves, RemoveNotification, Goto, StepAfter
<1>2. Gathered' = Gathered /\ n \in Gathered
  BY <1>1 DEF MapInv, Gathered
<1>3. \A m \in Highlights :
        /\ m # n => run'[m] = run[m]
        /\ m = n => run'[m] = "count"
  BY <1>1 DEF TypeOK
<1>4. timer' \in [Highlights -> BOOLEAN] /\ \A m \in Highlights : ~timer'[m]
  BY <1>1 DEF TypeOK, MapInv
<1>5. TypeOK'
  BY <1>1, <1>4 DEF TypeOK, Runs
<1>6. /\ current \in {n, NoNotification}
      /\ \A m \in Highlights : run'[m] = "remove" => acc = "waiting"
  <2>1. current = n \/ (current = NoNotification /\ acc = "waiting")
    BY <1>1 DEF MapInv
  <2>2. \A m \in Highlights : m # n /\ run[m] = "remove" => acc = "waiting"
    BY <2>1, Numbers DEF MapInv
  <2>3. QED
    BY <1>3, <2>1, <2>2
<1>7. MapInv'
  BY <1>1, <1>2, <1>3, <1>4, <1>6 DEF MapInv
<1>8. MessagesInv' /\ DeliveriesInv' /\ NotifiedOnce'
  BY <1>1, <1>2, <1>3 DEF MessagesInv, DeliveriesInv, NotifiedOnce
<1>9. LimitInv'
  BY <1>1, <1>2, <1>3 DEF LimitInv, TypeOK
<1>10. NothingForgotten'
  BY <1>1, <1>3, <1>6, Numbers DEF NothingForgotten, Unsent
<1>11. QED
  BY <1>5, <1>7, <1>8, <1>9, <1>10

\* Off the map, the function of a timer passes from step to step, and leaves
\* no highlight behind: either it still has to send them, or it has settled
\* them.
LEMMA RunAdvances ==
  ASSUME IInv, NEW n \in Highlights,
         NEW from \in {"count", "limit", "send", "record"},
         NEW to \in {"limit", "send", "record", "done"},
         Goto(n, from, to), UNCHANGED <<accVars, streams, mapVars>>,
         \A h \in Highlights : outcome'[h] = "pending" => outcome[h] = "pending",
         to \in Unsent \/ from = "record"
           \/ \A h \in messages[n] : outcome'[h] # "pending"
  PROVE  /\ run' \in [Highlights -> Runs] /\ Gathered' = Gathered
         /\ run[n] = from /\ run'[n] = to
         /\ \A m \in Highlights : m # n => run'[m] = run[m]
         /\ MapInv' /\ MessagesInv' /\ NothingForgotten'
<1> USE DEF IInv, accVars, mapVars
<1>1. /\ run' \in [Highlights -> Runs] /\ Gathered' = Gathered
      /\ run[n] = from /\ run'[n] = to
      /\ \A m \in Highlights : m # n => run'[m] = run[m]
  BY DEF TypeOK, Runs, Goto, Gathered
<1>2. MapInv' /\ MessagesInv'
  <2>1. n \in Gathered /\ current # n
    BY <1>1, Numbers DEF MapInv
  <2>2. UNCHANGED <<taken, acc, current, messages, timer>>
    OBVIOUS
  <2>3. MessagesInv'
    BY <1>1, <2>2 DEF MessagesInv
  <2>4. MapInv'
    BY <1>1, <2>1, <2>2, Numbers DEF MapInv
  <2>5. QED
    BY <2>3, <2>4
<1>3. NothingForgotten'
  <2> SUFFICES ASSUME NEW h \in 1 .. taken, outcome'[h] = "pending"
               PROVE  \/ h = taken /\ acc # "waiting"
                      \/ \E m \in Highlights : h \in messages[m] /\
                           ((current = m /\ timer[m]) \/ run'[m] \in Unsent)
    BY DEF NothingForgotten
  <2>1. h \in Highlights /\ outcome[h] = "pending"
    BY NotifierAssumption DEF TypeOK, Highlights
  <2>2. CASE h = taken /\ acc # "waiting"
    BY <2>2
  <2>3. CASE ~(h = taken /\ acc # "waiting")
    <3>1. PICK m \in Highlights :
            h \in messages[m] /\ ((current = m /\ timer[m]) \/ run[m] \in Unsent)
      BY <2>1, <2>3 DEF NothingForgotten
    <3>2. CASE m # n
      BY <1>1, <3>1, <3>2
    <3>3. CASE m = n /\ current = m /\ timer[m]
      BY <3>1, <3>3
    <3>4. CASE m = n /\ run[m] \in Unsent
      BY <1>1, <3>1, <3>4 DEF Unsent
    <3>5. QED
      BY <3>1, <3>2, <3>3, <3>4
  <2>4. QED
    BY <2>2, <2>3
<1>4. QED
  BY <1>1, <1>2, <1>3

\* It drops its highlights or goes on.
LEMMA RunDropsIInv ==
  ASSUME IInv, NEW n \in Highlights, RunCounts(n) \/ RunLimits(n)
  PROVE  IInv'
<1>1. PICK from \in {"count", "limit"}, to \in {"limit", "send", "done"},
           as \in {"streams", "limited"} :
        /\ Goto(n, from, to)
        /\ \/ to # "done" /\ UNCHANGED outcome
           \/ to = "done" /\ Settle(messages[n], as)
        /\ UNCHANGED <<accVars, streams, mapVars, limitVars, deliveries>>
  BY DEF RunCounts, RunLimits, StepAfter
<1>2. /\ outcome' \in [Highlights -> {"pending", "streams", "limited", "sent", "lost"}]
      /\ \A h \in Highlights : outcome'[h] = "pending" =>
           outcome[h] = "pending" /\ (to = "done" => h \notin messages[n])
  <2>1. CASE to # "done"
    BY <1>1, <2>1 DEF IInv, TypeOK
  <2>2. CASE to = "done"
    <3>1. Settle(messages[n], as) /\ as \in {"streams", "limited", "sent", "lost"}
      BY <1>1, <2>2
    <3>2. QED
      BY <3>1, SettleOutcome DEF IInv
  <2>3. QED
    BY <2>1, <2>2
<1>3. messages[n] \subseteq Highlights
  BY DEF IInv, TypeOK
<1>4. /\ run' \in [Highlights -> Runs] /\ Gathered' = Gathered
      /\ run[n] = from /\ run'[n] = to
      /\ \A m \in Highlights : m # n => run'[m] = run[m]
      /\ MapInv' /\ MessagesInv' /\ NothingForgotten'
  BY <1>1, <1>2, <1>3, RunAdvances DEF Unsent
<1>5. TypeOK' /\ DeliveriesInv' /\ LimitInv' /\ NotifiedOnce'
  <2> USE <1>1, <1>2, <1>4 DEF IInv, accVars, mapVars, limitVars
  <2>1. TypeOK'
    BY DEF TypeOK
  <2>2. DeliveriesInv'
    BY DEF DeliveriesInv
  <2>3. LimitInv' /\ NotifiedOnce'
    BY DEF LimitInv, NotifiedOnce, TypeOK
  <2>4. QED
    BY <2>1, <2>2, <2>3
<1>6. QED
  BY <1>4, <1>5 DEF IInv

\* It sends them.  They are no other notification's, and were never sent.
LEMMA SendsIInv ==
  ASSUME IInv, NEW n \in Highlights, Sends(n)
  PROVE  IInv'
<1>1. /\ Goto(n, "send", "record") /\ recent' = recent \cup {n}
      /\ deliveries' = [h \in Highlights |->
                          IF h \in messages[n] THEN deliveries[h] + 1 ELSE deliveries[h]]
      /\ Settle(messages[n], "sent")
      /\ UNCHANGED <<accVars, streams, mapVars, limited, forgotten>>
  BY DEF Sends, StepAfter
<1>2. /\ outcome' \in [Highlights -> {"pending", "streams", "limited", "sent", "lost"}]
      /\ \A h \in Highlights : outcome'[h] = "pending" =>
           outcome[h] = "pending" /\ h \notin messages[n]
  BY <1>1, SettleOutcome DEF IInv
<1>3. messages[n] \subseteq Gathered /\ messages[n] \subseteq Highlights
  BY DEF IInv, TypeOK, MessagesInv
<1>4. /\ run' \in [Highlights -> Runs] /\ Gathered' = Gathered
      /\ run[n] = "send" /\ run'[n] = "record"
      /\ \A m \in Highlights : m # n => run'[m] = run[m]
      /\ MapInv' /\ MessagesInv' /\ NothingForgotten'
  BY <1>1, <1>2, <1>3, RunAdvances
<1>5. /\ deliveries' \in [Highlights -> Nat]
      /\ \A h \in Highlights : h \notin messages[n] => deliveries'[h] = deliveries[h]
      /\ \A h \in Highlights : h \in messages[n] => deliveries'[h] = 1
  BY <1>1, <1>3, <1>4 DEF IInv, TypeOK, DeliveriesInv
<1>6. TypeOK' /\ DeliveriesInv' /\ LimitInv' /\ NotifiedOnce'
  <2> USE <1>1, <1>4, <1>5 DEF IInv, accVars, mapVars
  <2>1. TypeOK'
    BY <1>2 DEF TypeOK
  <2>2. DeliveriesInv'
    <3>1. \A h \in Highlights \ Gathered : deliveries'[h] = 0
      BY <1>3 DEF DeliveriesInv
    <3>2. ASSUME NEW m \in Highlights, run'[m] \notin {"record", "done"},
                 NEW h \in messages[m]
          PROVE  deliveries'[h] = 0
      BY <3>2 DEF DeliveriesInv, MessagesInv, TypeOK
    <3>3. QED
      BY <3>1, <3>2 DEF DeliveriesInv
  <2>3. LimitInv'
    BY DEF LimitInv, TypeOK
  <2>4. NotifiedOnce'
    BY DEF NotifiedOnce
  <2>5. QED
    BY <2>1, <2>2, <2>3, <2>4
<1>7. QED
  BY <1>4, <1>6 DEF IInv

\* It notes when, and is done.
LEMMA RecordsIInv ==
  ASSUME IInv, NEW n \in Highlights, Records(n)
  PROVE  IInv'
<1>1. /\ Goto(n, "record", "done") /\ limited' = TRUE
      /\ UNCHANGED <<accVars, streams, mapVars, recent, forgotten, deliveries, outcome>>
  BY DEF Records, StepAfter
<1>2. /\ run' \in [Highlights -> Runs] /\ Gathered' = Gathered
      /\ run[n] = "record" /\ run'[n] = "done"
      /\ \A m \in Highlights : m # n => run'[m] = run[m]
      /\ MapInv' /\ MessagesInv' /\ NothingForgotten'
  BY <1>1, RunAdvances
<1> USE <1>1, <1>2 DEF IInv, accVars, mapVars
<1>3. TypeOK' /\ NotifiedOnce'
  BY DEF TypeOK, NotifiedOnce
<1>4. DeliveriesInv'
  BY DEF DeliveriesInv
<1>5. LimitInv'
  BY DEF LimitInv, TypeOK
<1>6. QED
  BY <1>3, <1>4, <1>5

-----------------------------------------------------------------------------
(* Time, the user, and the end of the process                              *)

\* What only limitVars and the streams change disturbs LimitInv alone: a
\* limit passes after the sending of all that it was recorded for.
LEMMA TimeIInv ==
  ASSUME IInv,
         (\E n \in Highlights : SendAges(n)) \/ LimitPasses \/ StreamsChange
           \/ UNCHANGED vars
  PROVE  IInv'
<1> USE DEF IInv, vars, accVars, mapVars, limitVars
<1>1. /\ UNCHANGED <<accVars, mapVars, run, deliveries, outcome>>
      /\ streams' \in BOOLEAN /\ limited' \in BOOLEAN
      /\ recent' \subseteq recent /\ forgotten' \subseteq recent'
      /\ recent' \ forgotten' \subseteq recent \ forgotten
      /\ limited' = limited \/ \A n \in recent' \ forgotten' : run[n] # "done"
  BY DEF SendAges, LimitPasses, StreamsChange, TypeOK
<1>2. TypeOK' /\ LimitInv'
  BY <1>1 DEF TypeOK, LimitInv
<1>3. Gathered' = Gathered
  BY <1>1 DEF Gathered
<1>4. MapInv' /\ MessagesInv' /\ DeliveriesInv' /\ NotifiedOnce'
  BY <1>1, <1>3 DEF MapInv, MessagesInv, DeliveriesInv, NotifiedOnce
<1>5. NothingForgotten'
  BY <1>1 DEF NothingForgotten
<1>6. QED
  BY <1>2, <1>4, <1>5

\* A process that dies forgets everything, and loses what was on its way.
LEMMA DiesIInv ==
  ASSUME IInv, Dies
  PROVE  IInv'
<1> USE DEF IInv
<1>1. /\ acc' = "waiting" /\ current' = NoNotification
      /\ messages' = [n \in Highlights |-> {}]
      /\ timer' = [n \in Highlights |-> FALSE]
      /\ run' = [n \in Highlights |-> "idle"]
      /\ limited' = FALSE /\ forgotten' = recent
      /\ UNCHANGED <<taken, streams, recent, deliveries>>
      /\ Settle({h \in 1 .. taken : outcome[h] = "pending"}, "lost")
  BY DEF Dies
<1>2. /\ outcome' \in [Highlights -> {"pending", "streams", "limited", "sent", "lost"}]
      /\ \A h \in Highlights : outcome'[h] = "pending" =>
           h \notin {i \in 1 .. taken : outcome[i] = "pending"} /\ outcome[h] = "pending"
  BY <1>1, SettleOutcome
<1>3. TypeOK'
  BY <1>1, <1>2 DEF TypeOK, Runs
<1>4. Gathered \subseteq Gathered'
  BY <1>1, Numbers DEF Gathered, TypeOK
<1>5. MapInv' /\ MessagesInv' /\ LimitInv' /\ NotifiedOnce'
  BY <1>1 DEF MapInv, MessagesInv, LimitInv, NotifiedOnce
<1>6. DeliveriesInv'
  BY <1>1, <1>4 DEF DeliveriesInv
<1>7. NothingForgotten'
  <2>1. \A h \in 1 .. taken : h \in Highlights
    BY NotifierAssumption DEF TypeOK, Highlights
  <2>2. QED
    BY <1>1, <1>2, <2>1 DEF NothingForgotten
<1>8. QED
  BY <1>3, <1>5, <1>6, <1>7

-----------------------------------------------------------------------------
LEMMA NextIInv == IInv /\ [Next]_vars => IInv'
<1> SUFFICES ASSUME IInv, [Next]_vars PROVE IInv'
  OBVIOUS
<1>1. CASE Take \/ CountStreams
  BY <1>1, TakesIInv
<1>2. CASE AccumulateRemoves
  BY <1>2, RemovesIInv
<1>3. CASE AddNotification
  BY <1>3, AddsIInv
<1>4. ASSUME NEW n \in Highlights, TimerFires(n) PROVE IInv'
  BY <1>4, FiresIInv
<1>5. ASSUME NEW n \in Highlights, RunStep(n) PROVE IInv'
  <2>1. CASE RunRemoves(n)
    BY <2>1, RunRemovesIInv
  <2>2. CASE RunCounts(n) \/ RunLimits(n)
    BY <2>2, RunDropsIInv
  <2>3. CASE Sends(n)
    BY <2>3, SendsIInv
  <2>4. CASE Records(n)
    BY <2>4, RecordsIInv
  <2>5. QED
    BY <1>5, <2>1, <2>2, <2>3, <2>4 DEF RunStep
<1>6. CASE (\E n \in Highlights : SendAges(n)) \/ LimitPasses \/ StreamsChange
             \/ UNCHANGED vars
  BY <1>6, TimeIInv
<1>7. CASE Dies
  BY <1>7, DiesIInv
<1>8. QED
  BY <1>1, <1>2, <1>3, <1>4, <1>5, <1>6, <1>7 DEF Next, AccumulateStep

LEMMA Invariance == Spec => []IInv
<1>1. Init => IInv
  BY InitIInv
<1>2. IInv /\ [Next]_vars => IInv'
  BY NextIInv
<1>3. QED
  BY <1>1, <1>2, PTL DEF Spec

\* Every variable keeps to its type.
THEOREM TypeCorrect == Spec => []TypeOK
<1>1. IInv => TypeOK
  BY DEF IInv
<1>2. QED
  BY <1>1, Invariance, PTL

\* No highlight taken is sent twice, however often its notification's timer
\* fires, is reset, and races with Accumulate.
THEOREM NotifiedOnceHolds == Spec => []NotifiedOnce
<1>1. IInv => NotifiedOnce
  BY DEF IInv
<1>2. QED
  BY <1>1, Invariance, PTL

\* A highlight not yet sent or dropped is where something will still take it
\* on: in hand, behind an armed timer, or in a function that has yet to send.
THEOREM NothingForgottenHolds == Spec => []NothingForgotten
<1>1. IInv => NothingForgotten
  BY DEF IInv
<1>2. QED
  BY <1>1, Invariance, PTL

\* The rate limit lets a notification through within the limit of an earlier
\* one only between the sending of that one and its record, or if the process
\* that sent that one has died since.
THEOREM LimitHoldsAloneHolds == Spec => LimitHoldsAlone
<1> DEFINE Alone == \A n \in Highlights : run[n] = "limit" /\ run'[n] = "send" =>
                      \A m \in recent \ forgotten : run[m] = "record"
<1>1. ASSUME IInv, [Next]_vars PROVE [Alone]_vars
  <2> SUFFICES ASSUME NEW n \in Highlights, run[n] = "limit", run'[n] = "send"
               PROVE  ~limited
    BY <1>1 DEF IInv, LimitInv, TypeOK
  <2>1. run \in [Highlights -> Runs]
    BY <1>1 DEF IInv, TypeOK
  <2>2. run' # run
    OBVIOUS
  <2>3. PICK m \in Highlights : TimerFires(m) \/ RunStep(m) \/ Dies
    BY <1>1, <2>2 DEF Next, AccumulateStep, Take, CountStreams, AccumulateRemoves,
                      AddNotification, SendAges, LimitPasses, StreamsChange, vars
  <2>4. RunLimits(n)
    BY <2>1, <2>3 DEF TimerFires, RunStep, RunRemoves, RunCounts, RunLimits, Sends,
                      Records, Dies, Goto, StepAfter
  <2>5. QED
    BY <2>1, <2>4 DEF RunLimits, UserRateLimit, Goto
<1>2. QED
  BY <1>1, Invariance, PTL DEF Spec, LimitHoldsAlone
=============================================================================
