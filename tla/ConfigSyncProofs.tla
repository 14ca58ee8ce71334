-------------------------- MODULE ConfigSyncProofs --------------------------
(***************************************************************************)
(* Proofs about ConfigSync, for any number of changes and tries.  Both      *)
(* properties rest on the order in which changes are first delivered         *)
(* (OrderInv): a change still ahead of the logger is later than every one it *)
(* was given, so a change on its first delivery overwrites only earlier      *)
(* ones.  With it, what nsqd takes for handled is saved, or overwritten for a *)
(* reason (FinishedInv).                                                    *)
(***************************************************************************)
EXTENDS ConfigSync, SequenceTheorems, TLAPS

TypeOK ==
  /\ NsqTypeOK
  /\ changes \in 0 .. MaxMessages
  /\ fieldOf \in [Messages -> Fields]
  /\ config \in [Fields -> Messages \cup {Unchanged}]
  /\ saved \in [Fields -> Messages \cup {Unchanged}]
  /\ effects \subseteq {changes} \ {Unchanged} /\ dropped \subseteq Messages

Delivered(m) == tries[m] > 0

\* A change that is later than all the logger was given.
Ahead(m) == m <= changes /\ \A k \in Messages : Delivered(k) => k < m

OrderInv ==
  /\ \A i, j \in 1 .. Len(waiting) : i < j => waiting[i] < waiting[j]
  /\ \A i \in 1 .. Len(waiting) : Ahead(waiting[i])
  /\ \A m \in effects : Ahead(m) /\ \A i \in 1 .. Len(waiting) : waiting[i] < m
  /\ \A m \in Messages : Delivered(m) => m <= changes
  /\ \A m \in deferred \cup finished : Delivered(m)
  /\ inFlight # NoMessage =>
       /\ Delivered(inFlight)
       /\ tries[inFlight] = 1 => \A k \in Messages : Delivered(k) => k <= inFlight

\* No change is lost on the way without a trace.
TraceInv ==
  \A m \in Messages : m <= changes =>
    m \in effects \cup dropped \cup finished \cup givenUp \/ OnItsWay(m)

\* The config holds each field's last change, the saved config one of its
\* changes.
ConfigInv ==
  /\ \A m \in Messages : m <= changes => m <= config[fieldOf[m]]
  /\ \A f \in Fields : config[f] # Unchanged =>
       fieldOf[config[f]] = f /\ config[f] <= changes
  /\ \A f \in Fields : saved[f] # Unchanged =>
       fieldOf[saved[f]] = f /\ Delivered(saved[f])

\* m is saved, or what overwrote it is later or was delivered again.
Overwritten(m) ==
  LET s == saved[fieldOf[m]] IN s # Unchanged /\ (s >= m \/ tries[s] > 1)

FinishedInv == \A m \in finished : Overwritten(m)

IInv == TypeOK /\ OrderInv /\ TraceInv /\ ConfigInv /\ FinishedInv

-----------------------------------------------------------------------------

\* A change is a number, and so is how often it was delivered.
LEMMA Numbers ==
  /\ MaxMessages \in Nat /\ Messages \subseteq Nat \ {0}
  /\ NoMessage \notin Messages /\ Unchanged \notin Messages
  /\ NoMessage = 0 /\ Unchanged = 0
  /\ TypeOK => changes \in Nat /\ \A m \in Messages : tries[m] \in Nat
BY NsqAssumption DEF Messages, NoMessage, Unchanged, TypeOK, NsqTypeOK

LEMMA InitIInv == Init => IInv
<1> SUFFICES ASSUME Init PROVE IInv
  OBVIOUS
<1>1. /\ waiting = <<>> /\ Len(waiting) = 0 /\ inFlight = NoMessage /\ deferred = {}
      /\ tries = [m \in Messages |-> 0] /\ finished = {} /\ givenUp = {}
      /\ config = [f \in Fields |-> Unchanged] /\ saved = config
      /\ changes = 0 /\ effects = {} /\ dropped = {}
      /\ fieldOf \in [Messages -> Fields]
  BY DEF Init, NsqInit
<1>2. TypeOK
  <2>1. tries \in [Messages -> 0 .. MaxTries]
    BY <1>1, NsqAssumption
  <2>2. NsqTypeOK
    BY <1>1, <2>1 DEF NsqTypeOK
  <2>3. QED
    BY <1>1, <2>2, NsqAssumption DEF TypeOK
<1>3. OrderInv
  BY <1>1 DEF OrderInv, Delivered
<1>4. TraceInv /\ ConfigInv /\ FinishedInv
  BY <1>1, Numbers DEF TraceInv, ConfigInv, FinishedInv
<1>5. QED
  BY <1>2, <1>3, <1>4 DEF IInv

-----------------------------------------------------------------------------
(* The client                                                              *)

LEMMA ChangeIInv ==
  ASSUME IInv, Change
  PROVE  IInv'
<1> USE DEF IInv, nsqVars
<1>1. /\ effects = {} /\ changes < MaxMessages /\ changes' = changes + 1
      /\ effects' = {changes'} /\ changes' \in Messages
      /\ config' = [config EXCEPT ![fieldOf[changes']] = changes']
      /\ UNCHANGED <<fieldOf, dropped, saved, waiting, inFlight, deferred, tries,
                     finished, givenUp>>
  BY NsqAssumption DEF Change, ReaderIsFree, TypeOK, Messages
<1>2. fieldOf[changes'] \in Fields
  BY <1>1 DEF TypeOK
<1>3. TypeOK'
  <2>1. config' \in [Fields -> Messages \cup {Unchanged}]
    BY <1>1, <1>2 DEF TypeOK
  <2>2. changes' \in 0 .. MaxMessages /\ changes' # Unchanged
    BY <1>1, Numbers DEF Messages
  <2>3. QED
    BY <1>1, <2>1, <2>2 DEF TypeOK, NsqTypeOK
<1>4. OrderInv'
  <2>1. changes \in Nat /\ \A k \in Messages : k \in Nat
    BY Numbers
  <2>2. \A k \in Messages : Delivered(k) => k < changes'
    BY <1>1, <2>1 DEF OrderInv
  <2>3. \A i \in 1 .. Len(waiting) : waiting[i] \in Messages
    BY DEF TypeOK, NsqTypeOK
  <2>4. \A i \in 1 .. Len(waiting) : waiting[i] <= changes
    BY DEF OrderInv, Ahead
  <2>5. \A i \in 1 .. Len(waiting) : waiting[i] < changes'
    <3> TAKE i \in 1 .. Len(waiting)
    <3>1. waiting[i] \in Nat /\ waiting[i] <= changes
      BY <2>1, <2>3, <2>4
    <3>2. QED
      BY <1>1, <2>1, <3>1
  <2>6. \A k \in Messages : Delivered(k)' <=> Delivered(k)
    BY <1>1 DEF Delivered
  <2>7. \A m \in Messages : Ahead(m) => Ahead(m)'
    BY <1>1, <2>1, <2>6 DEF Ahead
  <2>8. Ahead(changes)'
    BY <1>1, <2>1, <2>2, <2>6 DEF Ahead
  <2>9. /\ \A i \in 1 .. Len(waiting') : Ahead(waiting[i])'
        /\ \A m \in effects' : Ahead(m)' /\ \A i \in 1 .. Len(waiting') : waiting'[i] < m
    BY <1>1, <2>3, <2>5, <2>7, <2>8 DEF OrderInv
  <2>10. \A m \in Messages : Delivered(m)' => m <= changes'
    BY <1>1, <2>1, <2>2, <2>6
  <2>11. \A m \in deferred' \cup finished' : Delivered(m)'
    BY <1>1 DEF OrderInv, Delivered
  <2>12. inFlight' # NoMessage =>
          /\ Delivered(inFlight)'
          /\ tries'[inFlight'] = 1 => \A k \in Messages : Delivered(k)' => k <= inFlight'
    BY <1>1 DEF OrderInv, Delivered
  <2>13. \A i, j \in 1 .. Len(waiting') : i < j => waiting'[i] < waiting'[j]
    BY <1>1 DEF OrderInv
  <2>14. QED
    BY <1>1, <2>9, <2>10, <2>11, <2>12, <2>13 DEF OrderInv
<1>5. TraceInv'
  <2>1. \A m \in Messages : m <= changes' => m <= changes \/ m = changes'
    BY <1>1, Numbers
  <2>2. QED
    BY <1>1, <2>1 DEF TraceInv, OnItsWay
<1>6. ConfigInv'
  <2>1. \A f \in Fields : config'[f] = IF f = fieldOf[changes'] THEN changes' ELSE config[f]
    BY <1>1 DEF TypeOK
  <2>2. \A m \in Messages : m <= changes' => m <= changes \/ m = changes'
    BY <1>1, Numbers
  <2>3. \A f \in Fields : config[f] # Unchanged => config[f] \in Nat /\ config[f] <= changes
    BY Numbers DEF ConfigInv, TypeOK
  <2>4. \A m \in Messages : m <= changes' => m <= config'[fieldOf[m]]
    <3> TAKE m \in Messages
    <3>1. CASE fieldOf[m] = fieldOf[changes']
      BY <2>1, <3>1, <1>2
    <3>2. CASE fieldOf[m] # fieldOf[changes']
      BY <2>1, <2>2, <3>2 DEF ConfigInv, TypeOK
    <3>3. QED
      BY <3>1, <3>2
  <2>5. \A f \in Fields : config'[f] # Unchanged =>
          fieldOf[config'[f]] = f /\ config'[f] <= changes'
    BY <1>1, <2>1, <2>3, Numbers DEF ConfigInv
  <2>6. \A f \in Fields : saved'[f] # Unchanged =>
          fieldOf[saved'[f]] = f /\ Delivered(saved[f])'
    BY <1>1 DEF ConfigInv, Delivered
  <2>7. QED
    BY <1>1, <2>4, <2>5, <2>6 DEF ConfigInv, Delivered
<1>7. FinishedInv'
  BY <1>1 DEF FinishedInv, Overwritten
<1>8. QED
  BY <1>3, <1>4, <1>5, <1>6, <1>7

\* A change leaves the handler's hands, for the queue or for nothing.
LEMMA PublishIInv ==
  ASSUME IInv, NEW m \in Messages, PublishEffects(m)
  PROVE  IInv'
<1> USE DEF IInv, nsqVars
<1>1. /\ m \in effects /\ effects' = {} /\ waiting' = Append(waiting, m)
      /\ UNCHANGED <<config, changes, fieldOf, dropped, saved, inFlight, deferred,
                     tries, finished, givenUp>>
  BY DEF PublishEffects, Publish, TypeOK
<1>2. /\ waiting' \in Seq(Messages) /\ Len(waiting) \in Nat
      /\ Len(waiting') = Len(waiting) + 1 /\ waiting'[Len(waiting) + 1] = m
      /\ \A i \in 1 .. Len(waiting) : waiting'[i] = waiting[i]
  BY <1>1, AppendProperties DEF TypeOK, NsqTypeOK
<1>3. \A i \in 1 .. Len(waiting') : i \in 1 .. Len(waiting) \/ i = Len(waiting) + 1
  BY <1>2
<1>4. TypeOK'
  BY <1>1, <1>2 DEF TypeOK, NsqTypeOK
<1>5. OrderInv'
  <2>1. \A k : Ahead(k)' <=> Ahead(k)
    BY <1>1 DEF Ahead, Delivered
  <2>2. \A i \in 1 .. Len(waiting') : Ahead(waiting'[i])
    BY <1>1, <1>2, <1>3 DEF OrderInv
  <2>3. ASSUME NEW i \in 1 .. Len(waiting'), NEW j \in 1 .. Len(waiting'), i < j
        PROVE  waiting'[i] < waiting'[j]
    <3>1. i \in 1 .. Len(waiting)
      BY <1>2, <1>3, <2>3
    <3>2. CASE j \in 1 .. Len(waiting)
      BY <1>2, <2>3, <3>1, <3>2 DEF OrderInv
    <3>3. CASE j = Len(waiting) + 1
      BY <1>1, <1>2, <3>1, <3>3 DEF OrderInv
    <3>4. QED
      BY <1>3, <3>2, <3>3
  <2>4. QED
    BY <1>1, <2>1, <2>2, <2>3 DEF OrderInv, Delivered
<1>6. TraceInv'
  <2>1. \A k : OnItsWay(k) => OnItsWay(k)'
    BY <1>1, <1>2 DEF OnItsWay
  <2>2. OnItsWay(m)'
    BY <1>2 DEF OnItsWay
  <2>3. \A k \in effects : k = m
    BY <1>1 DEF TypeOK
  <2>4. QED
    BY <1>1, <2>1, <2>2, <2>3 DEF TraceInv
<1>7. ConfigInv' /\ FinishedInv'
  BY <1>1 DEF ConfigInv, FinishedInv, Overwritten, Delivered
<1>8. QED
  BY <1>4, <1>5, <1>6, <1>7

LEMMA DropIInv ==
  ASSUME IInv, NEW m \in Messages, QueueDrops(m)
  PROVE  IInv'
<1> USE DEF IInv, nsqVars
<1>1. /\ m \in effects /\ effects' = {} /\ dropped' = dropped \cup {m}
      /\ \A k \in effects : k = m
      /\ UNCHANGED <<config, changes, fieldOf, saved, waiting, inFlight, deferred,
                     tries, finished, givenUp>>
  BY DEF QueueDrops, TypeOK
<1>2. TypeOK'
  BY <1>1 DEF TypeOK, NsqTypeOK
<1>3. OrderInv'
  BY <1>1 DEF OrderInv, Ahead, Delivered
<1>4. TraceInv'
  BY <1>1 DEF TraceInv, OnItsWay
<1>5. ConfigInv' /\ FinishedInv'
  BY <1>1 DEF ConfigInv, FinishedInv, Overwritten, Delivered
<1>6. QED
  BY <1>2, <1>3, <1>4, <1>5

-----------------------------------------------------------------------------
(* nsqd                                                                    *)

\* More deliveries take nothing from what is saved.
LEMMA TriesGrow ==
  ASSUME IInv, UNCHANGED <<clientVars, dropped, saved, finished>>,
         \A k \in Messages : tries'[k] \in Nat /\ tries'[k] >= tries[k]
  PROVE  ConfigInv' /\ FinishedInv'
<1> USE DEF IInv, clientVars
<1>1. /\ \A f \in Fields : saved[f] \in Messages \cup {Unchanged}
      /\ \A m \in finished : m \in Messages /\ fieldOf[m] \in Fields
  BY DEF TypeOK, NsqTypeOK
<1>2. \A k \in Messages : /\ Delivered(k) => Delivered(k)'
                          /\ tries[k] > 1 => tries'[k] > 1
  BY Numbers DEF Delivered
<1>3. ConfigInv'
  BY <1>1, <1>2 DEF ConfigInv
<1>4. FinishedInv'
  BY <1>1, <1>2 DEF FinishedInv, Overwritten
<1>5. QED
  BY <1>3, <1>4

\* A first delivery is of a change that is later than all that went before.
LEMMA FirstIInv ==
  ASSUME IInv, inFlight = NoMessage, waiting # <<>>, NEW m \in Messages,
         m = Head(waiting), waiting' = Tail(waiting), inFlight' = m,
         tries' = [tries EXCEPT ![m] = @ + 1],
         UNCHANGED <<clientVars, dropped, saved, deferred, finished, givenUp>>
  PROVE  IInv'
<1> USE DEF IInv, clientVars
<1>1. /\ waiting' \in Seq(Messages) /\ Len(waiting) \in Nat \ {0}
      /\ Len(waiting') = Len(waiting) - 1 /\ m = waiting[1]
      /\ \A i \in 1 .. Len(waiting') : waiting'[i] = waiting[i + 1]
  BY HeadTailProperties DEF TypeOK, NsqTypeOK
<1>2. \A i \in 1 .. Len(waiting') : i + 1 \in 1 .. Len(waiting) /\ 1 < i + 1
  BY <1>1
<1>3. Ahead(m) /\ tries[m] = 0 /\ m \in Nat
  <2>1. Ahead(m) /\ m \in Nat /\ tries[m] \in Nat
    BY <1>1, Numbers DEF OrderInv
  <2>2. QED
    BY <2>1 DEF Ahead, Delivered
<1>4. \A k \in Messages : /\ tries[k] \in Nat
                          /\ tries'[k] = IF k = m THEN 1 ELSE tries[k]
  BY <1>3, Numbers DEF TypeOK, NsqTypeOK
<1>5. TypeOK'
  <2>1. tries' \in [Messages -> 0 .. MaxTries]
    BY <1>3, NsqAssumption DEF TypeOK, NsqTypeOK
  <2>2. QED
    BY <1>1, <2>1 DEF TypeOK, NsqTypeOK
<1>6. OrderInv'
  <2>1. \A k \in Messages : Delivered(k)' <=> Delivered(k) \/ k = m
    BY <1>4 DEF Delivered
  <2>2. \A k \in Messages : Ahead(k) /\ m < k => Ahead(k)'
    BY <2>1 DEF Ahead
  <2>3. \A i \in 1 .. Len(waiting') : Ahead(waiting[i])'
    <3> TAKE i \in 1 .. Len(waiting')
    <3>1. waiting'[i] = waiting[i + 1] /\ waiting[i + 1] \in Messages
      BY <1>1, <1>2 DEF TypeOK, NsqTypeOK
    <3>2. Ahead(waiting[i + 1]) /\ m < waiting[i + 1]
      BY <1>1, <1>2 DEF OrderInv
    <3>3. QED
      BY <2>2, <3>1, <3>2
  <2>4. \A e \in effects : Ahead(e)' /\ \A i \in 1 .. Len(waiting') : waiting'[i] < e
    <3> TAKE e \in effects
    <3>1. e \in Messages /\ m < e /\ Ahead(e)
      <4>1. e \in Nat \ {0} /\ e <= MaxMessages
        BY NsqAssumption DEF TypeOK, Unchanged
      <4>2. QED
        BY <1>1, <4>1, NsqAssumption DEF OrderInv, Messages
    <3>2. \A i \in 1 .. Len(waiting') : waiting'[i] < e
      BY <1>1, <1>2 DEF OrderInv
    <3>3. QED
      BY <2>2, <3>1, <3>2
  <2>5. \A i, j \in 1 .. Len(waiting') : i < j => waiting'[i] < waiting'[j]
    <3> SUFFICES ASSUME NEW i \in 1 .. Len(waiting'), NEW j \in 1 .. Len(waiting'), i < j
                 PROVE  waiting'[i] < waiting'[j]
      OBVIOUS
    <3>1. i + 1 \in 1 .. Len(waiting) /\ j + 1 \in 1 .. Len(waiting) /\ i + 1 < j + 1
      BY <1>1
    <3>2. waiting[i + 1] < waiting[j + 1]
      BY <3>1 DEF OrderInv
    <3>3. QED
      BY <1>1, <3>2
  <2>6. \A k \in Messages : Delivered(k)' => k <= changes /\ k <= m
    BY <1>3, <2>1, Numbers DEF OrderInv, Ahead
  <2>7. \A k \in deferred' \cup finished' : Delivered(k)'
    BY <2>1 DEF OrderInv, TypeOK, NsqTypeOK
  <2>8. Delivered(m)'
    BY <2>1
  <2>9. QED
    BY <2>3, <2>4, <2>5, <2>6, <2>7, <2>8 DEF OrderInv, Delivered
<1>7. TraceInv'
  <2>1. \A k : OnItsWay(k) => OnItsWay(k)' \/ k = NoMessage
    <3> SUFFICES ASSUME NEW k, OnItsWay(k), k # NoMessage PROVE OnItsWay(k)'
      OBVIOUS
    <3>1. CASE k \in deferred \/ k = m
      BY <3>1 DEF OnItsWay
    <3>2. CASE k \notin deferred /\ k # m
      <4>1. PICK i \in 1 .. Len(waiting) : waiting[i] = k
        BY <3>2 DEF OnItsWay
      <4>2. i - 1 \in 1 .. Len(waiting') /\ (i - 1) + 1 = i
        BY <1>1, <3>2, <4>1
      <4>3. waiting'[i - 1] = k
        BY <1>1, <4>1, <4>2
      <4>4. QED
        BY <4>2, <4>3 DEF OnItsWay
    <3>3. QED
      BY <3>1, <3>2
  <2>2. QED
    BY <2>1, Numbers DEF TraceInv
<1>8. ConfigInv' /\ FinishedInv'
  BY <1>3, <1>4, TriesGrow
<1>9. QED
  BY <1>5, <1>6, <1>7, <1>8

LEMMA RedeliverIInv ==
  ASSUME IInv, inFlight = NoMessage, NEW m \in deferred, tries[m] < MaxTries,
         deferred' = deferred \ {m}, inFlight' = m,
         tries' = [tries EXCEPT ![m] = @ + 1],
         UNCHANGED <<clientVars, dropped, saved, waiting, finished, givenUp>>
  PROVE  IInv'
<1> USE DEF IInv, clientVars
<1>1. /\ m \in Messages /\ tries[m] > 0
      /\ \A k \in Messages : /\ tries[k] \in Nat
                             /\ tries'[k] = IF k = m THEN tries[k] + 1 ELSE tries[k]
  BY Numbers DEF OrderInv, Delivered, TypeOK, NsqTypeOK
<1>2. TypeOK'
  <2>1. tries' \in [Messages -> 0 .. MaxTries]
    BY <1>1, NsqAssumption DEF TypeOK, NsqTypeOK
  <2>2. QED
    BY <1>1, <2>1 DEF TypeOK, NsqTypeOK
<1>3. \A k \in Messages : Delivered(k)' <=> Delivered(k)
  BY <1>1 DEF Delivered
<1>4. OrderInv'
  <2>1. \A k : Ahead(k)' <=> Ahead(k)
    BY <1>3 DEF Ahead
  <2>2. Delivered(m)' /\ tries'[m] # 1 /\ \A k \in deferred' \cup finished' : Delivered(k)'
    BY <1>1, <1>3 DEF OrderInv, Delivered, TypeOK, NsqTypeOK
  <2>3. QED
    BY <1>3, <2>1, <2>2 DEF OrderInv
<1>5. TraceInv'
  BY Numbers DEF TraceInv, OnItsWay
<1>6. ConfigInv' /\ FinishedInv'
  BY <1>1, TriesGrow
<1>7. QED
  BY <1>2, <1>4, <1>5, <1>6

LEMMA ConsumeIInv ==
  ASSUME IInv, NEW m \in Messages, Consume(m)
  PROVE  IInv'
<1>1. CASE Deliver(m)
  <2>1. /\ inFlight = NoMessage /\ inFlight' = m
        /\ tries' = [tries EXCEPT ![m] = @ + 1]
        /\ UNCHANGED <<clientVars, dropped, saved, finished, givenUp>>
    BY <1>1 DEF Consume, Deliver
  <2>2. CASE waiting # <<>> /\ m = Head(waiting)
             /\ waiting' = Tail(waiting) /\ UNCHANGED deferred
    BY <2>1, <2>2, FirstIInv
  <2>3. CASE m \in deferred /\ tries[m] < MaxTries
             /\ deferred' = deferred \ {m} /\ UNCHANGED waiting
    BY <2>1, <2>3, RedeliverIInv
  <2>4. QED
    BY <1>1, <2>2, <2>3 DEF Deliver
<1>2. CASE GiveUp(m)
  <2> USE DEF IInv, clientVars
  <2>1. /\ m \in deferred /\ deferred' = deferred \ {m}
        /\ givenUp' = givenUp \cup {m}
        /\ UNCHANGED <<clientVars, dropped, saved, waiting, inFlight, tries, finished>>
    BY <1>2 DEF Consume, GiveUp
  <2>2. TypeOK'
    BY <2>1 DEF TypeOK, NsqTypeOK
  <2>3. OrderInv'
    BY <2>1 DEF OrderInv, Ahead, Delivered
  <2>4. TraceInv'
    BY <2>1 DEF TraceInv, OnItsWay
  <2>5. ConfigInv' /\ FinishedInv'
    BY <2>1 DEF ConfigInv, FinishedInv, Overwritten, Delivered
  <2>6. QED
    BY <2>2, <2>3, <2>4, <2>5
<1>3. QED
  BY <1>1, <1>2 DEF Consume

-----------------------------------------------------------------------------
(* handleConfig                                                            *)

\* What the change in hand overwrites is earlier, or it was delivered again.
LEMMA MergeOverwrites ==
  ASSUME IInv, Handling, saved' = MergeConfig, UNCHANGED <<fieldOf, tries>>
  PROVE  /\ \A f \in Fields : saved'[f] = IF f = fieldOf[inFlight] THEN inFlight ELSE saved[f]
         /\ \A m \in finished : Overwritten(m)'
         /\ \A m \in Messages : m = inFlight => Overwritten(m)'
<1> USE DEF IInv
<1>1. /\ inFlight \in Messages /\ inFlight \in Nat /\ Delivered(inFlight)
      /\ fieldOf \in [Messages -> Fields] /\ fieldOf[inFlight] \in Fields
  BY Numbers DEF Handling, TypeOK, NsqTypeOK, OrderInv
<1>2. \A f \in Fields : saved'[f] = IF f = fieldOf[inFlight] THEN inFlight ELSE saved[f]
  BY <1>1 DEF MergeConfig, TypeOK
<1>3. ASSUME NEW m \in Messages, fieldOf[m] = fieldOf[inFlight],
             inFlight >= m \/ tries[inFlight] > 1
      PROVE  Overwritten(m)'
  BY <1>1, <1>2, <1>3, Numbers DEF Overwritten
<1>4. ASSUME NEW m \in finished PROVE Overwritten(m)'
  <2>1. m \in Messages /\ Delivered(m) /\ Overwritten(m)
    BY DEF OrderInv, FinishedInv, TypeOK, NsqTypeOK
  <2>2. CASE fieldOf[m] # fieldOf[inFlight]
    BY <1>1, <1>2, <2>1, <2>2 DEF Overwritten
  <2>3. CASE fieldOf[m] = fieldOf[inFlight]
    <3>1. tries[inFlight] = 1 => m <= inFlight
      BY <1>1, <2>1 DEF OrderInv, Handling
    <3>2. m \in Nat /\ tries[inFlight] \in Nat /\ tries[inFlight] > 0
      BY <1>1, <2>1, Numbers DEF Delivered
    <3>3. inFlight >= m \/ tries[inFlight] > 1
      BY <1>1, <3>1, <3>2
    <3>4. QED
      BY <1>3, <2>1, <2>3, <3>3
  <2>4. QED
    BY <2>2, <2>3
<1>5. ASSUME NEW m \in Messages, m = inFlight PROVE Overwritten(m)'
  BY <1>1, <1>3, <1>5
<1>6. QED
  BY <1>2, <1>4, <1>5

\* The change in hand is given back, or was merged and is through.
LEMMA HandlesIInv ==
  ASSUME IInv, HandleConfig \/ HandleConfigFails
  PROVE  IInv'
<1> USE DEF IInv, clientVars
<1>1. /\ inFlight \in Messages /\ Delivered(inFlight) /\ Handling
      /\ saved' = saved \/ saved' = MergeConfig
      /\ inFlight' = NoMessage
      /\ UNCHANGED <<clientVars, dropped, waiting, tries, givenUp>>
      /\ \/ deferred' = deferred \cup {inFlight} /\ finished' = finished
         \/ /\ finished' = finished \cup {inFlight} /\ deferred' = deferred
            /\ saved' = MergeConfig
  BY DEF HandleConfig, HandleConfigFails, AfterFailure, Finish, Requeue, Handling,
         TypeOK, NsqTypeOK, OrderInv
<1>2. TypeOK'
  <2>1. saved' \in [Fields -> Messages \cup {Unchanged}]
    BY <1>1 DEF TypeOK, MergeConfig
  <2>2. QED
    BY <1>1, <2>1 DEF TypeOK, NsqTypeOK
<1>3. OrderInv'
  BY <1>1 DEF OrderInv, Ahead, Delivered
<1>4. TraceInv'
  <2>1. \A k \in Messages : OnItsWay(k) => OnItsWay(k)' \/ k \in finished'
    BY <1>1 DEF OnItsWay
  <2>2. QED
    BY <1>1, <2>1 DEF TraceInv
<1>5. ConfigInv' /\ FinishedInv'
  <2>1. CASE saved' = MergeConfig
    <3>1. /\ \A f \in Fields :
               saved'[f] = IF f = fieldOf[inFlight] THEN inFlight ELSE saved[f]
          /\ \A m \in finished : Overwritten(m)'
          /\ \A m \in Messages : m = inFlight => Overwritten(m)'
      BY <1>1, <2>1, MergeOverwrites
    <3>2. FinishedInv'
      BY <1>1, <3>1 DEF FinishedInv
    <3>3. ConfigInv'
      BY <1>1, <3>1 DEF ConfigInv, Delivered
    <3>4. QED
      BY <3>2, <3>3
  <2>2. CASE saved' = saved /\ finished' = finished
    BY <1>1, <2>2 DEF ConfigInv, FinishedInv, Overwritten, Delivered
  <2>3. QED
    BY <1>1, <2>1, <2>2
<1>6. QED
  BY <1>2, <1>3, <1>4, <1>5

-----------------------------------------------------------------------------
LEMMA StutterIInv == IInv /\ UNCHANGED vars => IInv'
BY DEF IInv, vars, clientVars, nsqVars, TypeOK, NsqTypeOK, OrderInv, Ahead, Delivered,
       TraceInv, OnItsWay, ConfigInv, FinishedInv, Overwritten

LEMMA NextIInv == IInv /\ [Next]_vars => IInv'
<1> SUFFICES ASSUME IInv, [Next]_vars PROVE IInv'
  OBVIOUS
<1>1. CASE Change
  BY <1>1, ChangeIInv
<1>2. CASE HandleConfig \/ HandleConfigFails
  BY <1>2, HandlesIInv
<1>3. ASSUME NEW m \in Messages, PublishEffects(m) \/ QueueDrops(m) \/ Consume(m)
      PROVE  IInv'
  BY <1>3, PublishIInv, DropIInv, ConsumeIInv
<1>4. CASE UNCHANGED vars
  BY <1>4, StutterIInv
<1>5. QED
  BY <1>1, <1>2, <1>3, <1>4 DEF Next

LEMMA Invariance == Spec => []IInv
<1>1. Init => IInv
  BY InitIInv
<1>2. IInv /\ [Next]_vars => IInv'
  BY NextIInv
<1>3. QED
  BY <1>1, <1>2, PTL DEF Spec

\* Every variable keeps to its type, nsqd's among them.
THEOREM TypeCorrect == Spec => []TypeOK
<1>1. IInv => TypeOK
  BY DEF IInv
<1>2. QED
  BY <1>1, Invariance, PTL

\* The saved config differs from the client's only for a reason: the last
\* change is on its way or was dropped, or a redelivery overwrote it.
THEOREM StaleForAReasonHolds == Spec => []StaleForAReason
<1>1. ASSUME IInv PROVE StaleForAReason
  <2> USE <1>1 DEF IInv
  <2> SUFFICES ASSUME NEW f \in Fields, saved[f] # config[f],
                      config[f] \notin effects \cup dropped \cup givenUp,
                      ~OnItsWay(config[f])
               PROVE  saved[f] # Unchanged /\ tries[saved[f]] > 1
    BY DEF StaleForAReason
  <2>1. saved[f] # Unchanged =>
          saved[f] \in Nat /\ saved[f] <= config[f] /\ saved[f] \in Messages
    BY Numbers DEF ConfigInv, OrderInv, TypeOK
  <2>2. config[f] # Unchanged
    BY <2>1, Numbers DEF TypeOK
  <2>3. config[f] \in Messages /\ fieldOf[config[f]] = f /\ config[f] <= changes
    BY <2>2 DEF ConfigInv, TypeOK
  <2>4. config[f] \in finished
    BY <2>3 DEF TraceInv
  <2>5. saved[f] # Unchanged /\ (saved[f] >= config[f] \/ tries[saved[f]] > 1)
    BY <2>3, <2>4 DEF FinishedInv, Overwritten
  <2>6. ~(saved[f] >= config[f])
    <3>1. saved[f] \in Nat /\ config[f] \in Nat /\ saved[f] <= config[f]
      BY <2>1, <2>3, <2>5, Numbers
    <3>2. QED
      BY <3>1
  <2>7. QED
    BY <2>5, <2>6
<1>2. QED
  BY <1>1, Invariance, PTL

\* A saved field goes back to an earlier change only by a redelivery.
THEOREM OnlyRetriesGoBackHolds == Spec => OnlyRetriesGoBack
<1> DEFINE Retried == \A f \in Fields : saved'[f] < saved[f] => tries[inFlight] > 1
<1>1. ASSUME IInv, [Next]_vars PROVE [Retried]_vars
  <2> USE <1>1 DEF IInv
  <2> SUFFICES ASSUME NEW f \in Fields, saved'[f] < saved[f]
               PROVE  tries[inFlight] > 1
    OBVIOUS
  <2>1. saved[f] \in Nat /\ saved' # saved
    <3>1. saved[f] \in Messages \cup {Unchanged}
      BY DEF TypeOK
    <3>2. saved[f] \in Nat
      BY <3>1, NsqAssumption DEF Messages, Unchanged
    <3>3. QED
      BY <3>2
  <2>2. Handling /\ saved' = MergeConfig /\ UNCHANGED <<fieldOf, tries>>
    BY <2>1 DEF Next, Change, HandleConfig, HandleConfigFails, PublishEffects, QueueDrops,
                Consume, vars, Finish, Requeue, AfterFailure, clientVars
  <2>3. saved'[f] = IF f = fieldOf[inFlight] THEN inFlight ELSE saved[f]
    BY <2>2, MergeOverwrites
  <2>4. inFlight < saved[f] /\ inFlight \in Messages /\ Delivered(inFlight)
    BY <2>1, <2>2, <2>3, Numbers DEF Handling, OrderInv, TypeOK, NsqTypeOK
  <2>5. saved[f] \in Messages /\ Delivered(saved[f])
    BY <2>1, <2>4, Numbers DEF TypeOK, ConfigInv
  <2>6. tries[inFlight] # 1
    BY <2>1, <2>2, <2>4, <2>5, Numbers DEF OrderInv, Handling
  <2>7. QED
    BY <2>4, <2>6, Numbers DEF Delivered
<1>2. QED
  BY <1>1, Invariance, PTL DEF Spec, OnlyRetriesGoBack
=============================================================================
