---------------------------- MODULE LoggerProofs ----------------------------
(***************************************************************************)
(* Proofs about Logger, for any number of messages, tries and crashes.  The *)
(* safety properties are about rows and the conversation list, and          *)
(* become inductive with what nsqd's order gives (NsqInv: the first          *)
(* deliveries come in order, so a message on its first is the last one       *)
(* delivered) and with what the handler's plan says of the message in its    *)
(* hands (HandlerInv): as long as an insert is ahead, nothing of this        *)
(* delivery is in the log, and as soon as none is, the message is.  WayInv   *)
(* is where nsqd has the messages it is not through with.                   *)
(***************************************************************************)
EXTENDS Logger, SequenceTheorems, TLAPS

\* What is left to do, with the insert behind or ahead.
Late == {<<>>, <<"publish">>, <<"notify">>, <<"publish", "notify">>}
Ahead == {<<"insert", "publish">>, <<"insert", "publish", "notify">>,
          <<"match", "insert", "publish", "notify">>}
Whole == <<"private", "match", "insert", "publish", "notify">>

TypeOK ==
  /\ NsqTypeOK
  /\ route \in [Messages -> ChatRoutes \cup MultiRoutes]
  /\ steps \in Late \cup Ahead \cup {Whole}
  /\ highlight \in BOOLEAN /\ exists \in BOOLEAN
  /\ rows \in [Messages -> Nat] /\ private \in Messages \cup {NoMessage}
  /\ live \subseteq Messages /\ noted \subseteq Messages
  /\ orphans \subseteq Messages /\ unsure \subseteq Messages

\* The messages delivered once at least.
Seen == MaxMessages - Len(waiting)

NsqInv ==
  /\ \A i \in 1 .. Len(waiting) : waiting[i] = Seen + i
  /\ Len(waiting) <= MaxMessages
  /\ \A m \in deferred : m <= Seen
  /\ inFlight # NoMessage => inFlight <= Seen /\ inFlight \notin deferred
  /\ \A m \in Messages : IF m > Seen THEN tries[m] = 0 ELSE tries[m] >= 1
  /\ inFlight # NoMessage /\ tries[inFlight] = 1 => inFlight = Seen

\* Whether m was stored, or found to have no connection.
Kept(m) == rows[m] > 0 \/ m \in orphans

HandlerInv ==
  inFlight # NoMessage =>
    IF steps \in Late
    THEN route[inFlight] \in Stored => Kept(inFlight)
    ELSE rows[inFlight] > 0 => inFlight \in unsure

\* The sender of a private message is recorded first.
PrivateInv ==
  inFlight # NoMessage /\ route[inFlight] = "private" /\ steps # Whole =>
    private = inFlight

\* What nsqd has delivered and is through with was handled, or tried too often.
WayInv ==
  /\ \A m \in Messages : m <= Seen =>
       m = inFlight \/ m \in deferred \cup finished \cup givenUp
  /\ \A m \in givenUp :
       m <= Seen /\ m \notin deferred /\ m # inFlight /\ tries[m] = MaxTries

\* What was handled is in the log, or its connection was gone.
FinishedInv ==
  \A m \in finished : route[m] \in Stored => rows[m] > 0 \/ m \in orphans

RowsInv ==
  /\ \A m \in Messages : rows[m] > 0 => m <= Seen
  /\ \A m \in deferred : rows[m] > 0 => m \in unsure

IInv ==
  /\ TypeOK /\ NsqInv /\ HandlerInv /\ PrivateInv /\ RowsInv
  /\ FinishedInv /\ PublishedIsStored /\ StoredTwiceForAReason
  /\ ConversationIsCurrent

-----------------------------------------------------------------------------
(* The plan                                                                *)

\* Where the handler is tells which plan it has, and what the next step
\* leaves of it.
LEMMA PlanSteps ==
  ASSUME NEW s \in Late \cup Ahead \cup {Whole}, s # <<>>
  PROVE  /\ Head(s) = "private" => s = Whole /\ Tail(s) \in Ahead
         /\ Head(s) = "match" => s \in Ahead /\ Tail(s) \in Ahead
         /\ Head(s) = "insert" => s \in Ahead /\ Tail(s) \in Late
         /\ Head(s) \in {"publish", "notify"} => s \in Late /\ Tail(s) \in Late
<1>1. CASE s = Whole
  BY <1>1 DEF Whole, Ahead
<1>2. CASE s = <<"match", "insert", "publish", "notify">>
  BY <1>2 DEF Ahead
<1>3. CASE s = <<"insert", "publish", "notify">>
  BY <1>3 DEF Late, Ahead
<1>4. CASE s = <<"insert", "publish">>
  BY <1>4 DEF Late, Ahead
<1>5. CASE s = <<"publish", "notify">>
  BY <1>5 DEF Late
<1>6. CASE s = <<"publish">>
  BY <1>6 DEF Late
<1>7. CASE s = <<"notify">>
  BY <1>7 DEF Late
<1>8. s = Whole \/ s \in Late \/ s \in Ahead
  OBVIOUS
<1>9. QED
  BY <1>1, <1>2, <1>3, <1>4, <1>5, <1>6, <1>7, <1>8, Zenon DEF Late, Ahead

\* No plan is of two kinds.
LEMMA PlanKinds ==
  /\ Whole \notin Late /\ Whole \notin Ahead
  /\ \A s \in Ahead : s \notin Late
  /\ <<>> \in Late
BY DEF Late, Ahead, Whole

\* What a message's plan is at first: to be stored is to have an insert ahead.
LEMMA FirstPlan ==
  ASSUME NEW r \in ChatRoutes \cup MultiRoutes
  PROVE  /\ Steps[r] \in Late \cup Ahead \cup {Whole}
         /\ r \in Stored <=> Steps[r] \notin Late
         /\ r = "private" => Steps[r] = Whole
<1>1. Steps["private"] = Whole
  BY DEF Steps, Whole
<1>2. /\ Steps["channel"] \in Ahead /\ Steps["multi"] \in Ahead
      /\ Steps["drop"] \in Late /\ Steps["pass"] \in Late
      /\ Steps["nowhere"] \in Late
  BY DEF Steps, Ahead, Late
<1>3. QED
  BY <1>1, <1>2, PlanKinds DEF ChatRoutes, MultiRoutes, Stored

-----------------------------------------------------------------------------
(* nsqd's steps                                                            *)

\* A first delivery is of the message after the last one seen.
LEMMA DeliverNsqInv ==
  ASSUME TypeOK, NsqInv, NEW m \in Messages, Deliver(m)
  PROVE  /\ NsqTypeOK' /\ NsqInv'
         /\ inFlight' = m /\ tries'[m] >= 1 /\ Seen' >= Seen
         /\ \A k \in Messages : tries'[k] >= tries[k]
         /\ deferred' \subseteq deferred
         /\ m \in deferred \/ (m = Seen' /\ m > Seen)
<1>1. CASE waiting # <<>> /\ m = Head(waiting)
           /\ waiting' = Tail(waiting) /\ UNCHANGED deferred
  <2>1. /\ waiting \in Seq(Messages) /\ waiting' \in Seq(Messages)
        /\ Len(waiting) \in Nat \ {0} /\ Len(waiting') = Len(waiting) - 1
        /\ m = waiting[1]
        /\ \A i \in 1 .. Len(waiting') : waiting'[i] = waiting[i + 1]
    BY <1>1, HeadTailProperties DEF TypeOK, NsqTypeOK
  <2>2. Seen \in Nat /\ Seen' = Seen + 1 /\ m = Seen + 1
    BY <2>1, NsqAssumption DEF NsqInv, Seen
  <2>3. m \in Nat /\ tries[m] = 0
    BY <2>2 DEF NsqInv, Messages
  <2>4. tries' \in [Messages -> 0 .. MaxTries]
        /\ \A k \in Messages : tries'[k] = IF k = m THEN 1 ELSE tries[k]
    BY <2>3, NsqAssumption DEF TypeOK, NsqTypeOK, Deliver
  <2>5. inFlight' = m /\ deferred' = deferred /\ UNCHANGED <<finished, givenUp>>
    BY <1>1 DEF Deliver
  <2>6. NsqTypeOK'
    BY <2>1, <2>4, <2>5 DEF TypeOK, NsqTypeOK
  <2>7. \A i \in 1 .. Len(waiting') : waiting'[i] = Seen' + i
    <3> TAKE i \in 1 .. Len(waiting')
    <3>1. i + 1 \in 1 .. Len(waiting) /\ i \in Nat
      BY <2>1
    <3>2. waiting'[i] = Seen + (i + 1)
      BY <2>1, <3>1 DEF NsqInv
    <3>3. QED
      BY <2>2, <3>1, <3>2
  <2>8. \A k \in deferred : k \in Nat /\ k <= Seen
    BY DEF NsqInv, TypeOK, NsqTypeOK, Messages
  <2>9. \A k \in Messages : IF k > Seen' THEN tries'[k] = 0 ELSE tries'[k] >= 1
    <3> TAKE k \in Messages
    <3>1. k \in Nat
      BY DEF Messages
    <3>2. QED
      BY <2>2, <2>4, <3>1 DEF NsqInv
  <2>10. \A k \in Messages : tries[k] \in Nat
    BY DEF TypeOK, NsqTypeOK
  <2>11. NsqInv'
    <3>1. Len(waiting') <= MaxMessages
      BY <2>1, NsqAssumption DEF NsqInv
    <3>2. \A k \in deferred' : k <= Seen' /\ k # m
      BY <2>2, <2>3, <2>5, <2>8
    <3>3. m = Seen' /\ m <= Seen'
      BY <2>2
    <3>4. QED
      BY <2>5, <2>7, <2>9, <3>1, <3>2, <3>3 DEF NsqInv
  <2>12. QED
    BY <2>2, <2>3, <2>4, <2>5, <2>6, <2>10, <2>11
<1>2. CASE m \in deferred /\ tries[m] < MaxTries
           /\ deferred' = deferred \ {m} /\ UNCHANGED waiting
  <2>1. /\ UNCHANGED <<waiting, finished, givenUp>> /\ Seen' = Seen
        /\ inFlight' = m /\ deferred' = deferred \ {m}
        /\ tries' = [tries EXCEPT ![m] = @ + 1]
    BY <1>2 DEF Deliver, Seen
  <2>2. m \in Nat /\ m <= Seen /\ tries[m] >= 1 /\ Seen \in Int
    BY <1>2, NsqAssumption
       DEF NsqInv, Seen, TypeOK, NsqTypeOK, Messages
  <2>3. tries' \in [Messages -> 0 .. MaxTries]
        /\ \A k \in Messages : /\ tries[k] \in Nat
                               /\ tries'[k] = IF k = m THEN tries[k] + 1 ELSE tries[k]
    BY <2>1, <1>2, NsqAssumption DEF TypeOK, NsqTypeOK
  <2>4. NsqTypeOK'
    BY <2>1, <2>3 DEF TypeOK, NsqTypeOK
  <2>5. NsqInv'
    BY <2>1, <2>2, <2>3 DEF NsqInv
  <2>6. QED
    BY <1>2, <2>1, <2>2, <2>3, <2>4, <2>5
<1>3. QED
  BY <1>1, <1>2 DEF Deliver

\* The message in hand goes back, or is through.
LEMMA RequeueNsqInv ==
  ASSUME TypeOK, NsqInv, inFlight # NoMessage, Requeue \/ Finish
  PROVE  NsqTypeOK' /\ NsqInv'
<1>1. /\ inFlight \in Messages /\ inFlight' = NoMessage
      /\ UNCHANGED <<waiting, tries, givenUp>> /\ Seen' = Seen
      /\ deferred' \in {deferred, deferred \cup {inFlight}}
      /\ finished' \in {finished, finished \cup {inFlight}}
  BY DEF TypeOK, NsqTypeOK, Requeue, Finish, Seen
<1>2. NsqTypeOK'
  BY <1>1 DEF TypeOK, NsqTypeOK
<1>3. QED
  BY <1>1, <1>2 DEF NsqInv

-----------------------------------------------------------------------------
(* The steps of Next                                                       *)

LEMMA InitIInv == Init => IInv
<1> SUFFICES ASSUME Init PROVE IInv
  OBVIOUS
<1>1. waiting \in Seq(Messages) /\ Len(waiting) = MaxMessages
      /\ \A i \in 1 .. Len(waiting) : waiting[i] = i
  BY NsqAssumption DEF Init, NsqInit, Messages
<1>2. Seen = 0
  BY <1>1, NsqAssumption DEF Seen
<1>3. TypeOK
  <2>1. NsqTypeOK
    BY <1>1, NsqAssumption DEF Init, NsqInit, NsqTypeOK
  <2>2. route \in [Messages -> ChatRoutes \cup MultiRoutes]
    BY Zenon DEF Init
  <2>3. QED
    BY <2>1, <2>2, PlanKinds DEF Init, TypeOK
<1>4. NsqInv
  BY <1>1, <1>2, NsqAssumption DEF Init, NsqInit, NsqInv, Messages
<1>5. QED
  BY <1>3, <1>4
     DEF Init, NsqInit, IInv, HandlerInv, PrivateInv, RowsInv, FinishedInv,
         PublishedIsStored, StoredTwiceForAReason, ConversationIsCurrent

LEMMA ConsumeIInv ==
  ASSUME IInv, NEW m \in Messages, Consume(m)
  PROVE  IInv'
<1>1. /\ NsqTypeOK' /\ NsqInv'
      /\ inFlight' = m /\ tries'[m] >= 1 /\ Seen' >= Seen
      /\ \A k \in Messages : tries'[k] >= tries[k]
      /\ deferred' \subseteq deferred
      /\ m \in deferred \/ (m = Seen' /\ m > Seen)
  BY DeliverNsqInv DEF IInv, Consume
<1>2. /\ steps' = Steps[route[m]] /\ highlight' = FALSE
      /\ UNCHANGED <<route, dbVars, publishedVars, historyVars, finished, givenUp>>
  BY DEF Consume, Deliver
<1> USE DEF IInv, dbVars, publishedVars, historyVars
<1>3. /\ steps' \in Late \cup Ahead \cup {Whole}
      /\ route[m] \in Stored <=> steps' \notin Late
      /\ route[m] = "private" => steps' = Whole
  BY <1>2, FirstPlan DEF TypeOK
<1>4. TypeOK'
  BY <1>1, <1>2, <1>3 DEF TypeOK
<1>5. Seen \in Int /\ Seen' \in Int /\ \A k \in Messages : k \in Nat /\ tries[k] \in Nat /\ tries'[k] \in Nat
  BY <1>4, NsqAssumption DEF TypeOK, NsqTypeOK, Seen, Messages
<1>6. rows[m] > 0 => m \in unsure
  BY <1>1, <1>5 DEF RowsInv
<1>7. HandlerInv' /\ PrivateInv'
  BY <1>1, <1>2, <1>3, <1>6 DEF HandlerInv, PrivateInv
<1>8. RowsInv'
  BY <1>1, <1>2, <1>5 DEF RowsInv
<1>9. FinishedInv' /\ PublishedIsStored' /\ StoredTwiceForAReason'
  BY <1>2 DEF FinishedInv, PublishedIsStored, StoredTwiceForAReason
<1>10. ConversationIsCurrent'
  BY <1>1, <1>2, <1>5 DEF ConversationIsCurrent, TypeOK
<1>11. QED
  BY <1>1, <1>4, <1>7, <1>8, <1>9, <1>10

\* The handler goes on to the next step of its plan, or publishes.
LEMMA GoesOnIInv ==
  ASSUME IInv, At("match") \/ At("publish") \/ At("notify"), Done,
         live' \in {live, live \cup {inFlight}},
         noted' \in {noted, noted \cup {inFlight}},
         At("match") => live' = live /\ noted' = noted,
         highlight' \in BOOLEAN, UNCHANGED <<route, dbVars, historyVars, nsqVars>>
  PROVE  IInv'
<1> USE DEF IInv, dbVars, historyVars, nsqVars
<1>1. /\ inFlight # NoMessage /\ inFlight \in Messages
      /\ steps # Whole /\ steps' \in Late \cup Ahead /\ steps' # Whole
      /\ steps' \in Late <=> steps \in Late
      /\ steps \in Late \/ At("match")
  <2>1. inFlight # NoMessage /\ inFlight \in Messages /\ steps # <<>>
    BY DEF At, TypeOK, NsqTypeOK
  <2>2. CASE At("match")
    <3>1. steps \in Ahead /\ steps' \in Ahead
      BY <2>1, <2>2, PlanSteps DEF At, Done, TypeOK
    <3>2. QED
      BY <2>1, <2>2, <3>1, PlanKinds
  <2>3. CASE At("publish") \/ At("notify")
    <3>1. steps \in Late /\ steps' \in Late
      BY <2>1, <2>3, PlanSteps DEF At, Done, TypeOK
    <3>2. QED
      BY <2>1, <3>1, PlanKinds
  <2>4. QED
    BY <2>2, <2>3
<1>2. TypeOK'
  BY <1>1 DEF TypeOK, NsqTypeOK
<1>3. NsqInv' /\ HandlerInv' /\ PrivateInv' /\ RowsInv'
  BY <1>1 DEF NsqInv, Seen, HandlerInv, Kept, PrivateInv, RowsInv
<1>4. PublishedIsStored'
  <2>1. CASE steps \in Late
    BY <1>1, <2>1 DEF HandlerInv, Kept, PublishedIsStored
  <2>2. CASE At("match")
    BY <2>2 DEF PublishedIsStored
  <2>3. QED
    BY <1>1, <2>1, <2>2
<1>5. FinishedInv' /\ StoredTwiceForAReason' /\ ConversationIsCurrent'
  BY DEF FinishedInv, StoredTwiceForAReason, ConversationIsCurrent
<1>6. QED
  BY <1>2, <1>3, <1>4, <1>5

\* To record the message in hand with its sender is to record one that is not
\* behind any in the log, or one delivered again.
LEMMA RecordedIsCurrent ==
  ASSUME IInv, inFlight # NoMessage, NEW m \in Messages,
         rows[m] > 0 \/ m = inFlight
  PROVE  inFlight >= m \/ tries[inFlight] > 1
<1>1. inFlight \in Messages /\ Messages \subseteq Int /\ m <= Seen /\ Seen \in Int
  BY NsqAssumption DEF IInv, TypeOK, NsqTypeOK, NsqInv, RowsInv, Seen, Messages
<1>2. tries[inFlight] \in Nat /\ tries[inFlight] >= 1
  BY <1>1 DEF IInv, TypeOK, NsqTypeOK, NsqInv
<1>3. QED
  BY <1>1, <1>2 DEF IInv, NsqInv

\* A step that gives the message in hand back to nsqd, and says that it may
\* be in the log.
LEMMA GivesBackIInv ==
  ASSUME IInv, inFlight # NoMessage, Requeue, steps' = <<>>, highlight' \in BOOLEAN,
         exists' \in BOOLEAN, UNCHANGED <<route, publishedVars>>,
         private' = private \/ private' = inFlight, orphans' = orphans,
         rows' \in [Messages -> Nat],
         \A m \in Messages \ {inFlight} : rows'[m] = rows[m],
         rows'[inFlight] >= rows[inFlight],
         unsure \subseteq unsure', unsure' \subseteq unsure \cup {inFlight},
         rows'[inFlight] > 0 => inFlight \in unsure',
         rows' # rows => steps # Whole
  PROVE  IInv'
<1> USE DEF IInv, publishedVars
<1>1. /\ NsqTypeOK' /\ NsqInv' /\ inFlight \in Messages
      /\ inFlight' = NoMessage /\ deferred' = deferred \cup {inFlight}
      /\ UNCHANGED <<waiting, tries, finished, givenUp>> /\ Seen' = Seen
  BY RequeueNsqInv DEF Requeue, TypeOK, NsqTypeOK, Seen
<1>2. TypeOK'
  BY <1>1, PlanKinds DEF TypeOK
<1>3. HandlerInv' /\ PrivateInv'
  BY <1>1 DEF HandlerInv, PrivateInv
<1>4. RowsInv'
  <2>1. \A m \in Messages : rows'[m] > 0 => m <= Seen'
    BY <1>1 DEF RowsInv, NsqInv
  <2>2. \A m \in deferred' : rows'[m] > 0 => m \in unsure'
    BY <1>1 DEF RowsInv, TypeOK, NsqTypeOK
  <2>3. QED
    BY <2>1, <2>2 DEF RowsInv
<1>5. \A m \in Messages : rows[m] \in Nat /\ rows'[m] \in Nat /\ rows'[m] >= rows[m]
  BY <1>1, <1>2 DEF TypeOK
<1>6. FinishedInv' /\ PublishedIsStored'
  <2>1. \A m \in Messages : Kept(m) => Kept(m)'
    BY <1>5 DEF Kept
  <2>2. QED
    BY <1>1, <2>1
       DEF Kept, FinishedInv, PublishedIsStored, TypeOK, NsqTypeOK
<1>7. StoredTwiceForAReason'
  BY <1>1, <1>5 DEF StoredTwiceForAReason
<1>8. ConversationIsCurrent'
  <2>1. CASE private' = inFlight
    BY <2>1, <1>1, RecordedIsCurrent DEF ConversationIsCurrent, Messages
  <2>2. CASE private' = private
    BY <2>2, <1>1 DEF ConversationIsCurrent, PrivateInv
  <2>3. QED
    BY <2>1, <2>2
<1>9. QED
  BY <1>1, <1>2, <1>3, <1>4, <1>6, <1>7, <1>8

LEMMA InsertPrivateIInv == IInv /\ InsertPrivate => IInv'
<1> SUFFICES ASSUME IInv, InsertPrivate PROVE IInv'
  OBVIOUS
<1> USE DEF IInv, publishedVars, historyVars, nsqVars
<1>1. /\ inFlight # NoMessage /\ inFlight \in Messages
      /\ steps \notin Late /\ steps' \in Ahead /\ steps' \notin Late
      /\ private' = inFlight
      /\ UNCHANGED <<route, highlight, exists, rows, publishedVars, historyVars,
                     nsqVars>>
  BY PlanSteps, PlanKinds DEF InsertPrivate, At, Done, TypeOK, NsqTypeOK
<1>2. TypeOK'
  BY <1>1 DEF TypeOK, NsqTypeOK
<1>3. NsqInv' /\ HandlerInv' /\ PrivateInv' /\ RowsInv'
  BY <1>1 DEF NsqInv, Seen, HandlerInv, PrivateInv, RowsInv
<1>4. FinishedInv' /\ PublishedIsStored' /\ StoredTwiceForAReason'
  BY <1>1 DEF FinishedInv, PublishedIsStored, StoredTwiceForAReason
<1>5. ConversationIsCurrent'
  BY <1>1, RecordedIsCurrent DEF ConversationIsCurrent
<1>6. QED
  BY <1>2, <1>3, <1>4, <1>5

LEMMA InsertMessageIInv == IInv /\ InsertMessage => IInv'
<1> SUFFICES ASSUME IInv, InsertMessage PROVE IInv'
  OBVIOUS
<1> USE DEF IInv, publishedVars, nsqVars
<1>1. /\ inFlight # NoMessage /\ inFlight \in Messages
      /\ steps \notin Late /\ steps # Whole /\ steps' \in Late
      /\ UNCHANGED <<route, highlight, exists, private, publishedVars, unsure,
                     nsqVars>>
  BY PlanSteps, PlanKinds DEF InsertMessage, At, Done, TypeOK, NsqTypeOK
<1>2. \/ rows' = [rows EXCEPT ![inFlight] = @ + 1] /\ orphans' = orphans
      \/ rows' = rows /\ orphans' = orphans \cup {inFlight}
  BY DEF InsertMessage, Insertion
<1>3. /\ rows' \in [Messages -> Nat] /\ orphans' \subseteq Messages
      /\ orphans \subseteq orphans'
      /\ \A m \in Messages \ {inFlight} : rows'[m] = rows[m]
      /\ rows'[inFlight] > 0 \/ inFlight \in orphans'
      /\ rows'[inFlight] > 1 => rows[inFlight] > 0
      /\ \A m \in Messages : rows[m] > 0 => rows'[m] > 0
  BY <1>1, <1>2 DEF TypeOK
<1>4. TypeOK'
  BY <1>1, <1>3 DEF TypeOK, NsqTypeOK
<1>5. NsqInv' /\ HandlerInv' /\ PrivateInv'
  BY <1>1, <1>3 DEF NsqInv, Seen, HandlerInv, Kept, PrivateInv
<1>6. RowsInv'
  <2>1. \A m \in Messages : rows'[m] > 0 => m <= Seen'
    BY <1>1, <1>3 DEF RowsInv, NsqInv, Seen
  <2>2. \A m \in deferred' : m \in Messages /\ m # inFlight
    BY <1>1 DEF NsqInv, TypeOK, NsqTypeOK
  <2>3. QED
    BY <1>1, <1>3, <2>1, <2>2 DEF RowsInv
<1>7. FinishedInv' /\ PublishedIsStored'
  <2>1. \A m \in Messages : Kept(m) => Kept(m)'
    BY <1>3 DEF Kept
  <2>2. QED
    BY <1>1, <2>1
       DEF Kept, FinishedInv, PublishedIsStored, TypeOK, NsqTypeOK
<1>8. StoredTwiceForAReason'
  BY <1>1, <1>3 DEF StoredTwiceForAReason, HandlerInv
<1>9. ConversationIsCurrent'
  <2> SUFFICES ASSUME NEW m \in Messages, rows'[m] > 0, route[m] = "private"
               PROVE  private >= m \/ (private # NoMessage /\ tries[private] > 1)
    BY <1>1 DEF ConversationIsCurrent
  <2>1. CASE m = inFlight
    BY <1>1, <2>1 DEF PrivateInv, Messages
  <2>2. CASE m # inFlight
    BY <1>3, <2>2 DEF ConversationIsCurrent
  <2>3. QED
    BY <2>1, <2>2
<1>10. QED
  BY <1>4, <1>5, <1>6, <1>7, <1>8, <1>9

LEMMA InsertPrivateFailsIInv == IInv /\ InsertPrivateFails => IInv'
<1> SUFFICES ASSUME IInv, InsertPrivateFails PROVE IInv'
  OBVIOUS
<1>1. /\ inFlight # NoMessage /\ inFlight \in Messages
      /\ steps \notin Late /\ steps' = <<>> /\ Requeue
      /\ private' = private \/ private' = inFlight
      /\ UNCHANGED <<route, highlight, exists, rows, publishedVars, historyVars>>
  BY PlanSteps, PlanKinds
     DEF InsertPrivateFails, At, Fails, AfterFailure, IInv, TypeOK, NsqTypeOK
<1>2. rows[inFlight] > 0 => inFlight \in unsure
  BY <1>1 DEF IInv, HandlerInv
<1>3. QED
  BY <1>1, <1>2, GivesBackIInv DEF IInv, TypeOK, historyVars

LEMMA InsertFailsIInv == IInv /\ InsertFails => IInv'
<1> SUFFICES ASSUME IInv, InsertFails PROVE IInv'
  OBVIOUS
<1>1. /\ inFlight # NoMessage /\ inFlight \in Messages
      /\ steps \notin Late /\ steps # Whole /\ steps' = <<>> /\ Requeue
      /\ UNCHANGED <<route, highlight, exists, private, publishedVars, orphans>>
      /\ \/ rows' = [rows EXCEPT ![inFlight] = @ + 1]
            /\ unsure' = unsure \cup {inFlight}
         \/ UNCHANGED <<rows, unsure>>
  BY PlanSteps, PlanKinds
     DEF InsertFails, Insertion, At, Fails, AfterFailure, IInv, TypeOK, NsqTypeOK
<1>2. rows[inFlight] > 0 => inFlight \in unsure
  BY <1>1 DEF IInv, HandlerInv
<1>3. /\ rows' \in [Messages -> Nat]
      /\ \A m \in Messages \ {inFlight} : rows'[m] = rows[m]
      /\ rows[inFlight] \in Nat /\ rows'[inFlight] >= rows[inFlight]
      /\ unsure \subseteq unsure' /\ unsure' \subseteq unsure \cup {inFlight}
      /\ rows'[inFlight] > 0 => inFlight \in unsure'
  BY <1>1, <1>2 DEF IInv, TypeOK
<1>4. highlight' \in BOOLEAN /\ exists' \in BOOLEAN
  BY <1>1 DEF IInv, TypeOK
<1>5. QED
  BY <1>1, <1>3, <1>4, GivesBackIInv

LEMMA AnswerIInv == IInv /\ Answer => IInv'
<1> SUFFICES ASSUME IInv, Answer PROVE IInv'
  OBVIOUS
<1> USE DEF IInv, dbVars, publishedVars, handlerVars
<1>1. /\ inFlight # NoMessage /\ inFlight \in Messages
      /\ steps = <<>> /\ steps \in Late /\ steps' = <<>>
      /\ UNCHANGED <<route, highlight, exists, rows, private, publishedVars, orphans>>
  BY PlanKinds DEF Answer, TypeOK, NsqTypeOK
<1>2. CASE Requeue /\ unsure' = unsure \cup StoredNow
  <2>1. /\ unsure \subseteq unsure' /\ unsure' \subseteq unsure \cup {inFlight}
        /\ rows[inFlight] > 0 => inFlight \in unsure'
    BY <1>1, <1>2 DEF StoredNow
  <2>2. QED
    BY <1>1, <1>2, <2>1, GivesBackIInv DEF TypeOK
<1>3. CASE Finish /\ UNCHANGED unsure
  <2>1. /\ NsqTypeOK' /\ NsqInv' /\ inFlight' = NoMessage /\ Seen' = Seen
        /\ finished' = finished \cup {inFlight}
        /\ UNCHANGED <<waiting, deferred, tries, givenUp>>
    BY <1>1, <1>3, RequeueNsqInv DEF Finish, Seen
  <2>2. TypeOK'
    BY <1>1, <1>3, <2>1 DEF TypeOK
  <2>3. HandlerInv' /\ PrivateInv' /\ RowsInv'
    BY <1>1, <1>3, <2>1 DEF HandlerInv, PrivateInv, RowsInv
  <2>4. FinishedInv'
    BY <1>1, <2>1 DEF FinishedInv, HandlerInv, Kept
  <2>5. PublishedIsStored' /\ StoredTwiceForAReason' /\ ConversationIsCurrent'
    BY <1>1, <1>3, <2>1
       DEF PublishedIsStored, StoredTwiceForAReason, ConversationIsCurrent
  <2>6. QED
    BY <2>1, <2>2, <2>3, <2>4, <2>5
<1>4. QED
  BY <1>2, <1>3 DEF Answer

LEMMA CrashIInv == IInv /\ Crash => IInv'
<1> SUFFICES ASSUME IInv, Crash PROVE IInv'
  OBVIOUS
<1> USE DEF IInv, dbVars, publishedVars
<1>1. /\ steps' = <<>> /\ highlight' = FALSE /\ unsure' = unsure \cup StoredNow
      /\ UNCHANGED <<route, exists, rows, private, publishedVars, orphans>>
  BY DEF Crash
<1>2. CASE inFlight # NoMessage
  <2>1. inFlight \in Messages /\ Requeue
    BY <1>2 DEF Crash, TypeOK, NsqTypeOK
  <2>2. /\ unsure \subseteq unsure' /\ unsure' \subseteq unsure \cup {inFlight}
        /\ rows[inFlight] > 0 => inFlight \in unsure'
    BY <1>1, <1>2 DEF StoredNow
  <2>3. /\ highlight' \in BOOLEAN /\ exists' \in BOOLEAN
        /\ rows' \in [Messages -> Nat] /\ rows[inFlight] \in Nat
    BY <1>1, <2>1 DEF TypeOK
  <2>4. QED
    BY <1>1, <1>2, <2>1, <2>2, <2>3, GivesBackIInv
<1>3. CASE inFlight = NoMessage
  <2>1. unsure' = unsure /\ UNCHANGED nsqVars
    BY <1>1, <1>3 DEF Crash, StoredNow
  <2>2. QED
    BY <1>1, <1>3, <2>1, PlanKinds
       DEF nsqVars, TypeOK, NsqTypeOK, NsqInv, Seen, HandlerInv, PrivateInv, RowsInv,
           FinishedInv, PublishedIsStored, StoredTwiceForAReason,
           ConversationIsCurrent
<1>4. QED
  BY <1>2, <1>3

\* What the variables of the four properties do not see.
LEMMA OtherIInv ==
  ASSUME IInv,
         \/ \E m \in Messages : ConsumerGivesUp(m)
         \/ DeleteConnection
         \/ UNCHANGED vars
  PROVE  IInv'
<1>1. /\ UNCHANGED <<route, handlerVars, rows, private, publishedVars, historyVars>>
      /\ UNCHANGED <<waiting, inFlight, tries, finished>> /\ Seen' = Seen
      /\ deferred' \subseteq deferred /\ givenUp' \subseteq Messages
      /\ exists' \in BOOLEAN
  BY DEF ConsumerGivesUp, GiveUp, DeleteConnection, vars, dbVars, nsqVars, Seen,
         IInv, TypeOK, NsqTypeOK
<1> USE DEF IInv, handlerVars, publishedVars, historyVars
<1>2. TypeOK'
  BY <1>1 DEF TypeOK, NsqTypeOK
<1>3. NsqInv' /\ HandlerInv' /\ PrivateInv' /\ RowsInv'
  BY <1>1 DEF NsqInv, HandlerInv, Kept, PrivateInv, RowsInv
<1>4. FinishedInv' /\ PublishedIsStored' /\ StoredTwiceForAReason'
      /\ ConversationIsCurrent'
  BY <1>1 DEF FinishedInv, PublishedIsStored, StoredTwiceForAReason,
              ConversationIsCurrent
<1>5. QED
  BY <1>2, <1>3, <1>4

LEMMA NextIInv == IInv /\ [Next]_vars => IInv'
<1> SUFFICES ASSUME IInv, [Next]_vars PROVE IInv'
  OBVIOUS
<1>1. ASSUME NEW m \in Messages, Consume(m) PROVE IInv'
  BY <1>1, ConsumeIInv
<1>2. CASE InsertPrivate \/ InsertPrivateFails \/ InsertMessage \/ InsertFails
           \/ Answer \/ Crash
  BY <1>2, InsertPrivateIInv, InsertPrivateFailsIInv, InsertMessageIInv,
     InsertFailsIInv, AnswerIInv, CrashIInv
<1>3. CASE Match
  BY <1>3, GoesOnIInv DEF Match, publishedVars
<1>4. CASE Publishes \/ PublishFails
  <2>1. At("publish") /\ ~At("match")
    BY <1>4 DEF Publishes, PublishFails, At
  <2>2. highlight \in BOOLEAN
    BY DEF IInv, TypeOK
  <2>3. QED
    BY <1>4, <2>1, <2>2, GoesOnIInv DEF Publishes, PublishFails, AfterPublishError
<1>5. CASE PublishesHighlight
  <2>1. At("notify") /\ ~At("match")
    BY <1>5 DEF PublishesHighlight, At
  <2>2. highlight \in BOOLEAN
    BY DEF IInv, TypeOK
  <2>3. QED
    BY <1>5, <2>1, <2>2, GoesOnIInv DEF PublishesHighlight
<1>6. QED
  BY <1>1, <1>2, <1>3, <1>4, <1>5, OtherIInv DEF Next, HandlerStep

-----------------------------------------------------------------------------
(* Where nsqd's messages are                                               *)

\* Whatever is done to a message is one of nsqd's steps, or none.
LEMMA NsqStep ==
  ASSUME [Next]_vars
  PROVE  \/ \E m \in Messages : Deliver(m) \/ GiveUp(m)
         \/ inFlight # NoMessage /\ (Finish \/ Requeue)
         \/ UNCHANGED nsqVars
BY DEF Next, HandlerStep, Consume, ConsumerGivesUp, InsertPrivate, InsertPrivateFails,
       Match, InsertMessage, InsertFails, Publishes, PublishFails, PublishesHighlight,
       Answer, Crash, DeleteConnection, At, Fails, AfterFailure, AfterPublishError, vars

\* A message leaves nsqd's hands by being handled, or tried too often.
LEMMA NextWayInv ==
  ASSUME IInv, WayInv, [Next]_vars
  PROVE  WayInv'
<1>1. TypeOK /\ NsqInv /\ NsqTypeOK
  BY DEF IInv, TypeOK
<1>2. Seen \in Int /\ \A m \in Messages : m \in Nat /\ m # NoMessage
  BY <1>1, NsqAssumption DEF NsqTypeOK, Seen, Messages, NoMessage
<1>3. /\ inFlight \in Messages \cup {NoMessage} /\ deferred \subseteq Messages
      /\ finished \subseteq Messages /\ givenUp \subseteq Messages
      /\ tries \in [Messages -> 0 .. MaxTries]
  BY <1>1 DEF NsqTypeOK
<1>4. ASSUME NEW m \in Messages, Deliver(m) PROVE WayInv'
  <2>1. /\ inFlight = NoMessage /\ inFlight' = m /\ UNCHANGED <<finished, givenUp>>
        /\ tries' = [tries EXCEPT ![m] = @ + 1]
    BY <1>4 DEF Deliver
  <2>2. \/ m = Seen + 1 /\ Seen' = Seen + 1 /\ deferred' = deferred
        \/ m \in deferred /\ deferred' = deferred \ {m} /\ Seen' = Seen
    <3>1. CASE waiting # <<>> /\ m = Head(waiting)
               /\ waiting' = Tail(waiting) /\ UNCHANGED deferred
      <4>1. /\ Len(waiting) \in Nat \ {0} /\ Len(waiting') = Len(waiting) - 1
            /\ m = waiting[1]
        BY <1>1, <3>1, HeadTailProperties DEF NsqTypeOK
      <4>2. QED
        BY <1>1, <3>1, <4>1, NsqAssumption DEF NsqInv, Seen
    <3>2. QED
      BY <1>4, <3>1 DEF Deliver, Seen
  <2>3. m \notin givenUp
    BY <1>2, <2>2 DEF WayInv
  <2>4. \A k \in Messages : k # m => tries'[k] = tries[k]
    BY <1>3, <2>1
  <2>5. \A k \in Messages :
          k <= Seen' => k = inFlight' \/ k \in deferred' \cup finished' \cup givenUp'
    BY <1>2, <2>1, <2>2 DEF WayInv
  <2>6. \A k \in givenUp' : k <= Seen' /\ k \notin deferred' /\ k # inFlight'
                            /\ tries'[k] = MaxTries
    BY <1>2, <1>3, <2>1, <2>2, <2>3, <2>4 DEF WayInv
  <2>7. QED
    BY <2>5, <2>6 DEF WayInv
<1>5. ASSUME NEW m \in Messages, GiveUp(m) PROVE WayInv'
  <2>1. /\ m \in deferred /\ tries[m] = MaxTries /\ deferred' = deferred \ {m}
        /\ givenUp' = givenUp \cup {m}
        /\ UNCHANGED <<inFlight, tries, finished>> /\ Seen' = Seen
    BY <1>5 DEF GiveUp, Seen
  <2>2. m <= Seen /\ m # inFlight
    BY <1>1, <1>2, <2>1 DEF NsqInv
  <2>3. QED
    BY <2>1, <2>2 DEF WayInv
<1>6. CASE inFlight # NoMessage /\ (Finish \/ Requeue)
  <2>1. /\ inFlight' = NoMessage /\ UNCHANGED <<givenUp, tries>> /\ Seen' = Seen
        /\ \/ finished' = finished \cup {inFlight} /\ deferred' = deferred
           \/ deferred' = deferred \cup {inFlight} /\ finished' = finished
    BY <1>6 DEF Finish, Requeue, Seen
  <2>2. QED
    BY <1>2, <1>3, <1>6, <2>1 DEF WayInv
<1>7. CASE UNCHANGED nsqVars
  BY <1>7 DEF nsqVars, Seen, WayInv
<1>8. QED
  BY <1>4, <1>5, <1>6, <1>7, NsqStep

\* What nsqd has not delivered is on its way.
LEMMA WayIsKnown == IInv /\ WayInv => UnstoredForAReason
<1> SUFFICES ASSUME IInv, WayInv, NEW m \in Messages, route[m] \in Stored, ~OnItsWay(m)
             PROVE  \/ rows[m] > 0 \/ m \in orphans
                    \/ m \in givenUp /\ tries[m] = MaxTries
  BY DEF UnstoredForAReason
<1>1. m <= Seen
  <2> SUFFICES ASSUME m > Seen PROVE FALSE
    <3>1. m \in Int /\ Seen \in Int
      BY NsqAssumption DEF IInv, TypeOK, NsqTypeOK, Seen, Messages
    <3>2. QED
      BY <3>1
  <2>1. m - Seen \in 1 .. Len(waiting) /\ Seen + (m - Seen) = m
    BY NsqAssumption DEF IInv, TypeOK, NsqTypeOK, Seen, Messages
  <2>2. waiting[m - Seen] = m
    BY <2>1 DEF IInv, NsqInv
  <2>3. QED
    BY <2>1, <2>2 DEF OnItsWay
<1>2. m \in finished \/ m \in givenUp
  BY <1>1 DEF WayInv, OnItsWay
<1>3. QED
  BY <1>2 DEF WayInv, IInv, FinishedInv

LEMMA Invariance == Spec => [](IInv /\ WayInv)
<1>1. Init => WayInv
  BY NsqAssumption DEF Init, NsqInit, WayInv, Seen, Messages
<1>2. QED
  BY <1>1, InitIInv, NextIInv, NextWayInv, PTL DEF Spec

\* Every variable keeps its type.
THEOREM TypeCorrect == Spec => []TypeOK
BY Invariance, PTL DEF IInv

\* nsqd is through with a message that is to be stored only when it is in the
\* log, its connection was gone, or it was tried as often as go-nsq allows.
THEOREM UnstoredForAReasonHolds == Spec => []UnstoredForAReason
BY Invariance, WayIsKnown, PTL

\* What the API and the notifier are given was stored first, or its connection
\* was gone.
THEOREM PublishedIsStoredHolds == Spec => []PublishedIsStored
BY Invariance, PTL DEF IInv

\* A message is stored twice only if nsqd could not know of the first time.
THEOREM StoredTwiceForAReasonHolds == Spec => []StoredTwiceForAReason
BY Invariance, PTL DEF IInv

\* A stored private message is in the list of conversations, at its time or a
\* later one, unless a message delivered again has taken that back.
THEOREM ConversationIsCurrentHolds == Spec => []ConversationIsCurrent
BY Invariance, PTL DEF IInv
=============================================================================
