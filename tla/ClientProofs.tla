---------------------------- MODULE ClientProofs ----------------------------
(***************************************************************************)
(* Proofs about an IRC client, for any number of attempts, of Destroys and   *)
(* of the API's requests: its lifecycle (Connection), the statuses it        *)
(* publishes (StatusFeed), and the raw action on it (RawCommand).            *)
(*                                                                         *)
(* The properties are not inductive by themselves.  These invariants are,    *)
(* each with the ones before it.                                            *)
(*                                                                         *)
(* IInv says where each goroutine can be: who holds statusMu and what it     *)
(* will publish (MutexInv), that attempts are numbered without gaps and only *)
(* the last one is not over (AttemptInv), that one report carries out an end *)
(* (EndInv), that the reader starts after onConnected (ConnectingInv), that  *)
(* a pending reconnect excludes a live attempt (CallbackInv), and where      *)
(* c.sender may point (SenderInv).                                          *)
(*                                                                         *)
(* StatusIInv adds what they leave: what belongs to no attempt but the live  *)
(* one (DownInv), which status each goroutine will set and finds when it     *)
(* does (EndStatusInv, BeginStatusInv), and what each will publish over what *)
(* (SendInv).                                                               *)
(*                                                                         *)
(* LifeInv adds what onConnected finds while the attempt is the client's, and *)
(* EndToComeInv, RetryToComeInv and HolderInv who will end the attempt,      *)
(* begin the next one and unlock statusMu.                                  *)
(*                                                                         *)
(* RawIInv adds what holds between a handler's looks at the client: once it  *)
(* was accepted, the attempt it saw registered may end but no other begins   *)
(* (LookingInv); endAttempt drops the sender before it forgets the caps, so  *)
(* a sender still there is that attempt's, and so are the caps (HandlerInv). *)
(***************************************************************************)
EXTENDS RawCommand, TLAPS

-----------------------------------------------------------------------------
(* The life of a client                                                    *)

SendingPcs == {"storeSender", "sendConnected", "sendEnded", "sendRetry"}
PendingCallback == {"armed", "fired"}

MutexInv ==
  /\ ~statusMu => published = status
  /\ \A r \in Reports : pc[r] \in SendingPcs => statusMu /\ out[r] = status
  /\ \A d \in Destroyers : dpc[d] = "sendClosing" => statusMu /\ dout[d] = status
  /\ \A r, q \in Reports : pc[r] \in SendingPcs /\ pc[q] \in SendingPcs => r = q
  /\ \A d, e \in Destroyers :
       dpc[d] = "sendClosing" /\ dpc[e] = "sendClosing" => d = e
  /\ \A r \in Reports, d \in Destroyers :
       ~(pc[r] \in SendingPcs /\ dpc[d] = "sendClosing")

AttemptInv ==
  /\ conn \in {NoAttempt, attemptDone}
  /\ conn # NoAttempt => conn \notin closed
  /\ \A a \in Attempts : a < attemptDone => a \in closed
  /\ \A a \in Attempts : a > attemptDone => a \notin closed /\ wire[a] = "none"
  /\ \A r \in Reports : r[1] > attemptDone => pc[r] = "idle"

EndInv ==
  /\ \A r \in Reports : pc[r] \in EndingPcs =>
       conn = NoAttempt /\ r[1] = attemptDone /\ r[1] \notin closed
  /\ \A r, q \in Reports : pc[r] \in EndingPcs /\ pc[q] \in EndingPcs => r = q

ConnectingInv ==
  \A a \in Attempts :
    /\ pc[Connect(a)] \in {"idle", "dialing"} => wire[a] = "none"
    /\ pc[Connect(a)] \in ConnectPcs \ {"registering", "finishSetup"} =>
         wire[a] # "ended" /\ pc[Callback(a)] = "idle"
    /\ pc[Connect(a)] = "storeSender" => conn = a

CallbackInv ==
  /\ \A a \in 0 .. MaxAttempts : callback[a] \in PendingCallback =>
       a = attemptDone /\ conn = NoAttempt /\ ~stopped

SenderInv ==
  /\ sender # NoAttempt => sender = conn
  /\ \A r \in Reports : pc[r] = "detach" => sender # r[1]

IInv ==
  /\ TypeOK
  /\ MutexInv /\ AttemptInv /\ EndInv /\ ConnectingInv /\ CallbackInv /\ SenderInv

\* A report is the connect goroutine or the callback of an attempt.
LEMMA ReportsFact ==
  ASSUME NEW r \in Reports
  PROVE  /\ r[1] \in Attempts
         /\ r = Connect(r[1]) \/ r = Callback(r[1])
BY DEF Reports, Connect, Callback

\* The two reports of an attempt are reports, and two of them.
LEMMA ReportOf ==
  ASSUME NEW a \in Attempts
  PROVE  /\ Connect(a) \in Reports /\ Callback(a) \in Reports
         /\ Connect(a)[1] = a /\ Callback(a)[1] = a
         /\ Connect(a) # Callback(a)
BY DEF Reports, Connect, Callback

\* The labels that the actions name are those of the type invariant.
LEMMA Labels ==
  /\ \A x \in ConnectPcs \cup {"endAttempt", "detach"} \cup EndingPcs \cup {"over"} :
       x \in Pcs
  /\ {"idle", "sendClosing", "wait", "waitOn", "swapSender", "returned"} = DestroyPcs
BY DEF Pcs, DestroyPcs

\* Moving a report on keeps the type of pc.
LEMMA GotoType ==
  ASSUME NEW r \in Reports, NEW from, NEW to \in Pcs,
         pc \in [Reports -> Pcs], Goto(r, from, to)
  PROVE  pc' \in [Reports -> Pcs]
BY DEF Goto

\* Closing a socket keeps the type of wire.
LEMMA CloseWireType ==
  ASSUME NEW a, wire \in [Attempts -> {"none", "open", "closed", "ended"}],
         CloseWire(a)
  PROVE  wire' \in [Attempts -> {"none", "open", "closed", "ended"}]
BY DEF CloseWire

\* The types hold when the client is made.
LEMMA InitTypeOK == Init => TypeOK
<1> SUFFICES ASSUME Init PROVE TypeOK
  OBVIOUS
<1> USE DEF Init, NoAttempt
<1>1. 0 \in 0 .. MaxAttempts
  BY MaxAttemptsAssumption
<1>2. status \in Status
  BY DEF Status, Messages
<1>3. "idle" \in Pcs /\ "idle" \in DestroyPcs
  BY DEF Pcs, ConnectPcs, DestroyPcs
<1>4. callback \in [0 .. MaxAttempts -> {"none", "armed", "fired", "stopped", "spent"}]
  OBVIOUS
<1>5. pc \in [Reports -> Pcs] /\ out \in [Reports -> Status]
  BY <1>2, <1>3
<1>6. QED
  BY <1>1, <1>2, <1>3, <1>4, <1>5 DEF TypeOK

-----------------------------------------------------------------------------
\* Every step keeps the types.
LEMMA NextTypeOK == TypeOK /\ [Next]_vars => TypeOK'
<1> SUFFICES ASSUME TypeOK, [Next]_vars PROVE TypeOK'
  OBVIOUS
<1> USE DEF TypeOK, clientVars, faultVars, retryVars, doneVars, statusVars,
    reportVars, destroyVars
<1>1. /\ 0 \in 0 .. MaxAttempts
      /\ \A a \in Attempts : a \in 0 .. MaxAttempts
  BY MaxAttemptsAssumption DEF Attempts
<1>2. \A r \in Reports : r[1] \in Attempts
  BY ReportsFact
<1>3. ASSUME NEW a \in 0 .. MaxAttempts, TimerFires(a) PROVE TypeOK'
  BY <1>3 DEF TimerFires
<1>4. ASSUME NEW a \in 0 .. MaxAttempts, BeginAttempt(a) PROVE TypeOK'
  <2>1. CASE quitting
    BY <1>4, <2>1 DEF BeginAttempt
  <2>2. CASE ~quitting
    <3>1. /\ attemptDone + 1 \in Attempts
          /\ Goto(Connect(attemptDone + 1), "idle", "dialing")
      BY <1>4, <2>2 DEF BeginAttempt
    <3>2. pc' \in [Reports -> Pcs]
      BY <3>1, GotoType, Labels, ReportOf DEF ConnectPcs
    <3>3. callback' \in [0 .. MaxAttempts ->
                           {"none", "armed", "fired", "stopped", "spent"}]
      BY <1>4 DEF BeginAttempt
    <3>4. conn' \in 0 .. MaxAttempts /\ attemptDone' \in 0 .. MaxAttempts
      BY <1>4, <2>2, <3>1, <1>1 DEF BeginAttempt
    <3>5. socket' \in 0 .. MaxAttempts
      BY <1>4, <2>2, <1>1 DEF BeginAttempt, NoAttempt
    <3>6. QED
      BY <1>4, <2>2, <3>2, <3>3, <3>4, <3>5 DEF BeginAttempt
  <2>3. QED
    BY <2>1, <2>2
<1>5. ASSUME NEW a \in Attempts, DialSucceeds(a) PROVE TypeOK'
  <2>1. pc' \in [Reports -> Pcs]
    BY <1>5, GotoType, Labels, ReportOf
    DEF DialSucceeds, ConnectPcs, EndingPcs
  <2>2. QED
    BY <1>5, <2>1, ReportOf DEF DialSucceeds
<1>6. ASSUME NEW a \in Attempts, DialFails(a) PROVE TypeOK'
  <2>1. pc' \in [Reports -> Pcs]
    BY <1>6, GotoType, Labels, ReportOf DEF DialFails, ConnectPcs, EndingPcs
  <2>2. QED
    BY <1>6, <2>1, ReportOf DEF DialFails
<1>7. ASSUME NEW a \in Attempts, OnConnectedTooLate(a) PROVE TypeOK'
  <2>1. pc' \in [Reports -> Pcs]
    BY <1>7, GotoType, Labels, ReportOf
    DEF OnConnectedTooLate, ConnectPcs, EndingPcs
  <2>2. wire' \in [Attempts -> {"none", "open", "closed", "ended"}]
    BY <1>7, CloseWireType DEF OnConnectedTooLate
  <2>3. QED
    BY <1>7, <2>1, ReportOf, <2>2 DEF OnConnectedTooLate
<1>8. ASSUME NEW a \in Attempts, OnConnected(a) PROVE TypeOK'
  <2>1. pc' \in [Reports -> Pcs]
    BY <1>8, GotoType, Labels, ReportOf
    DEF OnConnected, Lock, ConnectPcs, EndingPcs
  <2>2. status' \in Status
    BY <1>8 DEF OnConnected, Status, Messages
  <2>3. QED
    BY <1>8, <2>1, ReportOf, <2>2, <1>1 DEF OnConnected, Lock
<1>9. ASSUME NEW a \in Attempts, StoreSender(a) PROVE TypeOK'
  <2>1. pc' \in [Reports -> Pcs]
    BY <1>9, GotoType, Labels, ReportOf DEF StoreSender, ConnectPcs, EndingPcs
  <2>2. QED
    BY <1>9, <2>1, ReportOf, <1>1 DEF StoreSender
<1>10. ASSUME NEW a \in Attempts, SendConnected(a) PROVE TypeOK'
  <2>1. pc' \in [Reports -> Pcs]
    BY <1>10, GotoType, Labels, ReportOf
    DEF SendConnected, Unlock, ConnectPcs, EndingPcs
  <2>2. QED
    BY <1>10, <2>1, ReportOf DEF SendConnected, Unlock
<1>11. ASSUME NEW a \in Attempts, RegistrationEnds(a) PROVE TypeOK'
  <2>1. pc' \in [Reports -> Pcs]
    BY <1>11, GotoType, Labels, ReportOf
    DEF RegistrationEnds, ConnectPcs, EndingPcs
  <2>2. QED
    BY <1>11, <2>1, ReportOf DEF RegistrationEnds
<1>12. ASSUME NEW a \in Attempts, RegistrationFails(a) PROVE TypeOK'
  <2>1. pc' \in [Reports -> Pcs]
    BY <1>12, GotoType, Labels, ReportOf
    DEF RegistrationFails, ConnectPcs, EndingPcs
  <2>2. QED
    BY <1>12, <2>1, ReportOf DEF RegistrationFails
<1>13. ASSUME NEW a \in Attempts, FinishSetup(a) PROVE TypeOK'
  <2>1. pc' \in [Reports -> Pcs]
    BY <1>13, GotoType, Labels, ReportOf
    DEF FinishSetup, ConnectPcs, EndingPcs
  <2>2. QED
    BY <1>13, <2>1, ReportOf DEF FinishSetup
<1>14. ASSUME NEW a \in Attempts, OnWelcome(a) PROVE TypeOK'
  BY <1>14 DEF OnWelcome
<1>15. ASSUME NEW a \in Attempts, Stop(a) PROVE TypeOK'
  <2>1. wire' \in [Attempts -> {"none", "open", "closed", "ended"}]
    BY <1>15, CloseWireType DEF Stop
  <2>2. QED
    BY <1>15, <2>1 DEF Stop
<1>16. ASSUME NEW a \in Attempts, GiveUp(a) PROVE TypeOK'
  <2>1. wire' \in [Attempts -> {"none", "open", "closed", "ended"}]
    BY <1>16, CloseWireType DEF GiveUp
  <2>2. QED
    BY <1>16, <2>1 DEF GiveUp
<1>17. ASSUME NEW a \in Attempts, ServerDrops(a) PROVE TypeOK'
  BY <1>17 DEF ServerDrops
<1>18. ASSUME NEW a \in Attempts, ReaderEnds(a) PROVE TypeOK'
  BY <1>18 DEF ReaderEnds
<1>19. ASSUME NEW a \in Attempts, DisconnectCallback(a) PROVE TypeOK'
  <2>1. pc' \in [Reports -> Pcs]
    BY <1>19, GotoType, Labels, ReportOf
    DEF DisconnectCallback, ConnectPcs, EndingPcs
  <2>2. QED
    BY <1>19, <2>1, ReportOf DEF DisconnectCallback
<1>20. ASSUME NEW r \in Reports, DropSender(r) PROVE TypeOK'
  <2>1. pc' \in [Reports -> Pcs]
    BY <1>20, GotoType, Labels
    DEF DropSender, CompareAndClear, ConnectPcs, EndingPcs
  <2>2. QED
    BY <1>20, <2>1, <1>2, <1>1 DEF DropSender, CompareAndClear, NoAttempt
<1>21. ASSUME NEW r \in Reports, AlreadyEnded(r) PROVE TypeOK'
  <2>1. pc' \in [Reports -> Pcs]
    BY <1>21, GotoType, Labels DEF AlreadyEnded, ConnectPcs, EndingPcs
  <2>2. QED
    BY <1>21, <2>1, <1>2 DEF AlreadyEnded
<1>22. ASSUME NEW r \in Reports, Detach(r) PROVE TypeOK'
  <2>1. pc' \in [Reports -> Pcs]
    BY <1>22, GotoType, Labels
    DEF Detach, DetachUnchecked, ConnectPcs, EndingPcs
  <2>2. [msg |-> EndReason, connected |-> FALSE] \in Status
    BY DEF EndReason, Status, Messages
  <2>3. QED
    BY <1>22, <2>1, <2>2, <1>2, <1>1 DEF Detach, DetachUnchecked, NoAttempt
<1>23. ASSUME NEW r \in Reports, CloseSocket(r) PROVE TypeOK'
  <2>1. pc' \in [Reports -> Pcs]
    BY <1>23, GotoType, Labels DEF CloseSocket, ConnectPcs, EndingPcs
  <2>2. wire' \in [Attempts -> {"none", "open", "closed", "ended"}]
    BY <1>23, CloseWireType DEF CloseSocket
  <2>3. QED
    BY <1>23, <2>1, <2>2, <1>2 DEF CloseSocket
<1>24. ASSUME NEW r \in Reports, SetStatus(r) PROVE TypeOK'
  <2>1. pc' \in [Reports -> Pcs]
    BY <1>24, GotoType, Labels DEF SetStatus, Lock, ConnectPcs, EndingPcs
  <2>2. QED
    BY <1>24, <2>1, <1>2 DEF SetStatus, Lock
<1>25. ASSUME NEW r \in Reports, SendEnded(r) PROVE TypeOK'
  <2>1. pc' \in [Reports -> Pcs]
    BY <1>25, GotoType, Labels DEF SendEnded, Unlock, ConnectPcs, EndingPcs
  <2>2. QED
    BY <1>25, <2>1, <1>2 DEF SendEnded, Unlock
<1>26. ASSUME NEW r \in Reports, NoRetry(r) PROVE TypeOK'
  <2>1. pc' \in [Reports -> Pcs]
    BY <1>26, GotoType, Labels DEF NoRetry, MayRetry, ConnectPcs, EndingPcs
  <2>2. QED
    BY <1>26, <2>1, <1>2 DEF NoRetry, MayRetry
<1>27. ASSUME NEW r \in Reports, Retry(r) PROVE TypeOK'
  <2>1. pc' \in [Reports -> Pcs]
    BY <1>27, GotoType, Labels
    DEF Retry, Lock, NextRetries, ConnectPcs, EndingPcs
  <2>2. status' \in Status
    BY <1>27 DEF Retry, Status, Messages
  <2>3. retries' \in Nat
    BY <1>27 DEF Retry, NextRetries
  <2>4. timer' \in 0 .. MaxAttempts
    BY <1>27, <1>1, <1>2 DEF Retry
  <2>5. callback' \in [0 .. MaxAttempts ->
                         {"none", "armed", "fired", "stopped", "spent"}]
    BY <1>27 DEF Retry
  <2>6. out' \in [Reports -> Status]
    BY <1>27, <2>2 DEF Retry
  <2>7. QED
    BY <1>27, <2>1, <2>2, <2>3, <2>4, <2>5, <2>6 DEF Retry, Lock
<1>28. ASSUME NEW r \in Reports, SendRetry(r) PROVE TypeOK'
  <2>1. pc' \in [Reports -> Pcs]
    BY <1>28, GotoType, Labels DEF SendRetry, Unlock, ConnectPcs, EndingPcs
  <2>2. QED
    BY <1>28, <2>1, <1>2 DEF SendRetry, Unlock
<1>29. ASSUME NEW r \in Reports, CloseDone(r) PROVE TypeOK'
  <2>1. pc' \in [Reports -> Pcs]
    BY <1>29, GotoType, Labels DEF CloseDone, ConnectPcs, EndingPcs
  <2>2. QED
    BY <1>29, <2>1, <1>2, <1>1 DEF CloseDone
<1>30. ASSUME NEW d \in Destroyers, DecideClosing(d) PROVE TypeOK'
  <2>1. status' \in Status
    BY <1>30 DEF DecideClosing, Status, Messages
  <2>2. QED
    BY <1>30, <2>1, Labels DEF DecideClosing, DGoto, Lock
<1>31. ASSUME NEW d \in Destroyers, SendClosing(d) PROVE TypeOK'
  BY <1>31, Labels DEF SendClosing, DGoto, Unlock
<1>32. ASSUME NEW d \in Destroyers, DestroyTimeout(d) PROVE TypeOK'
  <2>1. wire' \in [Attempts -> {"none", "open", "closed", "ended"}]
    BY <1>32, CloseWireType DEF DestroyTimeout
  <2>2. QED
    BY <1>32, <2>1, Labels DEF DestroyTimeout, DGoto
<1>33. ASSUME NEW d \in Destroyers, AttemptHasEnded(d) PROVE TypeOK'
  BY <1>33, Labels DEF AttemptHasEnded, DGoto, HasEnded
<1>34. ASSUME NEW d \in Destroyers, SwapSender(d) PROVE TypeOK'
  BY <1>34, <1>1, Labels DEF SwapSender, DGoto, NoAttempt
<1>35. CASE UNCHANGED vars
  BY <1>35 DEF vars
<1>36. QED
  BY <1>3, <1>4, <1>5, <1>6, <1>7, <1>8, <1>9, <1>10, <1>11, <1>12, <1>13,
      <1>14, <1>15, <1>16, <1>17, <1>18, <1>19, <1>20, <1>21, <1>22, <1>23,
      <1>24, <1>25, <1>26, <1>27, <1>28, <1>29, <1>30, <1>31, <1>32, <1>33,
      <1>34, <1>35
  DEF Next, ConnectStep, ReaderStep, EndStep, DestroyStep

-----------------------------------------------------------------------------
\* connect is only called when the last attempt is over.
LEMMA BeginFacts ==
  ASSUME IInv, NEW a \in 0 .. MaxAttempts, BeginAttempt(a)
  PROVE  /\ a = attemptDone /\ a \in closed
         /\ conn = NoAttempt /\ ~stopped /\ sender = NoAttempt
         /\ \A r \in Reports : pc[r] \notin EndingPcs
<1>1. callback[a] = "fired" /\ a \in closed
  BY DEF BeginAttempt, PreviousIsOver
<1>2. a = attemptDone /\ conn = NoAttempt /\ ~stopped
  BY <1>1 DEF IInv, CallbackInv, PendingCallback
<1>3. QED
  BY <1>1, <1>2 DEF IInv, SenderInv, EndInv

\* Only the holder of statusMu decides a status, and it publishes what it
\* decided.
LEMMA NextMutexInv ==
  ASSUME IInv, [Next]_vars PROVE MutexInv'
<1> USE DEF MutexInv, clientVars, faultVars, retryVars, doneVars, statusVars,
    reportVars, destroyVars
<1>1. MutexInv
  BY DEF IInv
<1>2. /\ pc \in [Reports -> Pcs] /\ out \in [Reports -> Status]
      /\ dpc \in [Destroyers -> DestroyPcs] /\ dout \in [Destroyers -> Status]
  BY DEF IInv, TypeOK
<1>3. ASSUME NEW a \in 0 .. MaxAttempts, TimerFires(a) PROVE MutexInv'
  BY <1>1, <1>3 DEF TimerFires, SendingPcs
<1>4. ASSUME NEW a \in 0 .. MaxAttempts, BeginAttempt(a) PROVE MutexInv'
  BY <1>1, <1>2, <1>4
  DEF BeginAttempt, Goto, SendingPcs
<1>5. ASSUME NEW a \in Attempts, DialSucceeds(a) PROVE MutexInv'
  BY <1>1, <1>5
  DEF DialSucceeds, Goto, SendingPcs
<1>6. ASSUME NEW a \in Attempts, DialFails(a) PROVE MutexInv'
  BY <1>1, <1>6 DEF DialFails, Goto, SendingPcs
<1>7. ASSUME NEW a \in Attempts, OnConnectedTooLate(a) PROVE MutexInv'
  BY <1>1, <1>7
  DEF OnConnectedTooLate, Goto, SendingPcs
<1>8. ASSUME NEW a \in Attempts, OnConnected(a) PROVE MutexInv'
  BY <1>1, <1>2, <1>8
  DEF OnConnected, Goto, Lock, SendingPcs
<1>9. ASSUME NEW a \in Attempts, StoreSender(a) PROVE MutexInv'
  BY <1>1, <1>9 DEF StoreSender, Goto, SendingPcs
<1>10. ASSUME NEW a \in Attempts, SendConnected(a) PROVE MutexInv'
  BY <1>1, <1>2, <1>10, ReportOf
  DEF SendConnected, Goto, Unlock, SendingPcs
<1>11. ASSUME NEW a \in Attempts, RegistrationEnds(a) PROVE MutexInv'
  BY <1>1, <1>11
  DEF RegistrationEnds, Goto, SendingPcs
<1>12. ASSUME NEW a \in Attempts, RegistrationFails(a) PROVE MutexInv'
  BY <1>1, <1>12
  DEF RegistrationFails, Goto, SendingPcs
<1>13. ASSUME NEW a \in Attempts, FinishSetup(a) PROVE MutexInv'
  BY <1>1, <1>13
  DEF FinishSetup, Goto, SendingPcs
<1>14. ASSUME NEW a \in Attempts, OnWelcome(a) PROVE MutexInv'
  BY <1>1, <1>14 DEF OnWelcome, SendingPcs
<1>15. ASSUME NEW a \in Attempts, Stop(a) PROVE MutexInv'
  BY <1>1, <1>15 DEF Stop, SendingPcs
<1>16. ASSUME NEW a \in Attempts, GiveUp(a) PROVE MutexInv'
  BY <1>1, <1>16 DEF GiveUp, SendingPcs
<1>17. ASSUME NEW a \in Attempts, ServerDrops(a) PROVE MutexInv'
  BY <1>1, <1>17 DEF ServerDrops, SendingPcs
<1>18. ASSUME NEW a \in Attempts, ReaderEnds(a) PROVE MutexInv'
  BY <1>1, <1>18 DEF ReaderEnds, SendingPcs
<1>19. ASSUME NEW a \in Attempts, DisconnectCallback(a) PROVE MutexInv'
  BY <1>1, <1>19
  DEF DisconnectCallback, Goto, SendingPcs
<1>20. ASSUME NEW r \in Reports, DropSender(r) PROVE MutexInv'
  BY <1>1, <1>20 DEF DropSender, Goto, SendingPcs
<1>21. ASSUME NEW r \in Reports, AlreadyEnded(r) PROVE MutexInv'
  BY <1>1, <1>21
  DEF AlreadyEnded, Goto, SendingPcs
<1>22. ASSUME NEW r \in Reports, Detach(r) PROVE MutexInv'
  BY <1>1, <1>22
  DEF Detach, Goto, DetachUnchecked, SendingPcs
<1>23. ASSUME NEW r \in Reports, CloseSocket(r) PROVE MutexInv'
  BY <1>1, <1>23
  DEF CloseSocket, Goto, SendingPcs
<1>24. ASSUME NEW r \in Reports, SetStatus(r) PROVE MutexInv'
  BY <1>1, <1>24
  DEF SetStatus, Goto, Lock, SendingPcs
<1>25. ASSUME NEW r \in Reports, SendEnded(r) PROVE MutexInv'
  BY <1>1, <1>2, <1>25
  DEF SendEnded, Goto, Unlock, SendingPcs
<1>26. ASSUME NEW r \in Reports, NoRetry(r) PROVE MutexInv'
  BY <1>1, <1>26 DEF NoRetry, Goto, SendingPcs
<1>27. ASSUME NEW r \in Reports, Retry(r) PROVE MutexInv'
  BY <1>1, <1>2, <1>27
  DEF Retry, Goto, Lock, SendingPcs
<1>28. ASSUME NEW r \in Reports, SendRetry(r) PROVE MutexInv'
  BY <1>1, <1>2, <1>28
  DEF SendRetry, Goto, Unlock, SendingPcs
<1>29. ASSUME NEW r \in Reports, CloseDone(r) PROVE MutexInv'
  BY <1>1, <1>29 DEF CloseDone, Goto, SendingPcs
<1>30. ASSUME NEW d \in Destroyers, DecideClosing(d) PROVE MutexInv'
  BY <1>1, <1>2, <1>30
  DEF DecideClosing, DGoto, Lock, SendingPcs
<1>31. ASSUME NEW d \in Destroyers, SendClosing(d) PROVE MutexInv'
  BY <1>1, <1>2, <1>31
  DEF SendClosing, DGoto, Unlock, SendingPcs
<1>32. ASSUME NEW d \in Destroyers, DestroyTimeout(d) PROVE MutexInv'
  BY <1>1, <1>32
  DEF DestroyTimeout, DGoto, SendingPcs
<1>33. ASSUME NEW d \in Destroyers, AttemptHasEnded(d) PROVE MutexInv'
  BY <1>1, <1>2, <1>33
  DEF AttemptHasEnded, DGoto, SendingPcs
<1>34. ASSUME NEW d \in Destroyers, SwapSender(d) PROVE MutexInv'
  BY <1>1, <1>34
  DEF SwapSender, DGoto, SendingPcs
<1>35. CASE UNCHANGED vars
  BY <1>1, <1>35 DEF vars
<1>36. QED
  BY <1>3, <1>4, <1>5, <1>6, <1>7, <1>8, <1>9, <1>10, <1>11, <1>12, <1>13,
      <1>14, <1>15, <1>16, <1>17, <1>18, <1>19, <1>20, <1>21, <1>22, <1>23,
      <1>24, <1>25, <1>26, <1>27, <1>28, <1>29, <1>30, <1>31, <1>32, <1>33,
      <1>34, <1>35
  DEF Next, ConnectStep, ReaderStep, EndStep, DestroyStep

\* BeginAttempt alone takes a new number; CloseDone alone closes a channel,
\* that of the attempt c.conn no longer belongs to.
LEMMA NextAttemptInv ==
  ASSUME IInv, [Next]_vars PROVE AttemptInv'
<1> USE DEF AttemptInv, clientVars, faultVars, retryVars, doneVars,
    statusVars, reportVars, destroyVars
<1>1. AttemptInv /\ EndInv /\ CallbackInv /\ ConnectingInv
  BY DEF IInv
<1>2. /\ pc \in [Reports -> Pcs] /\ attemptDone \in 0 .. MaxAttempts
      /\ wire \in [Attempts -> {"none", "open", "closed", "ended"}] /\ callback \in [0..MaxAttempts -> {"none", "armed", "fired", "stopped", "spent"}]
  BY DEF IInv, TypeOK
<1>3. ASSUME NEW a \in 0 .. MaxAttempts, TimerFires(a) PROVE AttemptInv'
  BY <1>1, <1>3
  DEF TimerFires, NoAttempt, Attempts
<1>4. ASSUME NEW a \in 0 .. MaxAttempts, BeginAttempt(a) PROVE AttemptInv'
  <2>1. CASE quitting
    BY <1>1, <1>4, <2>1 DEF BeginAttempt
  <2> DEFINE new == attemptDone + 1
  <2>2. CASE ~quitting
    <3>1. /\ new \in Attempts /\ new \notin closed
          /\ conn' = new /\ attemptDone' = new /\ closed' = closed /\ wire' = wire
      BY <1>1, <1>2, <1>4, <2>2, BeginFacts DEF BeginAttempt, Attempts
    <3>2. \A b \in Attempts : b < new => b \in closed
      BY <1>1, <1>4, BeginFacts DEF Attempts
    <3>3. pc' = [pc EXCEPT ![Connect(new)] = "dialing"]
      BY <1>4, <2>2 DEF BeginAttempt, Goto
    <3>4. \A r \in Reports : r[1] > new => pc'[r] = "idle"
      BY <1>1, <1>2, <3>1, <3>3, ReportOf, ReportsFact DEF Attempts
    <3>5. QED
      BY <1>1, <1>2, <3>1, <3>2, <3>4 DEF Attempts
  <2>3. QED
    BY <2>1, <2>2
<1>5. ASSUME NEW a \in Attempts, DialSucceeds(a) PROVE AttemptInv'
  BY <1>1, <1>5, ReportOf
  DEF DialSucceeds, Goto, NoAttempt, Attempts
<1>6. ASSUME NEW a \in Attempts, DialFails(a) PROVE AttemptInv'
  BY <1>1, <1>6
  DEF DialFails, Goto, NoAttempt, Attempts
<1>7. ASSUME NEW a \in Attempts, OnConnectedTooLate(a) PROVE AttemptInv'
  BY <1>1, <1>7
  DEF OnConnectedTooLate, Goto, CloseWire, NoAttempt, Attempts
<1>8. ASSUME NEW a \in Attempts, OnConnected(a) PROVE AttemptInv'
  BY <1>1, <1>8
  DEF OnConnected, Goto, NoAttempt, Attempts
<1>9. ASSUME NEW a \in Attempts, StoreSender(a) PROVE AttemptInv'
  BY <1>1, <1>9
  DEF StoreSender, Goto, NoAttempt, Attempts
<1>10. ASSUME NEW a \in Attempts, SendConnected(a) PROVE AttemptInv'
  BY <1>1, <1>10
  DEF SendConnected, Goto, NoAttempt, Attempts
<1>11. ASSUME NEW a \in Attempts, RegistrationEnds(a) PROVE AttemptInv'
  BY <1>1, <1>11
  DEF RegistrationEnds, Goto, NoAttempt, Attempts
<1>12. ASSUME NEW a \in Attempts, RegistrationFails(a) PROVE AttemptInv'
  BY <1>1, <1>12
  DEF RegistrationFails, Goto, NoAttempt, Attempts
<1>13. ASSUME NEW a \in Attempts, FinishSetup(a) PROVE AttemptInv'
  BY <1>1, <1>13
  DEF FinishSetup, Goto, NoAttempt, Attempts
<1>14. ASSUME NEW a \in Attempts, OnWelcome(a) PROVE AttemptInv'
  BY <1>1, <1>14
  DEF OnWelcome, NoAttempt, Attempts
<1>15. ASSUME NEW a \in Attempts, Stop(a) PROVE AttemptInv'
  BY <1>1, <1>15
  DEF Stop, CloseWire, NoAttempt, Attempts
<1>16. ASSUME NEW a \in Attempts, GiveUp(a) PROVE AttemptInv'
  BY <1>1, <1>16
  DEF GiveUp, CloseWire, NoAttempt, Attempts
<1>17. ASSUME NEW a \in Attempts, ServerDrops(a) PROVE AttemptInv'
  BY <1>1, <1>17
  DEF ServerDrops, NoAttempt, Attempts
<1>18. ASSUME NEW a \in Attempts, ReaderEnds(a) PROVE AttemptInv'
  BY <1>1, <1>18
  DEF ReaderEnds, NoAttempt, Attempts
<1>19. ASSUME NEW a \in Attempts, DisconnectCallback(a) PROVE AttemptInv'
  BY <1>1, <1>19, ReportOf
  DEF DisconnectCallback, Goto, NoAttempt, Attempts
<1>20. ASSUME NEW r \in Reports, DropSender(r) PROVE AttemptInv'
  BY <1>1, <1>20
  DEF DropSender, Goto, NoAttempt, Attempts
<1>21. ASSUME NEW r \in Reports, AlreadyEnded(r) PROVE AttemptInv'
  BY <1>1, <1>21
  DEF AlreadyEnded, Goto, NoAttempt, Attempts
<1>22. ASSUME NEW r \in Reports, Detach(r) PROVE AttemptInv'
  BY <1>1, <1>22
  DEF Detach, Goto, DetachUnchecked, NoAttempt, Attempts
<1>23. ASSUME NEW r \in Reports, CloseSocket(r) PROVE AttemptInv'
  BY <1>1, <1>23
  DEF CloseSocket, Goto, CloseWire, NoAttempt, Attempts
<1>24. ASSUME NEW r \in Reports, SetStatus(r) PROVE AttemptInv'
  BY <1>1, <1>24
  DEF SetStatus, Goto, NoAttempt, Attempts
<1>25. ASSUME NEW r \in Reports, SendEnded(r) PROVE AttemptInv'
  BY <1>1, <1>25
  DEF SendEnded, Goto, NoAttempt, Attempts
<1>26. ASSUME NEW r \in Reports, NoRetry(r) PROVE AttemptInv'
  BY <1>1, <1>26
  DEF NoRetry, Goto, NoAttempt, Attempts
<1>27. ASSUME NEW r \in Reports, Retry(r) PROVE AttemptInv'
  BY <1>1, <1>27
  DEF Retry, Goto, NoAttempt, Attempts
<1>28. ASSUME NEW r \in Reports, SendRetry(r) PROVE AttemptInv'
  BY <1>1, <1>28
  DEF SendRetry, Goto, NoAttempt, Attempts
<1>29. ASSUME NEW r \in Reports, CloseDone(r) PROVE AttemptInv'
  <2>1. conn = NoAttempt /\ r[1] = attemptDone
    BY <1>1, <1>29 DEF CloseDone, Goto, EndInv, EndingPcs
  <2>2. closed' = closed \cup {r[1]} /\ UNCHANGED <<conn, attemptDone, wire>>
    BY <1>29 DEF CloseDone
  <2>3. \A q \in Reports : q[1] > attemptDone => pc'[q] = pc[q]
    BY <1>2, <1>29, <2>1 DEF CloseDone, Goto
  <2>4. QED
    BY <1>1, <1>2, <2>1, <2>2, <2>3 DEF Attempts
<1>30. ASSUME NEW d \in Destroyers, DecideClosing(d) PROVE AttemptInv'
  BY <1>1, <1>30
  DEF DecideClosing, NoAttempt, Attempts
<1>31. ASSUME NEW d \in Destroyers, SendClosing(d) PROVE AttemptInv'
  BY <1>1, <1>31
  DEF SendClosing, NoAttempt, Attempts
<1>32. ASSUME NEW d \in Destroyers, DestroyTimeout(d) PROVE AttemptInv'
  BY <1>1, <1>32
  DEF DestroyTimeout, CloseWire, NoAttempt, Attempts
<1>33. ASSUME NEW d \in Destroyers, AttemptHasEnded(d) PROVE AttemptInv'
  BY <1>1, <1>33
  DEF AttemptHasEnded, NoAttempt, Attempts
<1>34. ASSUME NEW d \in Destroyers, SwapSender(d) PROVE AttemptInv'
  BY <1>1, <1>34
  DEF SwapSender, NoAttempt, Attempts
<1>35. CASE UNCHANGED vars
  BY <1>1, <1>35 DEF vars
<1>36. QED
  BY <1>3, <1>4, <1>5, <1>6, <1>7, <1>8, <1>9, <1>10, <1>11, <1>12, <1>13,
      <1>14, <1>15, <1>16, <1>17, <1>18, <1>19, <1>20, <1>21, <1>22, <1>23,
      <1>24, <1>25, <1>26, <1>27, <1>28, <1>29, <1>30, <1>31, <1>32, <1>33,
      <1>34, <1>35
  DEF Next, ConnectStep, ReaderStep, EndStep, DestroyStep

\* Detach, which takes c.conn, lets one report in.
LEMMA NextEndInv ==
  ASSUME IInv, [Next]_vars PROVE EndInv'
<1> USE DEF EndInv, clientVars, faultVars, retryVars, doneVars, statusVars,
    reportVars, destroyVars
<1>1. EndInv /\ AttemptInv /\ CallbackInv
  BY DEF IInv
<1>2. pc \in [Reports -> Pcs] /\ attemptDone \in 0..MaxAttempts
  BY DEF IInv, TypeOK
<1>3. ASSUME NEW a \in 0 .. MaxAttempts, TimerFires(a) PROVE EndInv'
  BY <1>1, <1>3
  DEF TimerFires, NoAttempt, EndingPcs
<1>4. ASSUME NEW a \in 0 .. MaxAttempts, BeginAttempt(a) PROVE EndInv'
  <2>1. \A r \in Reports : pc[r] \notin EndingPcs
    BY <1>1, <1>4, BeginFacts
  <2>2. \A r \in Reports : pc'[r] \notin EndingPcs
    BY <1>2, <1>4, <2>1 DEF BeginAttempt, Goto, EndingPcs
  <2>3. QED
    BY <2>2
<1>5. ASSUME NEW a \in Attempts, DialSucceeds(a) PROVE EndInv'
  BY <1>1, <1>5
  DEF DialSucceeds, Goto, NoAttempt, EndingPcs
<1>6. ASSUME NEW a \in Attempts, DialFails(a) PROVE EndInv'
  BY <1>1, <1>6
  DEF DialFails, Goto, NoAttempt, EndingPcs
<1>7. ASSUME NEW a \in Attempts, OnConnectedTooLate(a) PROVE EndInv'
  BY <1>1, <1>7
  DEF OnConnectedTooLate, Goto, NoAttempt, EndingPcs
<1>8. ASSUME NEW a \in Attempts, OnConnected(a) PROVE EndInv'
  BY <1>1, <1>8
  DEF OnConnected, Goto, NoAttempt, EndingPcs
<1>9. ASSUME NEW a \in Attempts, StoreSender(a) PROVE EndInv'
  BY <1>1, <1>9
  DEF StoreSender, Goto, NoAttempt, EndingPcs
<1>10. ASSUME NEW a \in Attempts, SendConnected(a) PROVE EndInv'
  BY <1>1, <1>10
  DEF SendConnected, Goto, NoAttempt, EndingPcs
<1>11. ASSUME NEW a \in Attempts, RegistrationEnds(a) PROVE EndInv'
  BY <1>1, <1>11
  DEF RegistrationEnds, Goto, NoAttempt, EndingPcs
<1>12. ASSUME NEW a \in Attempts, RegistrationFails(a) PROVE EndInv'
  BY <1>1, <1>12
  DEF RegistrationFails, Goto, NoAttempt, EndingPcs
<1>13. ASSUME NEW a \in Attempts, FinishSetup(a) PROVE EndInv'
  BY <1>1, <1>13
  DEF FinishSetup, Goto, NoAttempt, EndingPcs
<1>14. ASSUME NEW a \in Attempts, OnWelcome(a) PROVE EndInv'
  BY <1>1, <1>14
  DEF OnWelcome, NoAttempt, EndingPcs
<1>15. ASSUME NEW a \in Attempts, Stop(a) PROVE EndInv'
  BY <1>1, <1>15 DEF Stop, NoAttempt, EndingPcs
<1>16. ASSUME NEW a \in Attempts, GiveUp(a) PROVE EndInv'
  BY <1>1, <1>16 DEF GiveUp, NoAttempt, EndingPcs
<1>17. ASSUME NEW a \in Attempts, ServerDrops(a) PROVE EndInv'
  BY <1>1, <1>17
  DEF ServerDrops, NoAttempt, EndingPcs
<1>18. ASSUME NEW a \in Attempts, ReaderEnds(a) PROVE EndInv'
  BY <1>1, <1>18
  DEF ReaderEnds, NoAttempt, EndingPcs
<1>19. ASSUME NEW a \in Attempts, DisconnectCallback(a) PROVE EndInv'
  BY <1>1, <1>19
  DEF DisconnectCallback, Goto, NoAttempt, EndingPcs
<1>20. ASSUME NEW r \in Reports, DropSender(r) PROVE EndInv'
  BY <1>1, <1>20
  DEF DropSender, Goto, NoAttempt, EndingPcs
<1>21. ASSUME NEW r \in Reports, AlreadyEnded(r) PROVE EndInv'
  BY <1>1, <1>21
  DEF AlreadyEnded, Goto, NoAttempt, EndingPcs
<1>22. ASSUME NEW r \in Reports, Detach(r) PROVE EndInv'
  <2>1. conn = r[1] /\ r[1] = attemptDone /\ r[1] \notin closed
    BY <1>1, <1>22, ReportsFact DEF Detach, AttemptInv, NoAttempt, Attempts
  <2>2. \A q \in Reports : pc[q] \notin EndingPcs
    BY <1>1, <2>1, ReportsFact DEF NoAttempt, Attempts
  <2>3. /\ conn' = NoAttempt /\ UNCHANGED <<attemptDone, closed>>
        /\ pc' = [pc EXCEPT ![r] = "closeSocket"]
    BY <1>22 DEF Detach, DetachUnchecked, Goto
  <2>4. QED
    BY <1>2, <2>1, <2>2, <2>3
<1>23. ASSUME NEW r \in Reports, CloseSocket(r) PROVE EndInv'
  BY <1>1, <1>23
  DEF CloseSocket, Goto, NoAttempt, EndingPcs
<1>24. ASSUME NEW r \in Reports, SetStatus(r) PROVE EndInv'
  BY <1>1, <1>24
  DEF SetStatus, Goto, NoAttempt, EndingPcs
<1>25. ASSUME NEW r \in Reports, SendEnded(r) PROVE EndInv'
  BY <1>1, <1>25
  DEF SendEnded, Goto, NoAttempt, EndingPcs
<1>26. ASSUME NEW r \in Reports, NoRetry(r) PROVE EndInv'
  BY <1>1, <1>26
  DEF NoRetry, Goto, NoAttempt, EndingPcs
<1>27. ASSUME NEW r \in Reports, Retry(r) PROVE EndInv'
  BY <1>1, <1>27
  DEF Retry, Goto, NoAttempt, EndingPcs
<1>28. ASSUME NEW r \in Reports, SendRetry(r) PROVE EndInv'
  BY <1>1, <1>28
  DEF SendRetry, Goto, NoAttempt, EndingPcs
<1>29. ASSUME NEW r \in Reports, CloseDone(r) PROVE EndInv'
  BY <1>1, <1>2, <1>29
  DEF CloseDone, Goto, NoAttempt, EndingPcs
<1>30. ASSUME NEW d \in Destroyers, DecideClosing(d) PROVE EndInv'
  BY <1>1, <1>30
  DEF DecideClosing, NoAttempt, EndingPcs
<1>31. ASSUME NEW d \in Destroyers, SendClosing(d) PROVE EndInv'
  BY <1>1, <1>31
  DEF SendClosing, NoAttempt, EndingPcs
<1>32. ASSUME NEW d \in Destroyers, DestroyTimeout(d) PROVE EndInv'
  BY <1>1, <1>32
  DEF DestroyTimeout, NoAttempt, EndingPcs
<1>33. ASSUME NEW d \in Destroyers, AttemptHasEnded(d) PROVE EndInv'
  BY <1>1, <1>33
  DEF AttemptHasEnded, NoAttempt, EndingPcs
<1>34. ASSUME NEW d \in Destroyers, SwapSender(d) PROVE EndInv'
  BY <1>1, <1>34
  DEF SwapSender, NoAttempt, EndingPcs
<1>35. CASE UNCHANGED vars
  BY <1>1, <1>35 DEF vars
<1>36. QED
  BY <1>3, <1>4, <1>5, <1>6, <1>7, <1>8, <1>9, <1>10, <1>11, <1>12, <1>13,
      <1>14, <1>15, <1>16, <1>17, <1>18, <1>19, <1>20, <1>21, <1>22, <1>23,
      <1>24, <1>25, <1>26, <1>27, <1>28, <1>29, <1>30, <1>31, <1>32, <1>33,
      <1>34, <1>35
  DEF Next, ConnectStep, ReaderStep, EndStep, DestroyStep

\* The reader of an attempt has nothing to end before onConnected is over.
LEMMA NextConnectingInv ==
  ASSUME IInv, [Next]_vars PROVE ConnectingInv'
<1> USE DEF ConnectingInv, clientVars, faultVars, retryVars, doneVars,
    statusVars, reportVars, destroyVars
<1>1. ConnectingInv /\ AttemptInv /\ CallbackInv
  BY DEF IInv
<1>2. pc \in [Reports -> Pcs] /\ attemptDone \in 0..MaxAttempts /\ wire \in [Attempts -> {"none", "open", "closed", "ended"}]
  BY DEF IInv, TypeOK
<1>3. ASSUME NEW a \in 0 .. MaxAttempts, TimerFires(a) PROVE ConnectingInv'
  BY <1>1, <1>3
  DEF TimerFires, NoAttempt, ConnectPcs
<1>4. ASSUME NEW a \in 0 .. MaxAttempts, BeginAttempt(a) PROVE ConnectingInv'
  <2> DEFINE new == attemptDone + 1
  <2>1. CASE quitting
    BY <1>1, <1>4, <2>1 DEF BeginAttempt
  <2>2. CASE ~quitting
    <3>1. /\ new \in Attempts /\ conn = NoAttempt
          /\ pc' = [pc EXCEPT ![Connect(new)] = "dialing"]
          /\ conn' = new /\ wire' = wire
      BY <1>1, <1>4, <2>2, BeginFacts DEF BeginAttempt, Goto
    <3>2. wire[new] = "none" /\ pc[Callback(new)] = "idle"
      BY <1>1, <1>2, <3>1, ReportOf DEF AttemptInv
    <3>3. \A b \in Attempts : pc[Connect(b)] # "storeSender"
      BY <1>1, <3>1 DEF NoAttempt, Attempts
    <3>4. QED
      BY <1>1, <1>2, <3>1, <3>2, <3>3, ReportOf DEF ConnectPcs
  <2>3. QED
    BY <2>1, <2>2
<1>5. ASSUME NEW a \in Attempts, DialSucceeds(a) PROVE ConnectingInv'
  BY <1>1, <1>2, <1>5, ReportOf
  DEF DialSucceeds, Goto, NoAttempt, ConnectPcs
<1>6. ASSUME NEW a \in Attempts, DialFails(a) PROVE ConnectingInv'
  BY <1>1, <1>6
  DEF DialFails, Goto, NoAttempt, ConnectPcs
<1>7. ASSUME NEW a \in Attempts, OnConnectedTooLate(a) PROVE ConnectingInv'
  BY <1>1, <1>7
  DEF OnConnectedTooLate, Goto, CloseWire, NoAttempt, ConnectPcs
<1>8. ASSUME NEW a \in Attempts, OnConnected(a) PROVE ConnectingInv'
  BY <1>1, <1>8, ReportOf
  DEF OnConnected, Goto, NoAttempt, ConnectPcs
<1>9. ASSUME NEW a \in Attempts, StoreSender(a) PROVE ConnectingInv'
  BY <1>1, <1>9
  DEF StoreSender, Goto, NoAttempt, ConnectPcs
<1>10. ASSUME NEW a \in Attempts, SendConnected(a) PROVE ConnectingInv'
  BY <1>1, <1>10
  DEF SendConnected, Goto, NoAttempt, ConnectPcs
<1>11. ASSUME NEW a \in Attempts, RegistrationEnds(a) PROVE ConnectingInv'
  BY <1>1, <1>11
  DEF RegistrationEnds, Goto, Reading, NoAttempt, ConnectPcs
<1>12. ASSUME NEW a \in Attempts, RegistrationFails(a) PROVE ConnectingInv'
  BY <1>1, <1>12
  DEF RegistrationFails, Goto, NoAttempt, ConnectPcs
<1>13. ASSUME NEW a \in Attempts, FinishSetup(a) PROVE ConnectingInv'
  BY <1>1, <1>13
  DEF FinishSetup, Goto, NoAttempt, ConnectPcs
<1>14. ASSUME NEW a \in Attempts, OnWelcome(a) PROVE ConnectingInv'
  BY <1>1, <1>14
  DEF OnWelcome, Reading, NoAttempt, ConnectPcs
<1>15. ASSUME NEW a \in Attempts, Stop(a) PROVE ConnectingInv'
  BY <1>1, <1>15
  DEF Stop, Reading, CloseWire, NoAttempt, ConnectPcs
<1>16. ASSUME NEW a \in Attempts, GiveUp(a) PROVE ConnectingInv'
  BY <1>1, <1>16
  DEF GiveUp, Reading, CloseWire, NoAttempt, ConnectPcs
<1>17. ASSUME NEW a \in Attempts, ServerDrops(a) PROVE ConnectingInv'
  BY <1>1, <1>17
  DEF ServerDrops, Reading, NoAttempt, ConnectPcs
<1>18. ASSUME NEW a \in Attempts, ReaderEnds(a) PROVE ConnectingInv'
  BY <1>1, <1>18
  DEF ReaderEnds, Reading, NoAttempt, ConnectPcs
<1>19. ASSUME NEW a \in Attempts, DisconnectCallback(a) PROVE ConnectingInv'
  BY <1>1, <1>19, ReportOf
  DEF DisconnectCallback, Goto, NoAttempt, ConnectPcs
<1>20. ASSUME NEW r \in Reports, DropSender(r) PROVE ConnectingInv'
  BY <1>1, <1>20
  DEF DropSender, Goto, NoAttempt, ConnectPcs
<1>21. ASSUME NEW r \in Reports, AlreadyEnded(r) PROVE ConnectingInv'
  BY <1>1, <1>21
  DEF AlreadyEnded, Goto, NoAttempt, ConnectPcs
<1>22. ASSUME NEW r \in Reports, Detach(r) PROVE ConnectingInv'
  BY <1>1, <1>22, ReportsFact
  DEF Detach, Goto, DetachUnchecked, NoAttempt, ConnectPcs
<1>23. ASSUME NEW r \in Reports, CloseSocket(r) PROVE ConnectingInv'
  BY <1>1, <1>23
  DEF CloseSocket, Goto, CloseWire, NoAttempt, ConnectPcs
<1>24. ASSUME NEW r \in Reports, SetStatus(r) PROVE ConnectingInv'
  BY <1>1, <1>24
  DEF SetStatus, Goto, NoAttempt, ConnectPcs
<1>25. ASSUME NEW r \in Reports, SendEnded(r) PROVE ConnectingInv'
  BY <1>1, <1>25
  DEF SendEnded, Goto, NoAttempt, ConnectPcs
<1>26. ASSUME NEW r \in Reports, NoRetry(r) PROVE ConnectingInv'
  BY <1>1, <1>26
  DEF NoRetry, Goto, NoAttempt, ConnectPcs
<1>27. ASSUME NEW r \in Reports, Retry(r) PROVE ConnectingInv'
  BY <1>1, <1>27
  DEF Retry, Goto, NoAttempt, ConnectPcs
<1>28. ASSUME NEW r \in Reports, SendRetry(r) PROVE ConnectingInv'
  BY <1>1, <1>28
  DEF SendRetry, Goto, NoAttempt, ConnectPcs
<1>29. ASSUME NEW r \in Reports, CloseDone(r) PROVE ConnectingInv'
  BY <1>1, <1>29
  DEF CloseDone, Goto, NoAttempt, ConnectPcs
<1>30. ASSUME NEW d \in Destroyers, DecideClosing(d) PROVE ConnectingInv'
  BY <1>1, <1>30
  DEF DecideClosing, NoAttempt, ConnectPcs
<1>31. ASSUME NEW d \in Destroyers, SendClosing(d) PROVE ConnectingInv'
  BY <1>1, <1>31
  DEF SendClosing, NoAttempt, ConnectPcs
<1>32. ASSUME NEW d \in Destroyers, DestroyTimeout(d) PROVE ConnectingInv'
  BY <1>1, <1>32
  DEF DestroyTimeout, CloseWire, NoAttempt, ConnectPcs
<1>33. ASSUME NEW d \in Destroyers, AttemptHasEnded(d) PROVE ConnectingInv'
  BY <1>1, <1>33
  DEF AttemptHasEnded, NoAttempt, ConnectPcs
<1>34. ASSUME NEW d \in Destroyers, SwapSender(d) PROVE ConnectingInv'
  BY <1>1, <1>34
  DEF SwapSender, NoAttempt, ConnectPcs
<1>35. CASE UNCHANGED vars
  BY <1>1, <1>35 DEF vars
<1>36. QED
  BY <1>3, <1>4, <1>5, <1>6, <1>7, <1>8, <1>9, <1>10, <1>11, <1>12, <1>13,
      <1>14, <1>15, <1>16, <1>17, <1>18, <1>19, <1>20, <1>21, <1>22, <1>23,
      <1>24, <1>25, <1>26, <1>27, <1>28, <1>29, <1>30, <1>31, <1>32, <1>33,
      <1>34, <1>35
  DEF Next, ConnectStep, ReaderStep, EndStep, DestroyStep

\* Only the report that carried out an end arms a reconnect, and a stop needs
\* a live attempt.
LEMMA NextCallbackInv ==
  ASSUME IInv, [Next]_vars PROVE CallbackInv'
<1> USE DEF CallbackInv, clientVars, faultVars, retryVars, doneVars,
    statusVars, reportVars, destroyVars
<1>1. CallbackInv /\ EndInv /\ AttemptInv
  BY DEF IInv
<1>2. /\ pc \in [Reports -> Pcs] /\ attemptDone \in 0 .. MaxAttempts /\ callback \in [0..MaxAttempts -> {"none", "armed", "fired", "stopped", "spent"}]
  BY DEF IInv, TypeOK
<1>3. ASSUME NEW a \in 0 .. MaxAttempts, TimerFires(a) PROVE CallbackInv'
  BY <1>1, <1>3
  DEF TimerFires, NoAttempt, PendingCallback, EndingPcs
<1>4. ASSUME NEW a \in 0 .. MaxAttempts, BeginAttempt(a) PROVE CallbackInv'
  BY <1>1, <1>2, <1>4
  DEF BeginAttempt, Goto, PreviousIsOver, NoAttempt, PendingCallback,
      EndingPcs
<1>5. ASSUME NEW a \in Attempts, DialSucceeds(a) PROVE CallbackInv'
  BY <1>1, <1>5
  DEF DialSucceeds, Goto, NoAttempt, PendingCallback, EndingPcs
<1>6. ASSUME NEW a \in Attempts, DialFails(a) PROVE CallbackInv'
  BY <1>1, <1>6
  DEF DialFails, Goto, NoAttempt, PendingCallback, EndingPcs
<1>7. ASSUME NEW a \in Attempts, OnConnectedTooLate(a) PROVE CallbackInv'
  BY <1>1, <1>7
  DEF OnConnectedTooLate, Goto, NoAttempt, PendingCallback, EndingPcs
<1>8. ASSUME NEW a \in Attempts, OnConnected(a) PROVE CallbackInv'
  BY <1>1, <1>8
  DEF OnConnected, Goto, NoAttempt, PendingCallback, EndingPcs
<1>9. ASSUME NEW a \in Attempts, StoreSender(a) PROVE CallbackInv'
  BY <1>1, <1>9
  DEF StoreSender, Goto, NoAttempt, PendingCallback, EndingPcs
<1>10. ASSUME NEW a \in Attempts, SendConnected(a) PROVE CallbackInv'
  BY <1>1, <1>10
  DEF SendConnected, Goto, NoAttempt, PendingCallback, EndingPcs
<1>11. ASSUME NEW a \in Attempts, RegistrationEnds(a) PROVE CallbackInv'
  BY <1>1, <1>11
  DEF RegistrationEnds, Goto, Reading, NoAttempt, PendingCallback, EndingPcs
<1>12. ASSUME NEW a \in Attempts, RegistrationFails(a) PROVE CallbackInv'
  BY <1>1, <1>12
  DEF RegistrationFails, Goto, NoAttempt, PendingCallback, EndingPcs
<1>13. ASSUME NEW a \in Attempts, FinishSetup(a) PROVE CallbackInv'
  BY <1>1, <1>13
  DEF FinishSetup, Goto, NoAttempt, PendingCallback, EndingPcs
<1>14. ASSUME NEW a \in Attempts, OnWelcome(a) PROVE CallbackInv'
  BY <1>1, <1>14
  DEF OnWelcome, Reading, NoAttempt, PendingCallback, EndingPcs
<1>15. ASSUME NEW a \in Attempts, Stop(a) PROVE CallbackInv'
  BY <1>1, <1>15
  DEF Stop, IsCurrent, Reading, NoAttempt, PendingCallback, EndingPcs, Attempts
<1>16. ASSUME NEW a \in Attempts, GiveUp(a) PROVE CallbackInv'
  BY <1>1, <1>16
  DEF GiveUp, Reading, NoAttempt, PendingCallback, EndingPcs
<1>17. ASSUME NEW a \in Attempts, ServerDrops(a) PROVE CallbackInv'
  BY <1>1, <1>17
  DEF ServerDrops, Reading, NoAttempt, PendingCallback, EndingPcs
<1>18. ASSUME NEW a \in Attempts, ReaderEnds(a) PROVE CallbackInv'
  BY <1>1, <1>18
  DEF ReaderEnds, Reading, NoAttempt, PendingCallback, EndingPcs
<1>19. ASSUME NEW a \in Attempts, DisconnectCallback(a) PROVE CallbackInv'
  BY <1>1, <1>19
  DEF DisconnectCallback, Goto, NoAttempt, PendingCallback, EndingPcs
<1>20. ASSUME NEW r \in Reports, DropSender(r) PROVE CallbackInv'
  BY <1>1, <1>20
  DEF DropSender, Goto, NoAttempt, PendingCallback, EndingPcs
<1>21. ASSUME NEW r \in Reports, AlreadyEnded(r) PROVE CallbackInv'
  BY <1>1, <1>21
  DEF AlreadyEnded, Goto, NoAttempt, PendingCallback, EndingPcs
<1>22. ASSUME NEW r \in Reports, Detach(r) PROVE CallbackInv'
  BY <1>1, <1>22
  DEF Detach, Goto, DetachUnchecked, NoAttempt, PendingCallback, EndingPcs
<1>23. ASSUME NEW r \in Reports, CloseSocket(r) PROVE CallbackInv'
  BY <1>1, <1>23
  DEF CloseSocket, Goto, NoAttempt, PendingCallback, EndingPcs
<1>24. ASSUME NEW r \in Reports, SetStatus(r) PROVE CallbackInv'
  BY <1>1, <1>24
  DEF SetStatus, Goto, NoAttempt, PendingCallback, EndingPcs
<1>25. ASSUME NEW r \in Reports, SendEnded(r) PROVE CallbackInv'
  BY <1>1, <1>25
  DEF SendEnded, Goto, NoAttempt, PendingCallback, EndingPcs
<1>26. ASSUME NEW r \in Reports, NoRetry(r) PROVE CallbackInv'
  BY <1>1, <1>26
  DEF NoRetry, Goto, MayRetry, NoAttempt, PendingCallback, EndingPcs
<1>27. ASSUME NEW r \in Reports, Retry(r) PROVE CallbackInv'
  <2>1. conn = NoAttempt /\ r[1] = attemptDone /\ ~stopped
    BY <1>1, <1>27 DEF EndInv, Retry, Goto, MayRetry, EndingPcs
  <2>2. callback' = [callback EXCEPT ![r[1]] = "armed"]
    BY <1>27 DEF Retry
  <2>3. UNCHANGED <<attemptDone, conn, stopped>>
    BY <1>27 DEF Retry
  <2>4. QED
    BY <1>1, <1>2, <2>1, <2>2, <2>3 DEF PendingCallback
<1>28. ASSUME NEW r \in Reports, SendRetry(r) PROVE CallbackInv'
  BY <1>1, <1>28
  DEF SendRetry, Goto, NoAttempt, PendingCallback, EndingPcs
<1>29. ASSUME NEW r \in Reports, CloseDone(r) PROVE CallbackInv'
  BY <1>1, <1>29
  DEF CloseDone, Goto, NoAttempt, PendingCallback, EndingPcs
<1>30. ASSUME NEW d \in Destroyers, DecideClosing(d) PROVE CallbackInv'
  BY <1>1, <1>30
  DEF DecideClosing, NoAttempt, PendingCallback, EndingPcs
<1>31. ASSUME NEW d \in Destroyers, SendClosing(d) PROVE CallbackInv'
  BY <1>1, <1>31
  DEF SendClosing, NoAttempt, PendingCallback, EndingPcs
<1>32. ASSUME NEW d \in Destroyers, DestroyTimeout(d) PROVE CallbackInv'
  BY <1>1, <1>32
  DEF DestroyTimeout, NoAttempt, PendingCallback, EndingPcs
<1>33. ASSUME NEW d \in Destroyers, AttemptHasEnded(d) PROVE CallbackInv'
  BY <1>1, <1>33
  DEF AttemptHasEnded, NoAttempt, PendingCallback, EndingPcs
<1>34. ASSUME NEW d \in Destroyers, SwapSender(d) PROVE CallbackInv'
  BY <1>1, <1>34
  DEF SwapSender, NoAttempt, PendingCallback, EndingPcs
<1>35. CASE UNCHANGED vars
  BY <1>1, <1>35 DEF vars
<1>36. QED
  BY <1>3, <1>4, <1>5, <1>6, <1>7, <1>8, <1>9, <1>10, <1>11, <1>12, <1>13,
      <1>14, <1>15, <1>16, <1>17, <1>18, <1>19, <1>20, <1>21, <1>22, <1>23,
      <1>24, <1>25, <1>26, <1>27, <1>28, <1>29, <1>30, <1>31, <1>32, <1>33,
      <1>34, <1>35
  DEF Next, ConnectStep, ReaderStep, EndStep, DestroyStep

\* c.sender is cleared before c.conn is.
LEMMA NextSenderInv ==
  ASSUME IInv, [Next]_vars PROVE SenderInv'
<1> USE DEF SenderInv, clientVars, faultVars, retryVars, doneVars, statusVars,
     reportVars, destroyVars
<1>1. SenderInv /\ ConnectingInv /\ AttemptInv /\ CallbackInv
  BY DEF IInv
<1>2. pc \in [Reports -> Pcs] /\ attemptDone \in 0..MaxAttempts
  BY DEF IInv, TypeOK
<1>3. ASSUME NEW a \in 0 .. MaxAttempts, TimerFires(a) PROVE SenderInv'
  BY <1>1, <1>3
  DEF TimerFires, NoAttempt, ConnectPcs
<1>4. ASSUME NEW a \in 0 .. MaxAttempts, BeginAttempt(a) PROVE SenderInv'
  <2>1. sender = NoAttempt
    BY <1>1, <1>4, BeginFacts
  <2>2. QED
    BY <1>4, <2>1, ReportsFact DEF BeginAttempt, NoAttempt, Attempts
<1>5. ASSUME NEW a \in Attempts, DialSucceeds(a) PROVE SenderInv'
  BY <1>1, <1>5
  DEF DialSucceeds, Goto, NoAttempt, ConnectPcs
<1>6. ASSUME NEW a \in Attempts, DialFails(a) PROVE SenderInv'
  BY <1>1, <1>6
  DEF DialFails, Goto, NoAttempt, ConnectPcs
<1>7. ASSUME NEW a \in Attempts, OnConnectedTooLate(a) PROVE SenderInv'
  BY <1>1, <1>7
  DEF OnConnectedTooLate, Goto, NoAttempt, ConnectPcs
<1>8. ASSUME NEW a \in Attempts, OnConnected(a) PROVE SenderInv'
  BY <1>1, <1>8
  DEF OnConnected, Goto, NoAttempt, ConnectPcs
<1>9. ASSUME NEW a \in Attempts, StoreSender(a) PROVE SenderInv'
  <2>1. conn = a /\ pc[Callback(a)] = "idle"
    BY <1>1, <1>9 DEF ConnectingInv, StoreSender, Goto, ConnectPcs
  <2>2. sender' = a /\ conn' = conn
    BY <1>9 DEF StoreSender
  <2>3. ASSUME NEW r \in Reports, pc'[r] = "detach" PROVE r[1] # a
    BY <1>2, <1>9, <2>1, <2>3, ReportsFact, ReportOf DEF StoreSender, Goto
  <2>4. QED
    BY <2>1, <2>2, <2>3
<1>10. ASSUME NEW a \in Attempts, SendConnected(a) PROVE SenderInv'
  BY <1>1, <1>10
  DEF SendConnected, Goto, NoAttempt, ConnectPcs
<1>11. ASSUME NEW a \in Attempts, RegistrationEnds(a) PROVE SenderInv'
  BY <1>1, <1>11
  DEF RegistrationEnds, Goto, NoAttempt, ConnectPcs
<1>12. ASSUME NEW a \in Attempts, RegistrationFails(a) PROVE SenderInv'
  BY <1>1, <1>12
  DEF RegistrationFails, Goto, NoAttempt, ConnectPcs
<1>13. ASSUME NEW a \in Attempts, FinishSetup(a) PROVE SenderInv'
  BY <1>1, <1>13
  DEF FinishSetup, Goto, NoAttempt, ConnectPcs
<1>14. ASSUME NEW a \in Attempts, OnWelcome(a) PROVE SenderInv'
  BY <1>1, <1>14
  DEF OnWelcome, NoAttempt, ConnectPcs
<1>15. ASSUME NEW a \in Attempts, Stop(a) PROVE SenderInv'
  BY <1>1, <1>15 DEF Stop, NoAttempt, ConnectPcs
<1>16. ASSUME NEW a \in Attempts, GiveUp(a) PROVE SenderInv'
  BY <1>1, <1>16
  DEF GiveUp, NoAttempt, ConnectPcs
<1>17. ASSUME NEW a \in Attempts, ServerDrops(a) PROVE SenderInv'
  BY <1>1, <1>17
  DEF ServerDrops, NoAttempt, ConnectPcs
<1>18. ASSUME NEW a \in Attempts, ReaderEnds(a) PROVE SenderInv'
  BY <1>1, <1>18
  DEF ReaderEnds, NoAttempt, ConnectPcs
<1>19. ASSUME NEW a \in Attempts, DisconnectCallback(a) PROVE SenderInv'
  BY <1>1, <1>19
  DEF DisconnectCallback, Goto, NoAttempt, ConnectPcs
<1>20. ASSUME NEW r \in Reports, DropSender(r) PROVE SenderInv'
  BY <1>1, <1>20, ReportsFact
  DEF DropSender, Goto, CompareAndClear, NoAttempt, ConnectPcs, Attempts
<1>21. ASSUME NEW r \in Reports, AlreadyEnded(r) PROVE SenderInv'
  BY <1>1, <1>21
  DEF AlreadyEnded, Goto, NoAttempt, ConnectPcs
<1>22. ASSUME NEW r \in Reports, Detach(r) PROVE SenderInv'
  BY <1>1, <1>22
  DEF Detach, Goto, DetachUnchecked, NoAttempt, ConnectPcs
<1>23. ASSUME NEW r \in Reports, CloseSocket(r) PROVE SenderInv'
  BY <1>1, <1>23
  DEF CloseSocket, Goto, NoAttempt, ConnectPcs
<1>24. ASSUME NEW r \in Reports, SetStatus(r) PROVE SenderInv'
  BY <1>1, <1>24
  DEF SetStatus, Goto, NoAttempt, ConnectPcs
<1>25. ASSUME NEW r \in Reports, SendEnded(r) PROVE SenderInv'
  BY <1>1, <1>25
  DEF SendEnded, Goto, NoAttempt, ConnectPcs
<1>26. ASSUME NEW r \in Reports, NoRetry(r) PROVE SenderInv'
  BY <1>1, <1>26
  DEF NoRetry, Goto, NoAttempt, ConnectPcs
<1>27. ASSUME NEW r \in Reports, Retry(r) PROVE SenderInv'
  BY <1>1, <1>27
  DEF Retry, Goto, NoAttempt, ConnectPcs
<1>28. ASSUME NEW r \in Reports, SendRetry(r) PROVE SenderInv'
  BY <1>1, <1>28
  DEF SendRetry, Goto, NoAttempt, ConnectPcs
<1>29. ASSUME NEW r \in Reports, CloseDone(r) PROVE SenderInv'
  BY <1>1, <1>29
  DEF CloseDone, Goto, NoAttempt, ConnectPcs
<1>30. ASSUME NEW d \in Destroyers, DecideClosing(d) PROVE SenderInv'
  BY <1>1, <1>30
  DEF DecideClosing, NoAttempt, ConnectPcs
<1>31. ASSUME NEW d \in Destroyers, SendClosing(d) PROVE SenderInv'
  BY <1>1, <1>31
  DEF SendClosing, NoAttempt, ConnectPcs
<1>32. ASSUME NEW d \in Destroyers, DestroyTimeout(d) PROVE SenderInv'
  BY <1>1, <1>32
  DEF DestroyTimeout, NoAttempt, ConnectPcs
<1>33. ASSUME NEW d \in Destroyers, AttemptHasEnded(d) PROVE SenderInv'
  BY <1>1, <1>33
  DEF AttemptHasEnded, NoAttempt, ConnectPcs
<1>34. ASSUME NEW d \in Destroyers, SwapSender(d) PROVE SenderInv'
  BY <1>1, <1>34, ReportsFact
  DEF SwapSender, NoAttempt, ConnectPcs, Attempts
<1>35. CASE UNCHANGED vars
  BY <1>1, <1>35 DEF vars
<1>36. QED
  BY <1>3, <1>4, <1>5, <1>6, <1>7, <1>8, <1>9, <1>10, <1>11, <1>12, <1>13,
      <1>14, <1>15, <1>16, <1>17, <1>18, <1>19, <1>20, <1>21, <1>22, <1>23,
      <1>24, <1>25, <1>26, <1>27, <1>28, <1>29, <1>30, <1>31, <1>32, <1>33,
      <1>34, <1>35
  DEF Next, ConnectStep, ReaderStep, EndStep, DestroyStep

-----------------------------------------------------------------------------
\* The inductive invariant holds when the client is made.
LEMMA InitIInv == Init => IInv
<1> SUFFICES ASSUME Init PROVE IInv
  OBVIOUS
<1>1. TypeOK
  BY InitTypeOK
<1>2. \A r \in Reports : pc[r] = "idle"
  BY DEF Init
<1>3. \A d \in Destroyers : dpc[d] = "idle"
  BY DEF Init
<1>4. MutexInv
  BY <1>2, <1>3 DEF Init, MutexInv, SendingPcs
<1>5. AttemptInv
  BY <1>2 DEF Init, AttemptInv, NoAttempt, Attempts
<1>6. EndInv
  BY <1>2 DEF EndInv, EndingPcs
<1>7. ConnectingInv
  BY <1>2, ReportOf DEF Init, ConnectingInv, ConnectPcs
<1>8. CallbackInv
  BY DEF Init, CallbackInv, PendingCallback, NoAttempt
<1>9. SenderInv
  BY <1>2 DEF Init, SenderInv, NoAttempt
<1>10. QED
  BY <1>1, <1>4, <1>5, <1>6, <1>7, <1>8, <1>9 DEF IInv

\* The inductive invariant: where every goroutine can be, for any number of
\* attempts and any set of Destroys.
THEOREM Invariance == Spec => []IInv
<1>1. Init => IInv
  BY InitIInv
<1>2. IInv /\ [Next]_vars => IInv'
  <2> SUFFICES ASSUME IInv, [Next]_vars PROVE IInv'
    OBVIOUS
  <2>1. TypeOK'
    BY NextTypeOK DEF IInv
  <2>2. QED
    BY <2>1, NextMutexInv, NextAttemptInv, NextEndInv, NextConnectingInv,
       NextCallbackInv, NextSenderInv
    DEF IInv
<1>3. QED
  BY <1>1, <1>2, PTL DEF Spec

\* Type correctness of the connection's state.
THEOREM TypeCorrect == Spec => []TypeOK
BY Invariance, PTL DEF IInv

\* Whenever statusMu is free the last published status is the client's:
\* no interleaving of onConnected, endAttempt and Destroy publishes a status
\* that another one has overtaken.
THEOREM PublishedIsStatusHolds == Spec => []PublishedIsStatus
<1>1. IInv => PublishedIsStatus
  BY DEF IInv, MutexInv, PublishedIsStatus
<1>2. QED
  BY <1>1, Invariance, PTL

\* endAttempt carries out the end of an attempt once, whichever of Connect's
\* error and the disconnect callback comes first, and closes done once.
THEOREM EndedOnceHolds == Spec => []EndedOnce
<1>1. IInv => EndedOnce
  <2> SUFFICES ASSUME IInv, NEW a \in Attempts
               PROVE  /\ ~(pc[Connect(a)] \in EndingPcs /\ pc[Callback(a)] \in EndingPcs)
                      /\ a \in closed => /\ pc[Connect(a)] \notin EndingPcs
                                         /\ pc[Callback(a)] \notin EndingPcs
    BY DEF EndedOnce
  <2>1. QED
    BY ReportOf DEF IInv, EndInv
<1>2. QED
  BY <1>1, Invariance, PTL

\* An attempt begins only after the one before has published its statuses.
THEOREM AttemptsDoNotOverlapHolds == Spec => []AttemptsDoNotOverlap
<1>1. IInv => AttemptsDoNotOverlap
  <2> SUFFICES ASSUME IInv, NEW a \in Attempts, NEW b \in Attempts,
                      a < b, pc[Connect(b)] # "idle"
               PROVE  /\ a \in closed
                      /\ pc[Connect(a)] \notin EndingPcs
                      /\ pc[Callback(a)] \notin EndingPcs
    BY DEF AttemptsDoNotOverlap
  <2>1. attemptDone \in Nat
    BY DEF IInv, TypeOK
  <2>2. b <= attemptDone
    BY <2>1, ReportOf DEF IInv, AttemptInv, Attempts
  <2>3. a < attemptDone /\ a \in closed
    BY <2>1, <2>2 DEF IInv, AttemptInv, Attempts
  <2>4. QED
    BY <2>3, ReportOf DEF IInv, EndInv, Attempts
<1>2. QED
  BY <1>1, Invariance, PTL

\* c.sender points to no queue but the live attempt's, so that no line is
\* accepted for a connection that has ended.
THEOREM SenderIsLiveHolds == Spec => []SenderIsLive
<1>1. IInv => SenderIsLive
  BY DEF IInv, SenderInv, SenderIsLive
<1>2. QED
  BY <1>1, Invariance, PTL

\* No step but a connect begins an attempt.
LEMMA OnlyConnectDials ==
  ASSUME Next, attemptDone' # attemptDone
  PROVE  \E a \in 0 .. MaxAttempts : BeginAttempt(a) /\ ~quitting
<1> USE DEF doneVars
<1>1. ASSUME NEW a \in 0 .. MaxAttempts PROVE ~TimerFires(a)
  BY DEF TimerFires
<1>2. ASSUME NEW a \in Attempts PROVE ~ConnectStep(a)
  BY DEF ConnectStep, DialSucceeds, DialFails, OnConnectedTooLate, OnConnected,
     StoreSender, SendConnected, RegistrationEnds, RegistrationFails, FinishSetup
<1>3. ASSUME NEW a \in Attempts PROVE ~ReaderStep(a)
  BY DEF ReaderStep, OnWelcome, Stop, GiveUp, ServerDrops, ReaderEnds,
     DisconnectCallback
<1>4. ASSUME NEW r \in Reports PROVE ~EndStep(r)
  BY DEF EndStep, DropSender, AlreadyEnded, Detach, DetachUnchecked, CloseSocket,
     SetStatus, SendEnded, NoRetry, Retry, SendRetry, CloseDone
<1>5. ASSUME NEW d \in Destroyers PROVE ~DestroyStep(d)
  BY DEF DestroyStep, DecideClosing, SendClosing, DestroyTimeout, AttemptHasEnded,
     SwapSender
<1>6. PICK a \in 0 .. MaxAttempts : BeginAttempt(a)
  BY <1>1, <1>2, <1>3, <1>4, <1>5 DEF Next
<1>7. ~quitting
  BY <1>6 DEF BeginAttempt
<1>8. QED
  BY <1>6, <1>7

\* A client that stopped never dials again.
THEOREM StoppedStaysDownHolds == Spec => StoppedStaysDown
<1>1. IInv /\ [Next]_vars => [stopped => attemptDone' = attemptDone]_vars
  <2> SUFFICES ASSUME IInv, Next, stopped PROVE attemptDone' = attemptDone
    BY DEF vars, doneVars
  <2>1. ASSUME NEW a \in 0 .. MaxAttempts, BeginAttempt(a) PROVE FALSE
    BY <2>1, BeginFacts
  <2>2. QED
    BY <2>1, OnlyConnectDials
<1>2. QED
  BY <1>1, Invariance, PTL DEF Spec, StoppedStaysDown

-----------------------------------------------------------------------------
(* The statuses a client publishes                                         *)

Closers == {"closeSocket", "setStatus"}
EndMsgs == {"Ended", "Stopped", "GaveUp"}

DownInv ==
  /\ \A d \in Destroyers : dpc[d] # "idle" => quitting /\ awaited[d] = attemptDone
  /\ \A d \in Destroyers : dpc[d] \in {"swapSender", "returned"} => attemptDone \in closed
  /\ socket # NoAttempt => socket = conn
  /\ registered => conn # NoAttempt
  /\ \A a \in Attempts : pc[Connect(a)] \in {"dialing", "onConnected"} => conn = a
  /\ \A a \in Attempts : wire[a] = "open" =>
       conn = a \/ \E r \in Reports : r[1] = a /\ pc[r] = "closeSocket"

\* The status of an end, from Detach to the decision whether to retry.
EndStatusInv ==
  /\ conn # NoAttempt => status.msg \notin EndMsgs
  /\ \A r \in Reports : pc[r] \in Closers =>
       /\ status.msg \notin EndMsgs
       /\ stopped <=> out[r].msg = "Stopped"
  /\ \A r \in Reports : pc[r] \in Closers \cup {"sendEnded"} =>
       out[r].msg \in EndMsgs /\ out[r].connected = FALSE
  /\ \A r \in Reports : pc[r] \in {"sendEnded", "decideRetry"} /\ ~quitting =>
       status.msg \in EndMsgs /\ (~stopped => status.msg # "Stopped")
  /\ status.connected =>
       conn # NoAttempt \/ \E r \in Reports : pc[r] \in Closers
  /\ stopped =>
       \/ conn # NoAttempt \/ \E r \in Reports : pc[r] \in Closers
       \/ status.msg \in {"Stopped", "Closing"}

\* The status a new attempt begins with.
BeginStatusInv ==
  /\ \A a \in 0 .. MaxAttempts : callback[a] \in PendingCallback =>
       /\ \A r \in Reports : pc[r] \notin Closers \cup {"sendEnded", "decideRetry"}
       /\ ~quitting => status.msg \in {"Connecting", "Reconnecting"}
  /\ \A a \in Attempts : pc[Connect(a)] \in {"dialing", "onConnected"} /\ ~quitting =>
       status.msg \in {"Connecting", "Reconnecting"}

\* What is about to be published follows what was published last.
SendInv ==
  /\ \A r \in Reports : pc[r] \in {"storeSender", "sendConnected"} =>
       /\ ~quitting
       /\ status = [msg |-> "Connected", connected |-> TRUE]
       /\ published.msg \in {"Connecting", "Reconnecting"}
  /\ \A r \in Reports : pc[r] = "sendEnded" => published.msg \notin EndMsgs
  /\ \A r \in Reports : pc[r] = "sendRetry" =>
       /\ ~quitting
       /\ status = [msg |-> "Reconnecting", connected |-> FALSE]
       /\ published.msg \in EndMsgs \ {"Stopped"}
  /\ \A d \in Destroyers : dpc[d] = "sendClosing" =>
       status = [published EXCEPT !.msg = "Closing"]

StatusIInv == DownInv /\ EndStatusInv /\ BeginStatusInv /\ SendInv

\* While an attempt is live no report is ending one.
LEMMA LiveFacts ==
  ASSUME IInv, NEW a \in Attempts, conn = a
  PROVE  a # NoAttempt /\ \A r \in Reports : pc[r] \notin EndingPcs
BY DEF IInv, EndInv, NoAttempt, Attempts

\* Only one report at a time ends an attempt, and none is live then.
LEMMA EndingFacts ==
  ASSUME IInv, NEW r \in Reports, pc[r] \in EndingPcs
  PROVE  conn = NoAttempt /\ \A q \in Reports : q # r => pc[q] \notin EndingPcs
BY DEF IInv, EndInv

\* What belongs to no attempt but the live one stays that way.
LEMMA NextDownInv ==
  ASSUME IInv, StatusIInv, [Next]_vars PROVE DownInv'
<1> USE DEF DownInv, NoAttempt, clientVars, faultVars, retryVars, doneVars, statusVars,
    reportVars, destroyVars
<1>1. DownInv /\ AttemptInv /\ EndInv /\ ConnectingInv
  BY DEF IInv, StatusIInv
<1>2. /\ pc \in [Reports -> Pcs] /\ attemptDone \in 0 .. MaxAttempts
      /\ wire \in [Attempts -> {"none", "open", "closed", "ended"}]
      /\ dpc \in [Destroyers -> DestroyPcs]
      /\ awaited \in [Destroyers -> 0 .. MaxAttempts]
      /\ registered \in BOOLEAN
  BY DEF IInv, TypeOK
<1>3. ASSUME NEW a \in 0 .. MaxAttempts, TimerFires(a) PROVE DownInv'
  BY <1>1, <1>2, <1>3, ReportOf, ReportsFact DEF TimerFires
<1>4. ASSUME NEW a \in 0 .. MaxAttempts, BeginAttempt(a) PROVE DownInv'
  <2>1. a = attemptDone /\ a \in closed /\ conn = NoAttempt
    BY <1>4, BeginFacts
  <2>2. CASE quitting
    BY <1>1, <1>2, <1>4, <2>2 DEF BeginAttempt
  <2>3. CASE ~quitting
    <3> DEFINE b == attemptDone + 1
    <3>1. /\ b \in Attempts /\ conn' = b /\ socket' = NoAttempt /\ registered' = FALSE
          /\ pc' = [pc EXCEPT ![Connect(b)] = "dialing"]
          /\ UNCHANGED <<quitting, dpc, awaited, closed, wire>>
          /\ attemptDone' = b
      BY <1>4, <2>3 DEF BeginAttempt, Goto
    <3>2. /\ \A d \in Destroyers : dpc[d] = "idle"
          /\ \A r \in Reports : pc[r] # "closeSocket"
      BY <1>1, <2>3, <1>4, BeginFacts DEF EndingPcs
    <3>3. \A c \in Attempts : pc[Connect(c)] \notin {"dialing", "onConnected"}
      BY <1>1, <2>1 DEF Attempts
    <3>4. \A c \in Attempts : wire[c] # "open"
      BY <1>1, <2>1, <3>2 DEF Attempts
    <3> HIDE DEF b
    <3>5. b # 0
      BY <3>1 DEF Attempts
    <3>6. \A c \in Attempts : pc'[Connect(c)] \in {"dialing", "onConnected"} => c = b
      BY <1>2, <3>1, <3>3, ReportOf DEF Connect
    <3>7. QED
      BY <3>1, <3>2, <3>4, <3>5, <3>6
  <2>4. QED
    BY <2>2, <2>3
<1>5. ASSUME NEW a \in Attempts, DialSucceeds(a) PROVE DownInv'
  BY <1>1, <1>2, <1>5, ReportOf, ReportsFact DEF DialSucceeds, Goto
<1>6. ASSUME NEW a \in Attempts, DialFails(a) PROVE DownInv'
  BY <1>1, <1>2, <1>6, ReportOf, ReportsFact DEF DialFails, Goto
<1>7. ASSUME NEW a \in Attempts, OnConnectedTooLate(a) PROVE DownInv'
  BY <1>1, <1>2, <1>7, ReportOf, ReportsFact DEF OnConnectedTooLate, Goto, CloseWire
<1>8. ASSUME NEW a \in Attempts, OnConnected(a) PROVE DownInv'
  BY <1>1, <1>2, <1>8, ReportOf, ReportsFact DEF OnConnected, Goto, Lock
<1>9. ASSUME NEW a \in Attempts, StoreSender(a) PROVE DownInv'
  BY <1>1, <1>2, <1>9, ReportOf, ReportsFact DEF StoreSender, Goto
<1>10. ASSUME NEW a \in Attempts, SendConnected(a) PROVE DownInv'
  BY <1>1, <1>2, <1>10, ReportOf, ReportsFact DEF SendConnected, Goto, Unlock
<1>11. ASSUME NEW a \in Attempts, RegistrationEnds(a) PROVE DownInv'
  BY <1>1, <1>2, <1>11, ReportOf, ReportsFact DEF RegistrationEnds, Goto
<1>12. ASSUME NEW a \in Attempts, RegistrationFails(a) PROVE DownInv'
  BY <1>1, <1>2, <1>12, ReportOf, ReportsFact DEF RegistrationFails, Goto
<1>13. ASSUME NEW a \in Attempts, FinishSetup(a) PROVE DownInv'
  BY <1>1, <1>2, <1>13, ReportOf DEF FinishSetup, Goto, Attempts
<1>14. ASSUME NEW a \in Attempts, OnWelcome(a) PROVE DownInv'
  BY <1>1, <1>2, <1>14, ReportOf, ReportsFact DEF OnWelcome
<1>15. ASSUME NEW a \in Attempts, Stop(a) PROVE DownInv'
  BY <1>1, <1>2, <1>15, ReportOf, ReportsFact DEF Stop, CloseWire
<1>16. ASSUME NEW a \in Attempts, GiveUp(a) PROVE DownInv'
  BY <1>1, <1>2, <1>16, ReportOf, ReportsFact DEF GiveUp, CloseWire
<1>17. ASSUME NEW a \in Attempts, ServerDrops(a) PROVE DownInv'
  BY <1>1, <1>2, <1>17, ReportOf, ReportsFact DEF ServerDrops
<1>18. ASSUME NEW a \in Attempts, ReaderEnds(a) PROVE DownInv'
  BY <1>1, <1>2, <1>18, ReportOf, ReportsFact DEF ReaderEnds
<1>19. ASSUME NEW a \in Attempts, DisconnectCallback(a) PROVE DownInv'
  BY <1>1, <1>2, <1>19, ReportOf, ReportsFact DEF DisconnectCallback, Goto
<1>20. ASSUME NEW r \in Reports, DropSender(r) PROVE DownInv'
  BY <1>1, <1>2, <1>20, ReportOf, ReportsFact DEF DropSender, Goto
<1>21. ASSUME NEW r \in Reports, AlreadyEnded(r) PROVE DownInv'
  BY <1>1, <1>2, <1>21, ReportOf, ReportsFact DEF AlreadyEnded, Goto
<1>22. ASSUME NEW r \in Reports, Detach(r) PROVE DownInv'
  <2>1. ASSUME NEW a \in Attempts, pc[Connect(a)] \in {"dialing", "onConnected"}
        PROVE  FALSE
    <3>1. conn = a /\ conn = r[1] /\ pc[r] = "detach"
      BY <1>1, <1>22, <2>1 DEF Detach, DetachUnchecked, Goto
    <3>2. pc[Callback(a)] = "idle"
      BY <1>1, <2>1 DEF ConnectPcs, ConnectingInv
    <3>3. QED
      BY <2>1, <3>1, <3>2, ReportsFact
  <2>2. /\ conn = r[1] /\ conn' = NoAttempt /\ socket' = NoAttempt
        /\ registered' = FALSE
        /\ pc' = [pc EXCEPT ![r] = "closeSocket"]
        /\ UNCHANGED <<quitting, dpc, awaited, attemptDone, closed, wire>>
    BY <1>22 DEF Detach, DetachUnchecked, Goto
  <2>3. \A a \in Attempts : pc'[Connect(a)] \notin {"dialing", "onConnected"}
    BY <1>2, <2>1, <2>2, ReportOf
  <2>4. ASSUME NEW a \in Attempts, wire[a] = "open"
        PROVE  \E q \in Reports : q[1] = a /\ pc'[q] = "closeSocket"
    <3>1. CASE conn = a
      BY <1>2, <2>2, <3>1
    <3>2. CASE conn # a
      BY <1>1, <1>2, <2>2, <2>4, <3>2
    <3>3. QED
      BY <3>1, <3>2
  <2>5. QED
    BY <1>1, <2>2, <2>3, <2>4
<1>23. ASSUME NEW r \in Reports, CloseSocket(r) PROVE DownInv'
  BY <1>1, <1>2, <1>23, ReportOf, ReportsFact DEF CloseSocket, Goto, CloseWire
<1>24. ASSUME NEW r \in Reports, SetStatus(r) PROVE DownInv'
  BY <1>1, <1>2, <1>24, ReportOf, ReportsFact DEF SetStatus, Goto, Lock
<1>25. ASSUME NEW r \in Reports, SendEnded(r) PROVE DownInv'
  BY <1>1, <1>2, <1>25, ReportOf, ReportsFact DEF SendEnded, Goto, Unlock
<1>26. ASSUME NEW r \in Reports, NoRetry(r) PROVE DownInv'
  BY <1>1, <1>2, <1>26, ReportOf, ReportsFact DEF NoRetry, Goto, MayRetry
<1>27. ASSUME NEW r \in Reports, Retry(r) PROVE DownInv'
  BY <1>1, <1>2, <1>27, ReportOf, ReportsFact DEF Retry, Goto, Lock, MayRetry
<1>28. ASSUME NEW r \in Reports, SendRetry(r) PROVE DownInv'
  BY <1>1, <1>2, <1>28, ReportOf, ReportsFact DEF SendRetry, Goto, Unlock
<1>29. ASSUME NEW r \in Reports, CloseDone(r) PROVE DownInv'
  BY <1>1, <1>2, <1>29, ReportOf, ReportsFact DEF CloseDone, Goto
<1>30. ASSUME NEW d \in Destroyers, DecideClosing(d) PROVE DownInv'
  BY <1>1, <1>2, <1>30, ReportOf, ReportsFact DEF DecideClosing, DGoto, Lock
<1>31. ASSUME NEW d \in Destroyers, SendClosing(d) PROVE DownInv'
  BY <1>1, <1>2, <1>31, ReportOf, ReportsFact DEF SendClosing, DGoto, Unlock
<1>32. ASSUME NEW d \in Destroyers, DestroyTimeout(d) PROVE DownInv'
  BY <1>1, <1>2, <1>32, ReportOf, ReportsFact DEF DestroyTimeout, DGoto, CloseWire
<1>33. ASSUME NEW d \in Destroyers, AttemptHasEnded(d) PROVE DownInv'
  BY <1>1, <1>2, <1>33, ReportOf, ReportsFact DEF AttemptHasEnded, DGoto, HasEnded
<1>34. ASSUME NEW d \in Destroyers, SwapSender(d) PROVE DownInv'
  BY <1>1, <1>2, <1>34, ReportOf, ReportsFact DEF SwapSender, DGoto
<1>35. CASE UNCHANGED vars
  BY <1>1, <1>35 DEF vars
<1>36. QED
  BY <1>3, <1>4, <1>5, <1>6, <1>7, <1>8, <1>9, <1>10, <1>11, <1>12,
      <1>13, <1>14, <1>15, <1>16, <1>17, <1>18, <1>19, <1>20, <1>21,
      <1>22, <1>23, <1>24, <1>25, <1>26, <1>27, <1>28, <1>29, <1>30,
      <1>31, <1>32, <1>33, <1>34, <1>35
  DEF Next, ConnectStep, ReaderStep, EndStep, DestroyStep

\* The status of an end is the one its report chose.
LEMMA NextEndStatusInv ==
  ASSUME IInv, StatusIInv, [Next]_vars PROVE EndStatusInv'
<1> USE DEF EndStatusInv, Closers, EndMsgs, NoAttempt, clientVars, faultVars, retryVars, doneVars, statusVars,
    reportVars, destroyVars
<1>1. EndStatusInv /\ BeginStatusInv /\ SendInv /\ AttemptInv /\ EndInv /\ CallbackInv
  BY DEF IInv, StatusIInv
<1>2. /\ pc \in [Reports -> Pcs] /\ attemptDone \in 0 .. MaxAttempts
      /\ out \in [Reports -> Status] /\ status \in Status
  BY DEF IInv, TypeOK
<1>3. ASSUME NEW a \in 0 .. MaxAttempts, TimerFires(a) PROVE EndStatusInv'
  BY <1>1, <1>2, <1>3, ReportOf, ReportsFact DEF TimerFires
<1>4. ASSUME NEW a \in 0 .. MaxAttempts, BeginAttempt(a) PROVE EndStatusInv'
  <2>1. /\ a = attemptDone /\ conn = NoAttempt /\ ~stopped
        /\ \A r \in Reports : pc[r] \notin EndingPcs
        /\ callback[a] = "fired"
    BY <1>4, BeginFacts DEF BeginAttempt
  <2>2. CASE quitting
    BY <1>1, <1>2, <1>4, <2>2 DEF BeginAttempt
  <2>3. CASE ~quitting
    <3>1. status.msg \in {"Connecting", "Reconnecting"}
      BY <1>1, <2>1, <2>3 DEF BeginStatusInv, PendingCallback
    <3>2. /\ pc' = [pc EXCEPT ![Connect(attemptDone + 1)] = "dialing"]
          /\ conn' = attemptDone + 1
          /\ UNCHANGED <<status, stopped, quitting, out>>
      BY <1>4, <2>3 DEF BeginAttempt, Goto
    <3>3. conn' # NoAttempt
      BY <1>2, <3>2
    <3>4. \A r \in Reports : pc'[r] \notin EndingPcs
      BY <1>2, <2>1, <3>2 DEF EndingPcs
    <3>5. QED
      BY <2>1, <3>1, <3>2, <3>3, <3>4 DEF EndingPcs
  <2>4. QED
    BY <2>2, <2>3
<1>5. ASSUME NEW a \in Attempts, DialSucceeds(a) PROVE EndStatusInv'
  BY <1>1, <1>2, <1>5, ReportOf, ReportsFact DEF DialSucceeds, Goto
<1>6. ASSUME NEW a \in Attempts, DialFails(a) PROVE EndStatusInv'
  BY <1>1, <1>2, <1>6, ReportOf, ReportsFact DEF DialFails, Goto
<1>7. ASSUME NEW a \in Attempts, OnConnectedTooLate(a) PROVE EndStatusInv'
  BY <1>1, <1>2, <1>7, ReportOf, ReportsFact DEF OnConnectedTooLate, Goto, CloseWire
<1>8. ASSUME NEW a \in Attempts, OnConnected(a) PROVE EndStatusInv'
  <2>1. /\ conn = a /\ conn' = conn /\ ~quitting
        /\ status' = [msg |-> "Connected", connected |-> TRUE]
        /\ pc' = [pc EXCEPT ![Connect(a)] = "storeSender"]
        /\ UNCHANGED <<stopped, quitting>>
    BY <1>8 DEF OnConnected, Goto
  <2>2. a # NoAttempt /\ \A r \in Reports : pc[r] \notin EndingPcs
    BY <2>1, LiveFacts
  <2>3. \A r \in Reports : pc'[r] \notin EndingPcs
    BY <1>2, <2>1, <2>2 DEF EndingPcs
  <2>4. QED
    BY <2>1, <2>2, <2>3 DEF EndingPcs
<1>9. ASSUME NEW a \in Attempts, StoreSender(a) PROVE EndStatusInv'
  BY <1>1, <1>2, <1>9, ReportOf, ReportsFact DEF StoreSender, Goto
<1>10. ASSUME NEW a \in Attempts, SendConnected(a) PROVE EndStatusInv'
  BY <1>1, <1>2, <1>10, ReportOf, ReportsFact DEF SendConnected, Goto, Unlock
<1>11. ASSUME NEW a \in Attempts, RegistrationEnds(a) PROVE EndStatusInv'
  BY <1>1, <1>2, <1>11, ReportOf, ReportsFact DEF RegistrationEnds, Goto
<1>12. ASSUME NEW a \in Attempts, RegistrationFails(a) PROVE EndStatusInv'
  BY <1>1, <1>2, <1>12, ReportOf, ReportsFact DEF RegistrationFails, Goto
<1>13. ASSUME NEW a \in Attempts, FinishSetup(a) PROVE EndStatusInv'
  BY <1>1, <1>2, <1>13, ReportOf, ReportsFact DEF FinishSetup, Goto
<1>14. ASSUME NEW a \in Attempts, OnWelcome(a) PROVE EndStatusInv'
  BY <1>1, <1>2, <1>14, ReportOf, ReportsFact DEF OnWelcome
<1>15. ASSUME NEW a \in Attempts, Stop(a) PROVE EndStatusInv'
  <2>1. conn = a /\ stopped' = TRUE /\ UNCHANGED <<conn, status, pc, quitting, out>>
    BY <1>15 DEF Stop, IsCurrent
  <2>2. a # NoAttempt /\ \A r \in Reports : pc[r] \notin EndingPcs
    BY <2>1, LiveFacts
  <2>3. QED
    BY <1>1, <2>1, <2>2 DEF EndingPcs
<1>16. ASSUME NEW a \in Attempts, GiveUp(a) PROVE EndStatusInv'
  BY <1>1, <1>2, <1>16, ReportOf, ReportsFact DEF GiveUp, CloseWire
<1>17. ASSUME NEW a \in Attempts, ServerDrops(a) PROVE EndStatusInv'
  BY <1>1, <1>2, <1>17, ReportOf, ReportsFact DEF ServerDrops
<1>18. ASSUME NEW a \in Attempts, ReaderEnds(a) PROVE EndStatusInv'
  BY <1>1, <1>2, <1>18, ReportOf, ReportsFact DEF ReaderEnds
<1>19. ASSUME NEW a \in Attempts, DisconnectCallback(a) PROVE EndStatusInv'
  BY <1>1, <1>2, <1>19, ReportOf, ReportsFact DEF DisconnectCallback, Goto
<1>20. ASSUME NEW r \in Reports, DropSender(r) PROVE EndStatusInv'
  BY <1>1, <1>2, <1>20, ReportOf, ReportsFact DEF DropSender, Goto
<1>21. ASSUME NEW r \in Reports, AlreadyEnded(r) PROVE EndStatusInv'
  BY <1>1, <1>2, <1>21, ReportOf, ReportsFact DEF AlreadyEnded, Goto
<1>22. ASSUME NEW r \in Reports, Detach(r) PROVE EndStatusInv'
  <2>1. /\ conn = r[1] /\ conn' = NoAttempt
        /\ pc' = [pc EXCEPT ![r] = "closeSocket"]
        /\ out' = [out EXCEPT ![r] = [msg |-> EndReason, connected |-> FALSE]]
        /\ UNCHANGED <<status, stopped, quitting>>
    BY <1>22 DEF Detach, DetachUnchecked, Goto
  <2>2. conn # NoAttempt /\ \A q \in Reports : pc[q] \notin EndingPcs
    BY <2>1, LiveFacts, ReportsFact
  <2>3. /\ pc'[r] = "closeSocket"
        /\ out'[r] = [msg |-> EndReason, connected |-> FALSE]
        /\ \A q \in Reports : q # r => pc'[q] \notin EndingPcs
    BY <1>2, <2>1, <2>2
  <2>4. EndReason \in EndMsgs /\ (stopped <=> EndReason = "Stopped")
    BY DEF EndReason
  <2>5. status'.msg \notin EndMsgs
    BY <1>1, <2>1, <2>2
  <2>6. QED
    BY <2>1, <2>3, <2>4, <2>5 DEF EndingPcs
<1>23. ASSUME NEW r \in Reports, CloseSocket(r) PROVE EndStatusInv'
  BY <1>1, <1>2, <1>23, ReportOf, ReportsFact DEF CloseSocket, Goto, CloseWire
<1>24. ASSUME NEW r \in Reports, SetStatus(r) PROVE EndStatusInv'
  <2>1. /\ pc[r] = "setStatus" /\ pc' = [pc EXCEPT ![r] = "sendEnded"]
        /\ status' = out[r]
        /\ UNCHANGED <<conn, stopped, quitting, out>>
    BY <1>24 DEF SetStatus, Goto
  <2>2. /\ conn = NoAttempt /\ pc'[r] = "sendEnded"
        /\ \A q \in Reports : q # r => pc'[q] \notin EndingPcs
    BY <1>2, <2>1, EndingFacts DEF EndingPcs
  <2>3. /\ status'.msg \in EndMsgs /\ status'.connected = FALSE
        /\ stopped <=> status'.msg = "Stopped"
    BY <1>1, <2>1
  <2>4. QED
    BY <1>1, <2>1, <2>2, <2>3 DEF EndingPcs
<1>25. ASSUME NEW r \in Reports, SendEnded(r) PROVE EndStatusInv'
  BY <1>1, <1>2, <1>25, ReportOf, ReportsFact DEF SendEnded, Goto, Unlock
<1>26. ASSUME NEW r \in Reports, NoRetry(r) PROVE EndStatusInv'
  BY <1>1, <1>2, <1>26, ReportOf, ReportsFact DEF NoRetry, Goto, MayRetry
<1>27. ASSUME NEW r \in Reports, Retry(r) PROVE EndStatusInv'
  <2>1. /\ pc[r] = "decideRetry" /\ pc' = [pc EXCEPT ![r] = "sendRetry"]
        /\ status' = [msg |-> "Reconnecting", connected |-> FALSE]
        /\ ~stopped /\ UNCHANGED <<conn, stopped, quitting>>
    BY <1>27 DEF Retry, Goto, MayRetry
  <2>2. /\ conn = NoAttempt /\ pc'[r] = "sendRetry"
        /\ \A q \in Reports : q # r => pc'[q] \notin EndingPcs
    BY <1>2, <2>1, EndingFacts DEF EndingPcs
  <2>3. QED
    BY <2>1, <2>2 DEF EndingPcs
<1>28. ASSUME NEW r \in Reports, SendRetry(r) PROVE EndStatusInv'
  BY <1>1, <1>2, <1>28, ReportOf, ReportsFact DEF SendRetry, Goto, Unlock
<1>29. ASSUME NEW r \in Reports, CloseDone(r) PROVE EndStatusInv'
  BY <1>1, <1>2, <1>29, ReportOf, ReportsFact DEF CloseDone, Goto
<1>30. ASSUME NEW d \in Destroyers, DecideClosing(d) PROVE EndStatusInv'
  BY <1>1, <1>2, <1>30, ReportOf, ReportsFact DEF DecideClosing, DGoto, Lock
<1>31. ASSUME NEW d \in Destroyers, SendClosing(d) PROVE EndStatusInv'
  BY <1>1, <1>2, <1>31, ReportOf, ReportsFact DEF SendClosing, DGoto, Unlock
<1>32. ASSUME NEW d \in Destroyers, DestroyTimeout(d) PROVE EndStatusInv'
  BY <1>1, <1>2, <1>32, ReportOf, ReportsFact DEF DestroyTimeout, DGoto, CloseWire
<1>33. ASSUME NEW d \in Destroyers, AttemptHasEnded(d) PROVE EndStatusInv'
  BY <1>1, <1>2, <1>33, ReportOf, ReportsFact DEF AttemptHasEnded, DGoto, HasEnded
<1>34. ASSUME NEW d \in Destroyers, SwapSender(d) PROVE EndStatusInv'
  BY <1>1, <1>2, <1>34, ReportOf, ReportsFact DEF SwapSender, DGoto
<1>35. CASE UNCHANGED vars
  BY <1>1, <1>35 DEF vars
<1>36. QED
  BY <1>3, <1>4, <1>5, <1>6, <1>7, <1>8, <1>9, <1>10, <1>11, <1>12,
      <1>13, <1>14, <1>15, <1>16, <1>17, <1>18, <1>19, <1>20, <1>21,
      <1>22, <1>23, <1>24, <1>25, <1>26, <1>27, <1>28, <1>29, <1>30,
      <1>31, <1>32, <1>33, <1>34, <1>35
  DEF Next, ConnectStep, ReaderStep, EndStep, DestroyStep

\* A new attempt begins under the status that announced it.
LEMMA NextBeginStatusInv ==
  ASSUME IInv, StatusIInv, [Next]_vars PROVE BeginStatusInv'
<1> USE DEF BeginStatusInv, Closers, PendingCallback, NoAttempt, clientVars, faultVars, retryVars, doneVars, statusVars,
    reportVars, destroyVars
<1>1. BeginStatusInv /\ EndInv /\ CallbackInv /\ DownInv
  BY DEF IInv, StatusIInv
<1>2. /\ pc \in [Reports -> Pcs] /\ attemptDone \in 0 .. MaxAttempts
      /\ status \in Status /\ timer \in 0 .. MaxAttempts
      /\ callback \in [0 .. MaxAttempts ->
                        {"none", "armed", "fired", "stopped", "spent"}]
  BY DEF IInv, TypeOK
<1>3. ASSUME NEW a \in 0 .. MaxAttempts, TimerFires(a) PROVE BeginStatusInv'
  BY <1>1, <1>2, <1>3, ReportOf, ReportsFact DEF TimerFires
<1>4. ASSUME NEW a \in 0 .. MaxAttempts, BeginAttempt(a) PROVE BeginStatusInv'
  BY <1>1, <1>2, <1>4, ReportOf, ReportsFact DEF BeginAttempt, Goto
<1>5. ASSUME NEW a \in Attempts, DialSucceeds(a) PROVE BeginStatusInv'
  BY <1>1, <1>2, <1>5, ReportOf, ReportsFact DEF DialSucceeds, Goto
<1>6. ASSUME NEW a \in Attempts, DialFails(a) PROVE BeginStatusInv'
  BY <1>1, <1>2, <1>6, ReportOf, ReportsFact DEF DialFails, Goto
<1>7. ASSUME NEW a \in Attempts, OnConnectedTooLate(a) PROVE BeginStatusInv'
  BY <1>1, <1>2, <1>7, ReportOf, ReportsFact DEF OnConnectedTooLate, Goto, CloseWire
<1>8. ASSUME NEW a \in Attempts, OnConnected(a) PROVE BeginStatusInv'
  <2>1. /\ conn = a /\ pc' = [pc EXCEPT ![Connect(a)] = "storeSender"]
        /\ UNCHANGED <<callback, quitting>>
    BY <1>8 DEF OnConnected, Goto
  <2>2. \A b \in 0 .. MaxAttempts : callback[b] \notin PendingCallback
    BY <1>1, <2>1, LiveFacts DEF CallbackInv
  <2>3. \A b \in Attempts : pc'[Connect(b)] \notin {"dialing", "onConnected"}
    BY <1>1, <1>2, <2>1, ReportOf DEF DownInv, Connect
  <2>4. QED
    BY <2>1, <2>2, <2>3
<1>9. ASSUME NEW a \in Attempts, StoreSender(a) PROVE BeginStatusInv'
  BY <1>1, <1>2, <1>9, ReportOf, ReportsFact DEF StoreSender, Goto
<1>10. ASSUME NEW a \in Attempts, SendConnected(a) PROVE BeginStatusInv'
  BY <1>1, <1>2, <1>10, ReportOf, ReportsFact DEF SendConnected, Goto, Unlock
<1>11. ASSUME NEW a \in Attempts, RegistrationEnds(a) PROVE BeginStatusInv'
  BY <1>1, <1>2, <1>11, ReportOf, ReportsFact DEF RegistrationEnds, Goto
<1>12. ASSUME NEW a \in Attempts, RegistrationFails(a) PROVE BeginStatusInv'
  BY <1>1, <1>2, <1>12, ReportOf, ReportsFact DEF RegistrationFails, Goto
<1>13. ASSUME NEW a \in Attempts, FinishSetup(a) PROVE BeginStatusInv'
  BY <1>1, <1>2, <1>13, ReportOf, ReportsFact DEF FinishSetup, Goto
<1>14. ASSUME NEW a \in Attempts, OnWelcome(a) PROVE BeginStatusInv'
  BY <1>1, <1>2, <1>14, ReportOf, ReportsFact DEF OnWelcome
<1>15. ASSUME NEW a \in Attempts, Stop(a) PROVE BeginStatusInv'
  BY <1>1, <1>2, <1>15, ReportOf, ReportsFact DEF Stop, CloseWire
<1>16. ASSUME NEW a \in Attempts, GiveUp(a) PROVE BeginStatusInv'
  BY <1>1, <1>2, <1>16, ReportOf, ReportsFact DEF GiveUp, CloseWire
<1>17. ASSUME NEW a \in Attempts, ServerDrops(a) PROVE BeginStatusInv'
  BY <1>1, <1>2, <1>17, ReportOf, ReportsFact DEF ServerDrops
<1>18. ASSUME NEW a \in Attempts, ReaderEnds(a) PROVE BeginStatusInv'
  BY <1>1, <1>2, <1>18, ReportOf, ReportsFact DEF ReaderEnds
<1>19. ASSUME NEW a \in Attempts, DisconnectCallback(a) PROVE BeginStatusInv'
  BY <1>1, <1>2, <1>19, ReportOf, ReportsFact DEF DisconnectCallback, Goto
<1>20. ASSUME NEW r \in Reports, DropSender(r) PROVE BeginStatusInv'
  BY <1>1, <1>2, <1>20, ReportOf, ReportsFact DEF DropSender, Goto
<1>21. ASSUME NEW r \in Reports, AlreadyEnded(r) PROVE BeginStatusInv'
  BY <1>1, <1>2, <1>21, ReportOf, ReportsFact DEF AlreadyEnded, Goto
<1>22. ASSUME NEW r \in Reports, Detach(r) PROVE BeginStatusInv'
  <2>1. /\ conn = r[1] /\ pc' = [pc EXCEPT ![r] = "closeSocket"]
        /\ UNCHANGED <<callback, quitting, status>>
    BY <1>22 DEF Detach, DetachUnchecked, Goto
  <2>2. \A b \in 0 .. MaxAttempts : callback[b] \notin PendingCallback
    BY <1>1, <2>1, LiveFacts, ReportsFact DEF CallbackInv
  <2>3. QED
    BY <1>1, <1>2, <2>1, <2>2
<1>23. ASSUME NEW r \in Reports, CloseSocket(r) PROVE BeginStatusInv'
  BY <1>1, <1>2, <1>23, ReportOf, ReportsFact DEF CloseSocket, Goto, CloseWire
<1>24. ASSUME NEW r \in Reports, SetStatus(r) PROVE BeginStatusInv'
  <2>1. /\ pc[r] = "setStatus" /\ pc' = [pc EXCEPT ![r] = "sendEnded"]
        /\ UNCHANGED <<callback, quitting, conn>>
    BY <1>24 DEF SetStatus, Goto
  <2>2. \A b \in 0 .. MaxAttempts : callback[b] \notin PendingCallback
    BY <1>1, <2>1
  <2>3. conn = NoAttempt
    BY <2>1, EndingFacts DEF EndingPcs
  <2>4. \A b \in Attempts : pc[Connect(b)] \notin {"dialing", "onConnected"}
    BY <1>1, <2>3 DEF DownInv, Attempts
  <2>5. \A b \in Attempts : pc'[Connect(b)] \notin {"dialing", "onConnected"}
    BY <1>2, <2>1, <2>4, ReportOf
  <2>6. QED
    BY <2>1, <2>2, <2>5
<1>25. ASSUME NEW r \in Reports, SendEnded(r) PROVE BeginStatusInv'
  BY <1>1, <1>2, <1>25, ReportOf, ReportsFact DEF SendEnded, Goto, Unlock
<1>26. ASSUME NEW r \in Reports, NoRetry(r) PROVE BeginStatusInv'
  BY <1>1, <1>2, <1>26, ReportOf, ReportsFact DEF NoRetry, Goto, MayRetry
<1>27. ASSUME NEW r \in Reports, Retry(r) PROVE BeginStatusInv'
  <2>1. /\ pc[r] = "decideRetry" /\ pc' = [pc EXCEPT ![r] = "sendRetry"]
        /\ status' = [msg |-> "Reconnecting", connected |-> FALSE]
    BY <1>27 DEF Retry, Goto
  <2>2. \A q \in Reports : pc'[q] \notin Closers \cup {"sendEnded", "decideRetry"}
    BY <1>2, <2>1, EndingFacts DEF EndingPcs
  <2>3. QED
    BY <2>1, <2>2
<1>28. ASSUME NEW r \in Reports, SendRetry(r) PROVE BeginStatusInv'
  BY <1>1, <1>2, <1>28, ReportOf, ReportsFact DEF SendRetry, Goto, Unlock
<1>29. ASSUME NEW r \in Reports, CloseDone(r) PROVE BeginStatusInv'
  BY <1>1, <1>2, <1>29, ReportOf, ReportsFact DEF CloseDone, Goto
<1>30. ASSUME NEW d \in Destroyers, DecideClosing(d) PROVE BeginStatusInv'
  BY <1>1, <1>2, <1>30, ReportOf, ReportsFact DEF DecideClosing, DGoto, Lock
<1>31. ASSUME NEW d \in Destroyers, SendClosing(d) PROVE BeginStatusInv'
  BY <1>1, <1>2, <1>31, ReportOf, ReportsFact DEF SendClosing, DGoto, Unlock
<1>32. ASSUME NEW d \in Destroyers, DestroyTimeout(d) PROVE BeginStatusInv'
  BY <1>1, <1>2, <1>32, ReportOf, ReportsFact DEF DestroyTimeout, DGoto, CloseWire
<1>33. ASSUME NEW d \in Destroyers, AttemptHasEnded(d) PROVE BeginStatusInv'
  BY <1>1, <1>2, <1>33, ReportOf, ReportsFact DEF AttemptHasEnded, DGoto, HasEnded
<1>34. ASSUME NEW d \in Destroyers, SwapSender(d) PROVE BeginStatusInv'
  BY <1>1, <1>2, <1>34, ReportOf, ReportsFact DEF SwapSender, DGoto
<1>35. CASE UNCHANGED vars
  BY <1>1, <1>35 DEF vars
<1>36. QED
  BY <1>3, <1>4, <1>5, <1>6, <1>7, <1>8, <1>9, <1>10, <1>11, <1>12,
      <1>13, <1>14, <1>15, <1>16, <1>17, <1>18, <1>19, <1>20, <1>21,
      <1>22, <1>23, <1>24, <1>25, <1>26, <1>27, <1>28, <1>29, <1>30,
      <1>31, <1>32, <1>33, <1>34, <1>35
  DEF Next, ConnectStep, ReaderStep, EndStep, DestroyStep

\* No step comes between a status and what it may follow.
LEMMA NextSendInv ==
  ASSUME IInv, StatusIInv, [Next]_vars PROVE SendInv'
<1> USE DEF SendInv, Closers, EndMsgs, SendingPcs, NoAttempt, clientVars, faultVars, retryVars, doneVars, statusVars,
    reportVars, destroyVars
<1>1. SendInv /\ EndStatusInv /\ BeginStatusInv /\ MutexInv
  BY DEF IInv, StatusIInv
<1>2. /\ pc \in [Reports -> Pcs] /\ dpc \in [Destroyers -> DestroyPcs]
      /\ status \in Status /\ published \in Status
  BY DEF IInv, TypeOK
<1>3. ASSUME NEW a \in 0 .. MaxAttempts, TimerFires(a) PROVE SendInv'
  BY <1>1, <1>2, <1>3, ReportOf, ReportsFact DEF TimerFires
<1>4. ASSUME NEW a \in 0 .. MaxAttempts, BeginAttempt(a) PROVE SendInv'
  BY <1>1, <1>2, <1>4, ReportOf, ReportsFact DEF BeginAttempt, Goto
<1>5. ASSUME NEW a \in Attempts, DialSucceeds(a) PROVE SendInv'
  BY <1>1, <1>2, <1>5, ReportOf, ReportsFact DEF DialSucceeds, Goto
<1>6. ASSUME NEW a \in Attempts, DialFails(a) PROVE SendInv'
  BY <1>1, <1>2, <1>6, ReportOf, ReportsFact DEF DialFails, Goto
<1>7. ASSUME NEW a \in Attempts, OnConnectedTooLate(a) PROVE SendInv'
  BY <1>1, <1>2, <1>7, ReportOf, ReportsFact DEF OnConnectedTooLate, Goto, CloseWire
<1>8. ASSUME NEW a \in Attempts, OnConnected(a) PROVE SendInv'
  <2>1. /\ pc[Connect(a)] = "onConnected" /\ ~statusMu /\ ~quitting /\ conn = a
        /\ pc' = [pc EXCEPT ![Connect(a)] = "storeSender"]
        /\ status' = [msg |-> "Connected", connected |-> TRUE]
        /\ UNCHANGED <<published, quitting, dpc>>
    BY <1>8 DEF OnConnected, Goto, Lock
  <2>2. /\ \A r \in Reports : pc[r] \notin SendingPcs
        /\ \A d \in Destroyers : dpc[d] # "sendClosing"
        /\ published = status
    BY <1>1, <2>1 DEF MutexInv
  <2>3. published.msg \in {"Connecting", "Reconnecting"}
    BY <1>1, <2>1, <2>2 DEF BeginStatusInv
  <2>4. \A r \in Reports : pc'[r] \in SendingPcs => pc'[r] = "storeSender"
    BY <1>2, <2>1, <2>2
  <2>5. QED
    BY <2>1, <2>2, <2>3, <2>4
<1>9. ASSUME NEW a \in Attempts, StoreSender(a) PROVE SendInv'
  BY <1>1, <1>2, <1>9, ReportOf, ReportsFact DEF StoreSender, Goto
<1>10. ASSUME NEW a \in Attempts, SendConnected(a) PROVE SendInv'
  <2> DEFINE r == Connect(a)
  <2>0. r \in Reports
    BY ReportOf
  <2> HIDE DEF r
  <2>1. pc[r] = "sendConnected" /\ pc' = [pc EXCEPT ![r] = "registering"] /\ UNCHANGED dpc
    BY <1>10 DEF r, SendConnected, Goto
  <2>2. /\ \A q \in Reports : q # r => pc[q] \notin SendingPcs
        /\ \A d \in Destroyers : dpc[d] # "sendClosing"
    BY <1>1, <2>0, <2>1 DEF MutexInv
  <2>3. \A q \in Reports : pc'[q] \notin SendingPcs
    BY <1>2, <2>0, <2>1, <2>2
  <2>4. QED
    BY <2>1, <2>2, <2>3
<1>11. ASSUME NEW a \in Attempts, RegistrationEnds(a) PROVE SendInv'
  BY <1>1, <1>2, <1>11, ReportOf, ReportsFact DEF RegistrationEnds, Goto
<1>12. ASSUME NEW a \in Attempts, RegistrationFails(a) PROVE SendInv'
  BY <1>1, <1>2, <1>12, ReportOf, ReportsFact DEF RegistrationFails, Goto
<1>13. ASSUME NEW a \in Attempts, FinishSetup(a) PROVE SendInv'
  BY <1>1, <1>2, <1>13, ReportOf, ReportsFact DEF FinishSetup, Goto
<1>14. ASSUME NEW a \in Attempts, OnWelcome(a) PROVE SendInv'
  BY <1>1, <1>2, <1>14, ReportOf, ReportsFact DEF OnWelcome
<1>15. ASSUME NEW a \in Attempts, Stop(a) PROVE SendInv'
  BY <1>1, <1>2, <1>15, ReportOf, ReportsFact DEF Stop, CloseWire
<1>16. ASSUME NEW a \in Attempts, GiveUp(a) PROVE SendInv'
  BY <1>1, <1>2, <1>16, ReportOf, ReportsFact DEF GiveUp, CloseWire
<1>17. ASSUME NEW a \in Attempts, ServerDrops(a) PROVE SendInv'
  BY <1>1, <1>2, <1>17, ReportOf, ReportsFact DEF ServerDrops
<1>18. ASSUME NEW a \in Attempts, ReaderEnds(a) PROVE SendInv'
  BY <1>1, <1>2, <1>18, ReportOf, ReportsFact DEF ReaderEnds
<1>19. ASSUME NEW a \in Attempts, DisconnectCallback(a) PROVE SendInv'
  BY <1>1, <1>2, <1>19, ReportOf, ReportsFact DEF DisconnectCallback, Goto
<1>20. ASSUME NEW r \in Reports, DropSender(r) PROVE SendInv'
  BY <1>1, <1>2, <1>20, ReportOf, ReportsFact DEF DropSender, Goto
<1>21. ASSUME NEW r \in Reports, AlreadyEnded(r) PROVE SendInv'
  BY <1>1, <1>2, <1>21, ReportOf, ReportsFact DEF AlreadyEnded, Goto
<1>22. ASSUME NEW r \in Reports, Detach(r) PROVE SendInv'
  BY <1>1, <1>2, <1>22, ReportOf, ReportsFact DEF Detach, DetachUnchecked, Goto, EndReason
<1>23. ASSUME NEW r \in Reports, CloseSocket(r) PROVE SendInv'
  BY <1>1, <1>2, <1>23, ReportOf, ReportsFact DEF CloseSocket, Goto, CloseWire
<1>24. ASSUME NEW r \in Reports, SetStatus(r) PROVE SendInv'
  <2>1. /\ pc[r] = "setStatus" /\ ~statusMu
        /\ pc' = [pc EXCEPT ![r] = "sendEnded"]
        /\ UNCHANGED <<published, dpc>>
    BY <1>24 DEF SetStatus, Goto, Lock
  <2>2. /\ \A q \in Reports : pc[q] \notin SendingPcs
        /\ \A d \in Destroyers : dpc[d] # "sendClosing"
        /\ published = status
    BY <1>1, <2>1 DEF MutexInv
  <2>3. published.msg \notin EndMsgs
    BY <1>1, <2>1, <2>2 DEF EndStatusInv
  <2>4. \A q \in Reports : pc'[q] \in SendingPcs => pc'[q] = "sendEnded"
    BY <1>2, <2>1, <2>2
  <2>5. QED
    BY <2>1, <2>2, <2>3, <2>4
<1>25. ASSUME NEW r \in Reports, SendEnded(r) PROVE SendInv'
  <2>1. pc[r] = "sendEnded" /\ pc' = [pc EXCEPT ![r] = "decideRetry"] /\ UNCHANGED dpc
    BY <1>25 DEF SendEnded, Goto
  <2>2. /\ \A q \in Reports : q # r => pc[q] \notin SendingPcs
        /\ \A d \in Destroyers : dpc[d] # "sendClosing"
    BY <1>1, <2>1 DEF MutexInv
  <2>3. \A q \in Reports : pc'[q] \notin SendingPcs
    BY <1>2, <2>1, <2>2
  <2>4. QED
    BY <2>1, <2>2, <2>3
<1>26. ASSUME NEW r \in Reports, NoRetry(r) PROVE SendInv'
  BY <1>1, <1>2, <1>26, ReportOf, ReportsFact DEF NoRetry, Goto, MayRetry
<1>27. ASSUME NEW r \in Reports, Retry(r) PROVE SendInv'
  <2>1. /\ pc[r] = "decideRetry" /\ ~statusMu /\ ~quitting /\ ~stopped
        /\ pc' = [pc EXCEPT ![r] = "sendRetry"]
        /\ status' = [msg |-> "Reconnecting", connected |-> FALSE]
        /\ UNCHANGED <<published, quitting, dpc>>
    BY <1>27 DEF Retry, Goto, Lock, MayRetry
  <2>2. /\ \A q \in Reports : pc[q] \notin SendingPcs
        /\ \A d \in Destroyers : dpc[d] # "sendClosing"
        /\ published = status
    BY <1>1, <2>1 DEF MutexInv
  <2>3. published.msg \in EndMsgs \ {"Stopped"}
    BY <1>1, <2>1, <2>2 DEF EndStatusInv
  <2>4. \A q \in Reports : pc'[q] \in SendingPcs => pc'[q] = "sendRetry"
    BY <1>2, <2>1, <2>2
  <2>5. QED
    BY <2>1, <2>2, <2>3, <2>4
<1>28. ASSUME NEW r \in Reports, SendRetry(r) PROVE SendInv'
  <2>1. pc[r] = "sendRetry" /\ pc' = [pc EXCEPT ![r] = "closeDone"] /\ UNCHANGED dpc
    BY <1>28 DEF SendRetry, Goto
  <2>2. /\ \A q \in Reports : q # r => pc[q] \notin SendingPcs
        /\ \A d \in Destroyers : dpc[d] # "sendClosing"
    BY <1>1, <2>1 DEF MutexInv
  <2>3. \A q \in Reports : pc'[q] \notin SendingPcs
    BY <1>2, <2>1, <2>2
  <2>4. QED
    BY <2>1, <2>2, <2>3
<1>29. ASSUME NEW r \in Reports, CloseDone(r) PROVE SendInv'
  BY <1>1, <1>2, <1>29, ReportOf, ReportsFact DEF CloseDone, Goto
<1>30. ASSUME NEW d \in Destroyers, DecideClosing(d) PROVE SendInv'
  <2>1. /\ ~statusMu /\ status' = [status EXCEPT !.msg = "Closing"]
        /\ UNCHANGED <<published, pc>>
    BY <1>30 DEF DecideClosing, Lock
  <2>2. (\A r \in Reports : pc[r] \notin SendingPcs) /\ published = status
    BY <1>1, <2>1 DEF MutexInv
  <2>3. QED
    BY <2>1, <2>2
<1>31. ASSUME NEW d \in Destroyers, SendClosing(d) PROVE SendInv'
  <2>1. /\ dpc[d] = "sendClosing" /\ dpc' = [dpc EXCEPT ![d] = "wait"]
        /\ UNCHANGED pc
    BY <1>31 DEF SendClosing, DGoto
  <2>2. /\ \A r \in Reports : pc[r] \notin SendingPcs
        /\ \A e \in Destroyers : e # d => dpc[e] # "sendClosing"
    BY <1>1, <2>1 DEF MutexInv
  <2>3. \A e \in Destroyers : dpc'[e] # "sendClosing"
    BY <1>2, <2>1, <2>2
  <2>4. QED
    BY <2>1, <2>2, <2>3
<1>32. ASSUME NEW d \in Destroyers, DestroyTimeout(d) PROVE SendInv'
  BY <1>1, <1>2, <1>32, ReportOf, ReportsFact DEF DestroyTimeout, DGoto, CloseWire
<1>33. ASSUME NEW d \in Destroyers, AttemptHasEnded(d) PROVE SendInv'
  BY <1>1, <1>2, <1>33, ReportOf, ReportsFact DEF AttemptHasEnded, DGoto, HasEnded
<1>34. ASSUME NEW d \in Destroyers, SwapSender(d) PROVE SendInv'
  BY <1>1, <1>2, <1>34, ReportOf, ReportsFact DEF SwapSender, DGoto
<1>35. CASE UNCHANGED vars
  BY <1>1, <1>35 DEF vars
<1>36. QED
  BY <1>3, <1>4, <1>5, <1>6, <1>7, <1>8, <1>9, <1>10, <1>11, <1>12,
      <1>13, <1>14, <1>15, <1>16, <1>17, <1>18, <1>19, <1>20, <1>21,
      <1>22, <1>23, <1>24, <1>25, <1>26, <1>27, <1>28, <1>29, <1>30,
      <1>31, <1>32, <1>33, <1>34, <1>35
  DEF Next, ConnectStep, ReaderStep, EndStep, DestroyStep

\* The status part of the invariant holds when the client is made.
LEMMA InitStatusIInv == Init => StatusIInv
<1> SUFFICES ASSUME Init PROVE StatusIInv
  OBVIOUS
<1> USE DEF Closers, EndMsgs
<1>1. /\ \A r \in Reports : pc[r] = "idle"
      /\ \A d \in Destroyers : dpc[d] = "idle"
      /\ conn = NoAttempt /\ socket = NoAttempt /\ registered = FALSE
      /\ \A a \in Attempts : wire[a] = "none"
      /\ status = [msg |-> "Connecting", connected |-> FALSE]
      /\ stopped = FALSE
  BY DEF Init
<1>2. DownInv
  BY <1>1, ReportOf DEF DownInv
<1>3. EndStatusInv
  BY <1>1 DEF EndStatusInv
<1>4. BeginStatusInv
  BY <1>1, ReportOf DEF BeginStatusInv
<1>5. SendInv
  BY <1>1 DEF SendInv
<1>6. QED
  BY <1>2, <1>3, <1>4, <1>5 DEF StatusIInv

\* Both invariants hold throughout, for any number of attempts and any set of
\* Destroys.
THEOREM StatusInvariance == Spec => [](IInv /\ StatusIInv)
<1>1. Init => StatusIInv
  BY InitStatusIInv
<1>2. IInv /\ StatusIInv /\ [Next]_vars => StatusIInv'
  BY NextDownInv, NextEndStatusInv, NextBeginStatusInv, NextSendInv
  DEF StatusIInv
<1>3. QED
  BY <1>1, <1>2, Invariance, PTL DEF Spec

-----------------------------------------------------------------------------
\* When a Destroy has returned, nothing of any attempt is left.
THEOREM DestroyedIsDownHolds == Spec => []DestroyedIsDown
<1>1. IInv /\ StatusIInv => DestroyedIsDown
  <2> SUFFICES ASSUME IInv, StatusIInv, NEW d \in Destroyers, dpc[d] = "returned"
               PROVE  /\ conn = NoAttempt /\ socket = NoAttempt /\ sender = NoAttempt
                      /\ ~registered /\ ~status.connected
                      /\ \A a \in Attempts : wire[a] # "open"
    BY DEF DestroyedIsDown
  <2>1. attemptDone \in closed
    BY DEF StatusIInv, DownInv
  <2>2. conn = NoAttempt
    BY <2>1 DEF IInv, AttemptInv, NoAttempt
  <2>3. \A r \in Reports : pc[r] \notin EndingPcs
    BY <2>1 DEF IInv, EndInv
  <2>4. status.connected \in BOOLEAN /\ registered \in BOOLEAN
    BY DEF IInv, TypeOK, Status
  <2>5. sender = NoAttempt /\ socket = NoAttempt /\ ~registered
    BY <2>2, <2>4 DEF IInv, SenderInv, StatusIInv, DownInv
  <2>6. ~status.connected
    BY <2>2, <2>3, <2>4 DEF StatusIInv, EndStatusInv, Closers, EndingPcs
  <2>7. \A a \in Attempts : wire[a] # "open"
    BY <2>2, <2>3 DEF StatusIInv, DownInv, EndingPcs, NoAttempt, Attempts
  <2>8. QED
    BY <2>2, <2>5, <2>6, <2>7
<1>2. QED
  BY <1>1, StatusInvariance, PTL

\* A client that stopped says so for good, whatever its last attempt was told.
THEOREM StopReasonShownHolds == Spec => []StopReasonShown
<1>1. IInv /\ StatusIInv => StopReasonShown
  <2> SUFFICES ASSUME IInv, StatusIInv, stopped, attemptDone \in closed
               PROVE  status.msg \in {"Stopped", "Closing"}
    BY DEF StopReasonShown
  <2>1. conn = NoAttempt
    BY DEF IInv, AttemptInv, NoAttempt
  <2>2. \A r \in Reports : pc[r] \notin EndingPcs
    BY DEF IInv, EndInv
  <2>3. QED
    BY <2>1, <2>2 DEF StatusIInv, EndStatusInv, Closers, EndingPcs
<1>2. QED
  BY <1>1, StatusInvariance, PTL

-----------------------------------------------------------------------------
\* The feed does not change when neither the last status published nor the
\* Destroys that have published theirs do.
LEMMA Silent ==
  ASSUME UNCHANGED published, Closing' = Closing
  PROVE  UNCHANGED Feed!vars
BY DEF Feed!vars

\* Every step of the client is a step of the feed, or none.
LEMMA FeedStep ==
  ASSUME IInv, StatusIInv, [Next]_vars
  PROVE  [Feed!Next]_(Feed!vars)
<1> USE DEF clientVars, faultVars, retryVars, doneVars, statusVars, reportVars,
    destroyVars
<1>1. /\ MutexInv /\ SendInv /\ EndStatusInv /\ DownInv
      /\ pc \in [Reports -> Pcs] /\ dpc \in [Destroyers -> DestroyPcs]
      /\ out \in [Reports -> Status] /\ dout \in [Destroyers -> Status]
  BY DEF IInv, StatusIInv, TypeOK
<1>2. ~quitting => ~Closing
  BY <1>1 DEF DownInv, Closing
<1>3. ASSUME UNCHANGED <<published, dpc>> PROVE UNCHANGED Feed!vars
  BY <1>3, Silent DEF Closing
<1>4. ASSUME NEW a \in 0 .. MaxAttempts, TimerFires(a) \/ BeginAttempt(a)
      PROVE  UNCHANGED <<published, dpc>>
  BY <1>4 DEF TimerFires, BeginAttempt
<1>5. ASSUME NEW a \in Attempts, ConnectStep(a), ~SendConnected(a)
      PROVE  UNCHANGED <<published, dpc>>
  BY <1>5 DEF ConnectStep, DialSucceeds, DialFails, OnConnectedTooLate,
     OnConnected, StoreSender, RegistrationEnds, RegistrationFails, FinishSetup
<1>6. ASSUME NEW a \in Attempts, ReaderStep(a)
      PROVE  UNCHANGED <<published, dpc>>
  BY <1>6 DEF ReaderStep, OnWelcome, Stop, GiveUp, ServerDrops, ReaderEnds,
     DisconnectCallback
<1>7. ASSUME NEW r \in Reports, EndStep(r), ~SendEnded(r), ~SendRetry(r)
      PROVE  UNCHANGED <<published, dpc>>
  BY <1>7 DEF EndStep, DropSender, AlreadyEnded, Detach, DetachUnchecked,
     CloseSocket, SetStatus, NoRetry, Retry, CloseDone
<1>8. ASSUME NEW d \in Destroyers, DestroyStep(d), ~SendClosing(d)
      PROVE  UNCHANGED Feed!vars
  <2>1. UNCHANGED published
    BY <1>8 DEF DestroyStep, DecideClosing, DestroyTimeout, AttemptHasEnded,
       SwapSender
  <2>2. \/ dpc[d] = "idle" /\ dpc' = [dpc EXCEPT ![d] = "sendClosing"]
        \/ /\ dpc[d] \in {"wait", "waitOn", "swapSender"}
           /\ \E to \in {"waitOn", "swapSender", "returned"} :
                dpc' = [dpc EXCEPT ![d] = to]
    BY <1>8 DEF DestroyStep, DecideClosing, DestroyTimeout, AttemptHasEnded,
       SwapSender, DGoto
  <2>3. Closing' = Closing
    BY <1>1, <2>2 DEF Closing, DestroyPcs
  <2>4. QED
    BY <2>1, <2>3, Silent
<1>9. ASSUME NEW a \in Attempts, SendConnected(a) PROVE Feed!Connected
  <2>1. /\ pc[Connect(a)] = "sendConnected"
        /\ published' = out[Connect(a)] /\ UNCHANGED dpc
    BY <1>9 DEF SendConnected, Goto
  <2>2. /\ published' = [msg |-> "Connected", connected |-> TRUE]
        /\ published.msg \in {"Connecting", "Reconnecting"} /\ ~quitting
    BY <1>1, <2>1, ReportOf DEF SendInv, MutexInv, SendingPcs
  <2>3. ~Closing /\ UNCHANGED Closing
    BY <1>2, <2>1, <2>2 DEF Closing
  <2>4. QED
    BY <2>2, <2>3 DEF Feed!Connected
<1>10. ASSUME NEW r \in Reports, SendEnded(r) PROVE Feed!Ended
  <2>1. pc[r] = "sendEnded" /\ published' = out[r] /\ UNCHANGED dpc
    BY <1>10 DEF SendEnded, Goto
  <2>2. /\ out[r].msg \in EndMsgs /\ out[r].connected = FALSE
        /\ published.msg \notin EndMsgs
    BY <1>1, <2>1 DEF SendInv, EndStatusInv
  <2>3. out[r] = [msg |-> out[r].msg, connected |-> FALSE]
    BY <1>1, <2>2 DEF Status
  <2>4. UNCHANGED Closing
    BY <2>1 DEF Closing
  <2>5. QED
    BY <2>1, <2>2, <2>3, <2>4 DEF Feed!Ended, Feed!Ends, Feed!Down, EndMsgs
<1>11. ASSUME NEW r \in Reports, SendRetry(r) PROVE Feed!Reconnecting
  <2>1. pc[r] = "sendRetry" /\ published' = out[r] /\ UNCHANGED dpc
    BY <1>11 DEF SendRetry, Goto
  <2>2. /\ published' = [msg |-> "Reconnecting", connected |-> FALSE]
        /\ published.msg \in EndMsgs \ {"Stopped"} /\ ~quitting
    BY <1>1, <2>1 DEF SendInv, MutexInv, SendingPcs
  <2>3. ~Closing /\ UNCHANGED Closing
    BY <1>2, <2>1, <2>2 DEF Closing
  <2>4. QED
    BY <2>2, <2>3 DEF Feed!Reconnecting, Feed!Ends, Feed!Down, EndMsgs
<1>12. ASSUME NEW d \in Destroyers, SendClosing(d) PROVE Feed!Closing
  <2>1. /\ dpc[d] = "sendClosing" /\ dpc' = [dpc EXCEPT ![d] = "wait"]
        /\ published' = dout[d]
    BY <1>12 DEF SendClosing, DGoto
  <2>2. published' = [published EXCEPT !.msg = "Closing"]
    BY <1>1, <2>1 DEF SendInv, MutexInv
  <2>3. Closing'
    BY <1>1, <2>1 DEF Closing, DestroyPcs
  <2>4. QED
    BY <2>2, <2>3 DEF Feed!Closing
<1>13. ASSUME UNCHANGED vars PROVE UNCHANGED <<published, dpc>>
  BY <1>13 DEF vars
<1>14. QED
  BY <1>3, <1>4, <1>5, <1>6, <1>7, <1>8, <1>9, <1>10, <1>11, <1>12, <1>13
  DEF Next, Feed!Next

\* The client implements the feed: what its subscribers see, whoever publishes
\* it, is a legal sequence of statuses.
THEOREM FeedRefinement == Spec => ImplementsFeed
<1>1. Init => Feed!Init
  BY DEF Init, Feed!Init, Feed!Down, Closing
<1>2. IInv /\ StatusIInv /\ [Next]_vars => [Feed!Next]_(Feed!vars)
  BY FeedStep
<1>3. QED
  BY <1>1, <1>2, StatusInvariance, PTL DEF Spec, ImplementsFeed, Feed!Spec

-----------------------------------------------------------------------------
(* The phases of a client's life                                           *)

\* What onConnected finds, if the attempt is still the client's.
LifeInv ==
  \A a \in Attempts :
    /\ pc[Connect(a)] \in {"dialing", "onConnected"} => socket = NoAttempt /\ ~stopped
    /\ pc[Connect(a)] = "onConnected" => wire[a] # "none"

\* The phase is that of the live attempt, or of the last one's end.
LEMMA PhaseFacts ==
  ASSUME IInv
  PROVE  /\ conn # NoAttempt =>
              /\ conn \in Attempts /\ attemptDone = conn /\ conn \notin closed
              /\ Phase = IF socket = conn THEN "open"
                         ELSE IF wire[conn] = "none" THEN "dialing" ELSE "accepted"
         /\ conn = NoAttempt =>
              Phase = IF attemptDone \in closed THEN "waiting" ELSE "closing"
<1>1. conn \in 0 .. MaxAttempts
  BY DEF IInv, TypeOK
<1>2. conn # NoAttempt => conn \in Attempts
  BY <1>1, MaxAttemptsAssumption DEF NoAttempt, Attempts
<1>3. conn # NoAttempt => attemptDone = conn /\ conn \notin closed
  BY DEF IInv, AttemptInv
<1>4. QED
  BY <1>2, <1>3 DEF Phase

\* A step that makes no socket and takes no attempt's place leaves the phase.
LEMMA SamePhase ==
  ASSUME IInv, UNCHANGED <<conn, socket, doneVars>>,
         \A a \in Attempts : wire'[a] = "none" <=> wire[a] = "none"
  PROVE  Phase' = Phase
<1>1. conn # NoAttempt => (wire'[conn] = "none" <=> wire[conn] = "none")
  BY PhaseFacts
<1>2. QED
  BY <1>1 DEF Phase, doneVars

\* Closing a socket makes none.
LEMMA CloseWireMakesNone ==
  ASSUME NEW a, CloseWire(a), NEW b \in Attempts
  PROVE  wire'[b] = "none" <=> wire[b] = "none"
BY DEF CloseWire

\* The client's phases follow each other as in ClientLife.
LEMMA NextLifeInv ==
  ASSUME IInv, StatusIInv, LifeInv, [Next]_vars PROVE LifeInv'
<1> USE DEF LifeInv, clientVars, faultVars, retryVars, doneVars, statusVars, reportVars,
    destroyVars
<1>1. /\ pc \in [Reports -> Pcs]
      /\ wire \in [Attempts -> {"none", "open", "closed", "ended"}]
      /\ \A a \in Attempts : pc[Connect(a)] \in {"dialing", "onConnected"} => conn = a
  BY DEF IInv, TypeOK, StatusIInv, DownInv
<1>2. ASSUME NEW a \in 0 .. MaxAttempts, TimerFires(a) PROVE LifeInv'
  BY <1>2 DEF TimerFires
<1>3. ASSUME NEW a \in 0 .. MaxAttempts, BeginAttempt(a) PROVE LifeInv'
  <2>1. conn = NoAttempt /\ ~stopped
    BY <1>3, BeginFacts
  <2>2. \A b \in Attempts : pc[Connect(b)] \notin {"dialing", "onConnected"}
    BY <1>1, <2>1 DEF NoAttempt, Attempts
  <2>3. CASE quitting
    BY <1>3, <2>3 DEF BeginAttempt
  <2>4. CASE ~quitting
    <3> DEFINE b == attemptDone + 1
    <3>1. /\ b \in Attempts /\ socket' = NoAttempt /\ stopped' = stopped
          /\ pc' = [pc EXCEPT ![Connect(b)] = "dialing"] /\ UNCHANGED wire
      BY <1>3, <2>4 DEF BeginAttempt, Goto
    <3>2. QED
      BY <1>1, <2>1, <2>2, <3>1, ReportOf DEF Connect
  <2>5. QED
    BY <2>3, <2>4
<1>4. ASSUME NEW a \in Attempts, DialSucceeds(a) PROVE LifeInv'
  <2>1. /\ pc[Connect(a)] = "dialing" /\ pc' = [pc EXCEPT ![Connect(a)] = "onConnected"]
        /\ wire' = [wire EXCEPT ![a] = "open"] /\ UNCHANGED <<socket, stopped>>
    BY <1>4 DEF DialSucceeds, Goto
  <2>2. QED
    BY <1>1, <2>1, ReportOf DEF Connect
<1>5. ASSUME NEW a \in Attempts, OnConnected(a) PROVE LifeInv'
  <2>1. /\ conn = a /\ pc' = [pc EXCEPT ![Connect(a)] = "storeSender"]
        /\ UNCHANGED <<wire, stopped>>
    BY <1>5 DEF OnConnected, Goto
  <2>2. \A b \in Attempts : pc'[Connect(b)] \notin {"dialing", "onConnected"}
    BY <1>1, <2>1, ReportOf DEF Connect
  <2>3. QED
    BY <2>2
<1>6. ASSUME NEW a \in Attempts, OnConnectedTooLate(a) PROVE LifeInv'
  <2>1. /\ pc' = [pc EXCEPT ![Connect(a)] = "registering"]
        /\ UNCHANGED <<socket, stopped>>
    BY <1>6 DEF OnConnectedTooLate, Goto
  <2>2. \A b \in Attempts : wire'[b] = "none" <=> wire[b] = "none"
    BY <1>6, CloseWireMakesNone DEF OnConnectedTooLate
  <2>3. QED
    BY <1>1, <2>1, <2>2, ReportOf DEF Connect
<1>7. ASSUME NEW a \in Attempts,
             \/ DialFails(a) \/ StoreSender(a) \/ SendConnected(a)
             \/ RegistrationEnds(a) \/ RegistrationFails(a) \/ FinishSetup(a)
      PROVE  LifeInv'
  <2>1. PICK to \in Pcs \ {"dialing", "onConnected"} :
          pc' = [pc EXCEPT ![Connect(a)] = to]
    BY <1>7, Labels DEF DialFails, StoreSender, SendConnected, RegistrationEnds,
       RegistrationFails, FinishSetup, Goto, ConnectPcs
  <2>2. UNCHANGED <<socket, stopped, wire>>
    BY <1>7 DEF DialFails, StoreSender, SendConnected, RegistrationEnds,
       RegistrationFails, FinishSetup
  <2>3. QED
    BY <1>1, <2>1, <2>2, ReportOf DEF Connect
<1>8. ASSUME NEW a \in Attempts, OnWelcome(a) PROVE LifeInv'
  BY <1>8 DEF OnWelcome
<1>9. ASSUME NEW a \in Attempts, Stop(a) PROVE LifeInv'
  <2>1. conn = a /\ wire[a] # "none" /\ pc[Connect(a)] # "onConnected"
    BY <1>9 DEF Stop, IsCurrent, Reading
  <2>2. pc[Connect(a)] # "dialing"
    BY <2>1 DEF IInv, ConnectingInv
  <2>3. \A b \in Attempts : pc[Connect(b)] \notin {"dialing", "onConnected"}
    BY <1>1, <2>1, <2>2
  <2>4. QED
    BY <1>9, <2>3 DEF Stop
<1>10. ASSUME NEW a \in Attempts, GiveUp(a) PROVE LifeInv'
  <2>1. \A b \in Attempts : wire'[b] = "none" <=> wire[b] = "none"
    BY <1>10, CloseWireMakesNone DEF GiveUp
  <2>2. QED
    BY <1>10, <2>1 DEF GiveUp
<1>11. ASSUME NEW a \in Attempts, ServerDrops(a) \/ ReaderEnds(a) PROVE LifeInv'
  BY <1>1, <1>11 DEF ServerDrops, ReaderEnds
<1>12. ASSUME NEW a \in Attempts, DisconnectCallback(a) PROVE LifeInv'
  BY <1>1, <1>12, ReportOf DEF DisconnectCallback, Goto, Connect, Callback
<1>13. ASSUME NEW r \in Reports, EndStep(r) PROVE LifeInv'
  <2>1. PICK to \in Pcs \ {"dialing", "onConnected"} : pc' = [pc EXCEPT ![r] = to]
    BY <1>13, Labels DEF EndStep, DropSender, AlreadyEnded, Detach, DetachUnchecked,
       CloseSocket, SetStatus, SendEnded, NoRetry, Retry, SendRetry, CloseDone, Goto,
       EndingPcs
  <2>2. socket' \in {socket, NoAttempt} /\ UNCHANGED stopped
    BY <1>13 DEF EndStep, DropSender, AlreadyEnded, Detach, DetachUnchecked,
       CloseSocket, SetStatus, SendEnded, NoRetry, Retry, SendRetry, CloseDone
  <2>3. UNCHANGED wire \/ CloseWire(r[1])
    BY <1>13 DEF EndStep, DropSender, AlreadyEnded, Detach, DetachUnchecked,
       CloseSocket, SetStatus, SendEnded, NoRetry, Retry, SendRetry, CloseDone
  <2>4. \A b \in Attempts : wire'[b] = "none" <=> wire[b] = "none"
    BY <2>3, CloseWireMakesNone
  <2>5. QED
    BY <1>1, <2>1, <2>2, <2>4, ReportOf
<1>14. ASSUME NEW d \in Destroyers, DestroyStep(d) PROVE LifeInv'
  <2>1. UNCHANGED <<pc, socket, stopped>>
    BY <1>14 DEF DestroyStep, DecideClosing, SendClosing, DestroyTimeout,
       AttemptHasEnded, SwapSender
  <2>2. UNCHANGED wire \/ CloseWire(socket)
    BY <1>14 DEF DestroyStep, DecideClosing, SendClosing, DestroyTimeout,
       AttemptHasEnded, SwapSender
  <2>3. \A b \in Attempts : wire'[b] = "none" <=> wire[b] = "none"
    BY <2>2, CloseWireMakesNone
  <2>4. QED
    BY <2>1, <2>3
<1>15. CASE UNCHANGED vars
  BY <1>15 DEF vars
<1>16. QED
  BY <1>2, <1>3, <1>4, <1>5, <1>6, <1>7, <1>8, <1>9, <1>10, <1>11, <1>12, <1>13,
     <1>14, <1>15 DEF Next, ConnectStep, ReaderStep

\* A step at which the client neither moves on, stops, quits nor returns.
LEMMA Rests ==
  ASSUME IInv, UNCHANGED <<conn, socket, doneVars, faultVars, dpc>>,
         \A a \in Attempts : wire'[a] = "none" <=> wire[a] = "none"
  PROVE  UNCHANGED Life!vars
<1>1. Phase' = Phase
  BY SamePhase
<1>2. QED
  BY <1>1 DEF Life!vars, Returned, faultVars

\* A step that takes the client from one phase to the next.
LEMMA MovesOn ==
  ASSUME Phase' \in Life!Follows(Phase, quitting \/ stopped),
         UNCHANGED <<faultVars, dpc>>
  PROVE  Life!Move
BY DEF Life!Move, Returned, faultVars

\* Every step of the client is a step of its life, or none.
LEMMA LifeStep ==
  ASSUME IInv, IInv', StatusIInv, LifeInv, [Next]_vars
  PROVE  [Life!Next]_(Life!vars)
<1> USE DEF clientVars, faultVars, retryVars, doneVars, statusVars, reportVars,
    destroyVars
<1>1. /\ pc \in [Reports -> Pcs] /\ dpc \in [Destroyers -> DestroyPcs]
      /\ wire \in [Attempts -> {"none", "open", "closed", "ended"}]
      /\ DownInv /\ EndInv /\ AttemptInv /\ ConnectingInv
  BY DEF IInv, TypeOK, StatusIInv
<1>2. ASSUME NEW a \in 0 .. MaxAttempts, TimerFires(a) PROVE UNCHANGED Life!vars
  BY <1>2, Rests DEF TimerFires
<1>3. ASSUME NEW a \in 0 .. MaxAttempts, BeginAttempt(a)
      PROVE  Life!Move \/ UNCHANGED Life!vars
  <2>1. a = attemptDone /\ a \in closed /\ conn = NoAttempt /\ ~stopped
    BY <1>3, BeginFacts
  <2>2. CASE quitting
    BY <1>3, <2>2, Rests DEF BeginAttempt
  <2>3. CASE ~quitting
    <3>1. /\ conn' = attemptDone + 1 /\ conn' \in Attempts /\ socket' = NoAttempt
          /\ UNCHANGED <<wire, stopped, quitting, dpc>>
      BY <1>3, <2>3 DEF BeginAttempt
    <3>2. conn' > attemptDone /\ conn' # NoAttempt
      BY <1>1, <3>1 DEF IInv, TypeOK, NoAttempt, Attempts
    <3>3. wire[conn'] = "none"
      BY <1>1, <3>1, <3>2 DEF AttemptInv
    <3>4. Phase = "waiting"
      BY <2>1 DEF Phase
    <3>5. conn' \notin closed'
      BY <3>2 DEF IInv, AttemptInv
    <3>6. attemptDone' = conn' /\ wire'[conn'] = "none"
      BY <1>3, <2>3, <3>1, <3>3 DEF BeginAttempt
    <3>7. Phase' = "dialing"
      BY <3>1, <3>2, <3>5, <3>6 DEF Phase
    <3>8. QED
      BY <2>1, <2>3, <3>1, <3>4, <3>7, MovesOn DEF Life!Follows, Life!Attempt, Life!Up
  <2>4. QED
    BY <2>2, <2>3
<1>4. ASSUME NEW a \in Attempts, DialSucceeds(a) PROVE Life!Move
  <2>1. /\ pc[Connect(a)] = "dialing" /\ UNCHANGED <<conn, socket, attemptDone, closed>>
        /\ wire' = [wire EXCEPT ![a] = "open"] /\ UNCHANGED <<stopped, quitting, dpc>>
    BY <1>4 DEF DialSucceeds, Goto
  <2>2. conn = a /\ conn # NoAttempt /\ socket = NoAttempt /\ wire[a] = "none"
    BY <1>1, <2>1 DEF DownInv, LifeInv, ConnectingInv, NoAttempt, Attempts
  <2>3. Phase = "dialing"
    BY <2>2, PhaseFacts
  <2>4. wire'[a] = "open"
    BY <1>1, <2>1
  <2>5. Phase' = "accepted"
    BY <2>1, <2>2, <2>4, PhaseFacts DEF Phase
  <2>6. QED
    BY <2>1, <2>3, <2>5, MovesOn DEF Life!Follows, Life!Attempt, Life!Up
<1>5. ASSUME NEW a \in Attempts, OnConnected(a) PROVE Life!Move
  <2>1. /\ pc[Connect(a)] = "onConnected" /\ conn = a /\ ~quitting /\ socket' = a
        /\ UNCHANGED <<conn, attemptDone, closed, stopped, quitting, dpc>>
    BY <1>5 DEF OnConnected, Goto
  <2>2. conn # NoAttempt /\ socket = NoAttempt /\ wire[a] # "none" /\ ~stopped
    BY <1>1, <2>1 DEF LifeInv, NoAttempt, Attempts
  <2>3. Phase = "accepted"
    BY <2>1, <2>2, PhaseFacts
  <2>4. Phase' = "open"
    BY <2>1, <2>2, PhaseFacts DEF Phase
  <2>5. QED
    BY <2>1, <2>2, <2>3, <2>4, MovesOn DEF Life!Follows, Life!Attempt, Life!Up
<1>6. ASSUME NEW a \in Attempts, ConnectStep(a), ~DialSucceeds(a), ~OnConnected(a)
      PROVE  UNCHANGED Life!vars
  <2>1. UNCHANGED <<conn, socket, doneVars, faultVars, dpc>>
    BY <1>6 DEF ConnectStep, DialFails, OnConnectedTooLate, StoreSender,
       SendConnected, RegistrationEnds, RegistrationFails, FinishSetup
  <2>2. UNCHANGED wire \/ CloseWire(a)
    BY <1>6 DEF ConnectStep, DialFails, OnConnectedTooLate, StoreSender,
       SendConnected, RegistrationEnds, RegistrationFails, FinishSetup
  <2>3. QED
    BY <2>1, <2>2, CloseWireMakesNone, Rests
<1>7. ASSUME NEW a \in Attempts, Stop(a) PROVE Life!Stop
  <2>1. /\ conn = a /\ wire[a] # "none" /\ stopped' = TRUE /\ CloseWire(socket)
        /\ UNCHANGED <<conn, socket, doneVars, quitting, dpc>>
    BY <1>7 DEF Stop, IsCurrent, Reading
  <2>2. Phase \in {"accepted", "open"}
    BY <2>1, PhaseFacts DEF NoAttempt, Attempts
  <2>3. Phase' = Phase
    BY <2>1, CloseWireMakesNone, SamePhase
  <2>4. QED
    BY <2>1, <2>2, <2>3 DEF Life!Stop, Returned
<1>8. ASSUME NEW a \in Attempts, ReaderStep(a), ~Stop(a) PROVE UNCHANGED Life!vars
  <2>1. UNCHANGED <<conn, socket, doneVars, faultVars, dpc>>
    BY <1>8 DEF ReaderStep, OnWelcome, GiveUp, ServerDrops, ReaderEnds,
       DisconnectCallback
  <2>2. \/ UNCHANGED wire \/ CloseWire(socket)
        \/ wire[a] # "none" /\ wire' = [wire EXCEPT ![a] = "ended"]
    BY <1>8 DEF ReaderStep, OnWelcome, GiveUp, ServerDrops, ReaderEnds,
       DisconnectCallback, Reading
  <2>3. \A b \in Attempts : wire'[b] = "none" <=> wire[b] = "none"
    BY <1>1, <2>2, CloseWireMakesNone
  <2>4. QED
    BY <2>1, <2>3, Rests
<1>9. ASSUME NEW r \in Reports, Detach(r) PROVE Life!Move
  <2>1. /\ conn = r[1] /\ r[1] \in Attempts /\ conn' = NoAttempt
        /\ UNCHANGED <<attemptDone, closed, stopped, quitting, dpc>>
    BY <1>9, ReportsFact DEF Detach, DetachUnchecked
  <2>2. Phase \in {"dialing", "accepted", "open"} /\ attemptDone \notin closed
    BY <2>1, PhaseFacts DEF NoAttempt, Attempts
  <2>3. Phase' = "closing"
    BY <2>1, <2>2 DEF Phase
  <2>4. QED
    BY <2>1, <2>2, <2>3, MovesOn DEF Life!Follows, Life!Attempt, Life!Up
<1>10. ASSUME NEW r \in Reports, CloseDone(r) PROVE Life!Move
  <2>1. /\ pc[r] = "closeDone" /\ closed' = closed \cup {r[1]}
        /\ UNCHANGED <<attemptDone, stopped, quitting, dpc>>
    BY <1>10 DEF CloseDone, Goto
  <2>2. conn = NoAttempt /\ r[1] = attemptDone /\ r[1] \notin closed
    BY <1>1, <2>1 DEF EndInv, EndingPcs
  <2>3. Phase = "closing" /\ Phase' = "waiting"
    BY <2>1, <2>2 DEF Phase
  <2>4. QED
    BY <2>1, <2>3, MovesOn DEF Life!Follows, Life!Attempt, Life!Up
<1>11. ASSUME NEW r \in Reports, EndStep(r), ~Detach(r), ~CloseDone(r)
       PROVE  UNCHANGED Life!vars
  <2>1. UNCHANGED <<conn, socket, doneVars, faultVars, dpc>>
    BY <1>11 DEF EndStep, DropSender, AlreadyEnded, CloseSocket, SetStatus, SendEnded,
       NoRetry, Retry, SendRetry
  <2>2. UNCHANGED wire \/ CloseWire(r[1])
    BY <1>11 DEF EndStep, DropSender, AlreadyEnded, CloseSocket, SetStatus, SendEnded,
       NoRetry, Retry, SendRetry
  <2>3. QED
    BY <2>1, <2>2, CloseWireMakesNone, Rests
<1>12. ASSUME NEW d \in Destroyers, DecideClosing(d) PROVE Life!Quit
  <2>1. /\ dpc[d] = "idle" /\ dpc' = [dpc EXCEPT ![d] = "sendClosing"]
        /\ quitting' = TRUE
        /\ UNCHANGED <<conn, socket, attemptDone, closed, wire, stopped>>
    BY <1>12 DEF DecideClosing, DGoto
  <2>2. Phase' = Phase
    BY <2>1 DEF Phase
  <2>3. Returned' = Returned
    BY <1>1, <2>1 DEF Returned
  <2>4. QED
    BY <2>1, <2>2, <2>3 DEF Life!Quit
<1>13. ASSUME NEW d \in Destroyers, SwapSender(d) PROVE Life!Return
  <2>1. /\ dpc[d] = "swapSender" /\ dpc' = [dpc EXCEPT ![d] = "returned"]
        /\ UNCHANGED <<conn, socket, attemptDone, closed, wire, stopped, quitting>>
    BY <1>13 DEF SwapSender, DGoto
  <2>2. Phase = "waiting" /\ quitting
    BY <1>1, <2>1 DEF Phase, DownInv
  <2>3. Returned' = TRUE
    BY <1>1, <2>1 DEF Returned
  <2>4. Phase' = Phase
    BY <2>1 DEF Phase
  <2>5. QED
    BY <2>1, <2>2, <2>3, <2>4 DEF Life!Return, Life!Over, Life!Attempt, Life!Up
<1>14. ASSUME NEW d \in Destroyers,
              SendClosing(d) \/ DestroyTimeout(d) \/ AttemptHasEnded(d)
       PROVE  UNCHANGED Life!vars
  <2>1. /\ UNCHANGED <<conn, socket, doneVars, faultVars>>
        /\ UNCHANGED wire \/ CloseWire(socket)
    BY <1>14 DEF SendClosing, DestroyTimeout, AttemptHasEnded
  <2>2. /\ dpc[d] \in {"sendClosing", "wait", "waitOn"}
        /\ \E to \in {"wait", "waitOn", "swapSender"} : dpc' = [dpc EXCEPT ![d] = to]
    BY <1>14 DEF SendClosing, DestroyTimeout, AttemptHasEnded, DGoto
  <2>3. Returned' = Returned
    BY <1>1, <2>2 DEF Returned
  <2>4. Phase' = Phase
    BY <2>1, CloseWireMakesNone, SamePhase
  <2>5. QED
    BY <2>1, <2>3, <2>4 DEF Life!vars
<1>15. CASE UNCHANGED vars
  BY <1>15, Rests DEF vars
<1>16. QED
  BY <1>2, <1>3, <1>4, <1>5, <1>6, <1>7, <1>8, <1>9, <1>10, <1>11, <1>12, <1>13,
     <1>14, <1>15 DEF Next, DestroyStep, Life!Next

\* The client's life is what the manager and identd take it for: its attempts
\* follow each other, none is set up or begun once it is quitting or stopped,
\* and Destroy returns only when the last one is over.
THEOREM LifeRefinement == Spec => ImplementsLife
<1>1. Init => LifeInv /\ Life!Init
  <2> SUFFICES ASSUME Init PROVE LifeInv /\ Life!Init
    OBVIOUS
  <2>1. LifeInv
    BY ReportOf DEF Init, LifeInv
  <2>2. QED
    BY <2>1 DEF Init, Life!Init, Phase, Returned
<1>2. IInv /\ StatusIInv /\ LifeInv /\ [Next]_vars => LifeInv'
  BY NextLifeInv
<1>3. IInv /\ IInv' /\ StatusIInv /\ LifeInv /\ [Next]_vars => [Life!Next]_(Life!vars)
  BY LifeStep
<1>4. QED
  BY <1>1, <1>2, <1>3, StatusInvariance, PTL DEF Spec, ImplementsLife, Life!Spec

-----------------------------------------------------------------------------
(* What is always to come                                                  *)

\* The end of an attempt that is not over: whose report will carry it out.
EndToComeInv ==
  /\ conn = NoAttempt /\ attemptDone \notin closed =>
       \E r \in Reports : pc[r] \in EndingPcs
  /\ \A a \in Attempts : pc[Connect(a)] = "finishSetup" => wire[a] # "none"
  /\ \A a \in Attempts : conn = a =>
       /\ pc[Connect(a)] # "idle"
       /\ pc[Connect(a)] = "over" => wire[a] # "none"
       /\ pc[Callback(a)] \in {"idle", "endAttempt", "detach"}

\* The reconnect that a client left alone is waiting for.
RetryToComeInv ==
  /\ \A r \in Reports : pc[r] \in {"sendRetry", "closeDone"} =>
       stopped \/ quitting \/ callback[r[1]] \in PendingCallback
  /\ attemptDone \in closed =>
       stopped \/ quitting \/ callback[attemptDone] \in PendingCallback

HolderInv ==
  statusMu => \/ \E r \in Reports : pc[r] \in SendingPcs
              \/ \E d \in Destroyers : dpc[d] = "sendClosing"

\* What the reports' steps do not change, and where they go.
LEMMA EndSteps ==
  ASSUME NEW r \in Reports, EndStep(r), pc \in [Reports -> Pcs]
  PROVE  /\ pc' = [pc EXCEPT ![r] = pc'[r]]
         /\ pc[r] \in {"endAttempt", "detach"} \cup EndingPcs
         /\ pc'[r] \in {"detach", "over"} \cup EndingPcs
         /\ UNCHANGED <<attemptDone, dpc, stopped, quitting>>
         /\ UNCHANGED wire \/ CloseWire(r[1])
<1> USE DEF EndStep, DropSender, AlreadyEnded, Detach, DetachUnchecked, CloseSocket,
    SetStatus, SendEnded, NoRetry, Retry, SendRetry, CloseDone
<1>1. PICK from \in {"endAttempt", "detach"} \cup EndingPcs,
           to \in {"detach", "over"} \cup EndingPcs :
        pc[r] = from /\ pc' = [pc EXCEPT ![r] = to]
  BY DEF Goto, EndingPcs
<1>2. UNCHANGED <<attemptDone, dpc, stopped, quitting>>
  BY DEF doneVars, faultVars, destroyVars
<1>3. UNCHANGED wire \/ CloseWire(r[1])
  OBVIOUS
<1>4. QED
  BY <1>1, <1>2, <1>3

\* An attempt in its end is carried to it.
LEMMA NextEndToComeInv ==
  ASSUME IInv, StatusIInv, EndToComeInv, [Next]_vars PROVE EndToComeInv'
<1> USE DEF EndToComeInv, clientVars, faultVars, retryVars, doneVars, statusVars,
    reportVars, destroyVars
<1>1. /\ pc \in [Reports -> Pcs]
      /\ wire \in [Attempts -> {"none", "open", "closed", "ended"}]
      /\ EndInv /\ AttemptInv
  BY DEF IInv, TypeOK
<1>2. ASSUME NEW a \in 0 .. MaxAttempts, TimerFires(a) PROVE EndToComeInv'
  BY <1>2 DEF TimerFires
<1>3. ASSUME NEW a \in 0 .. MaxAttempts, BeginAttempt(a) PROVE EndToComeInv'
  <2>1. CASE quitting
    BY <1>3, <2>1 DEF BeginAttempt
  <2>2. CASE ~quitting
    <3> DEFINE b == attemptDone + 1
    <3>1. /\ b \in Attempts /\ conn' = b
          /\ pc' = [pc EXCEPT ![Connect(b)] = "dialing"] /\ UNCHANGED wire
      BY <1>3, <2>2 DEF BeginAttempt, Goto
    <3>2. pc[Callback(b)] = "idle"
      <4>1. b > attemptDone
        BY DEF IInv, TypeOK
      <4>2. QED
        BY <1>1, <3>1, <4>1, ReportOf DEF AttemptInv
    <3> HIDE DEF b
    <3>3. /\ pc'[Connect(b)] = "dialing" /\ pc'[Callback(b)] = "idle"
          /\ conn' # NoAttempt
          /\ \A c \in Attempts : pc'[Connect(c)] = "finishSetup" =>
               pc[Connect(c)] = "finishSetup"
      BY <1>1, <3>1, <3>2, ReportOf DEF NoAttempt, Attempts
    <3>4. QED
      BY <3>1, <3>3
  <2>3. QED
    BY <2>1, <2>2
<1>4. ASSUME NEW a \in Attempts, ConnectStep(a) PROVE EndToComeInv'
  <2> USE DEF ConnectStep, DialSucceeds, DialFails, OnConnectedTooLate, OnConnected,
      StoreSender, SendConnected, RegistrationEnds, RegistrationFails, FinishSetup
  <2>10. UNCHANGED <<conn, attemptDone, closed>>
    BY <1>4
  <2>11. PICK from \in ConnectPcs \ {"idle"},
             to \in (ConnectPcs \ {"idle"}) \cup {"endAttempt", "over"} :
          /\ pc[Connect(a)] = from /\ pc' = [pc EXCEPT ![Connect(a)] = to]
          /\ to = "over" => from = "finishSetup"
          /\ to = "finishSetup" => wire[a] # "none"
    BY <1>4 DEF Goto, ConnectPcs, Reading
  <2>1. /\ pc' = [pc EXCEPT ![Connect(a)] = pc'[Connect(a)]]
        /\ pc[Connect(a)] \in ConnectPcs \ {"idle"} /\ pc'[Connect(a)] # "idle"
        /\ pc'[Connect(a)] = "over" => pc[Connect(a)] = "finishSetup"
        /\ pc'[Connect(a)] = "finishSetup" => wire[a] # "none"
        /\ UNCHANGED <<conn, attemptDone, closed>>
    BY <1>1, <2>10, <2>11, ReportOf DEF ConnectPcs
  <2>2. UNCHANGED wire \/ CloseWire(a) \/ wire' = [wire EXCEPT ![a] = "open"]
    BY <1>4
  <2> HIDE DEF ConnectStep, DialSucceeds, DialFails, OnConnectedTooLate, OnConnected,
      StoreSender, SendConnected, RegistrationEnds, RegistrationFails, FinishSetup
  <2>3. \A b \in Attempts : wire[b] # "none" => wire'[b] # "none"
    BY <1>1, <2>2, CloseWireMakesNone
  <2>4. \A r \in Reports : r # Connect(a) => pc'[r] = pc[r]
    BY <1>1, <2>1
  <2>5. \A b \in Attempts :
          /\ pc'[Callback(b)] = pc[Callback(b)]
          /\ b # a => pc'[Connect(b)] = pc[Connect(b)]
    BY <2>4, ReportOf
  <2>6. \A b \in Attempts : conn = b =>
          /\ pc'[Connect(b)] # "idle"
          /\ pc'[Connect(b)] = "over" => wire'[b] # "none"
          /\ pc'[Callback(b)] \in {"idle", "endAttempt", "detach"}
    BY <2>1, <2>3, <2>5
  <2>7. \A b \in Attempts : pc'[Connect(b)] = "finishSetup" => wire'[b] # "none"
    BY <2>1, <2>3, <2>5
  <2>8. \A r \in Reports : pc[r] \in EndingPcs => pc'[r] \in EndingPcs
    BY <2>1, <2>4 DEF ConnectPcs, EndingPcs
  <2>9. QED
    BY <2>1, <2>6, <2>7, <2>8
<1>5. ASSUME NEW a \in Attempts, DisconnectCallback(a) PROVE EndToComeInv'
  <2>1. /\ pc[Callback(a)] = "idle" /\ pc' = [pc EXCEPT ![Callback(a)] = "endAttempt"]
        /\ UNCHANGED <<conn, attemptDone, closed, wire>>
    BY <1>5 DEF DisconnectCallback, Goto
  <2>2. \A b \in Attempts :
          /\ pc'[Connect(b)] = pc[Connect(b)]
          /\ pc'[Callback(b)] \in {pc[Callback(b)], "endAttempt"}
    BY <1>1, <2>1, ReportOf
  <2>3. \A r \in Reports : pc[r] \in EndingPcs => pc'[r] \in EndingPcs
    BY <1>1, <2>1 DEF EndingPcs
  <2>4. QED
    BY <2>1, <2>2, <2>3
<1>6. ASSUME NEW a \in Attempts, ReaderStep(a), ~DisconnectCallback(a)
      PROVE  EndToComeInv'
  <2>1. UNCHANGED <<pc, conn, attemptDone, closed>>
    BY <1>6 DEF ReaderStep, OnWelcome, Stop, GiveUp, ServerDrops, ReaderEnds
  <2>2. UNCHANGED wire \/ CloseWire(socket) \/ wire' = [wire EXCEPT ![a] = "ended"]
    BY <1>6 DEF ReaderStep, OnWelcome, Stop, GiveUp, ServerDrops, ReaderEnds
  <2>3. \A b \in Attempts : wire[b] # "none" => wire'[b] # "none"
    BY <1>1, <2>2, CloseWireMakesNone
  <2>4. QED
    BY <2>1, <2>3
<1>7. ASSUME NEW r \in Reports, EndStep(r) PROVE EndToComeInv'
  <2>1. \A b \in Attempts : wire[b] # "none" => wire'[b] # "none"
    BY <1>1, <1>7, EndSteps, CloseWireMakesNone
  <2>2. \A b \in Attempts : pc'[Connect(b)] = "finishSetup" => wire'[b] # "none"
    BY <1>1, <1>7, <2>1, EndSteps, ReportOf DEF EndingPcs
  <2>3. CASE Detach(r)
    <3>1. conn' = NoAttempt /\ pc'[r] \in EndingPcs
      BY <1>1, <2>3 DEF Detach, DetachUnchecked, Goto, EndingPcs
    <3>2. QED
      BY <2>2, <3>1 DEF NoAttempt, Attempts
  <2>4. CASE CloseDone(r)
    <3>1. /\ pc[r] = "closeDone" /\ closed' = closed \cup {r[1]}
          /\ UNCHANGED <<conn, attemptDone>>
      BY <2>4 DEF CloseDone, Goto
    <3>2. conn = NoAttempt /\ attemptDone \in closed'
      BY <1>1, <3>1 DEF EndInv, EndingPcs
    <3>3. QED
      BY <2>2, <3>1, <3>2 DEF NoAttempt, Attempts
  <2>5. CASE DropSender(r)
    <3>1. /\ pc[r] = "endAttempt" /\ pc' = [pc EXCEPT ![r] = "detach"]
          /\ UNCHANGED <<conn, attemptDone, closed, wire>>
      BY <2>5 DEF DropSender, Goto
    <3>2. \A q \in Reports : pc[q] \in EndingPcs => pc'[q] \in EndingPcs
      BY <1>1, <3>1 DEF EndingPcs
    <3>3. \A q \in Reports : pc'[q] \in {pc[q], "detach"}
      BY <1>1, <3>1
    <3>4. QED
      BY <2>2, <3>1, <3>2, <3>3, ReportOf
  <2>6. CASE AlreadyEnded(r)
    <3>1. /\ pc[r] = "detach" /\ pc' = [pc EXCEPT ![r] = "over"] /\ conn # r[1]
          /\ UNCHANGED <<conn, attemptDone, closed, wire>>
      BY <2>6 DEF AlreadyEnded, Goto
    <3>2. \A q \in Reports : pc[q] \in EndingPcs => pc'[q] \in EndingPcs
      BY <1>1, <3>1 DEF EndingPcs
    <3>3. \A q \in Reports : q # r => pc'[q] = pc[q]
      BY <1>1, <3>1
    <3>4. \A b \in Attempts : conn = b => Connect(b) # r /\ Callback(b) # r
      BY <3>1, ReportOf
    <3>5. \A b \in Attempts : conn = b =>
            pc'[Connect(b)] = pc[Connect(b)] /\ pc'[Callback(b)] = pc[Callback(b)]
      BY <3>3, <3>4, ReportOf
    <3>6. QED
      BY <2>2, <3>1, <3>2, <3>5
  <2>7. CASE pc[r] \in EndingPcs /\ ~CloseDone(r)
    <3>1. pc'[r] \in EndingPcs /\ UNCHANGED <<conn, attemptDone, closed>>
      BY <1>1, <1>7, <2>7 DEF EndStep, DropSender, AlreadyEnded, Detach,
         DetachUnchecked, CloseSocket, SetStatus, SendEnded, NoRetry, Retry, SendRetry,
         Goto, EndingPcs
    <3>2. conn = NoAttempt
      BY <1>1, <2>7 DEF EndInv
    <3>3. QED
      BY <2>2, <3>1, <3>2 DEF NoAttempt, Attempts
  <2>8. QED
    BY <1>7, <2>3, <2>4, <2>5, <2>6, <2>7
    DEF EndStep, CloseSocket, SetStatus, SendEnded, NoRetry, Retry, SendRetry, Goto,
        EndingPcs
<1>8. ASSUME NEW d \in Destroyers, DestroyStep(d) PROVE EndToComeInv'
  <2>1. UNCHANGED <<pc, conn, attemptDone, closed>>
    BY <1>8 DEF DestroyStep, DecideClosing, SendClosing, DestroyTimeout,
       AttemptHasEnded, SwapSender
  <2>2. UNCHANGED wire \/ CloseWire(socket)
    BY <1>8 DEF DestroyStep, DecideClosing, SendClosing, DestroyTimeout,
       AttemptHasEnded, SwapSender
  <2>3. \A b \in Attempts : wire[b] # "none" => wire'[b] # "none"
    BY <2>2, CloseWireMakesNone
  <2>4. QED
    BY <2>1, <2>3
<1>9. CASE UNCHANGED vars
  BY <1>9 DEF vars
<1>10. QED
  BY <1>2, <1>3, <1>4, <1>5, <1>6, <1>7, <1>8, <1>9 DEF Next

\* No end forgets the reconnect that is due.
LEMMA NextRetryToComeInv ==
  ASSUME IInv, RetryToComeInv, [Next]_vars PROVE RetryToComeInv'
<1> USE DEF RetryToComeInv, clientVars, faultVars, retryVars, doneVars, statusVars,
    reportVars, destroyVars, PendingCallback
<1>1. /\ pc \in [Reports -> Pcs]
      /\ callback \in [0 .. MaxAttempts -> {"none", "armed", "fired", "stopped", "spent"}]
      /\ EndInv /\ AttemptInv
  BY DEF IInv, TypeOK
<1>2. ASSUME NEW a \in 0 .. MaxAttempts, TimerFires(a) PROVE RetryToComeInv'
  <2>1. /\ callback' = [callback EXCEPT ![a] = "fired"]
        /\ UNCHANGED <<pc, stopped, quitting, attemptDone, closed>>
    BY <1>2 DEF TimerFires
  <2>2. \A b \in 0 .. MaxAttempts :
          callback[b] \in PendingCallback => callback'[b] \in PendingCallback
    BY <1>1, <2>1
  <2>3. \A r \in Reports : r[1] \in 0 .. MaxAttempts
    BY ReportsFact DEF Attempts
  <2>4. QED
    BY <2>1, <2>2, <2>3 DEF IInv, TypeOK
<1>3. ASSUME NEW a \in 0 .. MaxAttempts, BeginAttempt(a) PROVE RetryToComeInv'
  <2>1. CASE quitting
    BY <1>3, <2>1 DEF BeginAttempt
  <2>2. CASE ~quitting
    <3> DEFINE b == attemptDone + 1
    <3>1. /\ b \in Attempts /\ attemptDone' = b /\ UNCHANGED closed
          /\ pc' = [pc EXCEPT ![Connect(b)] = "dialing"]
      BY <1>3, <2>2 DEF BeginAttempt, Goto
    <3>2. b \notin closed
      <4>1. b > attemptDone
        BY DEF IInv, TypeOK
      <4>2. QED
        BY <1>1, <3>1, <4>1 DEF AttemptInv
    <3> HIDE DEF b
    <3>3. \A r \in Reports : pc'[r] \notin EndingPcs
      BY <1>1, <1>3, <3>1, BeginFacts DEF EndingPcs
    <3>4. QED
      BY <3>1, <3>2, <3>3 DEF EndingPcs
  <2>3. QED
    BY <2>1, <2>2
<1>4. ASSUME UNCHANGED <<stopped, quitting, callback, attemptDone, closed>> \/
             /\ stopped' = TRUE
             /\ UNCHANGED <<quitting, callback, attemptDone, closed>>,
             \A r \in Reports : pc'[r] \in {"sendRetry", "closeDone"} => pc'[r] = pc[r]
      PROVE  RetryToComeInv'
  BY <1>4
<1>5. ASSUME NEW a \in Attempts, ConnectStep(a) PROVE RetryToComeInv'
  <2> USE DEF ConnectStep, DialSucceeds, DialFails, OnConnectedTooLate, OnConnected,
      StoreSender, SendConnected, RegistrationEnds, RegistrationFails, FinishSetup
  <2>1. UNCHANGED <<stopped, quitting, callback, attemptDone, closed>>
    BY <1>5
  <2>2. PICK to \in Pcs \ {"sendRetry", "closeDone"} :
          pc' = [pc EXCEPT ![Connect(a)] = to]
    BY <1>5, Labels DEF Goto, ConnectPcs
  <2>3. QED
    BY <1>1, <1>4, <2>1, <2>2
<1>6. ASSUME NEW a \in Attempts, ReaderStep(a) PROVE RetryToComeInv'
  <2> USE DEF ReaderStep, OnWelcome, Stop, GiveUp, ServerDrops, ReaderEnds,
      DisconnectCallback
  <2>1. \/ UNCHANGED <<stopped, quitting, callback, attemptDone, closed>>
        \/ /\ stopped' = TRUE
           /\ UNCHANGED <<quitting, callback, attemptDone, closed>>
    BY <1>6
  <2>2. UNCHANGED pc \/ pc' = [pc EXCEPT ![Callback(a)] = "endAttempt"]
    BY <1>6 DEF Goto
  <2>3. QED
    BY <1>1, <1>4, <2>1, <2>2
<1>7. ASSUME NEW r \in Reports, EndStep(r) PROVE RetryToComeInv'
  <2>1. CASE NoRetry(r)
    <3>1. /\ stopped \/ quitting
          /\ UNCHANGED <<stopped, quitting, callback, attemptDone, closed>>
      BY <2>1 DEF NoRetry, MayRetry
    <3>2. QED
      BY <3>1
  <2>2. CASE Retry(r)
    <3>1. /\ pc[r] = "decideRetry" /\ pc' = [pc EXCEPT ![r] = "sendRetry"]
          /\ callback' = [callback EXCEPT ![r[1]] = "armed"]
          /\ UNCHANGED <<stopped, quitting, attemptDone, closed>>
      BY <2>2 DEF Retry, Goto
    <3>2. \A q \in Reports : q[1] \in 0 .. MaxAttempts
      BY ReportsFact DEF Attempts
    <3>3. \A b \in 0 .. MaxAttempts :
            callback[b] \in PendingCallback => callback'[b] \in PendingCallback
      BY <1>1, <3>1
    <3>4. callback'[r[1]] = "armed"
      BY <1>1, <3>1, <3>2
    <3>5. \A q \in Reports : q # r => pc'[q] = pc[q]
      BY <1>1, <3>1
    <3>6. QED
      BY <3>1, <3>2, <3>3, <3>4, <3>5 DEF IInv, TypeOK
  <2>3. CASE SendRetry(r)
    <3>1. /\ pc[r] = "sendRetry" /\ pc' = [pc EXCEPT ![r] = "closeDone"]
          /\ UNCHANGED <<stopped, quitting, callback, attemptDone, closed>>
      BY <2>3 DEF SendRetry, Goto
    <3>2. \A q \in Reports : q # r => pc'[q] = pc[q]
      BY <1>1, <3>1
    <3>3. QED
      BY <3>1, <3>2
  <2>4. CASE CloseDone(r)
    <3>1. /\ pc[r] = "closeDone" /\ pc' = [pc EXCEPT ![r] = "over"]
          /\ UNCHANGED <<stopped, quitting, callback, attemptDone>>
      BY <2>4 DEF CloseDone, Goto
    <3>2. r[1] = attemptDone
      BY <1>1, <3>1 DEF EndInv, EndingPcs
    <3>3. stopped \/ quitting \/ callback[attemptDone] \in PendingCallback
      BY <3>1, <3>2
    <3>4. \A q \in Reports : pc'[q] \in {"sendRetry", "closeDone"} => pc'[q] = pc[q]
      BY <1>1, <3>1
    <3>5. QED
      BY <3>1, <3>3, <3>4
  <2>5. CASE \/ DropSender(r) \/ AlreadyEnded(r) \/ Detach(r) \/ CloseSocket(r)
             \/ SetStatus(r) \/ SendEnded(r)
    <3> USE DEF DropSender, AlreadyEnded, Detach, DetachUnchecked, CloseSocket,
        SetStatus, SendEnded
    <3>1. UNCHANGED <<stopped, quitting, callback, attemptDone, closed>>
      BY <2>5
    <3>2. PICK to \in Pcs \ {"sendRetry", "closeDone"} : pc' = [pc EXCEPT ![r] = to]
      BY <2>5, Labels DEF Goto, EndingPcs
    <3>3. QED
      BY <1>1, <1>4, <3>1, <3>2
  <2>6. QED
    BY <1>7, <2>1, <2>2, <2>3, <2>4, <2>5 DEF EndStep
<1>8. ASSUME NEW d \in Destroyers, DestroyStep(d) PROVE RetryToComeInv'
  <2>1. CASE DecideClosing(d)
    BY <2>1 DEF DecideClosing
  <2>2. CASE ~DecideClosing(d)
    BY <1>8, <2>2 DEF DestroyStep, SendClosing, DestroyTimeout, AttemptHasEnded,
       SwapSender
  <2>3. QED
    BY <2>1, <2>2
<1>9. CASE UNCHANGED vars
  BY <1>9 DEF vars
<1>10. QED
  BY <1>2, <1>3, <1>5, <1>6, <1>7, <1>8, <1>9 DEF Next

\* Who takes statusMu holds it until it releases it.
LEMMA NextHolderInv ==
  ASSUME IInv, HolderInv, [Next]_vars PROVE HolderInv'
<1> USE DEF HolderInv, clientVars, faultVars, retryVars, doneVars, statusVars,
    reportVars, destroyVars, SendingPcs
<1>1. pc \in [Reports -> Pcs] /\ dpc \in [Destroyers -> DestroyPcs]
  BY DEF IInv, TypeOK
<1>2. ASSUME NEW r \in Reports, NEW from, NEW to,
             Goto(r, from, to), from \in SendingPcs => to \in SendingPcs,
             UNCHANGED <<statusMu, dpc>>
      PROVE  HolderInv'
  BY <1>1, <1>2 DEF Goto
<1>3. ASSUME NEW r \in Reports, NEW from, NEW to \in SendingPcs, Goto(r, from, to)
      PROVE  HolderInv'
  BY <1>1, <1>3 DEF Goto
<1>4. ASSUME NEW a \in 0 .. MaxAttempts, TimerFires(a) \/ BeginAttempt(a)
      PROVE  HolderInv'
  <2>1. UNCHANGED <<statusMu, dpc>>
    BY <1>4 DEF TimerFires, BeginAttempt
  <2>2. CASE UNCHANGED pc
    BY <2>1, <2>2
  <2>3. CASE BeginAttempt(a) /\ ~quitting
    BY <1>2, <2>1, <2>3, ReportOf DEF BeginAttempt
  <2>4. QED
    BY <1>4, <2>2, <2>3 DEF TimerFires, BeginAttempt
<1>5. ASSUME NEW a \in Attempts, ConnectStep(a) PROVE HolderInv'
  <2>1. CASE OnConnected(a)
    BY <1>3, <2>1, ReportOf DEF OnConnected
  <2>2. CASE SendConnected(a)
    BY <2>2 DEF SendConnected, Unlock
  <2>3. CASE StoreSender(a)
    BY <1>2, <2>3, ReportOf DEF StoreSender
  <2>4. CASE \/ DialSucceeds(a) \/ DialFails(a) \/ OnConnectedTooLate(a)
             \/ RegistrationEnds(a) \/ RegistrationFails(a) \/ FinishSetup(a)
    BY <1>2, <2>4, ReportOf DEF DialSucceeds, DialFails, OnConnectedTooLate,
       RegistrationEnds, RegistrationFails, FinishSetup
  <2>5. QED
    BY <1>5, <2>1, <2>2, <2>3, <2>4 DEF ConnectStep
<1>6. ASSUME NEW a \in Attempts, ReaderStep(a) PROVE HolderInv'
  <2>1. CASE DisconnectCallback(a)
    BY <1>2, <2>1, ReportOf DEF DisconnectCallback
  <2>2. CASE ~DisconnectCallback(a)
    BY <1>6, <2>2 DEF ReaderStep, OnWelcome, Stop, GiveUp, ServerDrops, ReaderEnds
  <2>3. QED
    BY <2>1, <2>2
<1>7. ASSUME NEW r \in Reports, EndStep(r) PROVE HolderInv'
  <2>1. CASE SetStatus(r)
    BY <1>3, <2>1 DEF SetStatus
  <2>2. CASE Retry(r)
    BY <1>3, <2>2 DEF Retry
  <2>3. CASE SendEnded(r) \/ SendRetry(r)
    BY <2>3 DEF SendEnded, SendRetry, Unlock
  <2>4. CASE DropSender(r) \/ AlreadyEnded(r) \/ CloseSocket(r)
    BY <1>2, <2>4 DEF DropSender, AlreadyEnded, CloseSocket
  <2>5. CASE Detach(r)
    BY <1>2, <2>5 DEF Detach, DetachUnchecked
  <2>6. CASE NoRetry(r) \/ CloseDone(r)
    BY <1>2, <2>6 DEF NoRetry, CloseDone
  <2>7. QED
    BY <1>7, <2>1, <2>2, <2>3, <2>4, <2>5, <2>6 DEF EndStep
<1>8. ASSUME NEW d \in Destroyers, DestroyStep(d) PROVE HolderInv'
  <2>1. CASE DecideClosing(d)
    <3>1. dpc'[d] = "sendClosing"
      BY <1>1, <2>1 DEF DecideClosing, DGoto
    <3>2. QED
      BY <3>1
  <2>2. CASE SendClosing(d)
    BY <2>2 DEF SendClosing, Unlock
  <2>3. CASE DestroyTimeout(d) \/ AttemptHasEnded(d) \/ SwapSender(d)
    <3>1. /\ UNCHANGED <<statusMu, pc>> /\ dpc[d] # "sendClosing"
          /\ \E to : dpc' = [dpc EXCEPT ![d] = to]
      BY <2>3 DEF DestroyTimeout, AttemptHasEnded, SwapSender, DGoto
    <3>2. QED
      BY <1>1, <3>1
  <2>4. QED
    BY <1>8, <2>1, <2>2, <2>3 DEF DestroyStep
<1>9. CASE UNCHANGED vars
  BY <1>9 DEF vars
<1>10. QED
  BY <1>4, <1>5, <1>6, <1>7, <1>8, <1>9 DEF Next

\* Something is always to come: the end of an attempt, the reconnect after it,
\* and the release of statusMu.  It is what DestroyReturns and LostIsRetried
\* need besides fairness.
THEOREM NeverStrandedHolds == Spec => []NeverStranded
<1>1. Init => EndToComeInv /\ RetryToComeInv /\ HolderInv
  <2> SUFFICES ASSUME Init PROVE EndToComeInv /\ RetryToComeInv /\ HolderInv
    OBVIOUS
  <2>1. \A r \in Reports : pc[r] = "idle"
    BY DEF Init
  <2>2. EndToComeInv
    BY <2>1, ReportOf DEF Init, EndToComeInv, NoAttempt, Attempts
  <2>3. RetryToComeInv /\ HolderInv
    BY <2>1, MaxAttemptsAssumption
    DEF Init, RetryToComeInv, HolderInv, PendingCallback, NoAttempt
  <2>4. QED
    BY <2>2, <2>3
<1>2. IInv /\ StatusIInv /\ EndToComeInv /\ [Next]_vars => EndToComeInv'
  BY NextEndToComeInv
<1>3. IInv /\ RetryToComeInv /\ [Next]_vars => RetryToComeInv'
  BY NextRetryToComeInv
<1>4. IInv /\ HolderInv /\ [Next]_vars => HolderInv'
  BY NextHolderInv
<1>5. IInv /\ EndToComeInv /\ RetryToComeInv /\ HolderInv => NeverStranded
  <2> SUFFICES ASSUME IInv, EndToComeInv, RetryToComeInv, HolderInv
               PROVE  NeverStranded
    OBVIOUS
  <2>1. ASSUME attemptDone \notin closed
        PROVE  \/ pc[Connect(attemptDone)] \notin {"idle", "over"}
               \/ pc[Callback(attemptDone)] \notin {"idle", "over"}
               \/ pc[Callback(attemptDone)] = "idle" /\ wire[attemptDone] # "none"
    <3>1. CASE conn # NoAttempt
      <4>1. conn \in Attempts /\ attemptDone = conn
        BY <3>1, PhaseFacts
      <4>2. QED
        BY <4>1 DEF EndToComeInv
    <3>2. CASE conn = NoAttempt
      <4>1. PICK r \in Reports : pc[r] \in EndingPcs
        BY <2>1, <3>2 DEF EndToComeInv
      <4>2. r[1] = attemptDone /\ (r = Connect(r[1]) \/ r = Callback(r[1]))
        BY <4>1, ReportsFact DEF IInv, EndInv
      <4>3. QED
        BY <4>1, <4>2 DEF EndingPcs
    <3>3. QED
      BY <3>1, <3>2
  <2>2. QED
    BY <2>1 DEF NeverStranded, RetryToComeInv, HolderInv, PendingCallback, SendingPcs
<1>6. QED
  BY <1>1, <1>2, <1>3, <1>4, <1>5, StatusInvariance, PTL DEF Spec

-----------------------------------------------------------------------------
(* The raw action, for any attempts, requests and Destroys                 *)

Looking(h) == hpc[h] \in {"requestNick", "readCaps", "send", "queue"}

RegisteredInv ==
  registered => conn # NoAttempt /\ conn \in setUp /\ pc[Connect(conn)] = "over"

LookingInv ==
  \A h \in Handlers : Looking(h) => conn = NoAttempt \/ registered

\* What h's caps say of attempt a, if a line of h may be queued for it.
Consistent(h, a) ==
  a # NoAttempt => a \in setUp /\ (echoAcked[h] <=> a \in caps)

HandlerInv ==
  \A h \in Handlers :
    /\ hpc[h] = "send" => Consistent(h, sender)
    /\ hpc[h] = "queue" => Consistent(h, loaded[h])
    /\ queuedOn[h] # NoAttempt => hpc[h] \in {"echo", "answered"}
    /\ Consistent(h, queuedOn[h])
    /\ h \in echoed <=> hpc[h] = "answered" /\ ShouldEcho(h)

RawIInv == RawTypeOK /\ RegisteredInv /\ LookingInv /\ HandlerInv

-----------------------------------------------------------------------------
\* The handlers have seen nothing yet.
LEMMA RawInitInv == RawInit => RawIInv
<1> SUFFICES ASSUME RawInit PROVE RawIInv
  OBVIOUS
<1> USE DEF RawInit
<1>1. RawTypeOK
  BY MaxAttemptsAssumption DEF RawTypeOK, NoAttempt
<1>2. RegisteredInv /\ LookingInv
  BY DEF RegisteredInv, LookingInv, Looking, Init
<1>3. HandlerInv
  BY DEF HandlerInv, Consistent
<1>4. QED
  BY <1>1, <1>2, <1>3 DEF RawIInv

-----------------------------------------------------------------------------
(* What a step of the client may do to what the handlers look at            *)

\* A report that is over stays over.
LEMMA OverStays ==
  ASSUME IInv, Next, NEW r \in Reports, pc[r] = "over"
  PROVE  pc'[r] = "over"
<1> USE DEF reportVars
<1>1. pc \in [Reports -> Pcs]
  BY DEF IInv, TypeOK
<1>2. ASSUME NEW q \in Reports, NEW from, NEW to, from # "over", Goto(q, from, to)
      PROVE  pc'[r] = "over"
  BY <1>1, <1>2 DEF Goto
<1>3. \A a \in Attempts : Connect(a) \in Reports /\ Callback(a) \in Reports
  BY ReportOf
<1>4. ASSUME NEW a \in 0 .. MaxAttempts, TimerFires(a) \/ BeginAttempt(a)
      PROVE  pc'[r] = "over"
  <2>1. CASE UNCHANGED pc
    BY <2>1
  <2>2. CASE /\ attemptDone + 1 \in Attempts
             /\ Goto(Connect(attemptDone + 1), "idle", "dialing")
    BY <1>2, <1>3, <2>2
  <2>3. QED
    BY <1>4, <2>1, <2>2 DEF TimerFires, BeginAttempt
<1>5. ASSUME NEW a \in Attempts, ConnectStep(a) PROVE pc'[r] = "over"
  BY <1>2, <1>3, <1>5
  DEF ConnectStep, DialSucceeds, DialFails, OnConnectedTooLate, OnConnected,
      StoreSender, SendConnected, RegistrationEnds, RegistrationFails, FinishSetup
<1>6. ASSUME NEW a \in Attempts, ReaderStep(a) PROVE pc'[r] = "over"
  BY <1>2, <1>3, <1>6
  DEF ReaderStep, OnWelcome, Stop, GiveUp, ServerDrops, ReaderEnds,
      DisconnectCallback
<1>7. ASSUME NEW q \in Reports, EndStep(q) PROVE pc'[r] = "over"
  BY <1>2, <1>7
  DEF EndStep, DropSender, AlreadyEnded, Detach, DetachUnchecked, CloseSocket,
      SetStatus, SendEnded, NoRetry, Retry, SendRetry, CloseDone
<1>8. ASSUME NEW d \in Destroyers, DestroyStep(d) PROVE pc'[r] = "over"
  BY <1>8
  DEF DestroyStep, DecideClosing, SendClosing, DestroyTimeout, AttemptHasEnded,
      SwapSender
<1>9. QED
  BY <1>4, <1>5, <1>6, <1>7, <1>8 DEF Next

\* While no attempt begins, the current one stays registered or ends; an
\* attempt becomes registered when connect's goroutine is through.
LEMMA AttemptSteps ==
  ASSUME IInv, Next
  PROVE  /\ registered' => conn' = conn
         /\ registered' /\ ~registered =>
              conn \in Attempts /\ pc'[Connect(conn)] = "over"
         /\ attemptDone' = attemptDone =>
              /\ conn' \in {conn, NoAttempt}
              /\ registered /\ conn' = conn => registered' \/ conn = NoAttempt
<1> DEFINE Goal ==
      /\ registered' => conn' = conn
      /\ registered' /\ ~registered =>
           conn \in Attempts /\ pc'[Connect(conn)] = "over"
      /\ attemptDone' = attemptDone =>
           /\ conn' \in {conn, NoAttempt}
           /\ registered /\ conn' = conn => registered' \/ conn = NoAttempt
<1> USE DEF clientVars, doneVars
<1>1. pc \in [Reports -> Pcs] /\ attemptDone \in Nat
  BY DEF IInv, TypeOK
<1>2. ASSUME UNCHANGED <<conn, registered>> PROVE Goal
  BY <1>2
<1>3. ASSUME NEW a \in 0 .. MaxAttempts, TimerFires(a) \/ BeginAttempt(a)
      PROVE  Goal
  BY <1>1, <1>2, <1>3 DEF TimerFires, BeginAttempt
<1>4. ASSUME NEW a \in Attempts, FinishSetup(a) PROVE Goal
  BY <1>1, <1>4, ReportOf DEF FinishSetup, Goto
<1>5. ASSUME NEW r \in Reports, DetachUnchecked(r) PROVE Goal
  BY <1>5 DEF DetachUnchecked
<1>6. ASSUME NEW a \in Attempts, ConnectStep(a) PROVE Goal
  <2> HIDE DEF Goal
  <2>1. QED
    BY <1>2, <1>4, <1>6
    DEF ConnectStep, DialSucceeds, DialFails, OnConnectedTooLate, OnConnected,
        StoreSender, SendConnected, RegistrationEnds, RegistrationFails
<1>7. ASSUME NEW a \in Attempts, ReaderStep(a) PROVE Goal
  <2> HIDE DEF Goal
  <2>1. QED
    BY <1>2, <1>7
    DEF ReaderStep, OnWelcome, Stop, GiveUp, ServerDrops, ReaderEnds,
        DisconnectCallback
<1>8. ASSUME NEW r \in Reports, EndStep(r) PROVE Goal
  <2> HIDE DEF Goal
  <2>1. QED
    BY <1>2, <1>5, <1>8
    DEF EndStep, DropSender, AlreadyEnded, Detach, CloseSocket, SetStatus,
        SendEnded, NoRetry, Retry, SendRetry, CloseDone
<1>9. ASSUME NEW d \in Destroyers, DestroyStep(d) PROVE Goal
  <2> HIDE DEF Goal
  <2>1. QED
    BY <1>2, <1>9
    DEF DestroyStep, DecideClosing, SendClosing, DestroyTimeout, AttemptHasEnded,
        SwapSender
<1>10. QED
  BY <1>3, <1>6, <1>7, <1>8, <1>9 DEF Next

\* The sender is only ever dropped, but by onConnected.
LEMMA SenderSteps ==
  ASSUME IInv, Next
  PROVE  \/ sender' \in {sender, NoAttempt}
         \/ conn \in Attempts /\ pc[Connect(conn)] = "storeSender"
<1>1. ASSUME NEW a \in 0 .. MaxAttempts, TimerFires(a) \/ BeginAttempt(a)
      PROVE  sender' = sender
  BY <1>1 DEF TimerFires, BeginAttempt
<1>2. ASSUME NEW a \in Attempts, StoreSender(a)
      PROVE  conn \in Attempts /\ pc[Connect(conn)] = "storeSender"
  BY <1>2 DEF StoreSender, Goto, IInv, ConnectingInv
<1>3. ASSUME NEW a \in Attempts, ConnectStep(a), ~StoreSender(a)
      PROVE  sender' = sender
  BY <1>3
  DEF ConnectStep, DialSucceeds, DialFails, OnConnectedTooLate, OnConnected,
      SendConnected, RegistrationEnds, RegistrationFails, FinishSetup
<1>4. ASSUME NEW a \in Attempts, ReaderStep(a) PROVE sender' = sender
  BY <1>4
  DEF ReaderStep, OnWelcome, Stop, GiveUp, ServerDrops, ReaderEnds,
      DisconnectCallback
<1>5. ASSUME NEW r \in Reports, EndStep(r)
      PROVE  sender' \in {sender, NoAttempt}
  BY <1>5
  DEF EndStep, DropSender, CompareAndClear, AlreadyEnded, Detach, DetachUnchecked,
      CloseSocket, SetStatus, SendEnded, NoRetry, Retry, SendRetry, CloseDone
<1>6. ASSUME NEW d \in Destroyers, DestroyStep(d)
      PROVE  sender' \in {sender, NoAttempt}
  BY <1>6
  DEF DestroyStep, DecideClosing, SendClosing, DestroyTimeout, AttemptHasEnded,
      SwapSender
<1>7. QED
  BY <1>1, <1>2, <1>3, <1>4, <1>5, <1>6 DEF Next

-----------------------------------------------------------------------------
\* No step of the client invalidates what a handler has seen.
LEMMA ClientStepInv ==
  ASSUME IInv, IInv', RawIInv, ClientStep
  PROVE  RawIInv'
<1> USE DEF RawIInv, ClientStep, lineVars
<1>1. /\ conn \in 0 .. MaxAttempts /\ conn' \in 0 .. MaxAttempts
      /\ \A a \in 0 .. MaxAttempts : a # NoAttempt <=> a \in Attempts
  BY MaxAttemptsAssumption DEF IInv, TypeOK, Attempts, NoAttempt
<1>2. RegisteredInv'
  <2> SUFFICES ASSUME registered'
               PROVE  /\ conn' # NoAttempt /\ conn' \in setUp'
                      /\ pc'[Connect(conn')] = "over"
    BY DEF RegisteredInv, Connect
  <2>1. conn' = conn /\ conn \in setUp'
    BY AttemptSteps
  <2>2. conn \in Attempts
    BY <1>1, AttemptSteps DEF RegisteredInv
  <2>3. pc'[Connect(conn)] = "over"
    BY <2>2, AttemptSteps, OverStays, ReportOf DEF RegisteredInv
  <2>4. QED
    BY <1>1, <2>1, <2>2, <2>3
<1>3. RawTypeOK'
  <2>1. setUp' \subseteq Attempts
    BY <1>1, AttemptSteps DEF RawTypeOK, RegisteredInv
  <2>2. asked' \in Seq(Handlers) /\ requestedNick' \in Handlers \cup {NoNick}
    BY DEF RawTypeOK
  <2>3. QED
    BY <2>1, <2>2 DEF RawTypeOK
<1>4. ASSUME NEW h \in Handlers, Looking(h)
      PROVE  /\ conn' = NoAttempt \/ registered'
             /\ sender' \in {sender, NoAttempt}
  <2>1. attemptDone' = attemptDone
    BY <1>4 DEF Prompt, Looking
  <2>2. conn' = NoAttempt \/ registered'
    BY <1>4, <2>1, AttemptSteps DEF LookingInv
  <2>3. conn = NoAttempt \/ pc[Connect(conn)] = "over"
    BY <1>4 DEF LookingInv, RegisteredInv
  <2>4. QED
    BY <1>1, <2>2, <2>3, SenderSteps
<1>5. LookingInv'
  BY <1>4 DEF LookingInv, Looking
<1>6. HandlerInv'
  <2>1. setUp \subseteq setUp'
    OBVIOUS
  <2>2. \A h \in Handlers : hpc[h] = "send" => sender' \in {sender, NoAttempt}
    BY <1>4 DEF Looking
  <2>3. QED
    BY <2>1, <2>2 DEF HandlerInv, Consistent, ShouldEcho
<1>7. QED
  BY <1>2, <1>3, <1>5, <1>6

\* No step of a handler or of the server breaks the invariant.
LEMMA RawStepInv ==
  ASSUME IInv, RawIInv, NEW h \in Handlers, RawStep(h), UNCHANGED vars
  PROVE  RawIInv'
<1> USE DEF RawIInv, lineVars, nickVars
<1>1. /\ UNCHANGED <<conn, registered, pc, sender, attemptDone>>
      /\ conn \in 0 .. MaxAttempts /\ sender \in 0 .. MaxAttempts
  BY DEF vars, clientVars, reportVars, doneVars, IInv, TypeOK
<1>2. UNCHANGED <<caps, setUp, kind>>
  BY DEF RawStep, Receive, Refuse, Accept, RequestNick, CapEnabled, SendLoads,
         SendDrops, SendQueues, Echo, TakeNick, RefuseNick
<1>3. RegisteredInv'
  BY <1>1, <1>2 DEF RegisteredInv, Connect
<1>4. sender # NoAttempt => sender = conn
  BY DEF IInv, SenderInv
<1> USE DEF HandlerStep, StepAfter
<1>5. CASE Receive(h) \/ Refuse(h)
  <2> USE <1>5 DEF Receive, Refuse
  <2>1. RawTypeOK'
    BY DEF RawTypeOK
  <2>2. LookingInv' /\ HandlerInv'
    BY <1>1 DEF LookingInv, HandlerInv, Looking, Consistent, ShouldEcho, RawTypeOK
  <2>3. QED
    BY <1>3, <2>1, <2>2
<1>6. CASE Accept(h) \/ RequestNick(h)
  <2> USE <1>6 DEF Accept, RequestNick, IsRegistered
  <2>1. RawTypeOK'
    BY DEF RawTypeOK
  <2>2. LookingInv' /\ HandlerInv'
    BY <1>1 DEF LookingInv, HandlerInv, Looking, Consistent, ShouldEcho, RawTypeOK
  <2>3. QED
    BY <1>3, <2>1, <2>2
<1>7. CASE CapEnabled(h)
  <2> USE <1>7 DEF CapEnabled
  <2>1. RawTypeOK'
    BY DEF RawTypeOK
  <2>2. LookingInv'
    BY <1>1 DEF LookingInv, Looking, RawTypeOK
  <2>3. sender # NoAttempt => registered /\ sender = conn /\ conn \in setUp
    BY <1>4 DEF LookingInv, Looking, RegisteredInv
  <2>4. HandlerInv'
    BY <1>1, <2>3 DEF HandlerInv, Consistent, ShouldEcho, RawTypeOK
  <2>5. QED
    BY <1>3, <2>1, <2>2, <2>4
<1>8. CASE SendLoads(h)
  <2> USE <1>8 DEF SendLoads
  <2>1. RawTypeOK'
    BY <1>1 DEF RawTypeOK
  <2>2. LookingInv' /\ HandlerInv'
    BY <1>1 DEF LookingInv, HandlerInv, Looking, Consistent, ShouldEcho, RawTypeOK
  <2>3. QED
    BY <1>3, <2>1, <2>2
<1>9. CASE SendDrops(h) \/ SendQueues(h)
  <2> USE <1>9 DEF SendDrops, SendQueues
  <2>1. /\ hpc[h] = "queue" /\ hpc' = [hpc EXCEPT ![h] = "echo"]
        /\ queuedOn' = [queuedOn EXCEPT ![h] = queuedOn'[h]]
        /\ queuedOn'[h] \in {queuedOn[h], loaded[h]}
        /\ UNCHANGED <<echoAcked, loaded, echoed, requestedNick, configNick>>
        /\ asked' = asked \/ asked' = Append(asked, h)
    BY DEF RawTypeOK
  <2> HIDE <1>9 DEF SendDrops, SendQueues
  <2>2. asked' \in Seq(Handlers)
    <3>1. asked \in Seq(Handlers)
      BY DEF RawTypeOK
    <3>2. Append(asked, h) \in Seq(Handlers)
      BY <3>1
    <3>3. QED
      BY <2>1, <3>1, <3>2
  <2>3. RawTypeOK'
    BY <1>2, <2>1, <2>2 DEF RawTypeOK
  <2>4. LookingInv'
    BY <1>1, <2>1 DEF LookingInv, Looking, RawTypeOK
  <2>5. HandlerInv'
    BY <1>1, <1>2, <2>1 DEF HandlerInv, Consistent, ShouldEcho, RawTypeOK
  <2>6. QED
    BY <1>3, <2>3, <2>4, <2>5
<1>10. CASE Echo(h)
  <2> USE <1>10 DEF Echo
  <2>1. RawTypeOK'
    BY DEF RawTypeOK, ShouldEcho
  <2>2. LookingInv' /\ HandlerInv'
    BY <1>1 DEF LookingInv, HandlerInv, Looking, Consistent, ShouldEcho, RawTypeOK
  <2>3. QED
    BY <1>3, <2>1, <2>2
<1>11. CASE TakeNick(h) \/ RefuseNick(h)
  <2> USE <1>11 DEF TakeNick, RefuseNick, Answers
  <2>1. /\ asked # <<>> /\ asked' = Tail(asked)
        /\ UNCHANGED <<hpc, echoAcked, loaded, queuedOn, echoed>>
        /\ configNick' \in {configNick, h}
        /\ requestedNick' \in {requestedNick, NoNick}
    OBVIOUS
  <2> HIDE <1>11 DEF TakeNick, RefuseNick, Answers
  <2>2. asked' \in Seq(Handlers)
    BY <2>1 DEF RawTypeOK
  <2>3. RawTypeOK'
    BY <1>2, <2>1, <2>2 DEF RawTypeOK
  <2>4. LookingInv' /\ HandlerInv'
    BY <1>1, <1>2, <2>1 DEF LookingInv, HandlerInv, Looking, Consistent, ShouldEcho
  <2>5. QED
    BY <1>3, <2>3, <2>4
<1>12. QED
  BY <1>5, <1>6, <1>7, <1>8, <1>9, <1>10, <1>11 DEF RawStep

\* The connection's invariant and the handlers' hold together in every state.
THEOREM RawInvariance == RawSpec => [](IInv /\ RawIInv)
<1>1. RawInit => IInv /\ RawIInv
  BY InitIInv, RawInitInv DEF RawInit
<1>2. IInv /\ RawIInv /\ [RawNext]_<<vars, rawVars>> => (IInv /\ RawIInv)'
  <2> SUFFICES ASSUME IInv, RawIInv, [RawNext]_<<vars, rawVars>>
               PROVE  IInv' /\ RawIInv'
    OBVIOUS
  <2>1. [Next]_vars
    BY DEF RawNext, ClientStep
  <2>2. IInv'
    BY <2>1, NextTypeOK, NextMutexInv, NextAttemptInv, NextEndInv,
       NextConnectingInv, NextCallbackInv, NextSenderInv
    DEF IInv
  <2>3. CASE UNCHANGED <<vars, rawVars>>
    <3>1. /\ UNCHANGED <<conn, registered, pc, sender, caps, setUp, hpc, kind>>
          /\ UNCHANGED <<echoAcked, loaded, queuedOn, echoed>>
          /\ UNCHANGED <<requestedNick, configNick, asked>>
      BY <2>3 DEF vars, rawVars, clientVars, reportVars, lineVars, nickVars
    <3>2. RawTypeOK' /\ RegisteredInv' /\ LookingInv'
      BY <3>1 DEF RawIInv, RawTypeOK, RegisteredInv, LookingInv, Looking, Connect
    <3>3. HandlerInv'
      BY <3>1 DEF RawIInv, HandlerInv, Consistent, ShouldEcho
    <3>4. QED
      BY <2>2, <3>2, <3>3 DEF RawIInv
  <2>4. QED
    BY <2>2, <2>3, ClientStepInv, RawStepInv DEF RawNext
<1>3. QED
  BY <1>1, <1>2, PTL DEF RawSpec

\* A message the API queued shows up once, and one that was dropped not at
\* all, whatever happens to the attempt between the handler's looks.
THEOREM EchoedOnceHolds == RawSpec => []EchoedOnce
<1>1. RawIInv => EchoedOnce
  BY DEF RawIInv, RawTypeOK, HandlerInv, Consistent, ShouldEcho, EchoedOnce,
         NoAttempt, Attempts
<1>2. QED
  BY <1>1, RawInvariance, PTL

\* No line is queued for an attempt that is not set up.
THEOREM QueuedOnceSetUpHolds == RawSpec => []QueuedOnceSetUp
<1>1. RawIInv => QueuedOnceSetUp
  BY DEF RawIInv, HandlerInv, Consistent, QueuedOnceSetUp
<1>2. QED
  BY <1>1, RawInvariance, PTL

\* Every variable of the handlers keeps its type.
THEOREM RawTypeCorrect == RawSpec => []RawTypeOK
<1>1. RawIInv => RawTypeOK
  BY DEF RawIInv
<1>2. QED
  BY <1>1, RawInvariance, PTL

-----------------------------------------------------------------------------
(* One request for a nick                                                  *)

\* From the check to the echo the client keeps the nick that was asked for,
\* and so it does until the server has answered the line.
NickInv ==
  /\ \A h \in Handlers :
       kind[h] = "nick" /\ hpc[h] \in {"readCaps", "send", "queue"} =>
         requestedNick = h
  /\ asked = <<>> \/ \E h \in Handlers :
       asked = <<h>> /\ requestedNick = h /\ hpc[h] \in {"echo", "answered"}

\* An attempt that begins takes the lines queued for an earlier one with it.
LEMMA ClientStepNickInv ==
  ASSUME IInv, RawTypeOK, NickInv, ClientStep
  PROVE  NickInv'
<1> USE DEF ClientStep
<1>1. UNCHANGED <<kind, hpc>>
  BY DEF lineVars
<1>2. CASE attemptDone' = attemptDone
  BY <1>1, <1>2 DEF NickInv
<1>3. CASE attemptDone' # attemptDone
  <2>1. PICK a \in 0 .. MaxAttempts : BeginAttempt(a) /\ ~quitting
    BY <1>3, OnlyConnectDials
  <2>2. conn = NoAttempt /\ conn' = attemptDone + 1 /\ attemptDone \in Nat
    <3>1. conn = NoAttempt /\ attemptDone \in Nat
      BY <2>1, BeginFacts DEF IInv, TypeOK
    <3>2. conn' = attemptDone + 1
      BY <2>1 DEF BeginAttempt
    <3>3. QED
      BY <3>1, <3>2
  <2>3. asked' = <<>>
    BY <2>2 DEF NoAttempt
  <2>4. \A h \in Handlers : hpc'[h] \notin {"readCaps", "send", "queue"}
    BY <1>1, <1>3 DEF Prompt
  <2>5. QED
    BY <2>3, <2>4 DEF NickInv
<1>4. QED
  BY <1>2, <1>3

\* The server answers the one request there is, and then there is none.
LEMMA RawStepNickInv ==
  ASSUME \A g, h \in Handlers : g = h, RawTypeOK, NickInv,
         NEW h \in Handlers, RawStep(h)
  PROVE  NickInv'
<1> USE DEF lineVars, nickVars, HandlerStep, StepAfter
<1>1. UNCHANGED kind /\ hpc \in [Handlers -> {"idle", "check", "requestNick",
        "readCaps", "send", "queue", "echo", "answered", "refused"}]
  BY DEF RawStep, Receive, Refuse, Accept, RequestNick, CapEnabled, SendLoads,
         SendDrops, SendQueues, Echo, TakeNick, RefuseNick, RawTypeOK
<1>2. asked = <<>> \/ (asked = <<h>> /\ requestedNick = h /\ hpc[h] \in {"echo", "answered"})
  BY DEF NickInv
<1>3. SUFFICES
        /\ kind[h] = "nick" /\ hpc'[h] \in {"readCaps", "send", "queue"} =>
             requestedNick' = h
        /\ asked' = <<>> \/ (asked' = <<h>> /\ requestedNick' = h
                               /\ hpc'[h] \in {"echo", "answered"})
  BY <1>1 DEF NickInv
<1>4. CASE Receive(h) \/ Refuse(h) \/ Accept(h) \/ RequestNick(h)
  BY <1>1, <1>2, <1>4 DEF Receive, Refuse, Accept, RequestNick
<1>5. CASE CapEnabled(h) \/ SendLoads(h) \/ SendDrops(h) \/ Echo(h)
  BY <1>1, <1>2, <1>5 DEF CapEnabled, SendLoads, SendDrops, Echo, NickInv
<1>6. CASE SendQueues(h)
  <2>1. /\ hpc[h] = "queue" /\ hpc'[h] = "echo" /\ requestedNick' = requestedNick
        /\ asked' = asked \/ (kind[h] = "nick" /\ asked' = Append(asked, h))
    BY <1>1, <1>6 DEF SendQueues
  <2>2. asked = <<>> /\ Append(<<>>, h) = <<h>>
    BY <1>2, <2>1
  <2>3. kind[h] = "nick" => requestedNick = h
    BY <2>1 DEF NickInv
  <2>4. QED
    BY <2>1, <2>2, <2>3
<1>7. CASE TakeNick(h) \/ RefuseNick(h)
  <2>1. asked # <<>> /\ asked' = Tail(asked) /\ hpc' = hpc
    BY <1>7 DEF TakeNick, RefuseNick, Answers
  <2>2. Tail(<<h>>) = <<>>
    OBVIOUS
  <2>3. QED
    BY <1>2, <2>1, <2>2
<1>8. QED
  BY <1>4, <1>5, <1>6, <1>7 DEF RawStep

LEMMA NickInvariance ==
  ASSUME \A g, h \in Handlers : g = h
  PROVE  RawSpec => []NickInv
<1>1. RawInit => NickInv
  BY DEF RawInit, NickInv
<1>2. IInv /\ RawIInv /\ NickInv /\ [RawNext]_<<vars, rawVars>> => NickInv'
  <2> SUFFICES ASSUME IInv, RawIInv, NickInv, [RawNext]_<<vars, rawVars>>
               PROVE  NickInv'
    OBVIOUS
  <2>1. RawTypeOK
    BY DEF RawIInv
  <2>2. CASE ClientStep
    BY <2>1, <2>2, ClientStepNickInv
  <2>3. ASSUME NEW h \in Handlers, RawStep(h) PROVE NickInv'
    BY <2>1, <2>3, RawStepNickInv
  <2>4. CASE UNCHANGED <<vars, rawVars>>
    BY <2>4 DEF NickInv, rawVars, lineVars, nickVars
  <2>5. QED
    BY <2>2, <2>3, <2>4 DEF RawNext
<1>3. QED
  BY <1>1, <1>2, RawInvariance, PTL DEF RawSpec

\* A nick that the server takes for the one request made of it is saved: it
\* is still the nick the client was told of when its answer comes.
THEOREM TakenNickIsSavedAlone ==
  ASSUME \A g, h \in Handlers : g = h
  PROVE  RawSpec => TakenNickIsSaved
<1> DEFINE Saved == \A h \in Handlers : TakeNick(h) => configNick' = h
<1>1. NickInv /\ [RawNext]_<<vars, rawVars>> => [Saved]_<<vars, rawVars>>
  BY DEF NickInv, TakeNick, Answers
<1>2. QED
  BY <1>1, NickInvariance, PTL DEF RawSpec, TakenNickIsSaved
=============================================================================
