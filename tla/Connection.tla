----------------------------- MODULE Connection -----------------------------
(***************************************************************************)
(* The lifecycle of one IRCClient (pkg/lierc/connection.go): its connection *)
(* attempts one after another, the two goroutines that may report the end  *)
(* of an attempt, the reconnect timers, and the callers of Destroy.         *)
(*                                                                         *)
(* A section of the code under c.Lock is one step.  A section under         *)
(* statusMu is two, decide and send, with c unlocked in between; a step     *)
(* that takes statusMu waits until it is free.  What an attempt's irc-go    *)
(* connection does (dial, registration, reader, callbacks) is external.     *)
(***************************************************************************)
EXTENDS Naturals

CONSTANTS MaxAttempts,  \* bound on connection attempts
          Destroyers    \* the goroutines that call Destroy

ASSUME MaxAttemptsAssumption == MaxAttempts \in Nat \ {0}

Attempts == 1 .. MaxAttempts
NoAttempt == 0

\* Who may run endAttempt for an attempt: the goroutine of connect, when
\* Connect fails, and irc-go's disconnect callback.
Reports == Attempts \X {"connect", "callback"}
Connect(a) == <<a, "connect">>
Callback(a) == <<a, "callback">>

\* "Ended" stands for every error text an attempt can end with.
Messages == {"Connecting", "Connected", "Ended", "Stopped", "GaveUp",
             "Reconnecting", "Closing"}
Status == [msg : Messages, connected : BOOLEAN]

VARIABLES
  conn,         \* the attempt c.conn belongs to, or NoAttempt for nil
  socket,       \* the attempt c.socket belongs to, or NoAttempt for nil
  attemptDone,  \* the last attempt begun, whose channel c.attemptDone is
  closed,       \* the attempts whose done channel is closed
  registered,   \* c.Registered
  welcomed,     \* c.welcomedAt is set
  gaveUp,       \* c.gaveUp is set
  stopped,      \* c.stopped is set
  quitting,     \* c.quitting
  retries,      \* c.Retries
  status,       \* c.StatusMessage and c.Connected
  statusMu,     \* statusMu is held
  published,    \* the last status given to the sink
  sender,       \* the attempt whose sender c.sender points to
  timer,        \* the attempt whose end set c.timer
  callback,     \* the goroutine that will call connect after each attempt
  wire,         \* each attempt's socket and irc-go's reader on it
  pc,           \* where each report's goroutine is
  out,          \* the status a report's goroutine has decided on
  dpc,          \* where each Destroy is
  dout,         \* the status a Destroy has decided on
  awaited       \* the attempt whose done channel a Destroy waits for

clientVars == <<conn, socket, registered, welcomed, gaveUp>>
faultVars == <<stopped, quitting>>
retryVars == <<retries, timer, callback>>
doneVars == <<attemptDone, closed>>
statusVars == <<status, statusMu, published>>
reportVars == <<pc, out>>
destroyVars == <<dpc, dout, awaited>>
vars == <<clientVars, faultVars, retryVars, doneVars, statusVars, sender, wire,
          reportVars, destroyVars>>

-----------------------------------------------------------------------------
\* NewIRCClient has published "Connecting"; the client is listed and Start
\* has not run yet, or has: callback[0] is the goroutine of Start.
Init ==
  /\ conn = NoAttempt /\ socket = NoAttempt
  /\ attemptDone = NoAttempt /\ closed = {NoAttempt}
  /\ registered = FALSE /\ welcomed = FALSE /\ gaveUp = FALSE
  /\ stopped = FALSE /\ quitting = FALSE
  /\ retries = 0
  /\ status = [msg |-> "Connecting", connected |-> FALSE]
  /\ statusMu = FALSE
  /\ published = status
  /\ sender = NoAttempt
  /\ timer = NoAttempt
  /\ callback = [a \in 0 .. MaxAttempts |-> IF a = 0 THEN "armed" ELSE "none"]
  /\ wire = [a \in Attempts |-> "none"]
  /\ pc = [r \in Reports |-> "idle"]
  /\ out = [r \in Reports |-> status]
  /\ dpc = [d \in Destroyers |-> "idle"]
  /\ dout = [d \in Destroyers |-> status]
  /\ awaited = [d \in Destroyers |-> NoAttempt]

-----------------------------------------------------------------------------
(* Helpers                                                                 *)

Goto(r, from, to) == pc[r] = from /\ pc' = [pc EXCEPT ![r] = to]
DGoto(d, from, to) == dpc[d] = from /\ dpc' = [dpc EXCEPT ![d] = to]

LockIgnored == statusMu' = TRUE                                    \* mutant
Lock == ~statusMu /\ statusMu' = TRUE
Unlock == statusMu' = FALSE

LeaveWire(a) == wire' = wire                                       \* mutant
\* Closing a socket; one the reader has already left is left alone.
CloseWire(a) ==
  wire' = [b \in Attempts |->
             IF b = a /\ wire[b] = "open" THEN "closed" ELSE wire[b]]

\* irc-go's reader hands lines over until it notices the socket is closed.
Reading(a) ==
  wire[a] \in {"open", "closed"} /\ pc[Connect(a)] \notin {"onConnected",
                                              "storeSender", "sendConnected"}

-----------------------------------------------------------------------------
(* The timers and the start of an attempt                                  *)

\* The delay is over, or Start was called: the callback runs.
TimerFires(a) ==
  /\ callback[a] = "armed"
  /\ callback' = [callback EXCEPT ![a] = "fired"]
  /\ UNCHANGED <<clientVars, faultVars, retries, timer, doneVars, statusVars,
                 sender, wire, reportVars, destroyVars>>

NoWait(prev) == TRUE                                               \* mutant
PreviousIsOver(prev) == prev \in closed

\* The callback has waited for the previous attempt's done and calls
\* connect, which returns at once when the client is quitting.
BeginAttempt(prev) ==
  LET a == attemptDone + 1 IN
  /\ callback[prev] = "fired" /\ PreviousIsOver(prev)
  /\ callback' = [callback EXCEPT ![prev] = "spent"]
  /\ IF quitting
     THEN UNCHANGED <<clientVars, doneVars, reportVars>>
     ELSE /\ a \in Attempts                    \* the bound on attempts
          /\ conn' = a /\ socket' = NoAttempt
          /\ attemptDone' = a
          /\ registered' = FALSE /\ welcomed' = FALSE /\ gaveUp' = FALSE
          /\ Goto(Connect(a), "idle", "dialing")
          /\ UNCHANGED <<closed, out>>
  /\ UNCHANGED <<faultVars, retries, timer, statusVars, sender, wire,
                 destroyVars>>

-----------------------------------------------------------------------------
(* The goroutine of connect                                                *)

DialSucceeds(a) ==
  /\ Goto(Connect(a), "dialing", "onConnected")
  /\ wire' = [wire EXCEPT ![a] = "open"]
  /\ UNCHANGED <<clientVars, faultVars, retryVars, doneVars, statusVars,
                 sender, out, destroyVars>>

\* A network error, a timeout, or the cancel of Destroy.
DialFails(a) ==
  /\ Goto(Connect(a), "dialing", "endAttempt")
  /\ UNCHANGED <<clientVars, faultVars, retryVars, doneVars, statusVars,
                 sender, wire, out, destroyVars>>

\* onConnected when Destroy came first: close the socket, do not register.
OnConnectedTooLate(a) ==
  /\ Goto(Connect(a), "onConnected", "registering")
  /\ ~statusMu
  /\ conn # a \/ quitting
  /\ CloseWire(a)
  /\ UNCHANGED <<clientVars, faultVars, retryVars, doneVars, statusVars,
                 sender, out, destroyVars>>

OnConnected(a) ==
  /\ Goto(Connect(a), "onConnected", "storeSender")
  /\ Lock
  /\ conn = a /\ ~quitting
  /\ socket' = a
  /\ status' = [msg |-> "Connected", connected |-> TRUE]
  /\ out' = [out EXCEPT ![Connect(a)] = status']
  /\ UNCHANGED <<conn, registered, welcomed, gaveUp, faultVars, retryVars,
                 doneVars, published, sender, wire, destroyVars>>

StoreSender(a) ==
  /\ Goto(Connect(a), "storeSender", "sendConnected")
  /\ sender' = a
  /\ UNCHANGED <<clientVars, faultVars, retryVars, doneVars, statusVars, wire,
                 out, destroyVars>>

SendConnected(a) ==
  /\ Goto(Connect(a), "sendConnected", "registering")
  /\ published' = out[Connect(a)]
  /\ Unlock
  /\ UNCHANGED <<clientVars, faultVars, retryVars, doneVars, status, sender,
                 wire, out, destroyVars>>

\* irc-go has registered: Connect is about to return without an error.  The
\* reader has run our handler of 001 by then, unless the attempt is over.
RegistrationEnds(a) ==
  /\ Reading(a)
  /\ conn = a => welcomed
  /\ Goto(Connect(a), "registering", "finishSetup")
  /\ UNCHANGED <<clientVars, faultVars, retryVars, doneVars, statusVars,
                 sender, wire, out, destroyVars>>

\* Connect returns an error: the socket ended, or the server took too long.
RegistrationFails(a) ==
  /\ Goto(Connect(a), "registering", "endAttempt")
  /\ UNCHANGED <<clientVars, faultVars, retryVars, doneVars, statusVars,
                 sender, wire, out, destroyVars>>

FinishSetup(a) ==
  /\ Goto(Connect(a), "finishSetup", "over")
  /\ registered' = (registered \/ conn = a)
  /\ UNCHANGED <<conn, socket, welcomed, gaveUp, faultVars, retryVars,
                 doneVars, statusVars, sender, wire, out, destroyVars>>

-----------------------------------------------------------------------------
(* The reader of an attempt, and the handlers it runs                      *)

\* run: a handler's message counts only while its connection is c's.
AnyAttempt(a) == TRUE                                              \* mutant
IsCurrent(a) == conn = a

OnWelcome(a) ==
  /\ Reading(a) /\ IsCurrent(a)
  /\ welcomed' = TRUE
  /\ UNCHANGED <<conn, socket, registered, gaveUp, faultVars, retryVars,
                 doneVars, statusVars, sender, wire, reportVars, destroyVars>>

\* The server allows no nick we could try: onNickRefused ends in stop.
Stop(a) ==
  /\ Reading(a) /\ IsCurrent(a) /\ ~welcomed
  /\ stopped' = TRUE
  /\ CloseWire(socket)
  /\ UNCHANGED <<clientVars, quitting, retryVars, doneVars, statusVars,
                 sender, reportVars, destroyVars>>

\* Too many nicks refused: onNickRefused ends in giveUp.
GiveUp(a) ==
  /\ Reading(a) /\ IsCurrent(a) /\ ~welcomed
  /\ gaveUp' = TRUE
  /\ CloseWire(socket)
  /\ UNCHANGED <<conn, socket, registered, welcomed, faultVars, retryVars,
                 doneVars, statusVars, sender, reportVars, destroyVars>>

\* The server ends the connection, after QUIT or of its own accord.
ServerDrops(a) ==
  /\ Reading(a) /\ wire[a] = "open"
  /\ wire' = [wire EXCEPT ![a] = "ended"]
  /\ UNCHANGED <<clientVars, faultVars, retryVars, doneVars, statusVars,
                 sender, reportVars, destroyVars>>

ReaderEnds(a) ==
  /\ Reading(a) /\ wire[a] = "closed"
  /\ wire' = [wire EXCEPT ![a] = "ended"]
  /\ UNCHANGED <<clientVars, faultVars, retryVars, doneVars, statusVars,
                 sender, reportVars, destroyVars>>

DisconnectCallback(a) ==
  /\ wire[a] = "ended"
  /\ Goto(Callback(a), "idle", "endAttempt")
  /\ UNCHANGED <<clientVars, faultVars, retryVars, doneVars, statusVars,
                 sender, wire, out, destroyVars>>

-----------------------------------------------------------------------------
(* endAttempt, by report r                                                 *)

KeepSender(a) == sender' = sender                                  \* mutant
CompareAndClear(a) == sender' = IF sender = a THEN NoAttempt ELSE sender

DropSender(r) ==
  /\ Goto(r, "endAttempt", "detach")
  /\ CompareAndClear(r[1])
  /\ UNCHANGED <<clientVars, faultVars, retryVars, doneVars, statusVars, wire,
                 out, destroyVars>>

\* The other report of the same end came first.
AlreadyEnded(r) ==
  /\ Goto(r, "detach", "over")
  /\ conn # r[1]
  /\ UNCHANGED <<clientVars, faultVars, retryVars, doneVars, statusVars,
                 sender, wire, out, destroyVars>>

EndReason == IF stopped THEN "Stopped" ELSE IF gaveUp THEN "GaveUp" ELSE "Ended"

\* The section itself, which a mutant runs without its check.
DetachUnchecked(r) ==
  /\ Goto(r, "detach", "closeSocket")
  /\ conn' = NoAttempt /\ registered' = FALSE
  /\ out' = [out EXCEPT ![r] = [msg |-> EndReason, connected |-> FALSE]]
  /\ socket' = NoAttempt
  /\ UNCHANGED <<welcomed, gaveUp, faultVars, retryVars, doneVars, statusVars,
                 sender, wire, destroyVars>>

Detach(r) == conn = r[1] /\ DetachUnchecked(r)

\* Detach took the socket c had, which was the attempt's own.
CloseSocket(r) ==
  /\ Goto(r, "closeSocket", "setStatus")
  /\ CloseWire(r[1])
  /\ UNCHANGED <<clientVars, faultVars, retryVars, doneVars, statusVars,
                 sender, out, destroyVars>>

SetStatus(r) ==
  /\ Goto(r, "setStatus", "sendEnded")
  /\ Lock
  /\ status' = out[r]
  /\ UNCHANGED <<clientVars, faultVars, retryVars, doneVars, published, sender,
                 wire, out, destroyVars>>

SendEnded(r) ==
  /\ Goto(r, "sendEnded", "decideRetry")
  /\ published' = out[r]
  /\ Unlock
  /\ UNCHANGED <<clientVars, faultVars, retryVars, doneVars, status, sender,
                 wire, out, destroyVars>>

RetryWhenQuitting == ~stopped                                      \* mutant
NoRetryAfterGiveUp == ~quitting /\ ~stopped /\ ~gaveUp             \* mutant
MayRetry == ~quitting /\ ~stopped

NoRetry(r) ==
  /\ Goto(r, "decideRetry", "closeDone")
  /\ ~statusMu
  /\ ~MayRetry
  /\ UNCHANGED <<clientVars, faultVars, retryVars, doneVars, statusVars,
                 sender, wire, out, destroyVars>>

\* lasted: the server's welcome is at least stableAfter ago.
NextRetries(lasted) == (IF lasted THEN 0 ELSE retries) + 1

Retry(r) ==
  /\ Goto(r, "decideRetry", "sendRetry")
  /\ Lock
  /\ MayRetry
  /\ \E lasted \in {FALSE, welcomed} : retries' = NextRetries(lasted)
  /\ timer' = r[1]
  /\ callback' = [callback EXCEPT ![r[1]] = "armed"]
  /\ status' = [msg |-> "Reconnecting", connected |-> FALSE]
  /\ out' = [out EXCEPT ![r] = status']
  /\ UNCHANGED <<clientVars, faultVars, doneVars, published, sender, wire,
                 destroyVars>>

SendRetry(r) ==
  /\ Goto(r, "sendRetry", "closeDone")
  /\ published' = out[r]
  /\ Unlock
  /\ UNCHANGED <<clientVars, faultVars, retryVars, doneVars, status, sender,
                 wire, out, destroyVars>>

CloseDone(r) ==
  /\ Goto(r, "closeDone", "over")
  /\ closed' = closed \cup {r[1]}
  /\ UNCHANGED <<clientVars, faultVars, retryVars, attemptDone, statusVars,
                 sender, wire, out, destroyVars>>

-----------------------------------------------------------------------------
(* Destroy, by d                                                           *)

DecideClosing(d) ==
  /\ DGoto(d, "idle", "sendClosing")
  /\ Lock
  /\ quitting' = TRUE
  /\ callback' = [callback EXCEPT ![timer] =
                    IF @ = "armed" /\ timer # NoAttempt THEN "stopped" ELSE @]
  /\ awaited' = [awaited EXCEPT ![d] = attemptDone]
  /\ status' = [status EXCEPT !.msg = "Closing"]
  /\ dout' = [dout EXCEPT ![d] = status']
  /\ UNCHANGED <<clientVars, stopped, retries, timer, doneVars, published,
                 sender, wire, reportVars>>

SendClosing(d) ==
  /\ DGoto(d, "sendClosing", "wait")
  /\ published' = dout[d]
  /\ Unlock
  /\ UNCHANGED <<clientVars, faultVars, retryVars, doneVars, status, sender,
                 wire, reportVars, dout, awaited>>

\* destroyTimeout is over: the server ignored QUIT, so close the socket.
DestroyTimeout(d) ==
  /\ DGoto(d, "wait", "waitOn")
  /\ CloseWire(socket)
  /\ UNCHANGED <<clientVars, faultVars, retryVars, doneVars, statusVars,
                 sender, reportVars, dout, awaited>>

ReturnAnyway(d) == TRUE                                            \* mutant
HasEnded(d) == awaited[d] \in closed

AttemptHasEnded(d) ==
  /\ DGoto(d, "wait", "swapSender") \/ DGoto(d, "waitOn", "swapSender")
  /\ HasEnded(d)
  /\ UNCHANGED <<clientVars, faultVars, retryVars, doneVars, statusVars,
                 sender, wire, reportVars, dout, awaited>>

SwapSender(d) ==
  /\ DGoto(d, "swapSender", "returned")
  /\ sender' = NoAttempt
  /\ UNCHANGED <<clientVars, faultVars, retryVars, doneVars, statusVars, wire,
                 reportVars, dout, awaited>>

-----------------------------------------------------------------------------
ConnectStep(a) ==
  \/ DialSucceeds(a) \/ DialFails(a)
  \/ OnConnectedTooLate(a) \/ OnConnected(a) \/ StoreSender(a)
  \/ SendConnected(a)
  \/ RegistrationEnds(a) \/ RegistrationFails(a) \/ FinishSetup(a)

ReaderStep(a) ==
  \/ OnWelcome(a) \/ Stop(a) \/ GiveUp(a)
  \/ ServerDrops(a) \/ ReaderEnds(a) \/ DisconnectCallback(a)

EndStep(r) ==
  \/ DropSender(r) \/ AlreadyEnded(r) \/ Detach(r) \/ CloseSocket(r)
  \/ SetStatus(r) \/ SendEnded(r) \/ NoRetry(r) \/ Retry(r) \/ SendRetry(r)
  \/ CloseDone(r)

DestroyStep(d) ==
  \/ DecideClosing(d) \/ SendClosing(d) \/ DestroyTimeout(d)
  \/ AttemptHasEnded(d) \/ SwapSender(d)

Next ==
  \/ \E a \in 0 .. MaxAttempts : TimerFires(a) \/ BeginAttempt(a)
  \/ \E a \in Attempts : ConnectStep(a) \/ ReaderStep(a)
  \/ \E r \in Reports : EndStep(r)
  \/ \E d \in Destroyers : DestroyStep(d)

Spec == Init /\ [][Next]_vars

\* Goroutines run, a mutex is handed to whoever waits for it, a timer fires, a
\* dial and a registration time out, and a reader sees its socket closed.
\* Nothing is assumed of the server or of the users.  Once irc-go has
\* registered, a lost socket is reported by the disconnect callback.
Fairness ==
  /\ \A a \in 0 .. MaxAttempts : WF_vars(TimerFires(a)) /\ WF_vars(BeginAttempt(a))
  /\ \A a \in Attempts :
       /\ WF_vars(ConnectStep(a))
       /\ WF_vars(ReaderEnds(a))
       /\ WF_vars(DisconnectCallback(a) /\ pc[Connect(a)] \in {"finishSetup", "over"})
  /\ \A r \in Reports : WF_vars(EndStep(r))
  /\ \A d \in Destroyers : WF_vars(dpc[d] # "idle" /\ DestroyStep(d))

FairSpec == Spec /\ Fairness

-----------------------------------------------------------------------------
(* Properties                                                              *)

ConnectPcs == {"idle", "dialing", "onConnected", "storeSender", "sendConnected",
               "registering", "finishSetup"}
EndingPcs == {"closeSocket", "setStatus", "sendEnded", "decideRetry",
              "sendRetry", "closeDone"}
Pcs == ConnectPcs \cup {"endAttempt", "detach"} \cup EndingPcs \cup {"over"}
DestroyPcs == {"idle", "sendClosing", "wait", "waitOn", "swapSender", "returned"}

\* Every variable keeps its type.
TypeOK ==
  /\ conn \in 0 .. MaxAttempts /\ socket \in 0 .. MaxAttempts
  /\ attemptDone \in 0 .. MaxAttempts /\ closed \subseteq 0 .. MaxAttempts
  /\ registered \in BOOLEAN /\ welcomed \in BOOLEAN /\ gaveUp \in BOOLEAN
  /\ stopped \in BOOLEAN /\ quitting \in BOOLEAN
  /\ retries \in Nat
  /\ status \in Status /\ statusMu \in BOOLEAN /\ published \in Status
  /\ sender \in 0 .. MaxAttempts /\ timer \in 0 .. MaxAttempts
  /\ callback \in [0 .. MaxAttempts -> {"none", "armed", "fired", "stopped", "spent"}]
  /\ wire \in [Attempts -> {"none", "open", "closed", "ended"}]
  /\ pc \in [Reports -> Pcs] /\ out \in [Reports -> Status]
  /\ dpc \in [Destroyers -> DestroyPcs] /\ dout \in [Destroyers -> Status]
  /\ awaited \in [Destroyers -> 0 .. MaxAttempts]

\* Whenever statusMu is free, the last status published is the client's
\* status: what a "status" command answers and what subscribers saw agree,
\* whoever raced to publish.
PublishedIsStatus == ~statusMu => published = status

\* Connect's error and the disconnect callback can both report the end of an
\* attempt, but only one carries it out, and its done channel, which panics
\* when closed twice, is closed once.
EndedOnce ==
  \A a \in Attempts :
    /\ ~(pc[Connect(a)] \in EndingPcs /\ pc[Callback(a)] \in EndingPcs)
    /\ a \in closed => \A r \in {Connect(a), Callback(a)} : pc[r] \notin EndingPcs

\* An attempt begins only after the previous one has published its statuses,
\* even when the timer fired before they were.
AttemptsDoNotOverlap ==
  \A a, b \in Attempts :
    a < b /\ pc[Connect(b)] # "idle" =>
      /\ a \in closed
      /\ \A r \in {Connect(a), Callback(a)} : pc[r] \notin EndingPcs

\* c.sender never points to the queue of an attempt that has ended, so a line
\* is never accepted for a connection that is gone.
SenderIsLive == sender # NoAttempt => sender = conn

\* Once Destroy has returned the connection is down for good: no attempt, no
\* open socket, no sender, and a status that says not connected.
DestroyedIsDown ==
  (\E d \in Destroyers : dpc[d] = "returned") =>
    /\ conn = NoAttempt /\ socket = NoAttempt /\ sender = NoAttempt
    /\ ~registered /\ ~status.connected
    /\ \A a \in Attempts : wire[a] # "open"

\* A client that stopped shows why once its attempt has ended, until it is
\* destroyed.
StopReasonShown ==
  stopped /\ attemptDone \in closed => status.msg \in {"Stopped", "Closing"}

\* A client that stopped never begins another attempt (part of ClientLife).
StoppedStaysDown == [][stopped => attemptDone' = attemptDone]_vars

\* Something is always to come, as Destroy and the users rely on: an attempt
\* that is not over has a goroutine that will end it, or a disconnect callback
\* that has yet to run; a client that is down has a reconnect pending, unless
\* it was stopped or destroyed; and a mutex that is held has a holder.
NeverStranded ==
  /\ attemptDone \notin closed =>
       \/ pc[Connect(attemptDone)] \notin {"idle", "over"}
       \/ pc[Callback(attemptDone)] \notin {"idle", "over"}
       \/ pc[Callback(attemptDone)] = "idle" /\ wire[attemptDone] # "none"
  /\ attemptDone \in closed =>
       stopped \/ quitting \/ callback[attemptDone] \in {"armed", "fired"}
  /\ statusMu =>
       \/ \E r \in Reports : pc[r] \in {"storeSender", "sendConnected", "sendEnded",
                                       "sendRetry"}
       \/ \E d \in Destroyers : dpc[d] = "sendClosing"

\* What subscribers see is a legal sequence of statuses.
Closing == \E d \in Destroyers : dpc[d] \in DestroyPcs \ {"idle", "sendClosing"}
Feed == INSTANCE StatusFeed WITH shown <- published, closing <- Closing
ImplementsFeed == Feed!Spec

\* The client's life is the one that liercd's manager and identd rely on.
Phase ==
  IF attemptDone \in closed THEN "waiting"
  ELSE IF conn = NoAttempt THEN "closing"
  ELSE IF socket = conn THEN "open"
  ELSE IF wire[conn] = "none" THEN "dialing" ELSE "accepted"
Returned == \E d \in Destroyers : dpc[d] = "returned"
Life == INSTANCE ClientLife WITH phase <- Phase, returned <- Returned
ImplementsLife == Life!Spec

\* Destroy returns, whatever the server does.
DestroyReturns ==
  \A d \in Destroyers : dpc[d] # "idle" ~> dpc[d] = "returned"

\* A client that lost its connection tries again, unless it was stopped or
\* destroyed.
LostIsRetried ==
  \A a \in 1 .. MaxAttempts - 1 :
    pc[Connect(a)] = "over" /\ wire[a] \in {"none", "ended"} ~>
      attemptDone > a \/ stopped \/ quitting
=============================================================================
