------------------------------ MODULE RawCommand ------------------------------
(***************************************************************************)
(* The API's raw action (pkg/liercd/manager.go) on one client: a goroutine *)
(* per request checks that the client is registered, records a nick asked  *)
(* for, reads the acked caps, queues the line and echoes it, each a        *)
(* separate look at a client whose attempts come and go meanwhile          *)
(* (Connection).  What the server answers to a NICK is handled by onNick   *)
(* and endNickRequest (pkg/lierc/events.go).                               *)
(***************************************************************************)
EXTENDS Connection, Sequences

CONSTANTS Handlers   \* the requests; h's NICK line asks for a nick of its own

NoNick == "none"
ConfiguredNick == "configured"
Kinds == {"message", "nick"}

VARIABLES
  caps,           \* the attempts whose server acks echo-message
  setUp,          \* history: the attempts finishSetup ran for
  hpc,            \* where each handler is
  kind,           \* what each handler's line is
  echoAcked,      \* each handler's echoAcked
  loaded,         \* the attempt whose sender a handler's Send loaded
  queuedOn,       \* the attempt a handler's line was queued for
  echoed,         \* the handlers that echoed their line
  requestedNick,  \* c.requestedNick, as the handler that asked
  configNick,     \* c.Config.Nick, likewise
  asked           \* the NICK lines the server has not answered, in order

lineVars == <<kind, echoAcked, loaded, queuedOn, echoed>>
nickVars == <<requestedNick, configNick, asked>>
rawVars == <<caps, setUp, hpc, lineVars, nickVars>>

RawInit ==
  /\ Init
  /\ caps \in SUBSET Attempts
  /\ setUp = {}
  /\ hpc = [h \in Handlers |-> "idle"]
  /\ kind \in [Handlers -> Kinds]
  /\ echoAcked = [h \in Handlers |-> FALSE]
  /\ loaded = [h \in Handlers |-> NoAttempt]
  /\ queuedOn = [h \in Handlers |-> NoAttempt]
  /\ echoed = {}
  /\ requestedNick = NoNick /\ configNick = ConfiguredNick
  /\ asked = <<>>

-----------------------------------------------------------------------------
(* The handler                                                             *)

\* The order of the handler's looks at the client.
RequestLast == [check |-> "readCaps", readCaps |-> "send", queue |-> "requestNick",
                requestNick |-> "echo", echo |-> "answered"]       \* mutant
CapsLast == [check |-> "requestNick", requestNick |-> "send", queue |-> "readCaps",
             readCaps |-> "echo", echo |-> "answered"]             \* mutant
StepAfter == [check |-> "requestNick", requestNick |-> "readCaps",
              readCaps |-> "send", queue |-> "echo", echo |-> "answered"]

HandlerStep(h, at) == hpc[h] = at /\ hpc' = [hpc EXCEPT ![h] = StepAfter[at]]

Receive(h) ==
  /\ hpc[h] = "idle" /\ hpc' = [hpc EXCEPT ![h] = "check"]
  /\ UNCHANGED <<caps, setUp, lineVars, nickVars>>

UpIsEnough == status.connected                                     \* mutant
IsRegistered == registered

Refuse(h) ==
  /\ hpc[h] = "check" /\ ~IsRegistered
  /\ hpc' = [hpc EXCEPT ![h] = "refused"]
  /\ UNCHANGED <<caps, setUp, lineVars, nickVars>>

Accept(h) ==
  /\ HandlerStep(h, "check")
  /\ IsRegistered
  /\ UNCHANGED <<caps, setUp, lineVars, nickVars>>

RequestNick(h) ==
  /\ HandlerStep(h, "requestNick")
  /\ requestedNick' = IF kind[h] = "nick" THEN h ELSE requestedNick
  /\ UNCHANGED <<caps, setUp, lineVars, configNick, asked>>

\* ackedCaps: none unless the client is registered.
CapEnabled(h) ==
  /\ HandlerStep(h, "readCaps")
  /\ echoAcked' = [echoAcked EXCEPT ![h] = registered /\ conn \in caps]
  /\ UNCHANGED <<caps, setUp, kind, loaded, queuedOn, echoed, nickVars>>

\* Send loads the sender, and the sender then queues the line or drops it:
\* its queue may be full, or the attempt may have stopped it meanwhile.
SendLoads(h) ==
  /\ hpc[h] = "send" /\ hpc' = [hpc EXCEPT ![h] = "queue"]
  /\ loaded' = [loaded EXCEPT ![h] = sender]
  /\ UNCHANGED <<caps, setUp, kind, echoAcked, queuedOn, echoed, nickVars>>

SendDrops(h) ==
  /\ HandlerStep(h, "queue")
  /\ UNCHANGED <<caps, setUp, lineVars, nickVars>>

SendQueues(h) ==
  /\ HandlerStep(h, "queue")
  /\ loaded[h] # NoAttempt
  /\ queuedOn' = [queuedOn EXCEPT ![h] = loaded[h]]
  /\ asked' = IF kind[h] = "nick" /\ loaded[h] = conn THEN Append(asked, h)
              ELSE asked
  /\ UNCHANGED <<caps, setUp, kind, echoAcked, loaded, echoed, requestedNick,
                 configNick>>

ShouldEcho(h) ==
  kind[h] = "message" /\ queuedOn[h] # NoAttempt /\ ~echoAcked[h]

Echo(h) ==
  /\ HandlerStep(h, "echo")
  /\ echoed' = IF ShouldEcho(h) THEN echoed \cup {h} ELSE echoed
  /\ UNCHANGED <<caps, setUp, kind, echoAcked, loaded, queuedOn, nickVars>>

-----------------------------------------------------------------------------
(* The server's answer to a NICK line of the current attempt               *)

Answers(h) ==
  /\ asked # <<>> /\ h = Head(asked) /\ asked' = Tail(asked)
  /\ Reading(conn)

\* onNick: ours, and saved only when it is the nick asked for.
TakeNick(h) ==
  /\ Answers(h)
  /\ IF requestedNick = h
     THEN configNick' = h /\ requestedNick' = NoNick
     ELSE UNCHANGED <<configNick, requestedNick>>
  /\ UNCHANGED <<caps, setUp, hpc, lineVars>>

\* endNickRequest, unless the refusal is too short to name the nick.
RefuseNick(h) ==
  /\ Answers(h)
  /\ requestedNick' \in {requestedNick,
                         IF requestedNick = h THEN NoNick ELSE requestedNick}
  /\ UNCHANGED <<caps, setUp, hpc, lineVars, configNick>>

-----------------------------------------------------------------------------
(* The client's own steps, and what they do to the request                 *)

\* The timing assumption: a handler does not take a whole backoff, at least
\* retryUnit, from its check to its last look at the client.
Prompt == \A h \in Handlers : hpc[h] \in {"idle", "refused", "echo", "answered"}

\* connect forgets the nick asked for; an attempt that ends takes the lines
\* it has queued with it.
ClientStep ==
  /\ Next
  /\ attemptDone' # attemptDone => Prompt
  /\ requestedNick' = IF attemptDone' # attemptDone THEN NoNick ELSE requestedNick
  /\ asked' = IF conn' = conn THEN asked ELSE <<>>
  /\ setUp' = IF registered' THEN setUp \cup {conn} ELSE setUp
  /\ UNCHANGED <<caps, hpc, lineVars, configNick>>

RawStep(h) ==
  \/ Receive(h) \/ Refuse(h) \/ Accept(h) \/ RequestNick(h) \/ CapEnabled(h)
  \/ SendLoads(h) \/ SendDrops(h) \/ SendQueues(h) \/ Echo(h)
  \/ TakeNick(h) \/ RefuseNick(h)

RawNext == ClientStep \/ \E h \in Handlers : RawStep(h) /\ UNCHANGED vars

RawSpec == RawInit /\ [][RawNext]_<<vars, rawVars>>

-----------------------------------------------------------------------------
(* Properties                                                              *)

\* Every variable keeps its type; only messages are echoed.
RawTypeOK ==
  /\ caps \subseteq Attempts /\ setUp \subseteq Attempts
  /\ hpc \in [Handlers -> {"idle", "check", "requestNick", "readCaps", "send",
                           "queue", "echo", "answered", "refused"}]
  /\ kind \in [Handlers -> Kinds]
  /\ echoAcked \in [Handlers -> BOOLEAN]
  /\ loaded \in [Handlers -> 0 .. MaxAttempts]
  /\ queuedOn \in [Handlers -> 0 .. MaxAttempts]
  /\ echoed \subseteq {h \in Handlers : kind[h] = "message"}
  /\ requestedNick \in Handlers \cup {NoNick}
  /\ configNick \in Handlers \cup {ConfiguredNick}
  /\ asked \in Seq(Handlers)

\* A message the API queued shows up once: either the server it was queued
\* for echoes messages, or liercd echoes it; and one that was dropped is not
\* echoed.  So it must not matter that the attempt ends between two looks.
EchoedOnce ==
  \A h \in Handlers :
    hpc[h] = "answered" /\ kind[h] = "message" =>
      (h \in echoed <=> queuedOn[h] \in Attempts \ caps)

\* Nothing from the user goes to a server before the attempt is set up, even
\* if the attempt that was checked has ended since.
QueuedOnceSetUp ==
  \A h \in Handlers : queuedOn[h] # NoAttempt => queuedOn[h] \in setUp

\* "RequestNick records that the user asked the server for nick, so taking it
\* updates the config" (client.go): a nick the server takes for a request is
\* saved.  True of one request alone, not of two at once.
TakenNickIsSaved ==
  [][\A h \in Handlers : TakeNick(h) => configNick' = h]_<<vars, rawVars>>
=============================================================================
