------------------------------- MODULE Manager -------------------------------
(***************************************************************************)
(* liercd's ClientManager (pkg/liercd/manager.go): the map of clients, the  *)
(* goroutine of each create and destroy command with the events it queues,  *)
(* and Shutdown.  A client is what ClientLife says of one, which Connection  *)
(* implements: it dials again and again once started, until it is quitting,  *)
(* and Destroy returns when it is down.                                     *)
(***************************************************************************)
EXTENDS Naturals, ClientPhases

CONSTANTS Ids,         \* the connections' ids
          Handlers,    \* the requests of the API, one command each
          MaxClients,  \* bound on the clients made
          Overlaps     \* the commands that may be under way at once for an id

ASSUME ManagerAssumption ==
  /\ MaxClients \in Nat
  /\ Overlaps \subseteq SUBSET {"create", "destroy"}

Clients == 1 .. MaxClients
NoClient == 0
NoId == "none"

VARIABLES
  listed,    \* m.Clients
  made,      \* how many clients were made: NewIRCClient's latest is made
  idOf,      \* the clients' c.Id
  phase,     \* where each client's life is
  quitting,  \* the clients whose Destroy was called
  hpc,       \* where each handler is
  command,   \* each handler's command and id
  client,    \* each handler's c
  main,      \* where main's Shutdown is
  visited,   \* the clients Shutdown's loop has reached
  doomed,    \* history: the clients listed when Shutdown began
  told,      \* the client of each id's last event, if that is a CREATE
  deleted    \* history: the clients a DELETE was queued for

requestVars == <<hpc, command, client>>
shutdownVars == <<main, visited, doomed>>
eventVars == <<told, deleted>>
vars == <<listed, made, idOf, phase, quitting, requestVars, shutdownVars,
          eventVars>>

Commands == [op : {"create", "destroy"}, id : Ids]
Exited == main \in {"clean", "failed"}

Init ==
  /\ listed = [i \in Ids |-> NoClient]
  /\ made = 0
  /\ idOf = [c \in Clients |-> NoId]
  /\ phase = [c \in Clients |-> "none"]
  /\ quitting = {}
  /\ hpc = [h \in Handlers |-> "idle"]
  /\ command \in [Handlers -> Commands]
  /\ client = [h \in Handlers |-> NoClient]
  /\ main = "serving" /\ visited = {} /\ doomed = {}
  /\ told = listed /\ deleted = {}

-----------------------------------------------------------------------------
(* A client (ClientLife)                                                   *)

Attempting(c) == phase[c] \in Attempt

ClientStep(c) ==
  /\ \E to \in Follows(phase[c], c \in quitting) :
       phase' = [phase EXCEPT ![c] = to]
  /\ UNCHANGED <<listed, made, idOf, quitting, requestVars, shutdownVars,
                 eventVars>>

HasEnded(c) == Over(phase[c], c \in quitting)

-----------------------------------------------------------------------------
(* The handlers                                                            *)

Goto(h, from, to) == hpc[h] = from /\ hpc' = [hpc EXCEPT ![h] = to]
Busy(h) == hpc[h] \notin {"idle", "answered"}
Id(h) == command[h].id

\* What is assumed of the API: which commands it has under way for one id.
MayOverlap(h) ==
  \A g \in Handlers \ {h} :
    Busy(g) /\ Id(g) = Id(h) => {command[g].op, command[h].op} \in Overlaps

Receive(h) ==
  /\ Goto(h, "idle", command[h].op)
  /\ MayOverlap(h)
  /\ UNCHANGED <<listed, made, idOf, phase, quitting, command, client,
                 shutdownVars, eventVars>>

\* GetClient's answer.
Found(h) == listed[Id(h)] # NoClient

Refuse(h) ==
  /\ \/ Goto(h, "create", "answered") /\ Found(h)
     \/ Goto(h, "destroy", "answered") /\ ~Found(h)
  /\ UNCHANGED <<listed, made, idOf, phase, quitting, command, client,
                 shutdownVars, eventVars>>

CreateFindsNone(h) ==
  /\ Goto(h, "create", "new")
  /\ ~Found(h)
  /\ UNCHANGED <<listed, made, idOf, phase, quitting, command, client,
                 shutdownVars, eventVars>>

StartFirst == [new |-> "start", start |-> "add", add |-> "announce",
               announce |-> "answered", found |-> "farewell",
               farewell |-> "quit", remove |-> "answered"]          \* mutant
FarewellLast == [new |-> "add", add |-> "start", start |-> "announce",
                 announce |-> "answered", found |-> "quit",
                 remove |-> "farewell", farewell |-> "answered"]    \* mutant
StepAfter == [new |-> "add", add |-> "start", start |-> "announce",
              announce |-> "answered", found |-> "farewell",
              farewell |-> "quit", remove |-> "answered"]

NewIRCClient(h) ==
  /\ Goto(h, "new", StepAfter.new)
  /\ made < MaxClients /\ made' = made + 1   \* the bound on clients
  /\ idOf' = [idOf EXCEPT ![made'] = Id(h)]
  /\ phase' = [phase EXCEPT ![made'] = "new"]
  /\ client' = [client EXCEPT ![h] = made']
  /\ UNCHANGED <<listed, quitting, command, shutdownVars, eventVars>>

AddClient(h) ==
  /\ Goto(h, "add", StepAfter.add)
  /\ listed' = [listed EXCEPT ![Id(h)] = client[h]]
  /\ UNCHANGED <<made, idOf, phase, quitting, command, client, shutdownVars,
                 eventVars>>

\* Start: from here the client dials, unless Destroy came first.
Start(h) ==
  /\ Goto(h, "start", StepAfter.start)
  /\ phase' = [phase EXCEPT ![client[h]] = "waiting"]
  /\ UNCHANGED <<listed, made, idOf, quitting, command, client, shutdownVars,
                 eventVars>>

CreateEvent(h) ==
  /\ Goto(h, "announce", StepAfter.announce)
  /\ told' = [told EXCEPT ![Id(h)] = client[h]]
  /\ UNCHANGED <<listed, made, idOf, phase, quitting, command, client,
                 shutdownVars, deleted>>

DestroyFinds(h) ==
  /\ Goto(h, "destroy", StepAfter.found)
  /\ Found(h)
  /\ client' = [client EXCEPT ![h] = listed[Id(h)]]
  /\ UNCHANGED <<listed, made, idOf, phase, quitting, command, shutdownVars,
                 eventVars>>

DeleteEvent(h) ==
  /\ Goto(h, "farewell", StepAfter.farewell)
  /\ told' = [told EXCEPT ![Id(h)] = NoClient]
  /\ deleted' = deleted \cup {client[h]}
  /\ UNCHANGED <<listed, made, idOf, phase, quitting, command, client,
                 shutdownVars>>

DestroyQuits(h) ==
  /\ Goto(h, "quit", "wait")
  /\ quitting' = quitting \cup {client[h]}
  /\ UNCHANGED <<listed, made, idOf, phase, command, client, shutdownVars,
                 eventVars>>

DestroyReturns(h) ==
  /\ Goto(h, "wait", "remove")
  /\ HasEnded(client[h])
  /\ UNCHANGED <<listed, made, idOf, phase, quitting, command, client,
                 shutdownVars, eventVars>>

\* RemoveClient goes by the id.
RemoveClient(h) ==
  /\ Goto(h, "remove", StepAfter.remove)
  /\ listed' = [listed EXCEPT ![Id(h)] = NoClient]
  /\ UNCHANGED <<made, idOf, phase, quitting, command, client, shutdownVars,
                 eventVars>>

-----------------------------------------------------------------------------
(* Shutdown, while the handlers go on: its loop does not lock m             *)

Listed == {listed[i] : i \in Ids} \ {NoClient}

ShutdownBegins ==
  /\ main = "serving" /\ main' = "visiting"
  /\ doomed' = Listed
  /\ UNCHANGED <<listed, made, idOf, phase, quitting, requestVars, visited,
                 eventVars>>

\* A goroutine calls Destroy on it.
Visit(c) ==
  /\ main = "visiting"
  /\ c \in Listed \ visited
  /\ visited' = visited \cup {c}
  /\ quitting' = quitting \cup {c}
  /\ UNCHANGED <<listed, made, idOf, phase, requestVars, main, doomed, eventVars>>

\* The loop reaches what was there all along; what was added, perhaps.
VisitsEnd ==
  /\ main = "visiting"
  /\ doomed \cap Listed \subseteq visited
  /\ main' = "waiting"
  /\ UNCHANGED <<listed, made, idOf, phase, quitting, requestVars, visited,
                 doomed, eventVars>>

LeaveAtOnce == TRUE                                                \* mutant
AllEnded == \A c \in visited : HasEnded(c)

ShutdownEnds ==
  /\ main = "waiting" /\ AllEnded
  /\ main' = "clean"
  /\ UNCHANGED <<listed, made, idOf, phase, quitting, requestVars, visited,
                 doomed, eventVars>>

\* The timer of three seconds, or the runtime, which may notice that the map
\* was written while the loop was reading it.
ShutdownFails ==
  /\ main \in {"visiting", "waiting"}
  /\ main' = "failed"
  /\ UNCHANGED <<listed, made, idOf, phase, quitting, requestVars, visited,
                 doomed, eventVars>>

-----------------------------------------------------------------------------
HandlerStep(h) ==
  \/ Receive(h) \/ Refuse(h)
  \/ CreateFindsNone(h) \/ NewIRCClient(h) \/ AddClient(h) \/ Start(h)
  \/ CreateEvent(h) \/ DestroyFinds(h) \/ DeleteEvent(h) \/ DestroyQuits(h)
  \/ DestroyReturns(h) \/ RemoveClient(h)

ShutdownStep ==
  \/ ShutdownBegins \/ VisitsEnd \/ ShutdownEnds \/ ShutdownFails
  \/ \E c \in Clients : Visit(c)

Next ==
  /\ ~Exited
  /\ \/ \E c \in Clients : ClientStep(c)
     \/ \E h \in Handlers : HandlerStep(h)
     \/ ShutdownStep

Spec == Init /\ [][Next]_vars

-----------------------------------------------------------------------------
(* Properties                                                              *)

\* Every variable keeps its type.
TypeOK ==
  /\ listed \in [Ids -> 0 .. MaxClients]
  /\ made \in 0 .. MaxClients
  /\ idOf \in [Clients -> Ids \cup {NoId}]
  /\ phase \in [Clients -> Attempt \cup {"none", "new", "waiting"}]
  /\ quitting \subseteq Clients
  /\ hpc \in [Handlers -> {"idle", "create", "new", "add", "start",
                           "announce", "destroy", "farewell", "quit", "wait", "remove", "answered"}]
  /\ command \in [Handlers -> Commands]
  /\ client \in [Handlers -> 0 .. MaxClients]
  /\ main \in {"serving", "visiting", "waiting", "clean", "failed"}
  /\ visited \subseteq Clients /\ doomed \subseteq Clients
  /\ told \in [Ids -> 0 .. MaxClients] /\ deleted \subseteq Clients

\* A client is "listed before it connects" and until it is down: identd finds
\* every open connection on the portmap, a destroy finds every client that
\* runs, and so an id has one connection at most.
RunningIsListed ==
  \A c \in Clients :
    Attempting(c) \/ (phase[c] = "waiting" /\ c \notin quitting)
      => listed[idOf[c]] = c

\* A clean exit leaves no connection open that Shutdown had found listed, so
\* their DISCONNECTs are queued before the final flush.
ShutdownClosesListed ==
  main = "clean" => \A c \in doomed : HasEnded(c)

\* Between commands for an id, its last event agrees with the map: it is the
\* CREATE of the client listed, and if none is, a DELETE, or the CREATE of a
\* client whose DELETE overtook it, of which the API is then told no more.
EventsAgree ==
  \A i \in Ids : (\A h \in Handlers : Busy(h) => Id(h) # i) =>
    told[i] = listed[i] \/ (listed[i] = NoClient /\ told[i] \in deleted)
=============================================================================
