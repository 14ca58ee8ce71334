---------------------------- MODULE ManagerProofs ----------------------------
(***************************************************************************)
(* Proofs about Manager for any ids, requests and number of clients, when   *)
(* the API never has two creates or two destroys of one id under way.        *)
(* RunningIsListed is inductive once it is known what each handler relies   *)
(* on between its looks at the map: a create, that the id is free until it  *)
(* has listed its client (CreateInv); a destroy, that the client it removes *)
(* is the one it found (DestroyInv).  Either would be wrong with a second   *)
(* command of its kind, which CommandInv rules out.  EventInv is what the    *)
(* events say while a command is under way.                                 *)
(*                                                                          *)
(* Identd's part is last, for any askers: what Manager promises carries      *)
(* over, since identd changes none of its variables; with RunningIsListed, a *)
(* connection that was on the portmap when it was asked about stays there    *)
(* until it ends, so lookup has met it by the time it has read our           *)
(* liercd's, or failed to (AskInv).                                         *)
(***************************************************************************)
EXTENDS Identd, TLAPS

NoRetries == {"create"} \notin Overlaps /\ {"destroy"} \notin Overlaps

Creating(h) == hpc[h] \in {"create", "new", "add", "start", "announce"}
Destroying(h) == hpc[h] \in {"destroy", "farewell", "quit", "wait", "remove"}

CommandInv ==
  /\ \A h \in Handlers : Creating(h) => command[h].op = "create"
  /\ \A h \in Handlers : Destroying(h) => command[h].op = "destroy"
  /\ \A g, h \in Handlers : g # h /\ Id(g) = Id(h) =>
       ~(Creating(g) /\ Creating(h)) /\ ~(Destroying(g) /\ Destroying(h))

\* What is true of a client as soon as it is made, and of one that is not.
ClientInv ==
  /\ \A c \in Clients : IF c <= made THEN idOf[c] \in Ids ELSE phase[c] = "none"
  /\ \A c \in quitting : c <= made
  /\ \A i \in Ids : listed[i] # NoClient => listed[i] <= made /\ idOf[listed[i]] = i

CreateInv ==
  \A h \in Handlers :
    /\ hpc[h] \in {"new", "add"} => listed[Id(h)] = NoClient
    /\ hpc[h] \in {"add", "start"} =>
         /\ client[h] \in Clients /\ client[h] <= made
         /\ idOf[client[h]] = Id(h) /\ phase[client[h]] = "new"
    /\ hpc[h] = "start" => listed[Id(h)] = client[h] \/ client[h] \in quitting
    /\ hpc[h] \in {"start", "announce"} =>
         /\ client[h] \in Clients
         /\ \/ listed[Id(h)] = client[h]
            \/ listed[Id(h)] = NoClient /\ client[h] \in deleted

DestroyInv ==
  \A h \in Handlers :
    /\ hpc[h] \in {"farewell", "quit", "wait", "remove"} =>
         client[h] \in Clients /\ listed[Id(h)] = client[h]
    /\ hpc[h] \in {"quit", "wait", "remove"} =>
         client[h] \in deleted /\ told[Id(h)] \in deleted \cup {NoClient}
    /\ hpc[h] \in {"wait", "remove"} => client[h] \in quitting
    /\ hpc[h] = "remove" => ~Attempting(client[h])

\* An id's last event is out of date only while one of its handlers is to
\* publish the next, or to do what its last one said.
EventInv ==
  \A i \in Ids :
    \/ told[i] = listed[i] \/ (listed[i] = NoClient /\ told[i] \in deleted)
    \/ \E h \in Handlers :
         Id(h) = i /\ hpc[h] \in {"start", "announce", "quit", "wait", "remove"}

\* A client found listed is still to be visited, or visited, or down.
ShutdownInv ==
  /\ main = "visiting" => \A c \in doomed : c \in Listed \/ HasEnded(c)
  /\ main = "waiting" => \A c \in doomed : c \in visited \/ HasEnded(c)

IInv ==
  /\ TypeOK /\ CommandInv /\ ClientInv /\ CreateInv /\ DestroyInv /\ EventInv
  /\ RunningIsListed /\ ShutdownInv /\ ShutdownClosesListed

-----------------------------------------------------------------------------

\* Every command is for one of the ids.
LEMMA IdType == ASSUME TypeOK PROVE \A h \in Handlers : Id(h) \in Ids
BY DEF TypeOK, Commands, Id

\* The inductive invariant holds in an empty manager.
LEMMA InitIInv == Init => IInv
<1> SUFFICES ASSUME Init PROVE IInv
  OBVIOUS
<1> USE ManagerAssumption DEF Init
<1>1. TypeOK
  BY DEF TypeOK, Clients, NoClient
<1>2. CommandInv /\ CreateInv /\ DestroyInv /\ EventInv
  BY DEF CommandInv, CreateInv, DestroyInv, EventInv, Creating, Destroying
<1>3. ClientInv /\ RunningIsListed
  BY DEF ClientInv, RunningIsListed, Clients, NoClient, Attempting, Attempt, Up
<1>4. ShutdownInv /\ ShutdownClosesListed
  BY DEF ShutdownInv, ShutdownClosesListed
<1>5. QED
  BY <1>1, <1>2, <1>3, <1>4 DEF IInv

-----------------------------------------------------------------------------
(* The client's steps                                                      *)

\* A client dials only when it may run, so while it is listed.
LEMMA ClientIInv ==
  ASSUME IInv, NEW c \in Clients, ClientStep(c)
  PROVE  IInv'
<1> USE DEF IInv, shutdownVars, requestVars, eventVars
<1>1. /\ UNCHANGED <<listed, made, idOf, quitting, hpc, command, client, main,
                     visited, doomed, told, deleted>>
      /\ phase' = [phase EXCEPT ![c] = phase'[c]]
      /\ phase[c] \in Attempt \cup {"waiting"}
      /\ phase'[c] \in Attempt \cup {"waiting"}
      /\ phase[c] = "waiting" => phase'[c] = "dialing" /\ c \notin quitting
  BY DEF ClientStep, Follows, Attempt, Up, TypeOK
<1>2. TypeOK'
  BY <1>1 DEF TypeOK
<1>3. CommandInv' /\ EventInv'
  BY <1>1 DEF CommandInv, Creating, Destroying, EventInv, Id
<1>4. ClientInv'
  BY <1>1 DEF ClientInv, TypeOK, Attempt, Up
<1>5. CreateInv'
  BY <1>1 DEF CreateInv, Id, TypeOK, Attempt, Up
<1>6. \A d \in Clients : d \in quitting /\ ~Attempting(d) => ~Attempting(d)'
  BY <1>1 DEF Attempting, Attempt, Up, TypeOK
<1>7. DestroyInv'
  BY <1>1, <1>6 DEF DestroyInv, Id, TypeOK
<1>8. RunningIsListed'
  <2> SUFFICES ASSUME NEW d \in Clients,
                      \/ Attempting(d)'
                      \/ phase'[d] = "waiting" /\ d \notin quitting
               PROVE  listed[idOf[d]] = d
    BY <1>1 DEF RunningIsListed
  <2>1. Attempting(d) \/ (phase[d] = "waiting" /\ d \notin quitting)
    BY <1>1 DEF Attempting, Attempt, Up, TypeOK
  <2>2. QED
    BY <2>1 DEF RunningIsListed
<1>9. \A d \in Clients : HasEnded(d) => HasEnded(d)'
  BY <1>1, <1>6 DEF HasEnded, Over, Attempting
<1>10. ShutdownInv' /\ ShutdownClosesListed'
  BY <1>1, <1>9 DEF ShutdownInv, ShutdownClosesListed, Listed, TypeOK
<1>11. QED
  BY <1>2, <1>3, <1>4, <1>5, <1>7, <1>8, <1>10

-----------------------------------------------------------------------------
(* The handlers' steps                                                     *)

\* What a handler's step does not disturb, if it leaves the clients alone.
LEMMA SameClients ==
  ASSUME IInv, UNCHANGED <<listed, made, idOf, phase, quitting, shutdownVars>>
  PROVE  ClientInv' /\ RunningIsListed' /\ ShutdownInv' /\ ShutdownClosesListed'
BY DEF IInv, ClientInv, RunningIsListed, ShutdownInv, ShutdownClosesListed,
       shutdownVars, Listed, HasEnded, Over, Attempting

\* A command begins only when no other of its kind is under way.
LEMMA ReceiveIInv ==
  ASSUME NoRetries, IInv, NEW h \in Handlers, Receive(h)
  PROVE  IInv'
<1> USE DEF IInv, Receive, Goto
<1>1. TypeOK'
  BY DEF TypeOK, shutdownVars, eventVars, Commands
<1>2. command[h].op \in {"create", "destroy"}
  BY DEF TypeOK, Commands
<1>3. \A g \in Handlers \ {h} : Id(g) = Id(h) =>
        /\ Creating(g) => command[h].op # "create"
        /\ Destroying(g) => command[h].op # "destroy"
  <2> SUFFICES ASSUME NEW g \in Handlers \ {h}, Id(g) = Id(h)
               PROVE  /\ Creating(g) => command[h].op # "create"
                      /\ Destroying(g) => command[h].op # "destroy"
    OBVIOUS
  <2>1. Creating(g) \/ Destroying(g) =>
          {command[g].op, command[h].op} \in Overlaps
    BY DEF MayOverlap, Busy, Creating, Destroying
  <2>2. /\ Creating(g) => command[g].op = "create"
        /\ Destroying(g) => command[g].op = "destroy"
    BY DEF CommandInv
  <2>3. QED
    BY <2>1, <2>2 DEF NoRetries
<1>4. CommandInv'
  BY <1>2, <1>3 DEF CommandInv, Creating, Destroying, Id, TypeOK
<1>5. CreateInv' /\ DestroyInv' /\ EventInv'
  BY <1>2 DEF CreateInv, DestroyInv, EventInv, Id, TypeOK, eventVars, Attempting
<1>6. QED
  BY <1>1, <1>4, <1>5, SameClients

\* A step that only looks at the map.
LEMMA LookIInv ==
  ASSUME IInv, NEW h \in Handlers,
         \/ Refuse(h) \/ CreateFindsNone(h) \/ DestroyFinds(h)
         \/ DestroyReturns(h)
  PROVE  IInv'
<1> USE DEF IInv
<1>1. /\ UNCHANGED <<listed, made, idOf, phase, quitting, shutdownVars, command,
                     told, deleted>>
      /\ hpc' = [hpc EXCEPT ![h] = hpc'[h]]
      /\ client' = [client EXCEPT ![h] = client'[h]]
      /\ \/ /\ hpc[h] \in {"create", "destroy"} /\ hpc'[h] = "answered"
            /\ client'[h] = client[h]
         \/ /\ hpc[h] = "create" /\ hpc'[h] = "new" /\ listed[Id(h)] = NoClient
            /\ client'[h] = client[h]
         \/ /\ hpc[h] = "destroy" /\ hpc'[h] = "farewell"
            /\ listed[Id(h)] # NoClient /\ client'[h] = listed[Id(h)]
         \/ /\ hpc[h] = "wait" /\ hpc'[h] = "remove" /\ HasEnded(client[h])
            /\ client'[h] = client[h]
  BY DEF Refuse, CreateFindsNone, DestroyFinds, DestroyReturns, Goto, Found, TypeOK,
         StepAfter, eventVars
<1>2. Id(h) \in Ids /\ listed[Id(h)] \in 0 .. MaxClients
  BY IdType DEF TypeOK
<1>3. TypeOK'
  BY <1>1, <1>2 DEF TypeOK, shutdownVars
<1>4. CommandInv'
  BY <1>1 DEF CommandInv, Creating, Destroying, Id, TypeOK
<1>5. CreateInv' /\ EventInv'
  BY <1>1 DEF CreateInv, EventInv, Id, TypeOK
<1>6. DestroyInv'
  BY <1>1, <1>2, ManagerAssumption
     DEF DestroyInv, Id, TypeOK, HasEnded, Over, Attempting, Clients, NoClient
<1>7. QED
  BY <1>1, <1>3, <1>4, <1>5, <1>6, SameClients

\* The events change nothing but what is told: a CREATE is for the client
\* listed, or for one whose DELETE was first; a DELETE, for the one listed.
LEMMA EventIInv ==
  ASSUME IInv, NEW h \in Handlers, CreateEvent(h) \/ DeleteEvent(h)
  PROVE  IInv'
<1> USE DEF IInv
<1>1. /\ UNCHANGED <<listed, made, idOf, phase, quitting, shutdownVars, command,
                     client>>
      /\ Id(h) \in Ids /\ client[h] \in Clients
      /\ hpc' = [hpc EXCEPT ![h] = hpc'[h]]
      /\ told' = [told EXCEPT ![Id(h)] = told'[Id(h)]]
      /\ \/ /\ hpc[h] = "announce" /\ hpc'[h] = "answered"
            /\ told'[Id(h)] = client[h] /\ deleted' = deleted
            /\ \/ listed[Id(h)] = client[h]
               \/ listed[Id(h)] = NoClient /\ client[h] \in deleted
         \/ /\ hpc[h] = "farewell" /\ hpc'[h] = "quit"
            /\ listed[Id(h)] = client[h]
            /\ told'[Id(h)] = NoClient /\ deleted' = deleted \cup {client[h]}
  BY IdType DEF CreateEvent, DeleteEvent, Goto, StepAfter, CreateInv, DestroyInv,
                TypeOK
<1>2. TypeOK'
  <2>1. told \in [Ids -> 0 .. MaxClients] /\ deleted \subseteq Clients
    BY DEF TypeOK
  <2>2. told'[Id(h)] \in 0 .. MaxClients
    BY <1>1, ManagerAssumption DEF Clients, NoClient
  <2>3. told' \in [Ids -> 0 .. MaxClients] /\ deleted' \subseteq Clients
    <3> HIDE DEF IInv
    <3>1. QED
      BY <1>1, <2>1, <2>2
  <2>4. QED
    BY <1>1, <2>3 DEF TypeOK, shutdownVars
<1>3. CommandInv'
  BY <1>1 DEF CommandInv, Creating, Destroying, Id, TypeOK
<1>4. CreateInv'
  BY <1>1 DEF CreateInv, Id, TypeOK
<1>5. DestroyInv'
  <2> SUFFICES ASSUME NEW g \in Handlers, hpc'[g] \in {"farewell", "quit", "wait", "remove"}
               PROVE  /\ client[g] \in Clients /\ listed[Id(g)] = client[g]
                      /\ hpc'[g] # "farewell" =>
                           client[g] \in deleted' /\ told'[Id(g)] \in deleted' \cup {NoClient}
                      /\ hpc'[g] \in {"wait", "remove"} => client[g] \in quitting
                      /\ hpc'[g] = "remove" => ~Attempting(client[g])
    BY <1>1 DEF DestroyInv, Id, Attempting
  <2>1. CASE g = h
    BY <1>1, <2>1 DEF TypeOK, Id
  <2>2. CASE g # h
    BY <1>1, <2>2, IdType DEF DestroyInv, Id, TypeOK
  <2>3. QED
    BY <2>1, <2>2
<1>6. EventInv'
  BY <1>1, IdType DEF EventInv, Id, TypeOK
<1>7. QED
  BY <1>1, <1>2, <1>3, <1>4, <1>5, <1>6, SameClients

\* The client made is new: no other handler knows it.
LEMMA NewIRCClientIInv ==
  ASSUME IInv, NEW h \in Handlers, NewIRCClient(h)
  PROVE  IInv'
<1> USE DEF IInv, NewIRCClient, Goto, StepAfter
<1>1. made' \in Clients /\ made' = made + 1 /\ made \in Nat /\ Id(h) \in Ids
  BY IdType, ManagerAssumption DEF TypeOK, Clients
<1>2. \A c \in Clients : c <= made => c # made'
  BY <1>1 DEF Clients
<1>3. TypeOK'
  BY <1>1, ManagerAssumption DEF TypeOK, shutdownVars, eventVars, Clients
<1>4. CommandInv'
  BY DEF CommandInv, Creating, Destroying, Id, TypeOK
<1>5. ClientInv'
  BY <1>1, <1>2, ManagerAssumption DEF ClientInv, TypeOK, Clients, NoClient
<1>6. CreateInv' /\ EventInv'
  <2>1. \A g \in Handlers : hpc[g] \in {"add", "start"} => client[g] # made'
    BY <1>1, <1>2 DEF CreateInv
  <2>2. EventInv'
    BY DEF EventInv, Id, TypeOK, eventVars
  <2>3. QED
    BY <1>1, <1>2, <2>1, <2>2 DEF CreateInv, Id, TypeOK, eventVars
<1>7. DestroyInv'
  <2>1. \A g \in Handlers : hpc[g] \in {"farewell", "quit", "wait", "remove"} => client[g] # made'
    <3> SUFFICES ASSUME NEW g \in Handlers, hpc[g] \in {"farewell", "quit", "wait", "remove"}
                 PROVE  client[g] \in Clients /\ client[g] <= made
      BY <1>2
    <3>1. client[g] \in Clients /\ listed[Id(g)] = client[g] /\ Id(g) \in Ids
      BY IdType DEF DestroyInv
    <3>2. QED
      BY <3>1, ManagerAssumption DEF ClientInv, Clients, NoClient
  <2>2. QED
    BY <1>1, <2>1 DEF DestroyInv, Id, TypeOK, eventVars, Attempting
<1>8. RunningIsListed'
  BY <1>1 DEF RunningIsListed, TypeOK, Attempting, Attempt, Up
<1>9. \A d \in Clients : HasEnded(d) => HasEnded(d)'
  BY <1>1, <1>2 DEF HasEnded, Over, ClientInv, TypeOK, Attempting, Attempt, Up
<1>10. ShutdownInv' /\ ShutdownClosesListed'
  BY <1>9 DEF ShutdownInv, ShutdownClosesListed, Listed, TypeOK, shutdownVars, eventVars
<1>11. QED
  BY <1>3, <1>4, <1>5, <1>6, <1>7, <1>8, <1>10

\* No client is listed under the id when a create adds its own.
LEMMA AddClientIInv ==
  ASSUME IInv, NEW h \in Handlers, AddClient(h)
  PROVE  IInv'
<1> USE DEF IInv, AddClient, Goto, StepAfter
<1>1. /\ Id(h) \in Ids /\ client[h] \in Clients /\ client[h] <= made
      /\ listed[Id(h)] = NoClient /\ idOf[client[h]] = Id(h)
      /\ Creating(h)
  BY IdType DEF CreateInv, Creating
<1>2. TypeOK'
  BY <1>1, ManagerAssumption DEF TypeOK, shutdownVars, eventVars, Clients
<1>3. CommandInv'
  BY DEF CommandInv, Creating, Destroying, Id, TypeOK
<1>4. ClientInv'
  BY <1>1 DEF ClientInv, TypeOK
<1>5. CreateInv'
  <2>1. \A g \in Handlers \ {h} : Creating(g) => Id(g) # Id(h)
    BY <1>1 DEF CommandInv
  <2>2. QED
    BY <1>1, <2>1, IdType DEF CreateInv, Id, TypeOK, Creating, eventVars
<1>6. DestroyInv' /\ EventInv'
  <2>1. \A g \in Handlers : hpc[g] \in {"farewell", "quit", "wait", "remove"} => Id(g) # Id(h)
    BY <1>1, ManagerAssumption DEF DestroyInv, Clients, NoClient
  <2>2. DestroyInv'
    BY <1>1, <2>1, IdType DEF DestroyInv, Id, TypeOK, eventVars, Attempting
  <2>3. QED
    BY <1>1, <2>2, IdType DEF EventInv, Id, TypeOK, eventVars
<1>7. RunningIsListed'
  <2>1. \A c \in Clients : listed[idOf[c]] = c => idOf[c] # Id(h)
    BY <1>1, ManagerAssumption DEF Clients, NoClient
  <2>2. QED
    BY <1>1, <2>1 DEF RunningIsListed, TypeOK, ClientInv, Attempting
<1>8. \A c \in Clients : c \in Listed => c \in Listed'
  <2> SUFFICES ASSUME NEW c \in Clients, NEW i \in Ids, listed[i] = c
               PROVE  \E j \in Ids : listed'[j] = c
    BY ManagerAssumption DEF Listed, Clients, NoClient
  <2>1. i # Id(h)
    BY <1>1, ManagerAssumption DEF Clients, NoClient
  <2>2. QED
    BY <1>1, <2>1 DEF TypeOK
<1>9. ShutdownInv' /\ ShutdownClosesListed'
  BY <1>8 DEF ShutdownInv, ShutdownClosesListed, TypeOK, shutdownVars, HasEnded, Over, Attempting
<1>10. QED
  BY <1>2, <1>3, <1>4, <1>5, <1>6, <1>7, <1>9

\* A client is listed by the time it is started, or destroyed already.
LEMMA StartIInv ==
  ASSUME IInv, NEW h \in Handlers, Start(h)
  PROVE  IInv'
<1> USE DEF IInv, Start, Goto, StepAfter
<1>1. /\ client[h] \in Clients /\ client[h] <= made
      /\ idOf[client[h]] = Id(h) /\ phase[client[h]] = "new"
      /\ listed[Id(h)] = client[h] \/ client[h] \in quitting
      /\ Creating(h)
  BY DEF CreateInv, Creating
<1>2. TypeOK'
  BY <1>1 DEF TypeOK, shutdownVars, eventVars
<1>3. CommandInv'
  BY DEF CommandInv, Creating, Destroying, Id, TypeOK
<1>4. ClientInv'
  BY <1>1 DEF ClientInv, TypeOK
<1>5. CreateInv'
  <2>1. \A g \in Handlers \ {h} : hpc[g] \in {"add", "start"} => client[g] # client[h]
    BY <1>1 DEF CommandInv, CreateInv, Creating
  <2>2. QED
    BY <1>1, <2>1 DEF CreateInv, Id, TypeOK, eventVars
<1>6. DestroyInv' /\ EventInv'
  <2>1. \A d \in Clients : ~Attempting(d) => ~Attempting(d)'
    BY <1>1 DEF Attempting, Attempt, Up, TypeOK
  <2>2. QED
    BY <1>1, <2>1 DEF DestroyInv, EventInv, Id, TypeOK, eventVars
<1>7. RunningIsListed'
  BY <1>1 DEF RunningIsListed, TypeOK, Attempting, Attempt, Up
<1>8. \A d \in Clients : HasEnded(d) => HasEnded(d)'
  BY <1>1 DEF HasEnded, Over, TypeOK, Attempting, Attempt, Up
<1>9. ShutdownInv' /\ ShutdownClosesListed'
  BY <1>8 DEF ShutdownInv, ShutdownClosesListed, Listed, TypeOK, shutdownVars, eventVars
<1>10. QED
  BY <1>2, <1>3, <1>4, <1>5, <1>6, <1>7, <1>9

\* A client that quits need not be listed, but still is.
LEMMA DestroyQuitsIInv ==
  ASSUME IInv, NEW h \in Handlers, DestroyQuits(h)
  PROVE  IInv'
<1> USE DEF IInv, DestroyQuits, Goto
<1>1. /\ client[h] \in Clients /\ listed[Id(h)] = client[h] /\ Id(h) \in Ids
      /\ client[h] <= made
  BY IdType, ManagerAssumption DEF DestroyInv, ClientInv, Clients, NoClient
<1>2. TypeOK'
  BY <1>1 DEF TypeOK, shutdownVars, eventVars
<1>3. CommandInv'
  BY DEF CommandInv, Creating, Destroying, Id, TypeOK
<1>4. ClientInv'
  BY <1>1 DEF ClientInv
<1>5. CreateInv' /\ DestroyInv' /\ EventInv'
  BY <1>1 DEF CreateInv, DestroyInv, EventInv, Id, TypeOK, eventVars, Attempting
<1>6. RunningIsListed'
  BY DEF RunningIsListed, Attempting
<1>7. ShutdownInv' /\ ShutdownClosesListed'
  BY DEF ShutdownInv, ShutdownClosesListed, Listed, HasEnded, Over, Attempting, shutdownVars
<1>8. QED
  BY <1>2, <1>3, <1>4, <1>5, <1>6, <1>7

\* What a destroy takes off the map is what it has waited for.
LEMMA RemoveClientIInv ==
  ASSUME IInv, NEW h \in Handlers, RemoveClient(h)
  PROVE  IInv'
<1> USE DEF IInv, RemoveClient, Goto, StepAfter
<1>1. /\ client[h] \in Clients /\ listed[Id(h)] = client[h] /\ Id(h) \in Ids
      /\ client[h] \in quitting /\ ~Attempting(client[h])
      /\ client[h] \in deleted /\ told[Id(h)] \in deleted \cup {NoClient}
      /\ Destroying(h)
  BY IdType DEF DestroyInv, Destroying
<1>2. TypeOK'
  BY <1>1, ManagerAssumption DEF TypeOK, shutdownVars, eventVars, NoClient
<1>3. CommandInv'
  BY DEF CommandInv, Creating, Destroying, Id, TypeOK
<1>4. ClientInv'
  BY <1>1 DEF ClientInv, TypeOK
<1>5. CreateInv'
  <2>1. \A g \in Handlers : hpc[g] \in {"start", "announce"} /\ Id(g) = Id(h) =>
          client[g] \in deleted /\ (hpc[g] = "start" => client[g] \in quitting)
    BY <1>1 DEF CreateInv
  <2>2. QED
    BY <1>1, <2>1, IdType DEF CreateInv, Id, TypeOK, eventVars
<1>6. DestroyInv' /\ EventInv'
  <2>1. \A g \in Handlers \ {h} : Destroying(g) => Id(g) # Id(h)
    BY <1>1 DEF CommandInv
  <2>2. DestroyInv'
    BY <1>1, <2>1, IdType DEF DestroyInv, Id, TypeOK, Destroying, eventVars, Attempting
  <2>3. EventInv'
    BY <1>1, IdType DEF EventInv, Id, TypeOK, eventVars
  <2>4. QED
    BY <2>2, <2>3
<1>7. RunningIsListed'
  BY <1>1 DEF RunningIsListed, TypeOK, ClientInv, Attempting
<1>8. \A c \in Clients : c \in Listed => c \in Listed' \/ HasEnded(c)
  <2> SUFFICES ASSUME NEW c \in Clients, NEW i \in Ids, listed[i] = c, c # client[h]
               PROVE  \E j \in Ids : listed'[j] = c
    BY <1>1, ManagerAssumption DEF Listed, Clients, NoClient, HasEnded, Over, Attempting
  <2>1. QED
    BY <1>1 DEF TypeOK
<1>9. ShutdownInv' /\ ShutdownClosesListed'
  BY <1>8 DEF ShutdownInv, ShutdownClosesListed, TypeOK, shutdownVars, HasEnded, Over, Attempting
<1>10. QED
  BY <1>2, <1>3, <1>4, <1>5, <1>6, <1>7, <1>9

-----------------------------------------------------------------------------
(* Shutdown's steps                                                        *)

\* What a step of Shutdown does not disturb; Visit makes a listed client quit.
LEMMA ShutdownFrame ==
  ASSUME IInv, UNCHANGED <<listed, made, idOf, phase, requestVars, eventVars>>,
         quitting \subseteq quitting', quitting' \subseteq quitting \cup Listed
  PROVE  /\ CommandInv' /\ ClientInv' /\ CreateInv' /\ DestroyInv' /\ EventInv'
         /\ RunningIsListed'
         /\ \A c : HasEnded(c) => HasEnded(c)'
<1> USE DEF IInv, requestVars, eventVars, Attempting
<1>1. CommandInv'
  BY DEF CommandInv, Creating, Destroying, Id
<1>2. ClientInv'
  BY DEF ClientInv, Listed
<1>3. CreateInv' /\ DestroyInv' /\ EventInv'
  BY DEF CreateInv, DestroyInv, EventInv, Id
<1>4. RunningIsListed' /\ \A c : HasEnded(c) => HasEnded(c)'
  BY DEF RunningIsListed, HasEnded, Over
<1>5. QED
  BY <1>1, <1>2, <1>3, <1>4

\* Only clients are listed.
LEMMA ListedType == ASSUME TypeOK PROVE Listed \subseteq Clients
BY ManagerAssumption DEF TypeOK, Listed, Clients, NoClient

\* Shutdown misses none of the clients it found listed.
LEMMA ShutdownIInv ==
  ASSUME IInv, ShutdownStep
  PROVE  IInv'
<1> USE DEF IInv, requestVars, eventVars, Attempting
<1>1. CASE ShutdownBegins
  <2>1. TypeOK'
    BY <1>1, ListedType DEF ShutdownBegins, TypeOK
  <2>2. ShutdownInv' /\ ShutdownClosesListed'
    BY <1>1 DEF ShutdownBegins, ShutdownInv, ShutdownClosesListed, Listed
  <2>3. QED
    BY <1>1, <2>1, <2>2, ShutdownFrame DEF ShutdownBegins
<1>2. CASE \E c \in Clients : Visit(c)
  <2> PICK c \in Clients : Visit(c)
    BY <1>2
  <2>1. TypeOK'
    BY DEF Visit, TypeOK
  <2>2. ShutdownInv' /\ ShutdownClosesListed'
    BY DEF Visit, ShutdownInv, ShutdownClosesListed, Listed, HasEnded, Over
  <2>3. QED
    BY <2>1, <2>2, ShutdownFrame DEF Visit
<1>3. CASE VisitsEnd
  <2>1. TypeOK'
    BY <1>3 DEF VisitsEnd, TypeOK
  <2>2. ShutdownInv' /\ ShutdownClosesListed'
    BY <1>3 DEF VisitsEnd, ShutdownInv, ShutdownClosesListed, HasEnded, Over
  <2>3. QED
    BY <1>3, <2>1, <2>2, ShutdownFrame DEF VisitsEnd
<1>4. CASE ShutdownEnds
  <2>1. TypeOK'
    BY <1>4 DEF ShutdownEnds, TypeOK
  <2>2. ShutdownInv' /\ ShutdownClosesListed'
    BY <1>4 DEF ShutdownEnds, AllEnded, ShutdownInv, ShutdownClosesListed, HasEnded, Over
  <2>3. QED
    BY <1>4, <2>1, <2>2, ShutdownFrame DEF ShutdownEnds
<1>5. CASE ShutdownFails
  <2>1. TypeOK'
    BY <1>5 DEF ShutdownFails, TypeOK
  <2>2. ShutdownInv' /\ ShutdownClosesListed'
    BY <1>5 DEF ShutdownFails, ShutdownInv, ShutdownClosesListed
  <2>3. QED
    BY <1>5, <2>1, <2>2, ShutdownFrame DEF ShutdownFails
<1>6. QED
  BY <1>1, <1>2, <1>3, <1>4, <1>5 DEF ShutdownStep

-----------------------------------------------------------------------------
\* Every step keeps the inductive invariant.
LEMMA NextIInv ==
  ASSUME NoRetries, IInv, [Next]_vars
  PROVE  IInv'
<1>1. ASSUME NEW c \in Clients, ClientStep(c) PROVE IInv'
  BY <1>1, ClientIInv
<1>2. ASSUME NEW h \in Handlers, HandlerStep(h) PROVE IInv'
  BY <1>2, ReceiveIInv, LookIInv, EventIInv, NewIRCClientIInv, AddClientIInv, StartIInv,
     DestroyQuitsIInv, RemoveClientIInv DEF HandlerStep
<1>3. CASE ShutdownStep
  BY <1>3, ShutdownIInv
<1>4. CASE UNCHANGED vars
  BY <1>4 DEF vars, requestVars, shutdownVars, eventVars, IInv, TypeOK, CommandInv,
              ClientInv, CreateInv, DestroyInv, EventInv, RunningIsListed, ShutdownInv,
              ShutdownClosesListed, Creating, Destroying, Id, Listed, HasEnded, Over,
              Attempting
<1>5. QED
  BY <1>1, <1>2, <1>3, <1>4 DEF Next

\* IInv holds in every state, if the API does not repeat a command.
THEOREM Invariance == ASSUME NoRetries PROVE Spec => []IInv
<1>1. IInv /\ [Next]_vars => IInv'
  BY NextIInv
<1>2. QED
  BY <1>1, InitIInv, PTL DEF Spec

\* Every variable keeps its type.
THEOREM TypeCorrect == ASSUME NoRetries PROVE Spec => []TypeOK
<1>1. IInv => TypeOK
  BY DEF IInv
<1>2. QED
  BY <1>1, Invariance, PTL

\* A client is listed from before it connects until it is down.
THEOREM RunningIsListedHolds == ASSUME NoRetries PROVE Spec => []RunningIsListed
<1>1. IInv => RunningIsListed
  BY DEF IInv
<1>2. QED
  BY <1>1, Invariance, PTL

\* A clean exit leaves no connection open that Shutdown had found listed.
THEOREM ShutdownClosesListedHolds ==
  ASSUME NoRetries PROVE Spec => []ShutdownClosesListed
<1>1. IInv => ShutdownClosesListed
  BY DEF IInv
<1>2. QED
  BY <1>1, Invariance, PTL

\* Between commands for an id, its last event agrees with the map, but for the
\* CREATE of a client that its DELETE overtook.
THEOREM EventsAgreeHolds == ASSUME NoRetries PROVE Spec => []EventsAgree
<1>1. IInv => EventsAgree
  BY DEF IInv, EventInv, EventsAgree, Busy
<1>2. QED
  BY <1>1, Invariance, PTL

-----------------------------------------------------------------------------
(* Identd                                                                  *)

AskType ==
  /\ ours \in Urls
  /\ at \in [Askers -> Away .. Gone]
  /\ answer \in [Askers -> {"none", "USERID", "NO-USER", "UNKNOWN-ERROR"}]
  /\ about \in [Askers -> Clients \cup {NoClient}]
  /\ strangers \subseteq Askers

Kept(a) ==
  /\ OnPortmap(about[a])
  /\ at[a] > ours /\ Findable(a) => a \in failed \/ answer[a] = "USERID"

AskInv ==
  /\ AskType
  /\ \A a \in Askers :
       /\ at[a] = Away => a \notin alive \cup shown
       /\ a \in alive => running /\ about[a] \in Clients
       /\ at[a] < Answered => answer[a] = "none"
       /\ answer[a] = "NO-USER" /\ Findable(a) => a \notin failed
       /\ a \in shown /\ a \in alive => Kept(a)

-----------------------------------------------------------------------------

\* For Manager, identd's steps are stuttering.
LEMMA IdentdIsManager == IdentSpec => Spec
<1>1. IdentInit => Init
  BY DEF IdentInit
<1>2. [IdentNext]_<<vars, identVars>> => [Next]_vars
  BY DEF IdentNext, LiercdStep, ProcessEnds, IdentStep, Asks, TurnedAway, FetchFails,
         FetchRefused, FetchReads, FetchMatches, LookupEnds, HandleReturns, Answer
<1>3. QED
  BY <1>1, <1>2, PTL DEF IdentSpec, Spec

\* An open connection stays open until its attempt ends.
LEMMA OpenStaysOpen ==
  ASSUME IInv, Next, NEW c \in Clients, phase[c] = "open", phase'[c] \in Up
  PROVE  phase'[c] = "open"
<1>1. CASE \E d \in Clients : ClientStep(d)
  BY <1>1 DEF ClientStep, Follows, Attempt, Up, IInv, TypeOK
<1>2. CASE \E h \in Handlers : HandlerStep(h)
  <2> PICK h \in Handlers : HandlerStep(h)
    BY <1>2
  <2>1. CASE NewIRCClient(h)
    BY <2>1 DEF NewIRCClient, Up, IInv, TypeOK
  <2>2. CASE Start(h)
    BY <2>2 DEF Start, Goto, IInv, CreateInv, TypeOK
  <2>3. CASE UNCHANGED phase
    BY <2>3
  <2>4. QED
    BY <2>1, <2>2, <2>3
       DEF HandlerStep, Receive, Refuse, CreateFindsNone, AddClient, CreateEvent,
           DestroyFinds, DeleteEvent, DestroyQuits, DestroyReturns, RemoveClient
<1>3. CASE ShutdownStep
  BY <1>3 DEF ShutdownStep, ShutdownBegins, Visit, VisitsEnd, ShutdownEnds,
              ShutdownFails
<1>4. QED
  BY <1>1, <1>2, <1>3 DEF Next

\* A step of our liercd leaves what is open, and not ended, on the portmap.
LEMMA LiercdAskInv ==
  ASSUME IInv, IInv', AskInv, LiercdStep
  PROVE  AskInv'
<1> USE DEF AskInv, AskType, LiercdStep, askVars
<1>1. ASSUME NEW a \in Askers, a \in shown, a \in alive'
      PROVE  Kept(a)'
  <2>1. /\ a \in alive /\ about[a] \in Clients
        /\ phase[about[a]] = "open" /\ phase'[about[a]] \in Up
    BY <1>1 DEF Kept, Findable, OnPortmap, HasPorts
  <2>2. phase'[about[a]] = "open"
    BY <2>1, OpenStaysOpen
  <2>3. listed'[idOf'[about[a]]] = about[a]
    BY <2>1 DEF IInv, RunningIsListed, Attempting, Attempt
  <2>4. QED
    BY <1>1, <2>1, <2>2, <2>3 DEF Kept, Findable, OnPortmap, HasPorts
<1>2. QED
  BY <1>1 DEF Findable

\* Nor does identd answer NO-USER for it.
LEMMA IdentAskInv ==
  ASSUME AskInv, NEW a \in Askers, IdentStep(a)
  PROVE  AskInv'
<1> USE DEF AskInv, AskType, vars, Urls, Away, Read, Answered, Gone
<1>1. ASSUME NEW c \in Clients, Asks(a, c) PROVE AskInv'
  BY <1>1 DEF Asks, Kept, Findable, OnPortmap, HasPorts
<1>2. CASE TurnedAway(a)
  BY <1>2 DEF TurnedAway, Kept, Findable, OnPortmap, HasPorts
<1>3. CASE FetchFails(a)
  BY <1>3 DEF FetchFails, KeepFailure, NextUrl, Kept, Findable, OnPortmap, HasPorts
<1>4. CASE FetchRefused(a) \/ FetchReads(a)
  BY <1>4 DEF FetchRefused, FetchReads, NextUrl, Matches, Kept, Findable, OnPortmap, HasPorts
<1>5. CASE FetchMatches(a)
  BY <1>5 DEF FetchMatches, UserReply, Answer, Kept, Findable, OnPortmap, HasPorts
<1>6. CASE LookupEnds(a)
  BY <1>6 DEF LookupEnds, Answer, Kept, Findable, OnPortmap, HasPorts
<1>7. CASE HandleReturns(a)
  BY <1>7, ManagerAssumption DEF HandleReturns, Kept, Findable, OnPortmap, HasPorts
<1>8. QED
  BY <1>1, <1>2, <1>3, <1>4, <1>5, <1>6, <1>7 DEF IdentStep

\* No server is told NO-USER about its connection if PortMap had that when it
\* asked, the connection has not ended, and its user's name can be sent.
THEOREM NoUserIsTrueHolds == ASSUME NoRetries PROVE IdentSpec => []NoUserIsTrue
<1>1. IdentInit => AskInv
  BY DEF IdentInit, AskInv, AskType, Urls, Away, Gone, Answered
<1>2. IInv /\ IInv' /\ AskInv /\ [IdentNext]_<<vars, identVars>> => AskInv'
  <2> SUFFICES ASSUME IInv, IInv', AskInv, [IdentNext]_<<vars, identVars>>
               PROVE  AskInv'
    OBVIOUS
  <2>1. CASE LiercdStep
    BY <2>1, LiercdAskInv
  <2>2. CASE ProcessEnds
    BY <2>2 DEF ProcessEnds, AskInv, AskType, Findable, askVars
  <2>3. CASE \E a \in Askers : IdentStep(a)
    BY <2>3, IdentAskInv
  <2>4. CASE UNCHANGED <<vars, identVars>>
    BY <2>4 DEF vars, identVars, askVars, AskInv, AskType, Kept, Findable,
              OnPortmap, HasPorts
  <2>5. QED
    BY <2>1, <2>2, <2>3, <2>4 DEF IdentNext
<1>3. AskInv => NoUserIsTrue
  BY DEF AskInv, AskType, NoUserIsTrue, Kept, Findable, Urls, Away, Read, Answered, Gone
<1>4. QED
  BY <1>1, <1>2, <1>3, IdentdIsManager, Invariance, PTL DEF IdentSpec
=============================================================================
