-------------------------------- MODULE Identd --------------------------------
(***************************************************************************)
(* lierc-identd (cmd/lierc-identd): an IRC server asks whose a connection    *)
(* is as soon as it has accepted it, and identd looks for it on the portmaps *)
(* of two liercds, one after the other.  One of them is Manager's, the other *)
(* any that does not have the connection.                                    *)
(***************************************************************************)
EXTENDS Manager

CONSTANTS Askers,    \* the connections servers make to identd, a query each
          MaxConns,  \* connections identd handles at once
          Nameless   \* the clients of whose user cleanUser leaves nothing

ASSUME IdentdAssumption == MaxConns \in Nat /\ Nameless \subseteq Clients

\* Where an asker is: a url is the one lookup is to read for it.
Away == 0
Urls == 1 .. 2
Read == 3
Answered == 4
Gone == 5

VARIABLES
  ours,     \* which of the urls is our liercd's
  running,  \* our liercd's process runs
  slots,    \* how many of identd's slots are taken
  about,    \* the client whose connection each asker asks about
  strangers,  \* the askers whose address is not that of the connection's server
  at,       \* where each asker is
  failed,   \* the askers with a portmap that could not be read
  answer,   \* what each was answered
  alive,    \* history: the askers whose connection still is the one it was
  shown     \* history: those whose connection PortMap had when they asked

askVars == <<slots, about, strangers, at, failed, answer, shown>>
identVars == <<ours, running, alive, askVars>>

IdentInit ==
  /\ Init
  /\ ours \in Urls /\ running = TRUE
  /\ slots = 0
  /\ about = [a \in Askers |-> NoClient]
  /\ at = [a \in Askers |-> Away]
  /\ strangers = {} /\ failed = {} /\ alive = {} /\ shown = {}
  /\ answer = [a \in Askers |-> "none"]

\* PortMap's ok.
HasPorts(c) == phase[c] = "open"
\* HandleCommand's answer to portmap has the client.
OnPortmap(c) == listed[idOf[c]] = c /\ HasPorts(c)

-----------------------------------------------------------------------------
\* A step of our liercd.  Its connections end with it.
LiercdStep ==
  /\ Next
  /\ alive' = {a \in alive : phase'[about[a]] \in Up}
  /\ UNCHANGED <<ours, running, askVars>>

ProcessEnds ==
  /\ Exited
  /\ running /\ running' = FALSE
  /\ alive' = {}
  /\ UNCHANGED <<vars, ours, askVars>>

\* The server connects and asks about c's connection, or someone else does.
Asks(a, c) ==
  /\ running /\ phase[c] \in {"accepted", "open"}
  /\ at[a] = Away
  /\ slots < MaxConns /\ slots' = slots + 1
  /\ at' = [at EXCEPT ![a] = 1]
  /\ about' = [about EXCEPT ![a] = c]
  /\ strangers' \in {strangers, strangers \cup {a}}
  /\ alive' = alive \cup {a}
  /\ shown' = IF OnPortmap(c) THEN shown \cup {a} ELSE shown
  /\ UNCHANGED <<vars, ours, running, failed, answer>>

TurnedAway(a) ==
  /\ at[a] = Away /\ at' = [at EXCEPT ![a] = Gone]
  /\ slots = MaxConns
  /\ UNCHANGED <<vars, ours, running, slots, about, strangers, failed, answer,
                 alive, shown>>

\* lookup's loop.
NextUrl(a) == at' = [at EXCEPT ![a] = @ + 1]

IgnoreFailure(a) == UNCHANGED failed                               \* mutant
KeepFailure(a) == failed' = failed \cup {a}

FetchFails(a) ==
  /\ at[a] \in Urls /\ NextUrl(a)
  /\ KeepFailure(a)
  /\ UNCHANGED <<vars, ours, running, slots, about, strangers, answer, alive,
                 shown>>

\* Nothing listens there.
FetchRefused(a) ==
  /\ at[a] \in Urls /\ NextUrl(a)
  /\ at[a] = ours => ~running
  /\ UNCHANGED <<vars, ours, running, slots, about, strangers, failed, answer,
                 alive, shown>>

\* The connection asked about is on the portmap that is read, with the
\* asker's address.
Matches(a) ==
  /\ at[a] = ours /\ a \in alive /\ OnPortmap(about[a])
  /\ a \notin strangers

FetchReads(a) ==
  /\ at[a] \in Urls /\ NextUrl(a)
  /\ at[a] = ours => running
  /\ ~Matches(a)
  /\ UNCHANGED <<vars, ours, running, slots, about, strangers, failed, answer,
                 alive, shown>>

Answer(a, reply) ==
  /\ at' = [at EXCEPT ![a] = Answered]
  /\ answer' = [answer EXCEPT ![a] = reply]
  /\ UNCHANGED <<vars, ours, running, slots, about, strangers, failed, alive,
                 shown>>

\* reply, of a user found: one whose name cannot be sent is none.
UserReply(a) == IF about[a] \in Nameless THEN "NO-USER" ELSE "USERID"

FetchMatches(a) ==
  /\ at[a] \in Urls
  /\ running /\ Matches(a)
  /\ Answer(a, UserReply(a))

LookupEnds(a) ==
  /\ at[a] = Read
  /\ Answer(a, IF a \in failed THEN "UNKNOWN-ERROR" ELSE "NO-USER")

\* handle returns: the server closes its connection, or its time is up.
HandleReturns(a) ==
  /\ at[a] = Answered /\ at' = [at EXCEPT ![a] = Away]
  /\ slots' = slots - 1
  /\ about' = [about EXCEPT ![a] = NoClient]
  /\ answer' = [answer EXCEPT ![a] = "none"]
  /\ strangers' = strangers \ {a} /\ failed' = failed \ {a}
  /\ alive' = alive \ {a} /\ shown' = shown \ {a}
  /\ UNCHANGED <<vars, ours, running>>

IdentStep(a) ==
  \/ \E c \in Clients : Asks(a, c)
  \/ TurnedAway(a)
  \/ FetchFails(a) \/ FetchRefused(a) \/ FetchReads(a) \/ FetchMatches(a)
  \/ LookupEnds(a) \/ HandleReturns(a)

IdentNext == LiercdStep \/ ProcessEnds \/ \E a \in Askers : IdentStep(a)

IdentSpec == IdentInit /\ [][IdentNext]_<<vars, identVars>>

-----------------------------------------------------------------------------
(* Properties                                                              *)

\* The server itself asks, about a user with a name that can be sent.
Findable(a) == a \notin strangers /\ about[a] \notin Nameless

\* No server is told NO-USER about its connection if PortMap had that when it
\* asked, the connection has not ended, and its user's name can be sent: lookup
\* "returns errNoUser only when every portmap was read", "since the connection
\* may be the unreadable instance's".
NoUserIsTrue ==
  \A a \in Askers :
    answer[a] = "NO-USER" /\ a \in shown /\ Findable(a) => a \notin alive

\* "the server may look the connection up, through identd, as soon as it
\* accepts it" (client.go): none is told NO-USER about its connection, which is
\* up and whose user's name can be sent.
AcceptedIsFound ==
  \A a \in Askers : answer[a] = "NO-USER" /\ Findable(a) => a \notin alive
=============================================================================
