------------------------------- MODULE Logger -------------------------------
(***************************************************************************)
(* lierc-logger's handleChat and handleMulti (pkg/logger/logger.go): a      *)
(* message of one of nsqd's topics is routed, stored and published, with     *)
(* failures of the database and of nsqd, messages delivered again, a process *)
(* that dies at any point, and a connection that is deleted.  The two        *)
(* topics have a consumer each, which share only the database; a behaviour   *)
(* shows one of them.  How the patterns that Match uses follow the saved     *)
(* words is in Highlights.                                                  *)
(***************************************************************************)
EXTENDS NsqChannel

CONSTANT MaxCrashes  \* bound on the times the process dies

ASSUME LoggerAssumption == MaxCrashes \in Nat

\* What routeChat makes of a message of "chats", and handleMulti of one of
\* "multi": "channel" is stored under a channel or the status panel,
\* "private" under the sender's nick, "nowhere" has no channels.
ChatRoutes == {"drop", "pass", "channel", "private"}
MultiRoutes == {"drop", "multi", "nowhere"}
Stored == {"channel", "private", "multi"}

VARIABLES
  route,      \* each message's route
  steps,      \* what the handler has yet to do with the message in flight
  highlight,  \* what Match said of it
  exists,     \* the connection has its row
  rows,       \* each message's rows in the log
  private,    \* the last message recorded with the sender, or NoMessage
  live,       \* the messages published to "logged"
  noted,      \* the messages published to "highlight"
  orphans,    \* the messages whose connection was found gone (history)
  unsure,     \* those stored without nsqd being told (history)
  crashes     \* how often the process died

handlerVars == <<steps, highlight>>
dbVars == <<exists, rows, private>>
publishedVars == <<live, noted>>
historyVars == <<orphans, unsure, crashes>>
vars == <<route, handlerVars, dbVars, publishedVars, historyVars, nsqVars>>

Init ==
  /\ NsqInit([m \in Messages |-> m])
  /\ route \in [Messages -> ChatRoutes] \cup [Messages -> MultiRoutes]
  /\ steps = <<>> /\ highlight = FALSE
  /\ exists = TRUE /\ rows = [m \in Messages |-> 0] /\ private = NoMessage
  /\ live = {} /\ noted = {}
  /\ orphans = {} /\ unsure = {} /\ crashes = 0

-----------------------------------------------------------------------------
(* The handlers                                                            *)

PublishFirst ==
  [drop |-> <<>>, pass |-> <<"publish">>, nowhere |-> <<"publish">>,
   multi |-> <<"publish", "insert">>,
   channel |-> <<"match", "publish", "notify", "insert">>,
   private |-> <<"private", "match", "publish", "notify", "insert">>]  \* mutant
PrivateLast ==
  [drop |-> <<>>, pass |-> <<"publish">>, nowhere |-> <<"publish">>,
   multi |-> <<"insert", "publish">>,
   channel |-> <<"match", "insert", "publish", "notify">>,
   private |-> <<"match", "insert", "private", "publish", "notify">>]  \* mutant
Steps ==
  [drop |-> <<>>, pass |-> <<"publish">>, nowhere |-> <<"publish">>,
   multi |-> <<"insert", "publish">>,
   channel |-> <<"match", "insert", "publish", "notify">>,
   private |-> <<"private", "match", "insert", "publish", "notify">>]

Consume(m) ==
  /\ Deliver(m)
  /\ steps' = Steps[route[m]] /\ highlight' = FALSE
  /\ UNCHANGED <<route, dbVars, publishedVars, historyVars>>

ConsumerGivesUp(m) ==
  /\ GiveUp(m)
  /\ UNCHANGED <<route, handlerVars, dbVars, publishedVars, historyVars>>

\* The handler is about to do step.
At(step) == inFlight # NoMessage /\ steps # <<>> /\ Head(steps) = step
Done == steps' = Tail(steps)

SwallowFailure == Finish                                           \* mutant
\* Published anew, so that nsqd counts its tries from the start.
RepublishFailure ==
  /\ inFlight' = NoMessage /\ waiting' = Append(waiting, inFlight)
  /\ tries' = [tries EXCEPT ![inFlight] = 0]
  /\ UNCHANGED <<deferred, finished, givenUp>>                      \* mutant
AfterFailure == Requeue

\* The handler returns an error.
Fails == steps' = <<>> /\ AfterFailure

InsertPrivate ==
  /\ At("private") /\ Done
  /\ private' = inFlight
  /\ UNCHANGED <<route, highlight, exists, rows, publishedVars,
                 historyVars, nsqVars>>

\* The database may have written it all the same.
InsertPrivateFails ==
  /\ At("private") /\ Fails
  /\ private' \in {private, inFlight}
  /\ UNCHANGED <<route, highlight, exists, rows, publishedVars,
                 historyVars>>

\* Whether it is someone else's PRIVMSG with one of the words.
Match ==
  /\ At("match") /\ Done
  /\ highlight' \in BOOLEAN
  /\ UNCHANGED <<route, dbVars, publishedVars, historyVars, nsqVars>>

Insertion == rows' = [rows EXCEPT ![inFlight] = @ + 1]

InsertMessage ==
  /\ At("insert") /\ Done
  /\ IF exists THEN Insertion /\ UNCHANGED orphans
     ELSE orphans' = orphans \cup {inFlight} /\ UNCHANGED rows  \* ErrNoConnection
  /\ UNCHANGED <<route, highlight, exists, private, publishedVars, unsure,
                 crashes, nsqVars>>

InsertFails ==
  /\ At("insert") /\ Fails
  /\ \/ exists /\ Insertion /\ unsure' = unsure \cup {inFlight}
     \/ UNCHANGED <<rows, unsure>>
  /\ UNCHANGED <<route, highlight, exists, private, publishedVars, orphans,
                 crashes>>

RetryPublish == steps' = <<>> /\ Requeue                           \* mutant
AfterPublishError == Done /\ UNCHANGED nsqVars

Publishes ==
  /\ At("publish") /\ Done
  /\ live' = live \cup {inFlight}
  /\ UNCHANGED <<route, highlight, dbVars, noted, historyVars, nsqVars>>

\* The error is only logged; nsqd may have taken the message all the same.
PublishFails ==
  /\ At("publish") /\ AfterPublishError
  /\ live' \in {live, live \cup {inFlight}}
  /\ UNCHANGED <<route, highlight, dbVars, noted, historyVars>>

\* A highlight, or a private message, which is always someone else's.
ForNotifier == highlight \/ route[inFlight] = "private"

PublishesHighlight ==
  /\ At("notify") /\ Done
  /\ \/ ForNotifier /\ noted' = noted \cup {inFlight}
     \/ UNCHANGED noted                        \* none, or the publish failed
  /\ UNCHANGED <<route, highlight, dbVars, live, historyVars, nsqVars>>

StoredNow == {m \in {inFlight} \ {NoMessage} : rows[m] > 0}

\* The handler returns nil.  nsqd may learn of it too late.
Answer ==
  /\ inFlight # NoMessage /\ steps = <<>>
  /\ \/ Finish /\ UNCHANGED unsure
     \/ Requeue /\ unsure' = unsure \cup StoredNow
  /\ UNCHANGED <<route, handlerVars, dbVars, publishedVars, orphans,
                 crashes>>

-----------------------------------------------------------------------------
\* The process dies, and is started again: nsqd defers what it had in hand.
Crash ==
  /\ crashes < MaxCrashes /\ crashes' = crashes + 1
  /\ IF inFlight = NoMessage THEN UNCHANGED nsqVars ELSE Requeue
  /\ steps' = <<>> /\ highlight' = FALSE
  /\ unsure' = unsure \cup StoredNow
  /\ UNCHANGED <<route, dbVars, publishedVars, orphans>>

\* The user deletes the connection.
DeleteConnection ==
  /\ exists /\ exists' = FALSE
  /\ UNCHANGED <<route, handlerVars, rows, private, publishedVars,
                 historyVars, nsqVars>>

HandlerStep ==
  \/ InsertPrivate \/ InsertPrivateFails \/ Match \/ InsertMessage \/ InsertFails
  \/ Publishes \/ PublishFails \/ PublishesHighlight \/ Answer

Next ==
  \/ \E m \in Messages : Consume(m) \/ ConsumerGivesUp(m)
  \/ HandlerStep \/ Crash \/ DeleteConnection

Spec == Init /\ [][Next]_vars

\* The handler runs, and nsqd delivers what it has: Start tries until it is
\* through, and a consumer that lost nsqd connects again.
FairSpec ==
  /\ Spec
  /\ WF_vars(HandlerStep)
  /\ \A m \in Messages : SF_vars(Consume(m) \/ ConsumerGivesUp(m))

-----------------------------------------------------------------------------
(* Properties                                                              *)

\* nsqd is through with a message that is to be stored only when it is in the
\* log, its connection was gone, or none of the tries go-nsq gives it has
\* stored it: such a message is lost.
UnstoredForAReason ==
  \A m \in Messages : route[m] \in Stored /\ ~OnItsWay(m) =>
    rows[m] > 0 \/ m \in orphans \/ (m \in givenUp /\ tries[m] = MaxTries)

\* What the API and the notifier are given was stored first, so that the id
\* they ask for is there; but a message whose connection is gone is published
\* without an id, and never stored.
PublishedIsStored ==
  \A m \in live \cup noted : route[m] \in Stored => rows[m] > 0 \/ m \in orphans

\* A message is stored twice only if nsqd could not know of the first time:
\* the insert's answer, or the handler's, was lost.  A failure to publish
\* does not lead to it.
StoredTwiceForAReason == \A m \in Messages : rows[m] > 1 => m \in unsure

\* A stored private message is in the list of conversations, at its time or a
\* later one, unless a message delivered again has taken that back.
ConversationIsCurrent ==
  \A m \in Messages : rows[m] > 0 /\ route[m] = "private" =>
    private >= m \/ (private # NoMessage /\ tries[private] > 1)

\* Every message is dealt with in the end, or given up, whatever fails.
Settled == \A m \in Messages : <>(m \in finished \cup givenUp)
=============================================================================
