------------------------------ MODULE ConfigSync ------------------------------
(***************************************************************************)
(* How a client's changes to its own config are saved.  Its handlers change *)
(* the config and, once the client is unlocked, publish the field's new      *)
(* value (pkg/lierc); it reaches nsqd through the publish queue; the         *)
(* logger's handleConfig merges it into the saved config (pkg/logger).       *)
(* A change is known by its number, which stands for the field's value.      *)
(***************************************************************************)
EXTENDS NsqChannel

Fields == {"Channels", "Nick"}
Unchanged == 0

VARIABLES
  config,   \* the client's Config: the last change of each field
  changes,  \* how many changes there were
  fieldOf,  \* each change's field
  effects,  \* the changes a handler has yet to publish
  dropped,  \* the changes a full publish queue dropped
  saved     \* the saved config: the last change merged of each field

clientVars == <<config, changes, fieldOf, effects>>
vars == <<clientVars, dropped, saved, nsqVars>>

Init ==
  /\ NsqInit(<<>>)
  /\ config = [f \in Fields |-> Unchanged]
  /\ changes = 0
  /\ fieldOf \in [Messages -> Fields]
  /\ effects = {} /\ dropped = {}
  /\ saved = config

-----------------------------------------------------------------------------
(* The client                                                              *)

ReaderDoesNotWait == TRUE                                          \* mutant
\* The reader is back from the last message's publishEffects.
ReaderIsFree == effects = {}

\* onJoin, onPart, onKick or onNick, with configChanged, under the lock.
Change ==
  /\ ReaderIsFree
  /\ changes < MaxMessages /\ changes' = changes + 1
  /\ config' = [config EXCEPT ![fieldOf[changes']] = changes']
  /\ effects' = effects \cup {changes'}
  /\ UNCHANGED <<fieldOf, dropped, saved, nsqVars>>

PublishEffects(m) ==
  /\ m \in effects /\ effects' = effects \ {m}
  /\ Publish(m)
  /\ UNCHANGED <<config, changes, fieldOf, dropped, saved>>

QueueDrops(m) ==
  /\ m \in effects /\ effects' = effects \ {m}
  /\ dropped' = dropped \cup {m}
  /\ UNCHANGED <<config, changes, fieldOf, saved, nsqVars>>

-----------------------------------------------------------------------------
(* handleConfig                                                            *)

Consume(m) ==
  /\ Deliver(m) \/ GiveUp(m)
  /\ UNCHANGED <<clientVars, dropped, saved>>

MergeConfig == [saved EXCEPT ![fieldOf[inFlight]] = inFlight]

Handling == inFlight # NoMessage

\* nsqd may learn of the success too late, and then delivers it again.
HandleConfig ==
  /\ Handling
  /\ saved' = MergeConfig
  /\ Finish \/ Requeue
  /\ UNCHANGED <<clientVars, dropped>>

AckFailure == Finish                                               \* mutant
\* Published anew, so that nsqd counts its tries from the start.
RepublishFailure ==
  /\ inFlight' = NoMessage /\ waiting' = Append(waiting, inFlight)
  /\ tries' = [tries EXCEPT ![inFlight] = 0]
  /\ UNCHANGED <<deferred, finished, givenUp>>                      \* mutant
AfterFailure == Requeue

\* The database may have merged it all the same.
HandleConfigFails ==
  /\ Handling
  /\ saved' \in {saved, MergeConfig}
  /\ AfterFailure
  /\ UNCHANGED <<clientVars, dropped>>

-----------------------------------------------------------------------------
Next ==
  \/ Change \/ HandleConfig \/ HandleConfigFails
  \/ \E m \in Messages : PublishEffects(m) \/ QueueDrops(m) \/ Consume(m)

Spec == Init /\ [][Next]_vars

\* The reader and the consumer are scheduled, and nsqd delivers what it has.
FairSpec ==
  /\ Spec
  /\ WF_vars(HandleConfig \/ HandleConfigFails)
  /\ \A m \in Messages :
       WF_vars(PublishEffects(m) \/ QueueDrops(m)) /\ SF_vars(Consume(m))

-----------------------------------------------------------------------------
(* Properties                                                              *)

\* The saved config lags behind the client's only for a reason: the change is
\* still on its way, it was dropped or given up, or what is saved is a change
\* that was delivered again, perhaps after a later one.
StaleForAReason ==
  \A f \in Fields : saved[f] # config[f] =>
    \/ config[f] \in effects \cup dropped \cup givenUp \/ OnItsWay(config[f])
    \/ saved[f] # Unchanged /\ tries[saved[f]] > 1

\* Nothing but a redelivery takes a saved field back to an earlier change.
OnlyRetriesGoBack ==
  [][\A f \in Fields : saved'[f] < saved[f] => tries[inFlight] > 1]_vars

\* Every change is handled in the end, or given up, or was never queued.
Handled ==
  \A m \in Messages : changes >= m ~> m \in finished \cup givenUp \cup dropped
=============================================================================
