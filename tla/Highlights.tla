----------------------------- MODULE Highlights -----------------------------
(***************************************************************************)
(* The highlight patterns lierc-logger keeps in memory                      *)
(* (pkg/logger/highlight.go) and how they follow the words in the database: *)
(* loaded by Start, then again for every notice of the postgres listener    *)
(* (reloadHighlights, listenForHighlights in pkg/logger/logger.go).  The    *)
(* saved words of one connection are known by their version.                *)
(***************************************************************************)
EXTENDS Naturals

CONSTANTS MaxEdits,    \* bound on the edits of the words
          MaxNotices,  \* bound on the notices not taken yet
          Blank        \* the versions without words, or that can't be read

Versions == 1 .. MaxEdits + 1
NoPattern == 0

ASSUME HighlightsAssumption ==
  /\ MaxEdits \in Nat /\ MaxNotices \in Nat \ {0}
  /\ Blank \subseteq Versions

VARIABLES
  words,      \* the version saved in the database
  notified,   \* the version of the API's last NOTIFY
  patterns,   \* the version l.highlights was built from, or NoPattern
  read,       \* the version the reload under way has read
  rpc,        \* where reloadHighlights is, in Start or in the goroutine
  listening,  \* Start's Listen has returned
  up,         \* the listener's connection is up
  notices,    \* the notices on their way to the goroutine
  missed      \* since the last read a NOTIFY came before Listen, or a
              \* reload failed (history)

apiVars == <<words, notified>>
loaderVars == <<patterns, read, rpc, missed>>
listenerVars == <<listening, up, notices>>
vars == <<apiVars, loaderVars, listenerVars>>

Init ==
  /\ words = 1 /\ notified = 1
  /\ patterns = NoPattern /\ read = NoPattern /\ rpc = "query"
  /\ listening = FALSE /\ up = FALSE /\ notices = 0 /\ missed = FALSE

-----------------------------------------------------------------------------
(* reloadHighlights                                                        *)

\* A connection without a word, or whose words can't be read, has no pattern.
Compile(version) == IF version \in Blank THEN NoPattern ELSE version

QuerySucceeds ==
  /\ rpc = "query" /\ rpc' = "replace"
  /\ read' = words /\ missed' = FALSE
  /\ UNCHANGED <<apiVars, patterns, listenerVars>>

\* The patterns stay as they are, and nothing tries again
\* before the next notice.
QueryFails ==
  /\ rpc = "query" /\ rpc' = "idle"
  /\ missed' = TRUE
  /\ UNCHANGED <<apiVars, patterns, read, listenerVars>>

ReplaceAndDrain ==
  /\ rpc = "replace" /\ rpc' = "idle"
  /\ patterns' = Compile(read)
  /\ notices' = 0
  /\ UNCHANGED <<apiVars, read, missed, listening, up>>            \* mutant
Replace ==
  /\ rpc = "replace" /\ rpc' = "idle"
  /\ patterns' = Compile(read)
  /\ UNCHANGED <<apiVars, read, missed, listenerVars>>

-----------------------------------------------------------------------------
(* listenForHighlights, its goroutine, and the listener                    *)

Listen ==
  /\ rpc = "idle" /\ ~listening
  /\ listening' = TRUE /\ up' = TRUE
  /\ UNCHANGED <<apiVars, loaderVars, notices>>

Notice ==
  /\ rpc = "idle" /\ listening /\ notices > 0
  /\ rpc' = "query" /\ notices' = notices - 1
  /\ UNCHANGED <<apiVars, patterns, read, missed, listening, up>>

\* A NOTIFY lost on the way is one that comes after the drop.
ListenerDrops ==
  /\ listening /\ up /\ up' = FALSE
  /\ UNCHANGED <<apiVars, loaderVars, listening, notices>>

ReconnectInSilence == notices                                      \* mutant
\* The nil notice that tells that others may have been missed.
ReconnectNotice == notices + 1

Reconnect ==
  /\ listening /\ ~up /\ notices < MaxNotices
  /\ up' = TRUE /\ notices' = ReconnectNotice
  /\ UNCHANGED <<apiVars, loaderVars, listening>>

-----------------------------------------------------------------------------
(* The API                                                                 *)

Edit ==
  /\ words \in Versions \ {MaxEdits + 1} /\ words' = words + 1
  /\ UNCHANGED <<notified, loaderVars, listenerVars>>

Notify ==
  /\ notified < words /\ notified' = notified + 1
  /\ IF listening /\ up
     THEN /\ notices < MaxNotices /\ notices' = notices + 1
          /\ UNCHANGED missed
     ELSE /\ missed' = (missed \/ ~listening)
          /\ UNCHANGED notices
  /\ UNCHANGED <<words, patterns, read, rpc, listening, up>>

-----------------------------------------------------------------------------
\* The process dies, or is stopped, and is started again.
Restart ==
  /\ patterns' = NoPattern /\ read' = NoPattern /\ rpc' = "query"
  /\ listening' = FALSE /\ up' = FALSE /\ notices' = 0 /\ missed' = FALSE
  /\ UNCHANGED apiVars

ReloadStep == QuerySucceeds \/ QueryFails \/ Replace
ListenerStep == Listen \/ Notice \/ ListenerDrops \/ Reconnect

Next ==
  ReloadStep \/ ListenerStep \/ Edit \/ Notify \/ Restart

Spec == Init /\ [][Next]_vars

\* A query and Listen return, the goroutine runs, pq's listener connects again
\* for as long as it takes, and the API's NOTIFY follows its edit.
FairSpec ==
  /\ Spec
  /\ WF_vars(ReloadStep) /\ WF_vars(Listen \/ Notice)
  /\ WF_vars(Reconnect) /\ WF_vars(Notify)

-----------------------------------------------------------------------------
(* Properties                                                              *)

\* Every variable keeps its type.
TypeOK ==
  /\ words \in Versions /\ notified \in 1 .. words
  /\ patterns \in {NoPattern} \cup Versions /\ read \in {NoPattern} \cup Versions
  /\ rpc \in {"query", "replace", "idle"}
  /\ listening \in BOOLEAN /\ up \in BOOLEAN /\ missed \in BOOLEAN
  /\ notices \in 0 .. MaxNotices

\* While the logger runs its patterns lag behind the saved words only until a
\* NOTIFY that is still to come, or the reload it leads to: a listener that was
\* away makes up for what it missed.  The two cases the code has no answer to
\* are named: a NOTIFY between the load and Listen, and a reload that failed.
PatternsStaleForAReason ==
  listening /\ patterns # Compile(words) =>
    notified < words \/ notices > 0 \/ rpc # "idle" \/ ~up \/ missed

\* A logger that is not started again and again has the saved words' patterns
\* again and again, or missed a NOTIFY or a reload, however often the
\* listener's connection drops.
PatternsFollow == []<>(patterns = Compile(words) \/ missed \/ ~listening)
=============================================================================
