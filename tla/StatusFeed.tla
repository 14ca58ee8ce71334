------------------------------ MODULE StatusFeed ------------------------------
(***************************************************************************)
(* What the subscribers of a connection's status see: which status may     *)
(* follow which.  It abstracts the statuses IRCClient gives its sink        *)
(* (pkg/lierc/connection.go): after "Closing connection" nothing says the   *)
(* client is connected or will reconnect, a stopped client stays stopped,   *)
(* and a new connection follows only "Connecting" or "Reconnecting in".     *)
(***************************************************************************)
VARIABLES shown,    \* the last status published
          closing   \* Destroy has published "Closing connection"

vars == <<shown, closing>>

Down(msg) == [msg |-> msg, connected |-> FALSE]

Ends == {"Ended", "Stopped", "GaveUp"}

Init == shown = Down("Connecting") /\ closing = FALSE

Connected ==
  /\ ~closing
  /\ shown.msg \in {"Connecting", "Reconnecting"}
  /\ shown' = [msg |-> "Connected", connected |-> TRUE]
  /\ UNCHANGED closing

\* The attempt ended, or failed before it was connected.
Ended ==
  /\ shown.msg \notin Ends
  /\ \E msg \in Ends : shown' = Down(msg)
  /\ UNCHANGED closing

Reconnecting ==
  /\ ~closing
  /\ shown.msg \in Ends \ {"Stopped"}
  /\ shown' = Down("Reconnecting")
  /\ UNCHANGED closing

Closing ==
  /\ closing' = TRUE
  /\ shown' = [shown EXCEPT !.msg = "Closing"]

Next == Connected \/ Ended \/ Reconnecting \/ Closing

Spec == Init /\ [][Next]_vars
=============================================================================
