----------------------------- MODULE ClientLife -----------------------------
(***************************************************************************)
(* The life of an IRCClient, as Manager and identd rely on it: one attempt   *)
(* after another, none of which is set up, or begun, once the client is to   *)
(* stay down, and a Destroy that returns when the last one is over.          *)
(***************************************************************************)
EXTENDS ClientPhases

VARIABLES
  phase,     \* where the client is
  quitting,  \* Destroy was called
  stopped,   \* the client has stopped for good
  returned   \* a Destroy has returned

vars == <<phase, quitting, stopped, returned>>

Init ==
  /\ phase = "waiting"
  /\ quitting = FALSE /\ stopped = FALSE /\ returned = FALSE

Move ==
  /\ phase' \in Follows(phase, quitting \/ stopped)
  /\ UNCHANGED <<quitting, stopped, returned>>

\* Only a server that has accepted the connection can make it stop.
Stop ==
  /\ phase \in {"accepted", "open"}
  /\ stopped' = TRUE
  /\ UNCHANGED <<phase, quitting, returned>>

Quit ==
  /\ quitting' = TRUE
  /\ UNCHANGED <<phase, stopped, returned>>

Return ==
  /\ Over(phase, quitting)
  /\ returned' = TRUE
  /\ UNCHANGED <<phase, quitting, stopped>>

Next == Move \/ Stop \/ Quit \/ Return

Spec == Init /\ [][Next]_vars
=============================================================================
