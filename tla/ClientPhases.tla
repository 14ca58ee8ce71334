---------------------------- MODULE ClientPhases ----------------------------
(***************************************************************************)
(* What the rest of liercd needs to know of an IRCClient: where it is in     *)
(* its life, and which phase may follow which.  ClientLife makes this a      *)
(* specification, which Connection implements; Manager's clients move by it. *)
(***************************************************************************)

\* An attempt dials; the server has accepted the connection; it is set up
\* (c.socket); it is given up, and its end being published.
Up == {"dialing", "accepted", "open"}
Attempt == Up \cup {"closing"}

\* Where a client may go on its own.  One that is to stay down ends its
\* attempt, and neither sets one up nor begins another.
Follows(from, staysDown) ==
  {to \in Attempt \cup {"waiting"} :
     \/ from = "waiting" /\ to = "dialing" /\ ~staysDown
     \/ from = "dialing" /\ to = "accepted"
     \/ from = "accepted" /\ to = "open" /\ ~staysDown
     \/ from \in Up /\ to = "closing"
     \/ from = "closing" /\ to = "waiting"}

\* What Destroy waits for: nothing is open, and nothing will be.
Over(at, quits) == quits /\ at \notin Attempt
=============================================================================
