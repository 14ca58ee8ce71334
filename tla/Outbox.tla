-------------------------------- MODULE Outbox --------------------------------
(***************************************************************************)
(* What liercd's publish queue promises its clients: events reach nsqd in   *)
(* the order they were accepted, none skipped, and no more than Capacity    *)
(* of them wait.                                                            *)
(***************************************************************************)
EXTENDS Naturals, Sequences

CONSTANTS Events, Capacity

VARIABLES stream,   \* what nsqd has been given, in order
          waiting   \* accepted, not yet given to nsqd

vars == <<stream, waiting>>

Init == stream = <<>> /\ waiting = <<>>

Accept(e) ==
  /\ Len(waiting) < Capacity
  /\ waiting' = Append(waiting, e)
  /\ UNCHANGED stream

Deliver ==
  /\ waiting # <<>>
  /\ stream' = Append(stream, Head(waiting))
  /\ waiting' = Tail(waiting)

Next == Deliver \/ \E e \in Events : Accept(e)

Spec == Init /\ [][Next]_vars
=============================================================================
