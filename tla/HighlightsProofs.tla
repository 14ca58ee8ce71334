-------------------------- MODULE HighlightsProofs --------------------------
(***************************************************************************)
(* Proofs about Highlights, for any number of edits and notices and any      *)
(* versions without words.  That the patterns are stale for a reason only    *)
(* is inductive when it is also said of what a reload has read and not put   *)
(* in place yet (ReadStaleForAReason): an edit may come in between, and its  *)
(* notice waits until the goroutine is back.                                *)
(***************************************************************************)
EXTENDS Highlights, TLAPS

\* A NOTIFY or a reload is to come, or was missed.
ToCome == notified < words \/ notices > 0 \/ (listening /\ ~up) \/ missed

LoadedStaleForAReason ==
  rpc = "idle" /\ patterns # Compile(words) => ToCome

ReadStaleForAReason == rpc = "replace" /\ read # words => ToCome

IInv ==
  /\ TypeOK /\ (up => listening)
  /\ LoadedStaleForAReason /\ ReadStaleForAReason

-----------------------------------------------------------------------------

LEMMA InitIInv == Init => IInv
<1> SUFFICES ASSUME Init PROVE IInv
  OBVIOUS
<1>1. words \in Versions /\ notified \in 1 .. words /\ notices \in 0 .. MaxNotices
  BY HighlightsAssumption DEF Init, Versions
<1>2. TypeOK
  BY <1>1 DEF Init, TypeOK
<1>3. QED
  BY <1>2 DEF Init, IInv, LoadedStaleForAReason, ReadStaleForAReason

LEMMA NextIInv == IInv /\ [Next]_vars => IInv'
<1> SUFFICES ASSUME IInv, [Next]_vars PROVE IInv'
  OBVIOUS
<1> USE HighlightsAssumption
    DEF IInv, LoadedStaleForAReason, ReadStaleForAReason, ToCome,
        apiVars, loaderVars, listenerVars
<1>1. words \in Nat /\ notified \in Nat /\ notices \in Nat
  BY DEF TypeOK, Versions
<1>2. CASE QuerySucceeds
  BY <1>2 DEF QuerySucceeds, TypeOK
<1>3. CASE QueryFails
  BY <1>3 DEF QueryFails, TypeOK
<1>4. CASE Replace
  <2>1. Compile(read) \in {NoPattern} \cup Versions
    BY DEF Compile, TypeOK
  <2>2. TypeOK'
    BY <1>4, <2>1 DEF Replace, TypeOK
  <2>3. QED
    BY <1>4, <2>2 DEF Replace
<1>5. CASE Listen
  BY <1>5 DEF Listen, TypeOK
<1>6. CASE Notice
  BY <1>6, <1>1 DEF Notice, TypeOK
<1>7. CASE ListenerDrops
  BY <1>7 DEF ListenerDrops, TypeOK
<1>8. CASE Reconnect
  <2>1. notices' \in 1 .. MaxNotices
    BY <1>8, <1>1 DEF Reconnect, ReconnectNotice, TypeOK
  <2>2. QED
    BY <1>8, <2>1 DEF Reconnect, TypeOK
<1>9. CASE Edit
  <2>1. words' = words + 1 /\ words' \in Versions /\ notified < words'
    BY <1>9, <1>1 DEF Edit, Versions, TypeOK
  <2>2. QED
    BY <1>9, <1>1, <2>1 DEF Edit, TypeOK
<1>10. CASE Notify
  <2>1. notified' \in 1 .. words'
    BY <1>10, <1>1 DEF Notify, TypeOK
  <2>2. CASE listening /\ up
    BY <1>10, <1>1, <2>1, <2>2 DEF Notify, TypeOK
  <2>3. CASE ~(listening /\ up)
    BY <1>10, <1>1, <2>1, <2>3 DEF Notify, TypeOK
  <2>4. QED
    BY <2>2, <2>3
<1>11. CASE Restart
  <2>1. notices' \in 0 .. MaxNotices
    BY <1>11 DEF Restart
  <2>2. TypeOK'
    BY <1>11, <2>1 DEF Restart, TypeOK
  <2>3. QED
    BY <1>11, <2>2 DEF Restart
<1>12. CASE UNCHANGED vars
  BY <1>12 DEF vars, TypeOK, Compile
<1>13. QED
  BY <1>2, <1>3, <1>4, <1>5, <1>6, <1>7, <1>8, <1>9, <1>10, <1>11, <1>12
     DEF Next, ReloadStep, ListenerStep

LEMMA Invariance == Spec => []IInv
BY InitIInv, NextIInv, PTL DEF Spec

\* Every variable keeps its type.
THEOREM TypeCorrect == Spec => []TypeOK
BY Invariance, PTL DEF IInv

\* While the logger runs its patterns lag behind the saved words only until a
\* NOTIFY that is still to come, or the reload it leads to, or after one of
\* the two cases the code has no answer to.
THEOREM PatternsStaleForAReasonHolds == Spec => []PatternsStaleForAReason
<1>1. IInv => PatternsStaleForAReason
  BY DEF IInv, PatternsStaleForAReason, LoadedStaleForAReason, ToCome
<1>2. QED
  BY <1>1, Invariance, PTL
=============================================================================
