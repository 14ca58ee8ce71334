--------------------------- MODULE RegistrationNick ---------------------------
(***************************************************************************)
(* The nicks a client tries while it registers (pkg/lierc/events.go,         *)
(* registrationNickRefused).  A nick is the first characters of a name, then *)
(* underscores: verylongni_ is [name |-> verylongnick, base |-> 10,          *)
(* tail |-> 1].  Names have no underscores and are of one length.            *)
(***************************************************************************)
EXTENDS Naturals

CONSTANTS Names,         \* names of users, ours and others'
          Length,        \* the length of each
          MaxNickTries,  \* maxNickTries
          NoNick

ASSUME NickAssumption == Length \in Nat \ {0} /\ MaxNickTries \in Nat

Nicks == [name : Names, base : 0 .. Length, tail : Nat]
ASSUME NoNickAssumption == NoNick \notin Nicks

Nick(name) == [name |-> name, base |-> Length, tail |-> 0]
NickLength(n) == n.base + n.tail

\* n, or what a server makes of it that cuts nicks to its length.
Cuts(n) ==
  {[n EXCEPT !.tail = t] : t \in 0 .. n.tail}
    \cup {[n EXCEPT !.base = b, !.tail = 0] : b \in 1 .. n.base}

VARIABLES
  phase,       \* "Down", "Registering", "Up" or "Closing": the attempt
  configNick,  \* Config.Nick
  regNick,     \* the nick last sent
  regTries,    \* how many were refused
  stopped,     \* liercd stopped reconnecting
  tried        \* the nicks this attempt has sent: history

nickVars == <<phase, configNick, regNick, regTries, stopped, tried>>

NickInit ==
  /\ phase = "Down" /\ stopped = FALSE
  /\ configNick \in {Nick(name) : name \in Names}
  /\ regNick = NoNick /\ regTries = 0 /\ tried = {}

BeginRegistration ==
  /\ phase = "Down" /\ ~stopped /\ phase' = "Registering"
  /\ regNick' = configNick /\ regTries' = 0 /\ tried' = {configNick}
  /\ UNCHANGED <<configNick, stopped>>

-----------------------------------------------------------------------------
(* registrationNickRefused, for 432 (not allowed) and 433, 437 (in use)    *)

Shorter(n) == [n EXCEPT !.base = @ - 1, !.tail = 1]
UnderscoreLast(n) == [n EXCEPT !.base = @ - 1, !.tail = @ + 1]
Longer(n) == [n EXCEPT !.tail = @ + 1]

WasCut(refused) == NickLength(refused) < NickLength(regNick)

NextIgnoringCuts(allowed, refused) ==
  IF allowed THEN Longer(refused) ELSE Shorter(refused)            \* mutant
NextNick(allowed, refused) ==
  CASE ~allowed -> Shorter(refused)
    [] allowed /\ WasCut(refused) -> UnderscoreLast(refused)
    [] OTHER -> Longer(refused)

NothingLeft(allowed, refused) ==
  refused.base <= 1 /\ (allowed => WasCut(refused))

\* Closing the socket ends the attempt; stop also ends reconnecting.
Close == phase' = "Closing" /\ UNCHANGED <<configNick, regNick, tried>>

\* The server names the refused nick, or says nothing of it.
Refusal(refused) == phase = "Registering" /\ refused \in Cuts(regNick)

ConfiguredNotAllowed(allowed, refused) == ~allowed /\ refused = configNick

StopOnConfigured(allowed, refused) ==
  /\ Refusal(refused) /\ ConfiguredNotAllowed(allowed, refused)
  /\ Close /\ stopped' = TRUE /\ UNCHANGED regTries

CountRefusal(allowed, refused) ==
  /\ Refusal(refused) /\ ~ConfiguredNotAllowed(allowed, refused)
  /\ regTries' = regTries + 1

LastTry == regTries >= MaxNickTries

StopOrGiveUp(allowed, refused) ==
  /\ CountRefusal(allowed, refused)
  /\ LastTry \/ NothingLeft(allowed, refused)
  /\ Close /\ stopped' = (~LastTry /\ ~allowed)

TryNext(allowed, refused) ==
  /\ CountRefusal(allowed, refused)
  /\ ~LastTry /\ ~NothingLeft(allowed, refused)
  /\ regNick' = NextNick(allowed, refused)
  /\ tried' = tried \cup {regNick'}
  /\ UNCHANGED <<phase, configNick, stopped>>

RegistrationNickRefused(allowed, refused) ==
  \/ StopOnConfigured(allowed, refused)
  \/ StopOrGiveUp(allowed, refused)
  \/ TryNext(allowed, refused)

-----------------------------------------------------------------------------
(* Properties                                                              *)

\* No attempt sends the server a nick it has sent before, whatever the
\* server refuses and wherever it cuts: fallbacks never go round in circles.
NeverTwice ==
  [][regTries' > regTries /\ phase' = "Registering" => regNick' \notin tried]_nickVars
=============================================================================
