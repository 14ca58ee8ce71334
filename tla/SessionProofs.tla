---------------------------- MODULE SessionProofs ----------------------------
(***************************************************************************)
(* Proofs about Session, for any names, nick lengths, tries and channels.   *)
(***************************************************************************)
EXTENDS Session, TLAPS

-----------------------------------------------------------------------------
(* The inductive invariant                                                 *)

PhaseInv ==
  /\ phase \in {"Down", "Registering", "Up", "Closing"}
  /\ phase = "Up" => currentNick \in Nicks
  /\ phase # "Up" =>
       currentNick = NoNick /\ members = [ch \in Channels |-> {}] /\ reply = NoReply

\* What was tried lost no more characters than what was sent last, and has no
\* more underscores if it lost as many.
TriedInv ==
  /\ configNick \in Nicks /\ regTries \in Nat
  /\ phase = "Registering" =>
       /\ regNick \in Nicks /\ tried \subseteq Nicks
       /\ \A n \in tried :
            \/ n.base > regNick.base
            \/ n.base = regNick.base /\ n.tail <= regNick.tail

AskedInv == requestedNick \in asked \cup {NoNick} /\ asked \subseteq Nicks

JoinedInv ==
  /\ members \in [Channels -> SUBSET Nicks]
  /\ Joined \subseteq DOMAIN channels /\ Joined \subseteq saved
  /\ channels \in [DOMAIN channels -> [nicks : SUBSET Nicks, synced : BOOLEAN]]

ListedInv ==
  \A ch \in Joined : reply.channel # ch => channels[ch].nicks = members[ch]

\* What is listed and what the reply has left make up the channel; a list that
\* the reply will replace is whole, and so is what it has left.
ReplyInv ==
  reply # NoReply =>
    /\ reply \in [channel : Joined, rest : SUBSET Nicks]
    /\ channels[reply.channel].nicks \cup reply.rest = members[reply.channel]
    /\ channels[reply.channel].synced => reply.rest = members[reply.channel]

IInv == PhaseInv /\ TriedInv /\ AskedInv /\ JoinedInv /\ ListedInv /\ ReplyInv

-----------------------------------------------------------------------------
(* Nicks                                                                   *)

\* A server's cut of a nick is no longer in characters, nor in underscores.
LEMMA CutsOf ==
  ASSUME NEW n \in Nicks, NEW refused \in Cuts(n)
  PROVE  /\ refused \in Nicks /\ refused.base <= n.base
         /\ NickLength(refused) < NickLength(n) \/ refused = n
<1>. USE NickAssumption DEF Nicks, NickLength
<1>1. CASE \E t \in 0 .. n.tail : refused = [n EXCEPT !.tail = t]
  <2>1. PICK t \in 0 .. n.tail : refused = [n EXCEPT !.tail = t] BY <1>1
  <2>2. /\ refused = [name |-> n.name, base |-> n.base, tail |-> t]
        /\ n = [name |-> n.name, base |-> n.base, tail |-> n.tail]
    BY <2>1
  <2>. QED BY <2>2
<1>2. CASE \E b \in 1 .. n.base : refused = [n EXCEPT !.base = b, !.tail = 0]
  <2>1. PICK b \in 1 .. n.base : refused = [n EXCEPT !.base = b, !.tail = 0] BY <1>2
  <2>2. /\ refused = [name |-> n.name, base |-> b, tail |-> 0]
        /\ n = [name |-> n.name, base |-> n.base, tail |-> n.tail]
    BY <2>1
  <2>. QED BY <2>2
<1>. QED BY <1>1, <1>2 DEF Cuts

\* What is tried next has fewer characters than what was sent last, or as many
\* and more underscores.
LEMMA NextIsLess ==
  ASSUME NEW n \in Nicks, regNick = n, NEW refused \in Cuts(n),
         NEW allowed \in BOOLEAN, ~NothingLeft(allowed, refused)
  PROVE  LET next == NextNick(allowed, refused) IN
         /\ next \in Nicks
         /\ \/ next.base < n.base
            \/ next.base = n.base /\ next.tail > n.tail
<1>. USE NickAssumption DEF Nicks, NickLength
<1>1. /\ refused \in Nicks /\ refused.base <= n.base
      /\ NickLength(refused) < NickLength(n) \/ refused = n
  BY CutsOf
<1>2. CASE ~allowed
  <2>1. refused.base > 1 BY <1>1, <1>2 DEF NothingLeft
  <2>2. NextNick(allowed, refused) = [name |-> refused.name, base |-> refused.base - 1, tail |-> 1]
    BY <1>1, <1>2 DEF NextNick, Shorter
  <2>. QED BY <1>1, <2>1, <2>2
<1>3. CASE allowed /\ WasCut(refused)
  <2>1. refused.base > 1 BY <1>1, <1>3 DEF NothingLeft
  <2>2. NextNick(allowed, refused)
          = [name |-> refused.name, base |-> refused.base - 1, tail |-> refused.tail + 1]
    BY <1>1, <1>3 DEF NextNick, UnderscoreLast
  <2>. QED BY <1>1, <2>1, <2>2
<1>4. CASE allowed /\ ~WasCut(refused)
  <2>1. refused = n BY <1>1, <1>4 DEF WasCut
  <2>2. NextNick(allowed, refused)
          = [name |-> refused.name, base |-> refused.base, tail |-> refused.tail + 1]
    BY <1>1, <1>4 DEF NextNick, Longer
  <2>. QED BY <1>1, <2>1, <2>2
<1>. QED BY <1>2, <1>3, <1>4

\* A refusal that leads to another try sends what was not tried.
LEMMA RefusalStep ==
  ASSUME TriedInv, NickRefused
  PROVE  /\ TriedInv'
         /\ regTries' > regTries /\ phase' = "Registering" => regNick' \notin tried
<1>1. PICK allowed \in BOOLEAN, refused \in Cuts(regNick) :
        RegistrationNickRefused(allowed, refused)
  BY DEF NickRefused
<1>2. /\ phase = "Registering" /\ regNick \in Nicks /\ regTries \in Nat /\ tried \subseteq Nicks
      /\ configNick \in Nicks
  BY DEF NickRefused, TriedInv
<1>3. CASE StopOnConfigured(allowed, refused) \/ StopOrGiveUp(allowed, refused)
  <2>1. phase' = "Closing" /\ configNick' = configNick /\ regTries' \in {regTries, regTries + 1}
    BY <1>3 DEF StopOnConfigured, StopOrGiveUp, CountRefusal, Close
  <2>. QED BY <1>2, <2>1 DEF TriedInv
<1>4. CASE TryNext(allowed, refused)
  <2>1. /\ ~NothingLeft(allowed, refused)
        /\ regNick' = NextNick(allowed, refused) /\ tried' = tried \cup {regNick'}
        /\ regTries' = regTries + 1 /\ configNick' = configNick
    BY <1>4 DEF TryNext, CountRefusal
  <2>2. /\ regNick' \in Nicks
        /\ \/ regNick'.base < regNick.base
           \/ regNick'.base = regNick.base /\ regNick'.tail > regNick.tail
    BY <1>2, <2>1, NextIsLess
  <2>3. \A n \in tried :
          \/ n.base > regNick'.base
          \/ n.base = regNick'.base /\ n.tail < regNick'.tail
    <3>. SUFFICES ASSUME NEW n \in tried
                  PROVE  \/ n.base > regNick'.base
                         \/ n.base = regNick'.base /\ n.tail < regNick'.tail
      OBVIOUS
    <3>1. \/ n.base > regNick.base
          \/ n.base = regNick.base /\ n.tail <= regNick.tail
      BY <1>2 DEF TriedInv
    <3>2. n \in Nicks BY <1>2
    <3>. QED BY <1>2, <2>2, <3>1, <3>2, NickAssumption DEF Nicks
  <2>4. regNick' \notin tried BY <2>2, <2>3, NickAssumption DEF Nicks
  <2>5. \A n \in tried' :
          \/ n.base > regNick'.base
          \/ n.base = regNick'.base /\ n.tail <= regNick'.tail
    <3>. SUFFICES ASSUME NEW n \in tried'
                  PROVE  \/ n.base > regNick'.base
                         \/ n.base = regNick'.base /\ n.tail <= regNick'.tail
      OBVIOUS
    <3>1. CASE n = regNick' BY <2>2, <3>1, NickAssumption DEF Nicks
    <3>2. CASE n \in tried
      <4>1. n \in Nicks BY <1>2, <3>2
      <4>. QED BY <2>2, <2>3, <3>2, <4>1, NickAssumption DEF Nicks
    <3>. QED BY <2>1, <3>1, <3>2
  <2>. QED BY <1>2, <2>1, <2>2, <2>4, <2>5 DEF TriedInv
<1>. QED BY <1>1, <1>3, <1>4 DEF RegistrationNickRefused

-----------------------------------------------------------------------------
(* Channels                                                                *)

ChannelsInv == PhaseInv /\ JoinedInv /\ ListedInv /\ ReplyInv

SavedStep ==
  /\ Joined' \subseteq saved'
  /\ phase = "Up" /\ phase' = "Up" => saved' \cap (Joined \ Joined') = {}
  /\ saved \ saved' \subseteq Joined

\* Nobody is joined without a connection.
LEMMA NotJoined ==
  ASSUME members = [ch \in Channels |-> {}]
  PROVE  Joined = {}
BY DEF Joined

\* Between messages every list is whole, and we are called currentNick.
LEMMA WhenIdle ==
  ASSUME ChannelsInv, Idle
  PROVE  /\ currentNick \in Nicks /\ CurrentNick = currentNick /\ phase = "Up"
         /\ reply = NoReply
         /\ Joined \subseteq Channels /\ Joined \subseteq DOMAIN channels /\ Joined \subseteq saved
         /\ \A ch \in Joined : channels[ch].nicks = members[ch] /\ currentNick \in members[ch]
         /\ members \in [Channels -> SUBSET Nicks]
         /\ channels \in [DOMAIN channels -> [nicks : SUBSET Nicks, synced : BOOLEAN]]
<1>1. currentNick \in Nicks /\ CurrentNick = currentNick /\ phase = "Up"
  BY NoNickAssumption DEF ChannelsInv, PhaseInv, Idle, CurrentNick
<1>2. reply = NoReply /\ reply.channel = "" BY DEF Idle, NoReply
<1>3. \A ch \in Joined : reply.channel # ch BY <1>2, ChannelsAssumption DEF Joined
<1>4. Joined \subseteq Channels /\ \A ch \in Joined : currentNick \in members[ch] BY DEF Joined
<1>. QED BY <1>1, <1>2, <1>3, <1>4 DEF ChannelsInv, JoinedInv, ListedInv

\* A step that leaves the channels and what the server knows alone.
LEMMA SameChannels ==
  ASSUME ChannelsInv, PhaseInv',
         UNCHANGED <<channels, saved, members, reply>>,
         currentNick' = currentNick \/ members = [ch \in Channels |-> {}]
  PROVE  ChannelsInv' /\ SavedStep
<1>1. Joined' = Joined
  <2>1. CASE currentNick' = currentNick BY <2>1 DEF Joined
  <2>2. CASE members = [ch \in Channels |-> {}] BY <2>2 DEF Joined
  <2>. QED BY <2>1, <2>2
<1>2. JoinedInv' BY <1>1 DEF ChannelsInv, JoinedInv
<1>3. ListedInv' BY <1>1 DEF ChannelsInv, ListedInv
<1>4. ReplyInv' BY <1>1 DEF ChannelsInv, ReplyInv, NoReply
<1>5. SavedStep BY <1>1, <1>2 DEF ChannelsInv, JoinedInv, SavedStep
<1>. QED BY <1>2, <1>3, <1>4, <1>5 DEF ChannelsInv

\* A step after which every channel we are in is listed as it is.
LEMMA WholeLists ==
  ASSUME PhaseInv', reply' = NoReply,
         members' \in [Channels -> SUBSET Nicks],
         channels' \in [DOMAIN channels' -> [nicks : SUBSET Nicks, synced : BOOLEAN]],
         \A ch \in Joined' :
           ch \in DOMAIN channels' /\ ch \in saved' /\ channels'[ch].nicks = members'[ch]
  PROVE  ChannelsInv'
<1>1. JoinedInv' BY DEF JoinedInv
<1>2. ListedInv' BY DEF ListedInv
<1>3. ReplyInv' BY DEF ReplyInv, NoReply
<1>. QED BY <1>1, <1>2, <1>3 DEF ChannelsInv

\* A connection begins, is refused a nick, is welcomed or ends.
LEMMA ConnectionSteps ==
  ASSUME ChannelsInv, TriedInv, Connect \/ NickRefused \/ Welcome \/ EndAttempt
  PROVE  ChannelsInv' /\ SavedStep
<1>1. CASE Connect
  <2>1. PhaseInv' BY <1>1 DEF Connect, BeginRegistration, ChannelsInv, PhaseInv, serverVars
  <2>. QED BY <1>1, <2>1, SameChannels DEF Connect, serverVars
<1>2. CASE NickRefused
  <2>1. /\ phase' \in {"Registering", "Closing"} /\ phase = "Registering"
        /\ UNCHANGED <<channels, saved, serverVars>>
    BY <1>2 DEF NickRefused, RegistrationNickRefused, StopOnConfigured, StopOrGiveUp, TryNext, Close
  <2>2. PhaseInv' BY <2>1 DEF ChannelsInv, PhaseInv, serverVars, NoReply
  <2>. QED BY <2>1, <2>2, SameChannels DEF serverVars
<1>3. CASE Welcome
  <2>1. /\ phase = "Registering" /\ phase' = "Up" /\ currentNick' \in Cuts(regNick)
        /\ UNCHANGED <<channels, saved, members, reply>>
    BY <1>3 DEF Welcome
  <2>2. currentNick' \in Nicks
    <3>1. regNick \in Nicks BY <2>1 DEF TriedInv
    <3>. QED BY <2>1, <3>1, CutsOf
  <2>3. PhaseInv' BY <2>1, <2>2 DEF PhaseInv
  <2>4. members = [ch \in Channels |-> {}] BY <2>1 DEF ChannelsInv, PhaseInv
  <2>. QED BY <2>1, <2>3, <2>4, SameChannels
<1>4. CASE EndAttempt
  <2>1. /\ phase' = "Down" /\ currentNick' = NoNick /\ reply' = NoReply
        /\ members' = [ch \in Channels |-> {}] /\ UNCHANGED <<channels, saved>>
    BY <1>4 DEF EndAttempt
  <2>2. PhaseInv' BY <2>1 DEF PhaseInv, NoReply
  <2>3. Joined' = {} BY <2>1 DEF Joined
  <2>4. ChannelsInv'
    BY <2>1, <2>2, <2>3, WholeLists DEF ChannelsInv, JoinedInv
  <2>. QED BY <2>1, <2>3, <2>4 DEF SavedStep
<1>. QED BY <1>1, <1>2, <1>3, <1>4

\* A message leaves the attempt alone.
LEMMA StillUp ==
  ASSUME ChannelsInv, Idle, phase' = phase, currentNick' \in Nicks
  PROVE  PhaseInv'
BY DEF PhaseInv, Idle

\* Whole nicks are nicks.
LEMMA WholeNicksAreNicks == WholeNicks \subseteq Nicks
BY NickAssumption DEF WholeNicks, Nick, Nicks

\* A channel with another list.
LEMMA WithNicks ==
  ASSUME NEW S, NEW c \in [nicks : S, synced : BOOLEAN], NEW nicks
  PROVE  [c EXCEPT !.nicks = nicks] = [nicks |-> nicks, synced |-> c.synced]
OBVIOUS

\* A new channel's list with one nick.
LEMMA FirstNick ==
  ASSUME NEW n
  PROVE  [NewChannel EXCEPT !.nicks = @ \cup {n}] = [nicks |-> {n}, synced |-> FALSE]
<1>1. NewChannel \in [nicks : {{}}, synced : BOOLEAN] BY DEF NewChannel
<1>2. NewChannel.nicks \cup {n} = {n} /\ NewChannel.synced = FALSE BY DEF NewChannel
<1>. HIDE DEF NewChannel
<1>3. [NewChannel EXCEPT !.nicks = {n}] = [nicks |-> {n}, synced |-> NewChannel.synced]
  BY <1>1, WithNicks
<1>. QED BY <1>2, <1>3

\* We join a channel: its list starts with us, and the reply is to come.
LEMMA WeJoinStep ==
  ASSUME ChannelsInv, NEW ch \in Channels, WeJoin(ch)
  PROVE  ChannelsInv' /\ SavedStep
<1>. USE WhenIdle
<1>1. PICK others \in SUBSET (WholeNicks \ {currentNick}) :
        /\ members' = [members EXCEPT ![ch] = others \cup {currentNick}]
        /\ reply' = ReplyFor(ch, members'[ch])
  BY DEF WeJoin
<1>2. Idle /\ ch \notin Joined /\ phase' = phase /\ currentNick' = currentNick
  BY DEF WeJoin, Others
<1>3. /\ members' = [c \in Channels |-> IF c = ch THEN others \cup {currentNick} ELSE members[c]]
      /\ others \cup {currentNick} \in SUBSET Nicks
  BY <1>1, <1>2, WholeNicksAreNicks
<1>4. reply' = [channel |-> ch, rest |-> members'[ch]] BY <1>1 DEF ReplyFor
<1>5. /\ channels' = [c \in DOMAIN channels \cup {ch} |->
           IF c = ch THEN [nicks |-> {currentNick}, synced |-> FALSE] ELSE channels[c]]
      /\ saved' = saved \cup {ch}
  <2>1. channels' = AddNick(AddChannel(ch), ch, currentNick) /\ saved' = saved \cup {ch}
    BY <1>2 DEF WeJoin, OnJoin
  <2>2. [NewChannel EXCEPT !.nicks = @ \cup {currentNick}]
          = [nicks |-> {currentNick}, synced |-> FALSE]
    BY FirstNick
  <2>3. AddNick(AddChannel(ch), ch, currentNick)
          = [c \in DOMAIN channels \cup {ch} |->
               IF c = ch THEN [NewChannel EXCEPT !.nicks = @ \cup {currentNick}]
               ELSE channels[c]]
    <3>. HIDE DEF NewChannel
    <3>. QED BY DEF AddNick, AddChannel
  <2>. QED BY <2>1, <2>2, <2>3
<1>6. Joined' = Joined \cup {ch} BY <1>2, <1>3 DEF Joined
<1>7. JoinedInv'
  <2>1. channels' \in [DOMAIN channels' -> [nicks : SUBSET Nicks, synced : BOOLEAN]]
    BY <1>2, <1>5
  <2>2. members' \in [Channels -> SUBSET Nicks] BY <1>2, <1>3
  <2>3. Joined' \subseteq DOMAIN channels' /\ Joined' \subseteq saved' BY <1>2, <1>5, <1>6
  <2>. QED BY <2>1, <2>2, <2>3 DEF JoinedInv
<1>8. ListedInv'
  <2>. SUFFICES ASSUME NEW c \in Joined', reply'.channel # c
                PROVE  channels'[c].nicks = members'[c]
    BY DEF ListedInv
  <2>1. c # ch /\ c \in Joined /\ c \in DOMAIN channels /\ c \in Channels BY <1>2, <1>4, <1>6
  <2>2. channels'[c] = channels[c] /\ members'[c] = members[c] BY <1>3, <1>5, <2>1
  <2>. QED BY <1>2, <2>1, <2>2
<1>9. ReplyInv'
  <2>1. reply'.channel = ch /\ reply'.rest = members'[ch] BY <1>4
  <2>2. members'[ch] = others \cup {currentNick} BY <1>3
  <2>3. channels'[ch] = [nicks |-> {currentNick}, synced |-> FALSE] BY <1>5
  <2>4. reply' \in [channel : Joined', rest : SUBSET Nicks] BY <1>3, <1>4, <1>6, <2>2
  <2>5. channels'[ch].nicks \cup reply'.rest = members'[ch] BY <2>1, <2>2, <2>3
  <2>6. ~channels'[ch].synced BY <2>3
  <2>. QED BY <2>1, <2>4, <2>5, <2>6 DEF ReplyInv
<1>10. PhaseInv' BY <1>2, StillUp
<1>11. SavedStep BY <1>2, <1>5, <1>6 DEF SavedStep
<1>. QED BY <1>7, <1>8, <1>9, <1>10, <1>11 DEF ChannelsInv

\* Another user joins a channel we are in.
LEMMA SheJoinsStep ==
  ASSUME ChannelsInv, NEW ch \in Channels, NEW n \in WholeNicks, SheJoins(ch, n)
  PROVE  ChannelsInv' /\ SavedStep
<1>. USE WhenIdle
<1>1. /\ Idle /\ ch \in Joined /\ n \notin members[ch] /\ phase' = phase
      /\ currentNick' = currentNick /\ reply' = NoReply
      /\ members' = [members EXCEPT ![ch] = @ \cup {n}]
      /\ OnJoin(ch, n)
  BY DEF SheJoins, Others, Idle
<1>2. n # CurrentNick BY <1>1
<1>3. channels' = AddNick(channels, ch, n) /\ saved' = saved BY <1>1, <1>2 DEF OnJoin
<1>4. n \in Nicks BY WholeNicksAreNicks
<1>5. Joined' = Joined BY <1>1, <1>2 DEF Joined
<1>6. members' \in [Channels -> SUBSET Nicks] BY <1>1, <1>4
<1>7. channels' \in [DOMAIN channels' -> [nicks : SUBSET Nicks, synced : BOOLEAN]]
  BY <1>1, <1>3, <1>4 DEF AddNick
<1>8. \A c \in Joined' :
        c \in DOMAIN channels' /\ c \in saved' /\ channels'[c].nicks = members'[c]
  BY <1>1, <1>3, <1>5 DEF AddNick
<1>9. PhaseInv' BY <1>1, StillUp
<1>10. SavedStep BY <1>1, <1>3, <1>5 DEF SavedStep
<1>. QED BY <1>1, <1>6, <1>7, <1>8, <1>9, <1>10, WholeLists

\* Someone leaves a channel we are in, perhaps we.
LEMMA LeaveStep ==
  ASSUME ChannelsInv, NEW ch \in Channels, NEW n \in members[ch], Leave(ch, n), OnLeave(ch, n)
  PROVE  ChannelsInv' /\ SavedStep
<1>. USE WhenIdle
<1>1. /\ Idle /\ ch \in Joined /\ phase' = phase
      /\ currentNick' = currentNick /\ reply' = NoReply
      /\ members' = [members EXCEPT ![ch] = IF n = currentNick THEN {} ELSE @ \ {n}]
  BY DEF Leave, Others, Idle
<1>2. PhaseInv' BY <1>1, StillUp
<1>3. members' \in [Channels -> SUBSET Nicks] BY <1>1
<1>4. CASE n = currentNick
  <2>1. channels' = [c \in DOMAIN channels \ {ch} |-> channels[c]] /\ saved' = saved \ {ch}
    BY <1>1, <1>4 DEF OnLeave, DeleteChannel
  <2>2. Joined' = Joined \ {ch} BY <1>1, <1>4 DEF Joined
  <2>3. \A c \in Joined' :
          c \in DOMAIN channels' /\ c \in saved' /\ channels'[c].nicks = members'[c]
    BY <1>1, <2>1, <2>2
  <2>4. channels' \in [DOMAIN channels' -> [nicks : SUBSET Nicks, synced : BOOLEAN]]
    BY <1>1, <2>1
  <2>5. SavedStep BY <1>1, <2>1, <2>2 DEF SavedStep
  <2>. QED BY <1>1, <1>2, <1>3, <2>3, <2>4, <2>5, WholeLists
<1>5. CASE n # currentNick
  <2>1. channels' = DeleteNick(ch, n) /\ saved' = saved
    BY <1>1, <1>5 DEF OnLeave
  <2>2. Joined' = Joined BY <1>1, <1>5 DEF Joined
  <2>3. \A c \in Joined' :
          c \in DOMAIN channels' /\ c \in saved' /\ channels'[c].nicks = members'[c]
    BY <1>1, <1>5, <2>1, <2>2 DEF DeleteNick
  <2>4. channels' \in [DOMAIN channels' -> [nicks : SUBSET Nicks, synced : BOOLEAN]]
    BY <1>1, <2>1 DEF DeleteNick
  <2>5. SavedStep BY <1>1, <2>1, <2>2 DEF SavedStep
  <2>. QED BY <1>1, <1>2, <1>3, <2>3, <2>4, <2>5, WholeLists
<1>. QED BY <1>4, <1>5

\* Another user quits.
LEMMA QuitStep ==
  ASSUME ChannelsInv, NEW n \in WholeNicks, Quit(n)
  PROVE  ChannelsInv' /\ SavedStep
<1>. USE WhenIdle
<1>1. /\ Idle /\ n # currentNick /\ phase' = phase
      /\ currentNick' = currentNick /\ reply' = NoReply /\ saved' = saved
      /\ members' = [c \in Channels |-> members[c] \ {n}]
      /\ OnEach(n, {})
  BY DEF Quit, Others, Idle
<1>2. channels' = [c \in DOMAIN channels |->
        IF c \in Has(n) THEN [channels[c] EXCEPT !.nicks = @ \ {n}] ELSE channels[c]]
  BY <1>1 DEF OnEach
<1>3. Joined' = Joined BY <1>1 DEF Joined
<1>4. \A c \in Joined' :
        c \in DOMAIN channels' /\ c \in saved' /\ channels'[c].nicks = members'[c]
  BY <1>1, <1>2, <1>3 DEF Has
<1>5. channels' \in [DOMAIN channels' -> [nicks : SUBSET Nicks, synced : BOOLEAN]]
  BY <1>1, <1>2
<1>6. members' \in [Channels -> SUBSET Nicks] BY <1>1
<1>7. PhaseInv' BY <1>1, StillUp
<1>8. SavedStep BY <1>1, <1>3 DEF SavedStep
<1>. QED BY <1>1, <1>4, <1>5, <1>6, <1>7, <1>8, WholeLists

\* Someone changes nicks, perhaps we.
LEMMA ChangeNickStep ==
  ASSUME ChannelsInv, NEW n \in Nicks, NEW new \in WholeNicks, ChangeNick(n, new)
  PROVE  ChannelsInv' /\ SavedStep
<1>. USE WhenIdle
<1>1. /\ Idle /\ n # new /\ new # currentNick /\ phase' = phase
      /\ currentNick' = IF n = currentNick THEN new ELSE currentNick
      /\ reply' = NoReply /\ saved' = saved
      /\ \A ch \in Channels : new \notin members[ch]
      /\ members' = [ch \in Channels |->
           IF n \in members[ch] THEN (members[ch] \ {n}) \cup {new} ELSE members[ch]]
      /\ OnEach(n, Renamed(new))
  BY DEF ChangeNick, Others, Idle
<1>2. channels' = [c \in DOMAIN channels |->
        IF c \in Has(n) THEN [channels[c] EXCEPT !.nicks = (@ \ {n}) \cup {new}]
        ELSE channels[c]]
  BY <1>1 DEF OnEach, Renamed
<1>3. new \in Nicks BY WholeNicksAreNicks
<1>4. Joined' = Joined
  <2>1. CASE n = currentNick BY <1>1, <2>1 DEF Joined
  <2>2. CASE n # currentNick BY <1>1, <2>2 DEF Joined
  <2>. QED BY <2>1, <2>2
<1>5. \A c \in Joined' :
        c \in DOMAIN channels' /\ c \in saved' /\ channels'[c].nicks = members'[c]
  BY <1>1, <1>2, <1>4 DEF Has
<1>6. channels' \in [DOMAIN channels' -> [nicks : SUBSET Nicks, synced : BOOLEAN]]
  BY <1>1, <1>2, <1>3
<1>7. members' \in [Channels -> SUBSET Nicks] BY <1>1, <1>3
<1>8. PhaseInv'
  <2>1. currentNick' \in Nicks BY <1>1, <1>3
  <2>. QED BY <1>1, <2>1, StillUp
<1>9. SavedStep BY <1>1, <1>4 DEF SavedStep
<1>. QED BY <1>1, <1>5, <1>6, <1>7, <1>8, <1>9, WholeLists

\* The user asks for the list of a channel.
LEMMA AskNamesStep ==
  ASSUME ChannelsInv, NEW ch \in Channels, AskNames(ch)
  PROVE  ChannelsInv' /\ SavedStep
<1>. USE WhenIdle
<1>1. /\ Idle /\ ch \in Joined /\ phase' = phase
      /\ UNCHANGED <<currentNick, members, channels, saved>>
      /\ reply' = [channel |-> ch, rest |-> members[ch]]
  BY DEF AskNames, Others, ReplyFor
<1>2. Joined' = Joined BY <1>1 DEF Joined
<1>3. PhaseInv' BY <1>1, StillUp
<1>4. JoinedInv' BY <1>1, <1>2 DEF ChannelsInv, JoinedInv
<1>5. ListedInv' BY <1>1, <1>2 DEF ListedInv
<1>6. ReplyInv'
  <2>1. reply'.channel = ch /\ reply'.rest = members[ch] BY <1>1
  <2>2. channels[ch].nicks = members[ch] BY <1>1
  <2>3. members[ch] \in SUBSET Nicks BY <1>1
  <2>. QED BY <1>1, <1>2, <2>1, <2>2, <2>3 DEF ReplyInv
<1>7. SavedStep BY <1>1, <1>2 DEF SavedStep
<1>. QED BY <1>3, <1>4, <1>5, <1>6, <1>7 DEF ChannelsInv

\* A line of the reply, or its end.
LEMMA ReplyStep ==
  ASSUME ChannelsInv, EndOfNames \/ \E nicks \in SUBSET reply.rest : Names353(nicks)
  PROVE  ChannelsInv' /\ SavedStep
<1>. DEFINE ch == reply.channel
<1>1. /\ reply # NoReply /\ UNCHANGED <<currentNick, members, saved, phase>>
  BY DEF EndOfNames, Names353, Others
<1>2. /\ phase = "Up" /\ currentNick \in Nicks
      /\ reply \in [channel : Joined, rest : SUBSET Nicks]
      /\ channels[ch].nicks \cup reply.rest = members[ch]
      /\ channels[ch].synced => reply.rest = members[ch]
  BY <1>1 DEF ChannelsInv, ReplyInv, PhaseInv
<1>3. Joined' = Joined /\ PhaseInv' BY <1>1, <1>2 DEF Joined, PhaseInv
<1>4. /\ ch \in Joined /\ ch \in Channels /\ Joined \subseteq DOMAIN channels
      /\ members \in [Channels -> SUBSET Nicks] /\ Joined \subseteq saved
      /\ channels \in [DOMAIN channels -> [nicks : SUBSET Nicks, synced : BOOLEAN]]
      /\ \A c \in Joined : c # ch => channels[c].nicks = members[c]
  BY <1>2 DEF ChannelsInv, JoinedInv, ListedInv, Joined
<1>5. SavedStep BY <1>1, <1>3, <1>4 DEF SavedStep
<1>6. CASE EndOfNames
  <2>1. /\ reply.rest = {} /\ reply' = NoReply
        /\ channels' = [c \in DOMAIN channels |->
             IF c = ch THEN [channels[c] EXCEPT !.synced = TRUE] ELSE channels[c]]
    BY <1>6 DEF EndOfNames, OnEndOfNames
  <2>2. channels' \in [DOMAIN channels' -> [nicks : SUBSET Nicks, synced : BOOLEAN]]
    BY <1>4, <2>1
  <2>3. \A c \in Joined' :
          c \in DOMAIN channels' /\ c \in saved' /\ channels'[c].nicks = members'[c]
    BY <1>1, <1>2, <1>3, <1>4, <2>1
  <2>. QED BY <1>1, <1>3, <1>4, <1>5, <2>1, <2>2, <2>3, WholeLists
<1>7. ASSUME NEW nicks \in SUBSET reply.rest, Names353(nicks)
      PROVE  ChannelsInv'
  <2>1. /\ reply' = [reply EXCEPT !.rest = @ \ nicks]
        /\ channels' = [c \in DOMAIN channels |->
             IF c # ch THEN channels[c]
             ELSE [nicks |-> nicks \cup (IF channels[c].synced THEN {} ELSE channels[c].nicks),
                   synced |-> FALSE]]
    BY <1>7 DEF Names353, OnNames
  <2>2. reply' = [channel |-> ch, rest |-> reply.rest \ nicks] BY <1>2, <2>1
  <2>3. nicks \subseteq Nicks /\ nicks \subseteq reply.rest BY <1>2
  <2>4. channels' \in [DOMAIN channels' -> [nicks : SUBSET Nicks, synced : BOOLEAN]]
    BY <1>4, <2>1, <2>3
  <2>5. JoinedInv' BY <1>1, <1>3, <1>4, <2>1, <2>4 DEF JoinedInv
  <2>6. ListedInv' BY <1>1, <1>3, <1>4, <2>1, <2>2 DEF ListedInv
  <2>7. channels'[ch].nicks = nicks \cup (IF channels[ch].synced THEN {} ELSE channels[ch].nicks)
        /\ ~channels'[ch].synced
    BY <1>4, <2>1
  <2>8. channels'[ch].nicks \cup (reply.rest \ nicks) = members[ch]
    BY <1>2, <2>3, <2>7
  <2>9. reply' \in [channel : Joined', rest : SUBSET Nicks] BY <1>2, <1>3, <1>4, <2>2
  <2>10. ReplyInv'
    <3>1. reply'.channel = ch /\ reply'.rest = reply.rest \ nicks BY <2>2
    <3>. QED BY <1>1, <2>7, <2>8, <2>9, <3>1 DEF ReplyInv
  <2>. QED BY <1>3, <2>5, <2>6, <2>10 DEF ChannelsInv
<1>. QED BY <1>5, <1>6, <1>7

-----------------------------------------------------------------------------
(* All steps                                                               *)

\* Every message keeps the channels' invariant and the saved channels.
LEMMA MessageStep ==
  ASSUME ChannelsInv, Message
  PROVE  ChannelsInv' /\ SavedStep
<1>1. ASSUME NEW ch \in Channels, WeJoin(ch) PROVE ChannelsInv' /\ SavedStep
  BY <1>1, WeJoinStep
<1>2. ASSUME NEW ch \in Channels, AskNames(ch) PROVE ChannelsInv' /\ SavedStep
  BY <1>2, AskNamesStep
<1>3. ASSUME NEW ch \in Channels, NEW n \in WholeNicks, SheJoins(ch, n)
      PROVE  ChannelsInv' /\ SavedStep
  BY <1>3, SheJoinsStep
<1>4. ASSUME NEW ch \in Channels, NEW n \in members[ch], Part(ch, n)
      PROVE  ChannelsInv' /\ SavedStep
  BY <1>4, LeaveStep DEF Part
<1>5. ASSUME NEW ch \in Channels, NEW n \in members[ch], NEW by \in members[ch], Kick(ch, by, n)
      PROVE  ChannelsInv' /\ SavedStep
  BY <1>5, LeaveStep DEF Kick, Kicked
<1>6. ASSUME NEW n \in WholeNicks, Quit(n) PROVE ChannelsInv' /\ SavedStep
  BY <1>6, QuitStep
<1>7. ASSUME NEW n \in WholeNicks, RequestNick(n) PROVE ChannelsInv' /\ SavedStep
  <2>1. UNCHANGED <<channels, saved, members, reply, phase, currentNick>>
    BY <1>7 DEF RequestNick, nickVars, serverVars
  <2>2. PhaseInv' BY <2>1 DEF ChannelsInv, PhaseInv, NoReply
  <2>. QED BY <2>1, <2>2, SameChannels
<1>8. ASSUME NEW n \in WholeNicks \cup {currentNick}, NEW new \in WholeNicks, ChangeNick(n, new)
      PROVE  ChannelsInv' /\ SavedStep
  <2>1. n \in Nicks
    <3>1. Idle BY <1>8 DEF ChangeNick
    <3>. QED BY <3>1, WhenIdle, WholeNicksAreNicks
  <2>. QED BY <1>8, <2>1, ChangeNickStep
<1>9. CASE EndOfNames \/ \E nicks \in SUBSET reply.rest : Names353(nicks)
  BY <1>9, ReplyStep
<1>10. CASE RequestRefused
  <2>1. UNCHANGED <<channels, saved, members, reply, phase, currentNick>>
    BY <1>10 DEF RequestRefused, nickVars, serverVars
  <2>2. PhaseInv' BY <2>1 DEF ChannelsInv, PhaseInv, NoReply
  <2>. QED BY <2>1, <2>2, SameChannels
<1>. QED
  BY <1>1, <1>2, <1>3, <1>4, <1>5, <1>6, <1>7, <1>8, <1>9, <1>10 DEF Message

\* A message touches no nick of the registration, and saves only what the
\* user asked for.
LEMMA MessageNicks ==
  ASSUME TriedInv, AskedInv, Message
  PROVE  /\ TriedInv' /\ AskedInv' /\ UNCHANGED <<regTries, regNick, tried, phase>>
         /\ configNick' # configNick => configNick' \in asked
<1>1. CASE \/ \E ch \in Channels :
              \/ WeJoin(ch) \/ AskNames(ch)
              \/ \E n \in WholeNicks : SheJoins(ch, n)
              \/ \E n \in members[ch] : Part(ch, n) \/ \E by \in members[ch] : Kick(ch, by, n)
           \/ \E n \in WholeNicks : Quit(n)
           \/ EndOfNames \/ \E nicks \in SUBSET reply.rest : Names353(nicks)
  <2>1. UNCHANGED <<Others, configNick, requestedNick>>
    BY <1>1 DEF WeJoin, AskNames, SheJoins, Part, Kick, Leave, Quit, EndOfNames, Names353
  <2>. QED BY <2>1 DEF Others, TriedInv, AskedInv
<1>2. ASSUME NEW n \in WholeNicks, RequestNick(n)
      PROVE  /\ AskedInv' /\ UNCHANGED nickVars
  BY <1>2, WholeNicksAreNicks DEF RequestNick, AskedInv
<1>3. CASE RequestRefused
  <2>1. requestedNick' = NoNick /\ asked' = asked /\ UNCHANGED nickVars
    BY <1>3 DEF RequestRefused
  <2>. QED BY <2>1 DEF AskedInv, TriedInv, nickVars
<1>4. ASSUME NEW n, NEW new, ChangeNick(n, new)
      PROVE  /\ TriedInv' /\ AskedInv' /\ UNCHANGED <<regTries, regNick, tried, phase>>
             /\ configNick' # configNick => configNick' \in asked
  <2>1. UNCHANGED <<regNick, regTries, tried, phase, asked>> /\ phase = "Up"
    BY <1>4 DEF ChangeNick, Others, Idle
  <2>2. \/ /\ requestedNick # NoNick /\ configNick' = requestedNick
           /\ requestedNick' = NoNick
        \/ UNCHANGED <<configNick, requestedNick>>
    BY <1>4 DEF ChangeNick, SaveNick, IsRequested
  <2>. QED BY <2>1, <2>2 DEF TriedInv, AskedInv
<1>. QED BY <1>1, <1>2, <1>3, <1>4 DEF Message, nickVars, TriedInv

\* What each step preserves, and what it may not do.
NickStep ==
  /\ regTries' > regTries /\ phase' = "Registering" => regNick' \notin tried
  /\ configNick' # configNick => configNick' \in asked

LEMMA InitInv == Init => IInv
<1>. SUFFICES ASSUME Init PROVE IInv OBVIOUS
<1>1. configNick \in Nicks BY WholeNicksAreNicks DEF Init, NickInit, WholeNicks
<1>2. Joined = {} BY NotJoined DEF Init
<1>3. PhaseInv /\ TriedInv /\ AskedInv
  BY <1>1 DEF Init, NickInit, PhaseInv, TriedInv, AskedInv
<1>4. channels \in [DOMAIN channels -> [nicks : SUBSET Nicks, synced : BOOLEAN]]
  BY DEF Init
<1>5. JoinedInv /\ ListedInv /\ ReplyInv
  BY <1>2, <1>4 DEF Init, JoinedInv, ListedInv, ReplyInv
<1>. QED BY <1>3, <1>5 DEF IInv

LEMMA StepInv == IInv /\ [Next]_vars => IInv' /\ NickStep /\ (SavedStep \/ UNCHANGED vars)
<1>. SUFFICES ASSUME IInv, [Next]_vars
              PROVE  IInv' /\ NickStep /\ (SavedStep \/ UNCHANGED vars)
  OBVIOUS
<1>1. ChannelsInv /\ TriedInv /\ AskedInv BY DEF IInv, ChannelsInv
<1>2. CASE Connect
  <2>1. ChannelsInv' /\ SavedStep BY <1>1, <1>2, ConnectionSteps
  <2>2. /\ regNick' = configNick /\ tried' = {configNick} /\ regTries' = 0
        /\ configNick' = configNick /\ requestedNick' = NoNick /\ asked' = {}
    BY <1>2 DEF Connect, BeginRegistration, ClearRequest
  <2>3. TriedInv'
    <3>1. configNick \in Nicks BY <1>1 DEF TriedInv
    <3>2. configNick.base <= configNick.base /\ configNick.tail <= configNick.tail
      BY <3>1, NickAssumption DEF Nicks
    <3>. QED BY <2>2, <3>1, <3>2 DEF TriedInv
  <2>4. AskedInv' BY <2>2 DEF AskedInv
  <2>5. NickStep
    <3>1. ~(regTries' > regTries) BY <1>1, <2>2 DEF TriedInv
    <3>. QED BY <2>2, <3>1 DEF NickStep
  <2>. QED BY <2>1, <2>3, <2>4, <2>5 DEF IInv, ChannelsInv
<1>3. CASE NickRefused
  <2>1. ChannelsInv' /\ SavedStep BY <1>1, <1>3, ConnectionSteps
  <2>2. UNCHANGED <<requestedNick, asked>> BY <1>3 DEF NickRefused, history
  <2>3. configNick' = configNick
    BY <1>3 DEF NickRefused, RegistrationNickRefused, StopOnConfigured, StopOrGiveUp, TryNext, Close
  <2>4. TriedInv' /\ NickStep BY <1>1, <1>3, <2>3, RefusalStep DEF NickStep
  <2>5. AskedInv' BY <1>1, <2>2 DEF AskedInv
  <2>. QED BY <2>1, <2>4, <2>5 DEF IInv, ChannelsInv
<1>4. CASE Welcome \/ EndAttempt
  <2>1. ChannelsInv' /\ SavedStep BY <1>1, <1>4, ConnectionSteps
  <2>2. /\ UNCHANGED <<configNick, regNick, regTries, tried, requestedNick, asked>>
        /\ phase' # "Registering"
    BY <1>4 DEF Welcome, EndAttempt, history
  <2>3. TriedInv' /\ AskedInv' /\ NickStep BY <1>1, <2>2 DEF TriedInv, AskedInv, NickStep
  <2>. QED BY <2>1, <2>3 DEF IInv, ChannelsInv
<1>5. CASE Message
  <2>1. ChannelsInv' /\ SavedStep BY <1>1, <1>5, MessageStep
  <2>2. /\ TriedInv' /\ AskedInv' /\ UNCHANGED <<regTries, regNick, tried, phase>>
        /\ configNick' # configNick => configNick' \in asked
    BY <1>1, <1>5, MessageNicks
  <2>3. NickStep
    <3>1. ~(regTries' > regTries) BY <1>1, <2>2 DEF TriedInv
    <3>. QED BY <2>2, <3>1 DEF NickStep
  <2>. QED BY <2>1, <2>2, <2>3 DEF IInv, ChannelsInv
<1>6. CASE UNCHANGED vars
  <2>1. IInv'
    BY <1>6 DEF vars, nickVars, serverVars, history, IInv, PhaseInv, TriedInv, AskedInv,
                JoinedInv, ListedInv, ReplyInv, Joined, NoReply
  <2>2. NickStep
    <3>1. ~(regTries' > regTries) BY <1>1, <1>6 DEF TriedInv, vars, nickVars
    <3>. QED BY <1>6, <3>1 DEF NickStep, vars, nickVars
  <2>. QED BY <1>6, <2>1, <2>2
<1>. QED BY <1>2, <1>3, <1>4, <1>5, <1>6 DEF Next

\* IInv is an invariant of the session.
THEOREM Invariance == Spec => []IInv
BY InitInv, StepInv, PTL DEF Spec

\* registrationNickRefused: no attempt tries a nick twice, for names of any
\* length, any number of tries, and a server that cuts where it likes.
THEOREM NeverTwiceHolds == Spec => NeverTwice
<1>1. IInv /\ [Next]_vars =>
        [regTries' > regTries /\ phase' = "Registering" => regNick' \notin tried]_nickVars
  BY StepInv DEF NickStep
<1>. QED BY <1>1, Invariance, PTL DEF Spec, NeverTwice

\* onNick: only what the user asked this connection for is saved as the nick.
THEOREM OnlyAskedNickIsSavedHolds == Spec => OnlyAskedNickIsSaved
<1>1. IInv /\ [Next]_vars => [configNick' # configNick => configNick' \in asked]_vars
  BY StepInv DEF NickStep
<1>. QED BY <1>1, Invariance, PTL DEF Spec, OnlyAskedNickIsSaved

\* onJoin, onPart, onKick, onNames, onQuit and onNick: the lists of the channels
\* we are in are the server's.
THEOREM NicksAreMembersHolds == Spec => []NicksAreMembers
<1>1. IInv => NicksAreMembers BY DEF IInv, JoinedInv, ListedInv, NicksAreMembers
<1>. QED BY <1>1, Invariance, PTL

\* onJoin, onPart, onKick: the saved channels are those to rejoin.
THEOREM SavedFollowsJoinedHolds == Spec => SavedFollowsJoined
<1>1. IInv /\ [Next]_vars =>
        [/\ Joined' \subseteq saved'
         /\ phase = "Up" /\ phase' = "Up" => saved' \cap (Joined \ Joined') = {}
         /\ saved \ saved' \subseteq Joined]_vars
  BY StepInv DEF SavedStep
<1>. QED BY <1>1, Invariance, PTL DEF Spec, SavedFollowsJoined

-----------------------------------------------------------------------------
(* What a message is published to                                          *)

\* A list between messages is whole, so a channel has the nick listed if it was
\* seen there, and only then if we are in it.
LEMMA ReachedChannels ==
  ASSUME ChannelsInv, Idle, NEW n, NEW new, OnEach(n, new),
         affected' = SeenIn(n), Joined' \subseteq Joined
  PROVE  MultiReachesItsChannels'
<1>1. multi' = Has(n) BY DEF OnEach
<1>2. SeenIn(n) \subseteq Has(n) /\ Has(n) \cap Joined \subseteq SeenIn(n)
  BY WhenIdle DEF Has, SeenIn
<1>. QED BY <1>1, <1>2 DEF MultiReachesItsChannels

LEMMA MultiStep ==
  ASSUME IInv, MultiReachesItsChannels, [Next]_vars
  PROVE  MultiReachesItsChannels'
<1>. USE DEF MultiReachesItsChannels
<1>1. ChannelsInv BY DEF IInv, ChannelsInv
<1>2. CASE UNCHANGED <<multi, affected, members, currentNick>>
  BY <1>2 DEF Joined
<1>3. CASE NoMulti
  BY <1>3 DEF NoMulti
<1>4. CASE Welcome
  <2>1. Joined' = {}
    <3>1. members' = [ch \in Channels |-> {}] BY <1>4 DEF Welcome, IInv, PhaseInv
    <3>. QED BY <3>1 DEF Joined
  <2>. QED BY <1>4, <2>1 DEF Welcome, history
<1>5. CASE EndAttempt
  <2>1. Joined' = {} BY <1>5 DEF EndAttempt, Joined
  <2>. QED BY <1>5, <2>1 DEF EndAttempt, history
<1>6. ASSUME NEW n \in WholeNicks, Quit(n) PROVE MultiReachesItsChannels'
  <2>1. Idle /\ OnEach(n, {}) /\ affected' = SeenIn(n) BY <1>6 DEF Quit
  <2>2. Joined' \subseteq Joined BY <1>6 DEF Quit, Joined
  <2>. QED BY <1>1, <2>1, <2>2, ReachedChannels
<1>7. ASSUME NEW n, NEW new, ChangeNick(n, new) PROVE MultiReachesItsChannels'
  <2>1. Idle /\ OnEach(n, Renamed(new)) /\ affected' = SeenIn(n)
    BY <1>7 DEF ChangeNick
  <2>2. /\ members' = [ch \in Channels |->
             IF n \in members[ch] THEN (members[ch] \ {n}) \cup {new} ELSE members[ch]]
        /\ new # currentNick /\ \A ch \in Channels : new \notin members[ch]
        /\ currentNick' = IF n = currentNick THEN new ELSE currentNick
    BY <1>7 DEF ChangeNick
  <2>3. Joined' \subseteq Joined
    <3>1. CASE n = currentNick BY <2>2, <3>1 DEF Joined
    <3>2. CASE n # currentNick BY <2>2, <3>2 DEF Joined
    <3>. QED BY <3>1, <3>2
  <2>. QED BY <1>1, <2>1, <2>3, ReachedChannels
<1>8. CASE Connect \/ NickRefused
  BY <1>2, <1>8 DEF Connect, NickRefused, serverVars, history
<1>9. CASE Message
  <2>1. ASSUME NEW ch \in Channels, AskNames(ch) PROVE MultiReachesItsChannels'
    BY <1>2, <2>1 DEF AskNames
  <2>2. ASSUME NEW n \in WholeNicks, RequestNick(n) PROVE MultiReachesItsChannels'
    BY <1>2, <2>2 DEF RequestNick, serverVars
  <2>3. ASSUME NEW ch \in Channels, NEW n,
               WeJoin(ch) \/ SheJoins(ch, n) \/ Leave(ch, n)
        PROVE  MultiReachesItsChannels'
    BY <1>3, <2>3 DEF WeJoin, SheJoins, Leave
  <2>4. CASE EndOfNames \/ RequestRefused \/ \E nicks \in SUBSET reply.rest : Names353(nicks)
    BY <1>3, <2>4 DEF EndOfNames, RequestRefused, Names353
  <2>. QED
    BY <1>6, <1>7, <1>9, <2>1, <2>2, <2>3, <2>4 DEF Message, Part, Kick
<1>10. CASE UNCHANGED vars
  BY <1>2, <1>10 DEF vars, serverVars, history
<1>. QED BY <1>4, <1>5, <1>8, <1>9, <1>10 DEF Next

\* onQuit, onNick: the message is published to each channel the nick was seen
\* in, and to no other, but for those of an earlier connection.
THEOREM MultiReachesItsChannelsHolds == Spec => []MultiReachesItsChannels
<1>1. Init => MultiReachesItsChannels BY DEF Init, MultiReachesItsChannels
<1>. QED BY <1>1, MultiStep, Invariance, PTL DEF Spec
=============================================================================
