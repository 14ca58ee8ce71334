------------------------------- MODULE Session -------------------------------
(***************************************************************************)
(* What a client knows of its channels (pkg/lierc/events.go): the handlers   *)
(* of JOIN, PART, KICK, NAMES, QUIT and NICK, over connections that come and *)
(* go.  Each action is one message: what it says is so on the server, as of  *)
(* that message, and what its handler does.  Modes and topics are left out.  *)
(***************************************************************************)
EXTENDS RegistrationNick

CONSTANT Channels

ASSUME ChannelsAssumption == "" \notin Channels

\* Another user may have the nick we are configured with.
WholeNicks == {Nick(name) : name \in Names}

VARIABLES
  channels,       \* c.Channels: the nicks and Synced of those it has
  saved,          \* Config.Channels
  requestedNick,
  multi,          \* effects.multi: the channels the message is published to
  currentNick,    \* our nick on the server, which irc-go follows
  members,        \* who is in each channel, if we are
  reply,          \* the NAMES reply under way: its channel, and who is left
  affected,       \* the channels the QUIT or NICK was seen in: history
  asked           \* the nicks the user asked this connection for: history

serverVars == <<currentNick, members, reply>>
history == <<affected, asked>>
vars == <<nickVars, channels, saved, requestedNick, multi, serverVars, history>>

NoReply == [channel |-> "", rest |-> {}]
Joined == {ch \in Channels : currentNick \in members[ch]}

Init ==
  /\ NickInit
  /\ channels = <<>> /\ saved \in SUBSET Channels
  /\ requestedNick = NoNick /\ multi = {}
  /\ currentNick = NoNick /\ members = [ch \in Channels |-> {}] /\ reply = NoReply
  /\ affected = {} /\ asked = {}

-----------------------------------------------------------------------------
(* Connections                                                             *)

KeepRequest == UNCHANGED requestedNick                             \* mutant
ClearRequest == requestedNick' = NoNick

Connect ==
  /\ BeginRegistration
  /\ ClearRequest /\ asked' = {}
  /\ UNCHANGED <<channels, saved, multi, serverVars, affected>>

NickRefused ==
  /\ phase = "Registering"
  /\ \E allowed \in BOOLEAN, refused \in Cuts(regNick) :
       RegistrationNickRefused(allowed, refused)
  /\ UNCHANGED <<channels, saved, requestedNick, multi, serverVars, history>>

\* The server may cut the nick it takes.
Welcome ==
  /\ phase = "Registering" /\ phase' = "Up"
  /\ currentNick' \in Cuts(regNick)
  /\ UNCHANGED <<configNick, regNick, regTries, stopped, tried>>
  /\ UNCHANGED <<channels, saved, requestedNick, multi, members, reply, history>>

EndAttempt ==
  /\ phase # "Down" /\ phase' = "Down"
  /\ currentNick' = NoNick
  /\ members' = [ch \in Channels |-> {}] /\ reply' = NoReply
  /\ UNCHANGED <<configNick, regNick, regTries, stopped, tried>>
  /\ UNCHANGED <<channels, saved, requestedNick, multi, history>>

-----------------------------------------------------------------------------
(* The handlers, on the client's state                                     *)

ConfiguredNick == configNick                                       \* mutant
CurrentNick == IF currentNick # NoNick THEN currentNick ELSE configNick

NewChannel == [nicks |-> {}, synced |-> FALSE]

AddChannel(ch) ==
  [c \in DOMAIN channels \cup {ch} |-> IF c = ch THEN NewChannel ELSE channels[c]]

\* Adds or removes a nick of a channel, if c.Channels has it.
AddNick(known, ch, n) ==
  [c \in DOMAIN known |->
     IF c = ch THEN [known[c] EXCEPT !.nicks = @ \cup {n}] ELSE known[c]]
DeleteNick(ch, n) ==
  [c \in DOMAIN channels |->
     IF c = ch THEN [channels[c] EXCEPT !.nicks = @ \ {n}] ELSE channels[c]]
DeleteChannel(ch) == [c \in DOMAIN channels \ {ch} |-> channels[c]]

OnJoin(ch, n) ==
  \/ /\ n = CurrentNick
     /\ channels' = AddNick(AddChannel(ch), ch, n)
     /\ saved' = saved \cup {ch}
  \/ /\ n # CurrentNick
     /\ channels' = AddNick(channels, ch, n) /\ UNCHANGED saved

\* onPart and onKick, whose nick is the one that leaves.
OnLeave(ch, n) ==
  \/ /\ n = CurrentNick
     /\ channels' = DeleteChannel(ch) /\ saved' = saved \ {ch}
  \/ /\ n # CurrentNick
     /\ channels' = DeleteNick(ch, n) /\ UNCHANGED saved

KickedBy(by, n) == by                                              \* mutant
Kicked(by, n) == n

Has(n) == {c \in DOMAIN channels : n \in channels[c].nicks}

\* onQuit, and onNick's loop: n is replaced by the nicks in new.
OnEach(n, new) ==
  /\ channels' = [c \in DOMAIN channels |->
       IF c \in Has(n) THEN [channels[c] EXCEPT !.nicks = (@ \ {n}) \cup new]
       ELSE channels[c]]
  /\ multi' = Has(n)

ForgetRenamed(n) == {}                                             \* mutant
Renamed(n) == {n}

IsRequested(n) == requestedNick # NoNick /\ n = requestedNick

\* onNick, for a nick that irc-go has followed already.
SaveNick(n) ==
  \/ /\ IsRequested(n)
     /\ configNick' = n /\ requestedNick' = NoNick
  \/ ~IsRequested(n) /\ UNCHANGED <<configNick, requestedNick>>

OnNames(ch, nicks) ==
  channels' = [c \in DOMAIN channels |->
    IF c # ch THEN channels[c]
    ELSE [nicks |-> nicks \cup (IF channels[c].synced THEN {} ELSE channels[c].nicks),
          synced |-> FALSE]]

OnEndOfNames(ch) ==
  channels' = [c \in DOMAIN channels |->
                 IF c = ch THEN [channels[c] EXCEPT !.synced = TRUE] ELSE channels[c]]

-----------------------------------------------------------------------------
(* Messages.  A server sends a JOIN of ours and a NAMES reply in one go.    *)

Idle == phase = "Up" /\ reply = NoReply
NoMulti == multi' = {} /\ affected' = {}
Others == <<regNick, regTries, stopped, tried, phase, asked>>

ReplyFor(ch, nicks) == [channel |-> ch, rest |-> nicks]

WeJoin(ch) ==
  /\ Idle /\ ch \notin Joined
  /\ \E others \in SUBSET (WholeNicks \ {currentNick}) :
       /\ members' = [members EXCEPT ![ch] = others \cup {currentNick}]
       /\ reply' = ReplyFor(ch, members'[ch])
  /\ OnJoin(ch, currentNick) /\ NoMulti
  /\ UNCHANGED <<Others, configNick, requestedNick, currentNick>>

SheJoins(ch, n) ==
  /\ Idle /\ ch \in Joined /\ n \in WholeNicks \ members[ch]
  /\ members' = [members EXCEPT ![ch] = @ \cup {n}]
  /\ OnJoin(ch, n) /\ NoMulti
  /\ UNCHANGED <<Others, configNick, requestedNick, currentNick, reply>>

Leave(ch, n) ==
  /\ Idle /\ ch \in Joined /\ n \in members[ch]
  /\ members' = [members EXCEPT ![ch] = IF n = currentNick THEN {} ELSE @ \ {n}]
  /\ NoMulti
  /\ UNCHANGED <<Others, configNick, requestedNick, currentNick, reply>>

Part(ch, n) == Leave(ch, n) /\ OnLeave(ch, n)

Kick(ch, by, n) == Leave(ch, n) /\ by \in members[ch] /\ OnLeave(ch, Kicked(by, n))

SeenIn(n) == {ch \in Joined : n \in members[ch]}

Quit(n) ==
  /\ Idle /\ n # currentNick /\ SeenIn(n) # {}
  /\ members' = [ch \in Channels |-> members[ch] \ {n}]
  /\ affected' = SeenIn(n)
  /\ OnEach(n, {})
  /\ UNCHANGED <<Others, saved, configNick, requestedNick, currentNick, reply>>

\* A nick that no one we see has; the server may rename us unasked.
ChangeNick(n, new) ==
  /\ Idle /\ n # new /\ (n = currentNick \/ SeenIn(n) # {})
  /\ new # currentNick /\ \A ch \in Channels : new \notin members[ch]
  /\ members' = [ch \in Channels |->
       IF n \in members[ch] THEN (members[ch] \ {n}) \cup {new} ELSE members[ch]]
  /\ affected' = SeenIn(n)
  /\ OnEach(n, Renamed(new))
  /\ currentNick' = IF n = currentNick THEN new ELSE currentNick
  /\ \/ new = currentNick' /\ SaveNick(new)
     \/ new # currentNick' /\ UNCHANGED <<configNick, requestedNick>>
  /\ UNCHANGED <<Others, saved, reply>>

\* The user asks for the list again.
AskNames(ch) ==
  /\ Idle /\ ch \in Joined
  /\ reply' = ReplyFor(ch, members[ch])
  /\ UNCHANGED <<Others, configNick, requestedNick, currentNick, members>>
  /\ UNCHANGED <<channels, saved, multi, affected>>

Names353(nicks) ==
  /\ reply # NoReply /\ nicks \subseteq reply.rest /\ nicks # {}
  /\ reply' = [reply EXCEPT !.rest = @ \ nicks]
  /\ OnNames(reply.channel, nicks) /\ NoMulti
  /\ UNCHANGED <<Others, saved, configNick, requestedNick, currentNick, members>>

EndOfNames ==
  /\ reply # NoReply /\ reply.rest = {}
  /\ reply' = NoReply
  /\ OnEndOfNames(reply.channel) /\ NoMulti
  /\ UNCHANGED <<Others, saved, configNick, requestedNick, currentNick, members>>

RequestNick(n) ==
  /\ phase = "Up"
  /\ requestedNick' = n /\ asked' = asked \cup {n}
  /\ UNCHANGED <<nickVars, channels, saved, multi, serverVars, affected>>

\* endNickRequest: a refusal, after registration, that names the nick.
RequestRefused ==
  /\ phase = "Up" /\ requestedNick # NoNick
  /\ requestedNick' = NoNick /\ NoMulti
  /\ UNCHANGED <<nickVars, channels, saved, serverVars, asked>>

-----------------------------------------------------------------------------
Message ==
  \/ \E ch \in Channels :
       \/ WeJoin(ch) \/ AskNames(ch)
       \/ \E n \in WholeNicks : SheJoins(ch, n)
       \/ \E n \in members[ch] : Part(ch, n) \/ \E by \in members[ch] : Kick(ch, by, n)
  \/ \E n \in WholeNicks : Quit(n) \/ RequestNick(n)
  \/ \E n \in WholeNicks \cup {currentNick}, new \in WholeNicks : ChangeNick(n, new)
  \/ \E nicks \in SUBSET reply.rest : Names353(nicks)
  \/ EndOfNames \/ RequestRefused

Next == Connect \/ NickRefused \/ Welcome \/ EndAttempt \/ Message

Spec == Init /\ [][Next]_vars

-----------------------------------------------------------------------------
(* Properties                                                              *)

\* The client's list of a channel it is in is the server's, but for a NAMES
\* reply under way, whatever an earlier connection or a reply cut short left.
NicksAreMembers ==
  \A ch \in Joined :
    /\ ch \in DOMAIN channels
    /\ reply.channel # ch => channels[ch].nicks = members[ch]

\* A QUIT or NICK is published to each channel it was seen in, and to no
\* other, but for those of an earlier connection not joined again.
MultiReachesItsChannels ==
  affected \subseteq multi /\ multi \cap Joined \subseteq affected

\* The channels to rejoin: each we are in, none that we parted or were
\* kicked from, whoever we are called; losing a connection forgets none.
SavedFollowsJoined ==
  [][/\ Joined' \subseteq saved'
     /\ phase = "Up" /\ phase' = "Up" => saved' \cap (Joined \ Joined') = {}
     /\ saved \ saved' \subseteq Joined]_vars

\* Only a nick the user asked this connection for becomes the configured one,
\* never a fallback or the server's choice.
OnlyAskedNickIsSaved == [][configNick' # configNick => configNick' \in asked]_vars
=============================================================================
