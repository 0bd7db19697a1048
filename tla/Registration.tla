---------------------------- MODULE Registration -----------------------------
(***************************************************************************)
(* How director, player and musicians find each other, from their start to  *)
(* the state Improvisation begins in.                                       *)
(*                                                                          *)
(* A musician connects to the director and to the player, subscribes to the *)
(* director, waits for its id, and subscribes to the player under that id.  *)
(* The director takes the connections of its queue one after the other: the *)
(* first must be the player's, the next musicians_num are the band.  The    *)
(* player waits for the number of musicians and then takes that many        *)
(* connections of its own queue.  Every wait is a blocking read of one      *)
(* connection, and none is inside a try.                                    *)
(*                                                                          *)
(* The processes are started in any order: one may find that nobody listens *)
(* yet where it connects, and a musician may reach the director before the  *)
(* player does.                                                             *)
(***************************************************************************)
EXTENDS Integers, Sequences, FiniteSets, SequencesExt

CONSTANTS
  K,          \* how many musicians are started
  N,          \* how many the director is told to wait for
  Class,      \* Class[m]: the General Midi class of m
  Coupling,   \* Coupling[m]: the coupling id of m, or NO_COUPLING
  Faulty      \* the processes that may be killed at any moment

Started  == 1..K
Director == 0
Player   == K + 1
Procs    == 0..K+1

NO_COUPLING == 0
PLAYER_ID   == -1
ACK         == -2          \* what send_ack sends in place of an id
NoId        == -3

ASSUME RegistrationAssumption ==
  /\ K \in Nat /\ N \in Nat \ {0}
  /\ Class \in [1..K -> 0..127]
  /\ Coupling \in [1..K -> Nat]
  /\ Faulty \subseteq 0..K+1

VARIABLES
  status,       \* each process is up, or how it ended
  pc,           \* what each process does next
  dirQueue,     \* connections the director has not accepted yet
  playQueue,    \* connections the player has not accepted yet
  said,         \* the processes that have sent their subscription to the director
  told,         \* the musicians that have sent theirs to the player
  idFor,        \* idFor[p]: what the director answered p
  ackFor,       \* the musicians the player has answered
  player,       \* director: the process behind the player's connection, or -1
  registrations,\* director: who has been registered, in order, and its id
  band,         \* player: the same
  musicians_num,\* player: the number it was sent; NoId before
  newcomer,     \* director: the new musician, in the loop of main
  newId, i      \* calculateID: its id and index

vars == <<status, pc, dirQueue, playQueue, said, told, idFor, ackFor, player,
          registrations, band, musicians_num, newcomer, newId, i>>

sockets == <<dirQueue, playQueue, said, told, idFor, ackFor>>
rosters == <<player, registrations, band, musicians_num, newcomer, newId, i>>
locals  == <<newcomer, newId, i>>

Up(p)   == status[p] = "up"
Down(p) == status[p] # "up"
At(p, where) == Up(p) /\ pc[p] = where

Ids   == {256 * serial + c : serial \in 1..N, c \in {Class[m] : m \in Started} \cup {0}}
Entry == [from : Procs, id : Ids]

TypeOK ==
  /\ status \in [Procs -> {"up", "exited", "aborted", "killed"}]
  /\ pc \in [Procs -> {"boot", "player", "musicians", "id", "number", "connect", "subscribe",
                       "await_id", "await_num", "subscribe_player", "await_ack", "ready"}]
  /\ dirQueue \in Seq(Procs) /\ playQueue \in Seq(Started)
  /\ said \subseteq Procs /\ told \subseteq Started /\ ackFor \subseteq Started
  /\ idFor \in [Procs -> Ids \cup {ACK, NoId}]
  /\ player \in {-1, Player}
  /\ registrations \in Seq(Entry) /\ band \in Seq(Entry)
  /\ Len(registrations) <= N /\ Len(band) <= N
  /\ musicians_num \in {NoId, 0, N}
  /\ newcomer \in Procs /\ newId \in Ids \cup {NoId} /\ i \in 0..N

Init ==
  /\ status = [p \in Procs |-> "up"]
  /\ pc = [p \in Procs |-> "boot"]
  /\ dirQueue = <<>> /\ playQueue = <<>>
  /\ said = {} /\ told = {} /\ ackFor = {}
  /\ idFor = [p \in Procs |-> NoId]
  /\ player = -1
  /\ registrations = <<>> /\ band = <<>>
  /\ musicians_num = NoId
  /\ newcomer = Director /\ newId = NoId /\ i = 0

Goes(p, where) == pc' = [pc EXCEPT ![p] = where] /\ UNCHANGED status

Leaves(p, how) == status' = [status EXCEPT ![p] = how] /\ UNCHANGED pc

Listening(p) == Up(p) /\ pc[p] # "boot"

-----------------------------------------------------------------------------
CouplingOf(p) == IF p = Player THEN PLAYER_ID ELSE Coupling[p]
ClassOf(p)    == IF p = Player THEN 0 ELSE Class[p]

Coupled(p, q) ==
  CouplingOf(p) # NO_COUPLING /\ CouplingOf(q) = CouplingOf(p) /\ ClassOf(q) = ClassOf(p)

-----------------------------------------------------------------------------
(* The director.                                                            *)

DirectorListen ==
  /\ At(Director, "boot")
  /\ Goes(Director, "player")
  /\ UNCHANGED <<sockets, rosters>>

(* recv_subscription: accept the oldest connection and read it, until the   *)
(* subscription comes or the other end is closed (eoi_ex).                  *)
DirectorReads(h) ==
  /\ Len(dirQueue) > 0 /\ h = Head(dirQueue) /\ h \in said
  /\ dirQueue' = Tail(dirQueue)

(* Answering a process that is gone may raise SIGPIPE.                      *)
DirectorEoi ==
  /\ Up(Director) /\ pc[Director] \in {"player", "musicians"}
  /\ Len(dirQueue) > 0 /\ Down(Head(dirQueue))
  /\ Leaves(Director, "aborted")
  /\ UNCHANGED <<sockets, rosters>>

(* recv_player: whoever comes first is taken for the player, and answered   *)
(* only if it is.                                                           *)
RecvPlayer(h) ==
  /\ At(Director, "player") /\ DirectorReads(h)
  /\ IF h = Player
     THEN /\ player' = h
          /\ idFor' = [idFor EXCEPT ![h] = ACK]
     ELSE UNCHANGED <<player, idFor>>
  /\ Goes(Director, "musicians")
  /\ UNCHANGED <<playQueue, said, told, ackFor, registrations, band, musicians_num, locals>>

(* The id of a new musician: its class in the low byte, a serial number     *)
(* above it.                                                                *)
RecvSubscription(h) ==
  /\ At(Director, "musicians") /\ DirectorReads(h)
  /\ newcomer' = h /\ newId' = 256 + ClassOf(h) /\ i' = 0
  /\ Goes(Director, "id")
  /\ UNCHANGED <<playQueue, said, told, idFor, ackFor, player, registrations, band, musicians_num>>

(* calculateID: an id in use is given up for the next one.  The loop        *)
(* advances its index twice, so it looks at every other registration.       *)
(* (Mutant: the serial number is counted in the low byte.)                  *)
NextIdLowByte == newId + 1

NextId == newId + 256

HasPartner == i < Len(registrations) /\ Coupled(newcomer, registrations[i + 1].from)

VisitRegistration ==
  /\ At(Director, "id") /\ i < Len(registrations) /\ ~HasPartner
  /\ newId' = IF registrations[i + 1].id = newId THEN NextId ELSE newId
  /\ i' = i + 2
  /\ UNCHANGED <<status, pc, sockets, player, registrations, band, musicians_num, newcomer>>

(* A coupled musician takes over the id.                                    *)
CalculateID == IF HasPartner THEN registrations[i + 1].id ELSE newId

Calculated == At(Director, "id") /\ (HasPartner \/ i >= Len(registrations))

(* for (i = 0; i < musicians_num; i++).  (Mutant: one too few.)             *)
AllSubscribedButOne(list) == Len(list) >= N - 1

AllSubscribed(list) == Len(list) = N

SendId ==
  /\ Calculated
  /\ registrations' = Append(registrations, [from |-> newcomer, id |-> CalculateID])
  /\ idFor' = [idFor EXCEPT ![newcomer] = CalculateID]
  /\ Goes(Director, IF AllSubscribed(registrations') THEN "number" ELSE "musicians")
  /\ UNCHANGED <<dirQueue, playQueue, said, told, ackFor, player, band, musicians_num, locals>>

SendIdFails ==
  /\ Calculated /\ Down(newcomer)
  /\ Leaves(Director, "aborted")
  /\ UNCHANGED <<sockets, rosters>>

(* send_num_of_musicians, to a player that exists.  The director core is    *)
(* initialised next and the main loop begins.                               *)
SendNumOfMusicians ==
  /\ At(Director, "number") /\ player = Player
  /\ Goes(Director, "ready")
  /\ UNCHANGED <<sockets, rosters>>

SendNumFails ==
  /\ At(Director, "number")
  /\ (player = -1 \/ Down(Player))
  /\ Leaves(Director, "aborted")
  /\ UNCHANGED <<sockets, rosters>>

NumSent == pc[Director] = "ready"

DirectorStep ==
  \/ DirectorListen \/ DirectorEoi \/ VisitRegistration \/ SendId \/ SendIdFails
  \/ SendNumOfMusicians \/ SendNumFails
  \/ \E h \in Procs : RecvPlayer(h) \/ RecvSubscription(h)

-----------------------------------------------------------------------------
(* A musician.                                                              *)

(* connect succeeds as soon as the other end listens, and then waits in its *)
(* queue; otherwise main returns 1.                                         *)
ConnectDirector(m) ==
  /\ At(m, "boot")
  /\ IF Listening(Director)
     THEN /\ Goes(m, "connect")
          /\ dirQueue' = Append(dirQueue, m)
     ELSE /\ Leaves(m, "exited")
          /\ UNCHANGED dirQueue
  /\ UNCHANGED <<playQueue, said, told, idFor, ackFor, rosters>>

ConnectPlayer(m) ==
  /\ At(m, "connect")
  /\ IF Listening(Player)
     THEN /\ Goes(m, "subscribe")
          /\ playQueue' = Append(playQueue, m)
     ELSE /\ Leaves(m, "exited")
          /\ UNCHANGED playQueue
  /\ UNCHANGED <<dirQueue, said, told, idFor, ackFor, rosters>>

SendSubscription(p) ==
  /\ At(p, "subscribe") /\ Goes(p, "await_id")
  /\ said' = said \cup {p}
  /\ UNCHANGED <<dirQueue, playQueue, told, idFor, ackFor, rosters>>

RecvId(p) ==
  /\ At(p, "await_id") /\ idFor[p] # NoId
  /\ Goes(p, IF p = Player THEN "await_num" ELSE "subscribe_player")
  /\ UNCHANGED <<sockets, rosters>>

SubscribePlayer(m) ==
  /\ At(m, "subscribe_player") /\ Goes(m, "await_ack")
  /\ told' = told \cup {m}
  /\ UNCHANGED <<dirQueue, playQueue, said, idFor, ackFor, rosters>>

RecvAck(m) ==
  /\ At(m, "await_ack") /\ m \in ackFor /\ Goes(m, "ready")
  /\ UNCHANGED <<sockets, rosters>>

(* The other end is gone and did not answer: net_ex.                        *)
Unanswered(p) ==
  \/ pc[p] = "await_id" /\ idFor[p] = NoId /\ Down(Director)
  \/ pc[p] = "await_ack" /\ p \notin ackFor /\ Down(Player)

GiveUp(p) ==
  /\ Up(p) /\ Unanswered(p)
  /\ Leaves(p, "aborted")
  /\ UNCHANGED <<sockets, rosters>>

MusicianStep(m) ==
  \/ ConnectDirector(m) \/ ConnectPlayer(m) \/ SendSubscription(m) \/ RecvId(m)
  \/ SubscribePlayer(m) \/ RecvAck(m) \/ GiveUp(m)

-----------------------------------------------------------------------------
(* The player.                                                              *)

PlayerListen ==
  /\ At(Player, "boot") /\ Goes(Player, "connect")
  /\ UNCHANGED <<sockets, rosters>>

PlayerConnect ==
  /\ At(Player, "connect")
  /\ IF Listening(Director)
     THEN /\ Goes(Player, "subscribe")
          /\ dirQueue' = Append(dirQueue, Player)
     ELSE /\ Leaves(Player, "exited")
          /\ UNCHANGED dirQueue
  /\ UNCHANGED <<playQueue, said, told, idFor, ackFor, rosters>>

(* recv_num_of_musicians fails on an error only: the end of the connection  *)
(* leaves the number at 0, and nobody is waited for.                        *)
RecvNumOfMusicians ==
  /\ At(Player, "await_num") /\ (NumSent \/ Down(Director))
  /\ musicians_num' = IF NumSent THEN N ELSE 0
  /\ Goes(Player, IF NumSent THEN "musicians" ELSE "ready")
  /\ UNCHANGED <<sockets, player, registrations, band, locals>>

(* The player's own loop of recv_subscription and send_ack.  (Mutant: it    *)
(* ends one musician early.)                                                *)
BandGatheredButOne(list) == Len(list) >= musicians_num - 1

BandGathered(list) == Len(list) = musicians_num

PlayerRecvSubscription(h) ==
  /\ At(Player, "musicians")
  /\ Len(playQueue) > 0 /\ h = Head(playQueue) /\ h \in told
  /\ playQueue' = Tail(playQueue)
  /\ band' = Append(band, [from |-> h, id |-> idFor[h]])
  /\ ackFor' = ackFor \cup {h}
  /\ Goes(Player, IF BandGathered(band') THEN "ready" ELSE "musicians")
  /\ UNCHANGED <<dirQueue, said, told, idFor, player, registrations, musicians_num, locals>>

PlayerEoi ==
  /\ At(Player, "musicians")
  /\ Len(playQueue) > 0 /\ Down(Head(playQueue))
  /\ Leaves(Player, "aborted")
  /\ UNCHANGED <<sockets, rosters>>

PlayerStep ==
  \/ PlayerListen \/ PlayerConnect \/ SendSubscription(Player) \/ RecvId(Player)
  \/ GiveUp(Player) \/ RecvNumOfMusicians \/ PlayerEoi
  \/ \E h \in Started : PlayerRecvSubscription(h)

-----------------------------------------------------------------------------
Kill(p) ==
  /\ p \in Faulty /\ Up(p)
  /\ Leaves(p, "killed")
  /\ UNCHANGED <<sockets, rosters>>

Ready(p) == Up(p) /\ pc[p] = "ready"

(* Who may wait for ever.  If somebody left before it had connected to the  *)
(* director, the director waits for its connection, the player for the      *)
(* number, the musicians with an id for the player, and one without for an  *)
(* answer only if it was taken for the player.  If the director ended       *)
(* before the number was sent, the player has read 0 and goes on without a  *)
(* band, and the musicians with an id wait for its answer.                  *)
Absent == \E p \in Procs : Down(p) /\ (pc[p] = "boot" \/ (p = Player /\ pc[p] = "connect"))

Accepting == Up(Director) /\ pc[Director] \in {"player", "musicians"} /\ dirQueue = <<>>

Waiting(p) ==
  \/ /\ Absent /\ Accepting
     /\ \/ p = Director
        \/ pc[p] = "await_num"
        \/ pc[p] = "await_ack" /\ At(Player, "await_num")
        \/ pc[p] = "await_id" /\ p # Player /\ player = -1
  \/ pc[p] = "await_ack" /\ Ready(Player) /\ musicians_num = 0 /\ Down(Director)

Over == \A p \in Procs : Down(p) \/ Ready(p) \/ Waiting(p)

Ended == Over /\ UNCHANGED vars

Next ==
  \/ DirectorStep \/ PlayerStep \/ \E m \in Started : MusicianStep(m)
  \/ \E p \in Procs : Kill(p)
  \/ Ended

Spec == Init /\ [][Next]_vars

FairSpec ==
  Spec /\ WF_vars(DirectorStep) /\ WF_vars(PlayerStep)
       /\ \A m \in Started : WF_vars(MusicianStep(m))

-----------------------------------------------------------------------------
(* Properties.                                                              *)

(* A player that starts to play has the same band as the director, under    *)
(* the ids the director chose: the order in which the musicians reached the *)
(* two of them, and what died meanwhile, make no difference.                *)
SameBand ==
  pc[Player] = "ready" /\ musicians_num = N =>
    /\ ToSet(band) = ToSet(registrations)
    /\ Cardinality(ToSet(band)) = N

(* The low byte of an id is the musician's class: play_measure finds the    *)
(* MIDI channel by it, also for a coupled musician.                         *)
IdCarriesClass ==
  \A k \in 1..Len(registrations) :
    registrations[k].id % 256 = ClassOf(registrations[k].from)

(* Everybody gets to the main loop, unless somebody is killed, or finds     *)
(* nobody listening, or is taken for the player because it came before it.  *)
TakenForPlayer == Listening(Director) /\ pc[Director] # "player" /\ player = -1

Registered == <>(\/ \A p \in Procs : Ready(p)
                 \/ \E p \in Procs : status[p] \in {"killed", "exited"}
                 \/ TakenForPlayer)

(* Started in any order, and whoever is killed, in the end everybody is in  *)
(* the main loop or has left, but for those who wait as Waiting says: every *)
(* other wait is ended by an answer or by a closed connection.              *)
Settled == <>[]Over

(* Every musician's id is its own (Report/core/communication.tex, "l'id     *)
(* (univoco per la sessione) del musicista"), coupled musicians excepted.   *)
UniqueIds ==
  \A j, k \in 1..Len(registrations) :
    j # k /\ registrations[j].id = registrations[k].id =>
      Coupled(registrations[j].from, registrations[k].from)
==============================================================================
