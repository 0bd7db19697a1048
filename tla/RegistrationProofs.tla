-------------------------- MODULE RegistrationProofs --------------------------
(***************************************************************************)
(* Proofs about Registration: types, ids that carry the class, and the same *)
(* band at both ends, for any number of musicians, coupled or not, started  *)
(* in any order, and any processes that may be killed.                      *)
(***************************************************************************)
EXTENDS Registration, FiniteSetTheorems, TLAPS

(* Who has registered, and who is about to.                                 *)
Registrants == {registrations[k].from : k \in 1..Len(registrations)}

Applicants == IF pc[Director] = "id" THEN {newcomer} ELSE {}

Banded == {band[k].from : k \in 1..Len(band)}

(* Nobody is in two places of a queue.                                      *)
NoRepeats(queue) == \A k, l \in 1..Len(queue) : queue[k] = queue[l] => k = l

(* Not connected to the director yet; not connected to the player yet.      *)
Away(p) == pc[p] = "boot" \/ (p = Player /\ pc[p] = "connect")

Apart(m) == pc[m] \in {"boot", "connect"}

(* Where each loop is tells how long its list is.                           *)
Stages ==
  /\ pc[Director] \in {"boot", "player", "musicians", "id", "number", "ready"}
  /\ pc[Player] \in {"boot", "connect", "subscribe", "await_id", "await_num", "musicians", "ready"}
  /\ Len(registrations) = N <=> pc[Director] \in {"number", "ready"}
  /\ pc[Director] = "id" => i <= Len(registrations) + 1
  /\ musicians_num = N => pc[Director] = "ready"
  /\ pc[Player] = "musicians" => musicians_num = N /\ Len(band) < N
  /\ pc[Player] \notin {"musicians", "ready"} => band = <<>>
  /\ pc[Player] = "ready" /\ musicians_num = N => Len(band) = N

(* An id is a serial number and the class of its musician; the serial       *)
(* number of the id being calculated grows more slowly than the index.      *)
Numbered ==
  /\ \A k \in 1..Len(registrations) :
       \E serial \in 1..N : registrations[k].id = 256 * serial + ClassOf(registrations[k].from)
  /\ pc[Director] = "id" =>
       \E serial \in 1..N : newId = 256 * serial + ClassOf(newcomer) /\ 2 * serial <= i + 2

(* A process is in the director's queue, being registered or registered,    *)
(* and in one of these once; a musician with an id is registered under it.  *)
DirectorSide ==
  /\ NoRepeats(dirQueue)
  /\ \A k \in 1..Len(dirQueue) : /\ dirQueue[k] # Director /\ ~Away(dirQueue[k])
                                 /\ dirQueue[k] \notin Registrants \cup Applicants
  /\ Applicants \cap Registrants = {}
  /\ \A p \in Registrants \cup Applicants : p # Director /\ ~Away(p)
  /\ \A m \in Started : idFor[m] # NoId =>
       \E k \in 1..Len(registrations) : registrations[k] = [from |-> m, id |-> idFor[m]]

(* The player takes in a musician once, and only with an id.                *)
PlayerSide ==
  /\ NoRepeats(playQueue)
  /\ \A k \in 1..Len(playQueue) : ~Apart(playQueue[k]) /\ playQueue[k] \notin Banded
  /\ \A k \in 1..Len(band) : /\ band[k].from \in Started /\ ~Apart(band[k].from)
                             /\ idFor[band[k].from] # NoId
                             /\ band[k].id = idFor[band[k].from]
  /\ \A m \in told : idFor[m] # NoId
  /\ \A m \in Started : pc[m] = "subscribe_player" => idFor[m] # NoId

(* The lists have no entry twice.                                           *)
Counted(list) == IsFiniteSet(ToSet(list)) /\ Cardinality(ToSet(list)) = Len(list)

IInv ==
  /\ TypeOK /\ Stages /\ Numbered /\ DirectorSide /\ PlayerSide
  /\ Counted(registrations) /\ Counted(band)

-----------------------------------------------------------------------------
(* Director, player and musicians are different processes.                  *)
LEMMA Cast ==
  /\ N \in Nat /\ N > 0
  /\ Director \in Procs /\ Player \in Procs /\ Started \subseteq Procs
  /\ Director # Player /\ Director \notin Started /\ Player \notin Started
  /\ \A p \in Procs : p = Director \/ p = Player \/ p \in Started
  /\ \A p \in Procs \ {Director} : ClassOf(p) \in 0..127
BY RegistrationAssumption DEF Procs, Started, Director, Player, ClassOf

(* What is sent in place of an id is none.                                  *)
LEMMA IdsAre ==
  /\ NoId \notin Ids /\ NoId # ACK
  /\ \A serial \in 1..N, p \in Procs \ {Director} : 256 * serial + ClassOf(p) \in Ids
<1>1. ASSUME NEW m \in Started PROVE Class[m] \in 0..127
  BY RegistrationAssumption DEF Started
<1>2. NoId \notin Ids
  <2>1. ASSUME NEW serial \in 1..N, NEW c \in {Class[m] : m \in Started} \cup {0}
        PROVE  256 * serial + c # -3
    <3>1. serial \in Nat /\ serial >= 1
      BY Cast
    <3>2. c \in 0..127
      BY <1>1
    <3> QED BY <3>1, <3>2
  <2> QED BY <2>1 DEF Ids, NoId
<1>3. ASSUME NEW p \in Procs \ {Director} PROVE ClassOf(p) \in {Class[m] : m \in Started} \cup {0}
  BY <1>3, Cast DEF ClassOf
<1> QED BY <1>2, <1>3 DEF Ids, NoId, ACK

(* One entry more in a list without repetitions.                            *)
LEMMA OneMore ==
  ASSUME NEW S, NEW list \in Seq(S), NEW e \in S, Counted(list), e \notin ToSet(list)
  PROVE  Counted(Append(list, e))
<1>1. ToSet(Append(list, e)) = ToSet(list) \cup {e}
  <2>1. /\ DOMAIN Append(list, e) = 1..Len(list) + 1
        /\ \A k \in 1..Len(list) : Append(list, e)[k] = list[k]
        /\ Append(list, e)[Len(list) + 1] = e
        /\ DOMAIN list = 1..Len(list) /\ Len(list) \in Nat
    OBVIOUS
  <2>2. \A k \in 1..Len(list) + 1 : k \in 1..Len(list) \/ k = Len(list) + 1
    BY <2>1
  <2>3. 1..Len(list) \subseteq 1..Len(list) + 1 /\ Len(list) + 1 \in 1..Len(list) + 1
    BY <2>1
  <2> QED BY <2>1, <2>2, <2>3, Zenon DEF ToSet
<1>2. /\ IsFiniteSet(ToSet(list) \cup {e})
      /\ Cardinality(ToSet(list) \cup {e}) = Cardinality(ToSet(list)) + 1
  BY FS_AddElement DEF Counted
<1>3. Len(Append(list, e)) = Len(list) + 1
  OBVIOUS
<1> QED BY <1>1, <1>2, <1>3 DEF Counted

LEMMA EmptyCounted == Counted(<<>>)
<1>1. ToSet(<<>>) = {}
  BY DEF ToSet
<1> QED BY <1>1, FS_EmptySet DEF Counted

(* A queue that loses its first or gets a new last one.                     *)
LEMMA OneLess ==
  ASSUME NEW S, NEW queue \in Seq(S), Len(queue) > 0, NoRepeats(queue)
  PROVE  /\ NoRepeats(Tail(queue))
         /\ Tail(queue) \in Seq(S)
         /\ \A k \in 1..Len(Tail(queue)) : /\ k + 1 \in 1..Len(queue)
                                          /\ Tail(queue)[k] = queue[k + 1]
                                          /\ Tail(queue)[k] # Head(queue)
BY DEF NoRepeats

LEMMA OneNew ==
  ASSUME NEW S, NEW queue \in Seq(S), NEW e \in S, NoRepeats(queue),
         \A k \in 1..Len(queue) : queue[k] # e
  PROVE  /\ NoRepeats(Append(queue, e))
         /\ Append(queue, e) \in Seq(S)
         /\ \A k \in 1..Len(Append(queue, e)) :
              Append(queue, e)[k] = e \/ (k \in 1..Len(queue) /\ Append(queue, e)[k] = queue[k])
BY DEF NoRepeats

(* Who is in the lists.                                                     *)
LEMMA ListsAre ==
  ASSUME TypeOK
  PROVE  /\ Registrants \subseteq Procs /\ Banded \subseteq Procs
         /\ \A k \in 1..Len(registrations) : registrations[k].from \in Procs /\ registrations[k].id \in Ids
         /\ \A k \in 1..Len(band) : band[k].from \in Procs /\ band[k].id \in Ids
<1>1. \A k \in 1..Len(registrations) : registrations[k] \in Entry
  BY DEF TypeOK
<1>2. \A k \in 1..Len(band) : band[k] \in Entry
  BY DEF TypeOK
<1> QED BY <1>1, <1>2 DEF Entry, Registrants, Banded

-----------------------------------------------------------------------------
LEMMA InitInv == Init => IInv
<1> SUFFICES ASSUME Init PROVE IInv
  OBVIOUS
<1>1. TypeOK
  BY Cast DEF Init, TypeOK, NoId
<1>2. Stages
  BY Cast DEF Init, Stages, NoId
<1>3. Numbered /\ DirectorSide /\ PlayerSide
  BY Cast DEF Init, Numbered, DirectorSide, PlayerSide, NoRepeats, Registrants, Applicants, Banded
<1>4. Counted(registrations) /\ Counted(band)
  BY EmptyCounted DEF Init
<1> QED BY <1>1, <1>2, <1>3, <1>4 DEF IInv

(* The end of a process disturbs nothing.                                   *)
LEMMA LeaveInv ==
  ASSUME IInv, NEW p \in Procs, NEW how \in {"exited", "aborted", "killed"},
         Leaves(p, how), UNCHANGED <<sockets, rosters>>
  PROVE  IInv'
<1> USE DEF IInv, Leaves, sockets, rosters
<1>1. TypeOK'
  BY DEF TypeOK
<1>2. Stages'
  BY DEF Stages
<1>3. Numbered'
  BY DEF Numbered
<1>4. DirectorSide'
  BY DEF DirectorSide, NoRepeats, Registrants, Applicants, Away
<1>5. PlayerSide'
  BY DEF PlayerSide, NoRepeats, Banded, Apart
<1>6. Counted(registrations)' /\ Counted(band)'
  BY DEF Counted
<1> QED BY <1>1, <1>2, <1>3, <1>4, <1>5, <1>6

(* A process goes on and leaves queues, ids and lists as they are.          *)
LEMMA MoveInv ==
  ASSUME IInv, NEW p \in Procs,
         NEW where \in {"player", "musicians", "number", "connect", "subscribe", "await_id",
                        "await_num", "subscribe_player", "await_ack", "ready"},
         Goes(p, where), p = Director => pc[p] # "id",
         where = "connect" => p = Player /\ Away(p) /\ Apart(p),
         where = "subscribe_player" => idFor[p] # NoId,
         UNCHANGED <<dirQueue, playQueue, idFor, ackFor, player, registrations, band, locals>>,
         said' \subseteq Procs, told' \subseteq Started, \A m \in told' : idFor[m] # NoId,
         musicians_num' \in {NoId, 0, N}, Stages'
  PROVE  IInv'
<1> USE DEF IInv, Goes, locals
<1>0. pc' = [pc EXCEPT ![p] = where] /\ pc \in [Procs -> {"boot", "player", "musicians", "id", "number",
         "connect", "subscribe", "await_id", "await_num", "subscribe_player", "await_ack", "ready"}]
  BY DEF TypeOK
<1>1. TypeOK'
  BY <1>0 DEF TypeOK
<1>2. Applicants' = Applicants /\ Registrants' = Registrants /\ Banded' = Banded
  BY <1>0, Cast DEF Applicants, Registrants, Banded
<1>3. \A q \in Procs : /\ ~Away(q) => ~Away(q)'
                       /\ ~Apart(q) => ~Apart(q)'
  BY <1>0, Cast DEF Away, Apart
<1>4. Numbered'
  BY <1>0, Cast DEF Numbered
<1>5. DirectorSide'
  <2>1. \A k \in 1..Len(dirQueue) : dirQueue[k] \in Procs
    BY DEF TypeOK
  <2>2. Registrants \cup Applicants \subseteq Procs
    BY ListsAre DEF Applicants, TypeOK
  <2> QED BY <1>2, <1>3, <2>1, <2>2 DEF DirectorSide, NoRepeats
<1>6. PlayerSide'
  <2>1. \A k \in 1..Len(playQueue) : playQueue[k] \in Procs
    BY Cast DEF TypeOK
  <2>2. \A m \in Started : pc'[m] = "subscribe_player" => idFor[m] # NoId
    BY <1>0, Cast DEF PlayerSide
  <2> QED BY <1>2, <1>3, <2>1, <2>2, Cast DEF PlayerSide, NoRepeats
<1>7. Counted(registrations)' /\ Counted(band)'
  BY DEF Counted
<1> QED BY <1>1, <1>4, <1>5, <1>6, <1>7

(* The steps that are such moves.                                           *)
LEMMA QuietInv ==
  ASSUME IInv,
         \/ DirectorListen \/ SendNumOfMusicians \/ PlayerListen \/ RecvNumOfMusicians
         \/ \E m \in Started : SubscribePlayer(m) \/ RecvAck(m)
         \/ \E p \in Started \cup {Player} : SendSubscription(p) \/ RecvId(p)
  PROVE  IInv'
<1> USE DEF IInv, At, Up, sockets, rosters, locals
<1>0. /\ pc \in [Procs -> {"boot", "player", "musicians", "id", "number", "connect", "subscribe",
                         "await_id", "await_num", "subscribe_player", "await_ack", "ready"}]
      /\ said \subseteq Procs /\ told \subseteq Started /\ musicians_num \in {NoId, 0, N}
      /\ \A m \in told : idFor[m] # NoId
  BY DEF TypeOK, PlayerSide
<1>1. CASE DirectorListen
  <2>1. Stages'
    BY <1>0, <1>1, Cast DEF DirectorListen, Stages, Goes
  <2> QED BY <1>0, <1>1, <2>1, Cast, MoveInv DEF DirectorListen
<1>2. CASE SendNumOfMusicians
  <2>1. Stages'
    BY <1>0, <1>2, Cast DEF SendNumOfMusicians, Stages, Goes
  <2> QED BY <1>0, <1>2, <2>1, Cast, MoveInv DEF SendNumOfMusicians
<1>3. CASE PlayerListen
  <2>1. Stages'
    BY <1>0, <1>3, Cast DEF PlayerListen, Stages, Goes
  <2> QED BY <1>0, <1>3, <2>1, Cast, MoveInv DEF PlayerListen, Away, Apart
<1>4. CASE RecvNumOfMusicians
  <2>1. Stages'
    BY <1>0, <1>4, Cast DEF RecvNumOfMusicians, NumSent, Stages, Goes, NoId, TypeOK
  <2>2. musicians_num' \in {NoId, 0, N}
    BY <1>4 DEF RecvNumOfMusicians
  <2>3. CASE NumSent
    BY <1>0, <1>4, <2>1, <2>2, <2>3, Cast, MoveInv DEF RecvNumOfMusicians
  <2>4. CASE ~NumSent
    BY <1>0, <1>4, <2>1, <2>2, <2>4, Cast, MoveInv DEF RecvNumOfMusicians
  <2> QED BY <2>3, <2>4
<1>5. ASSUME NEW m \in Started, SubscribePlayer(m) PROVE IInv'
  <2>1. Stages'
    BY <1>0, <1>5, Cast DEF SubscribePlayer, Stages, Goes
  <2>2. told' \subseteq Started /\ \A q \in told' : idFor[q] # NoId
    BY <1>0, <1>5 DEF SubscribePlayer, PlayerSide
  <2> QED BY <1>0, <1>5, <2>1, <2>2, Cast, MoveInv DEF SubscribePlayer
<1>6. ASSUME NEW m \in Started, RecvAck(m) PROVE IInv'
  <2>1. Stages'
    BY <1>0, <1>6, Cast DEF RecvAck, Stages, Goes
  <2> QED BY <1>0, <1>6, <2>1, Cast, MoveInv DEF RecvAck
<1>7. ASSUME NEW p \in Started \cup {Player}, SendSubscription(p) PROVE IInv'
  <2>1. Stages'
    BY <1>0, <1>7, Cast DEF SendSubscription, Stages, Goes
  <2> QED BY <1>0, <1>7, <2>1, Cast, MoveInv DEF SendSubscription
<1>8. ASSUME NEW p \in Started \cup {Player}, RecvId(p) PROVE IInv'
  <2>1. Stages'
    BY <1>0, <1>8, Cast DEF RecvId, Stages, Goes
  <2>2. CASE p = Player
    BY <1>0, <1>8, <2>1, <2>2, Cast, MoveInv DEF RecvId
  <2>3. CASE p # Player
    BY <1>0, <1>8, <2>1, <2>3, Cast, MoveInv DEF RecvId
  <2> QED BY <2>2, <2>3
<1> QED BY <1>1, <1>2, <1>3, <1>4, <1>5, <1>6, <1>7, <1>8

-----------------------------------------------------------------------------
(* A new connection at the director.                                        *)
LEMMA DialDirectorInv ==
  ASSUME IInv, NEW p \in Started \cup {Player}, Away(p),
         NEW where \in {"connect", "subscribe"}, where = "connect" <=> p # Player,
         Goes(p, where), dirQueue' = Append(dirQueue, p),
         p # Player => pc[p] = "boot", p = Player => pc[p] = "connect",
         UNCHANGED <<playQueue, said, told, idFor, ackFor, rosters>>
  PROVE  IInv'
<1> USE DEF IInv, Goes, rosters
<1>0. pc' = [pc EXCEPT ![p] = where] /\ pc \in [Procs -> {"boot", "player", "musicians", "id", "number",
         "connect", "subscribe", "await_id", "await_num", "subscribe_player", "await_ack", "ready"}]
  BY DEF TypeOK
<1>1. /\ dirQueue \in Seq(Procs) /\ p \in Procs /\ p # Director
      /\ NoRepeats(dirQueue)
      /\ \A k \in 1..Len(dirQueue) : dirQueue[k] # p
  BY Cast DEF TypeOK, DirectorSide
<1>2. /\ NoRepeats(dirQueue') /\ dirQueue' \in Seq(Procs)
      /\ \A k \in 1..Len(dirQueue') :
           dirQueue'[k] = p \/ (k \in 1..Len(dirQueue) /\ dirQueue'[k] = dirQueue[k])
  BY <1>1, OneNew
<1>3. TypeOK'
  BY <1>0, <1>2 DEF TypeOK
<1>4. Stages'
  BY <1>0, <1>1, Cast DEF Stages
<1>5. Applicants' = Applicants /\ Registrants' = Registrants /\ Banded' = Banded
  BY <1>0, <1>1, Cast DEF Applicants, Registrants, Banded
<1>6. p \notin Registrants \cup Applicants
  BY DEF DirectorSide
<1>7. \A q \in Procs : ~Away(q) => ~Away(q)'
  BY <1>0, Cast DEF Away
<1>8. ~Away(p)'
  BY <1>0, <1>1, Cast DEF Away
<1>9. \A q \in Procs : ~Apart(q) => ~Apart(q)'
  BY <1>0, Cast DEF Apart
<1>10. Numbered'
  BY <1>0, <1>1, Cast DEF Numbered
<1>11. Registrants \cup Applicants \subseteq Procs
  BY ListsAre DEF Applicants, TypeOK
<1>12. DirectorSide'
  <2>1. \A k \in 1..Len(dirQueue)' : /\ dirQueue'[k] # Director /\ ~Away(dirQueue[k])'
                                     /\ dirQueue'[k] \notin Registrants \cup Applicants
    BY <1>1, <1>2, <1>6, <1>7, <1>8 DEF DirectorSide
  <2>2. \A q \in Registrants \cup Applicants : q # Director /\ ~Away(q)'
    BY <1>7, <1>11 DEF DirectorSide
  <2> QED BY <1>2, <1>5, <2>1, <2>2 DEF DirectorSide
<1>13. PlayerSide'
  <2>1. \A k \in 1..Len(playQueue) : playQueue[k] \in Procs
    BY Cast DEF TypeOK
  <2>2. \A m \in Started : pc'[m] = "subscribe_player" => idFor[m] # NoId
    BY <1>0, Cast DEF PlayerSide
  <2> QED BY <1>5, <1>9, <2>1, <2>2, Cast DEF PlayerSide, NoRepeats
<1>14. Counted(registrations)' /\ Counted(band)'
  BY DEF Counted
<1> QED BY <1>3, <1>4, <1>10, <1>12, <1>13, <1>14

(* A new connection at the player.                                          *)
LEMMA DialPlayerInv ==
  ASSUME IInv, NEW m \in Started, pc[m] = "connect", Goes(m, "subscribe"),
         playQueue' = Append(playQueue, m),
         UNCHANGED <<dirQueue, said, told, idFor, ackFor, rosters>>
  PROVE  IInv'
<1> USE DEF IInv, Goes, rosters
<1>0. pc' = [pc EXCEPT ![m] = "subscribe"] /\ pc \in [Procs -> {"boot", "player", "musicians", "id", "number",
         "connect", "subscribe", "await_id", "await_num", "subscribe_player", "await_ack", "ready"}]
  BY DEF TypeOK
<1>1. /\ playQueue \in Seq(Started) /\ m \in Procs /\ m # Director /\ m # Player
      /\ NoRepeats(playQueue)
      /\ \A k \in 1..Len(playQueue) : playQueue[k] # m
  BY Cast DEF TypeOK, PlayerSide, Apart
<1>2. /\ NoRepeats(playQueue') /\ playQueue' \in Seq(Started)
      /\ \A k \in 1..Len(playQueue') :
           playQueue'[k] = m \/ (k \in 1..Len(playQueue) /\ playQueue'[k] = playQueue[k])
  BY <1>1, OneNew
<1>3. TypeOK'
  BY <1>0, <1>2 DEF TypeOK
<1>4. Stages'
  BY <1>0, <1>1 DEF Stages
<1>5. Applicants' = Applicants /\ Registrants' = Registrants /\ Banded' = Banded
  BY <1>0, <1>1, Cast DEF Applicants, Registrants, Banded
<1>6. m \notin Banded
  BY DEF PlayerSide, Banded, Apart
<1>7. \A q \in Procs : (~Away(q) => ~Away(q)') /\ (~Apart(q) => ~Apart(q)')
  BY <1>0, <1>1, Cast DEF Away, Apart
<1>8. ~Apart(m)'
  BY <1>0, <1>1 DEF Apart
<1>9. Numbered'
  BY <1>0, <1>1, Cast DEF Numbered
<1>10. DirectorSide'
  <2>1. \A k \in 1..Len(dirQueue) : dirQueue[k] \in Procs
    BY DEF TypeOK
  <2>2. Registrants \cup Applicants \subseteq Procs
    BY ListsAre DEF Applicants, TypeOK
  <2> QED BY <1>5, <1>7, <2>1, <2>2 DEF DirectorSide, NoRepeats
<1>11. PlayerSide'
  <2>1. \A k \in 1..Len(playQueue') : ~Apart(playQueue[k])' /\ playQueue'[k] \notin Banded
    <3>1. \A k \in 1..Len(playQueue) : playQueue[k] \in Procs
      BY <1>1, Cast
    <3> QED BY <1>2, <1>6, <1>7, <1>8, <3>1 DEF PlayerSide
  <2>2. \A q \in Started : pc'[q] = "subscribe_player" => idFor[q] # NoId
    BY <1>0, Cast DEF PlayerSide
  <2>3. \A k \in 1..Len(band) : ~Apart(band[k].from)'
    BY <1>7, Cast DEF PlayerSide
  <2> QED BY <1>2, <1>5, <2>1, <2>2, <2>3 DEF PlayerSide
<1>12. Counted(registrations)' /\ Counted(band)'
  BY DEF Counted
<1> QED BY <1>3, <1>4, <1>9, <1>10, <1>11, <1>12

-----------------------------------------------------------------------------
(* The director takes a connection out of its queue.                        *)
LEMMA ReadsFacts ==
  ASSUME IInv, NEW h, DirectorReads(h)
  PROVE  /\ h \in Procs \ {Director} /\ ~Away(h) /\ h \notin Registrants \cup Applicants
         /\ NoRepeats(dirQueue') /\ dirQueue' \in Seq(Procs)
         /\ \A k \in 1..Len(dirQueue') :
              dirQueue'[k] # h /\ \E l \in 1..Len(dirQueue) : dirQueue'[k] = dirQueue[l]
<1> USE DEF IInv, DirectorReads
<1>1. /\ dirQueue \in Seq(Procs) /\ Len(dirQueue) > 0 /\ NoRepeats(dirQueue)
      /\ h = dirQueue[1] /\ 1 \in 1..Len(dirQueue)
  BY DEF TypeOK, DirectorSide
<1>2. h \in Procs \ {Director} /\ ~Away(h) /\ h \notin Registrants \cup Applicants
  BY <1>1 DEF DirectorSide
<1>3. /\ NoRepeats(Tail(dirQueue)) /\ Tail(dirQueue) \in Seq(Procs)
      /\ \A k \in 1..Len(Tail(dirQueue)) : /\ k + 1 \in 1..Len(dirQueue)
                                          /\ Tail(dirQueue)[k] = dirQueue[k + 1]
                                          /\ Tail(dirQueue)[k] # Head(dirQueue)
  BY <1>1, OneLess
<1> QED BY <1>1, <1>2, <1>3

LEMMA RecvPlayerInv ==
  ASSUME IInv, NEW h \in Procs, RecvPlayer(h)
  PROVE  IInv'
<1> USE DEF IInv, RecvPlayer, Goes, At, Up, locals
<1>0. pc' = [pc EXCEPT ![Director] = "musicians"] /\ pc[Director] = "player"
      /\ pc \in [Procs -> {"boot", "player", "musicians", "id", "number", "connect", "subscribe",
                          "await_id", "await_num", "subscribe_player", "await_ack", "ready"}]
  BY DEF TypeOK
<1>1. /\ NoRepeats(dirQueue') /\ dirQueue' \in Seq(Procs)
      /\ \A k \in 1..Len(dirQueue') : \E l \in 1..Len(dirQueue) : dirQueue'[k] = dirQueue[l]
  BY ReadsFacts
<1>2. /\ idFor' \in [Procs -> Ids \cup {ACK, NoId}]
      /\ \A m \in Started : idFor'[m] = idFor[m]
      /\ player' \in {-1, Player}
  BY Cast DEF TypeOK
<1>3. TypeOK'
  <2>1. pc' \in [Procs -> {"boot", "player", "musicians", "id", "number", "connect", "subscribe",
                          "await_id", "await_num", "subscribe_player", "await_ack", "ready"}]
    BY <1>0, Cast
  <2> HIDE DEF RecvPlayer
  <2>2. UNCHANGED <<status, playQueue, said, told, ackFor, registrations, band, musicians_num, locals>>
    BY DEF RecvPlayer
  <2> QED BY <1>1, <1>2, <2>1, <2>2 DEF TypeOK
<1>4. Stages'
  BY <1>0, Cast DEF Stages
<1>5. /\ Applicants' = {} /\ Applicants = {}
      /\ Registrants' = Registrants /\ Banded' = Banded
  BY <1>0, Cast DEF Applicants, Registrants, Banded
<1>6. \A q \in Procs \ {Director} : (Away(q)' <=> Away(q)) /\ (Apart(q)' <=> Apart(q))
  BY <1>0, Cast DEF Away, Apart
<1>7. Numbered'
  BY <1>0, Cast DEF Numbered
<1>8. DirectorSide'
  <2>1. \A k \in 1..Len(dirQueue) : dirQueue[k] \in Procs
    BY DEF TypeOK
  <2>2. \A k \in 1..Len(dirQueue') : /\ dirQueue'[k] # Director /\ ~Away(dirQueue[k])'
                                     /\ dirQueue'[k] \notin Registrants
    BY <1>1, <1>6, <2>1 DEF DirectorSide
  <2>3. \A q \in Registrants : q # Director /\ ~Away(q)'
    BY <1>6, ListsAre DEF DirectorSide
  <2>4. \A m \in Started : idFor'[m] # NoId =>
          \E k \in 1..Len(registrations) : registrations[k] = [from |-> m, id |-> idFor'[m]]
    BY <1>2 DEF DirectorSide
  <2> QED BY <1>1, <1>5, <2>2, <2>3, <2>4 DEF DirectorSide
<1>9. PlayerSide'
  <2>1. \A k \in 1..Len(playQueue) : playQueue[k] \in Procs \ {Director}
    BY Cast DEF TypeOK
  <2>2. \A m \in Started : pc'[m] = pc[m]
    BY <1>0, Cast
  <2>3. told \subseteq Started
    BY DEF TypeOK
  <2> QED BY <1>2, <1>5, <1>6, <2>1, <2>2, <2>3, Cast DEF PlayerSide, NoRepeats
<1>10. Counted(registrations)' /\ Counted(band)'
  BY DEF Counted
<1> QED BY <1>3, <1>4, <1>7, <1>8, <1>9, <1>10

LEMMA RecvSubscriptionInv ==
  ASSUME IInv, NEW h \in Procs, RecvSubscription(h)
  PROVE  IInv'
<1> USE DEF IInv, RecvSubscription, Goes, At, Up
<1>0. pc' = [pc EXCEPT ![Director] = "id"] /\ pc[Director] = "musicians"
      /\ pc \in [Procs -> {"boot", "player", "musicians", "id", "number", "connect", "subscribe",
                          "await_id", "await_num", "subscribe_player", "await_ack", "ready"}]
  BY DEF TypeOK
<1>1. /\ NoRepeats(dirQueue') /\ dirQueue' \in Seq(Procs)
      /\ \A k \in 1..Len(dirQueue') :
           dirQueue'[k] # h /\ \E l \in 1..Len(dirQueue) : dirQueue'[k] = dirQueue[l]
      /\ h \in Procs \ {Director} /\ ~Away(h) /\ h \notin Registrants
  BY ReadsFacts
<1>2. newId' = 256 * 1 + ClassOf(h) /\ 1 \in 1..N
  BY <1>1, Cast
<1>3. TypeOK'
  <2>1. newId' \in Ids
    BY <1>1, <1>2, IdsAre
  <2> QED BY <1>0, <1>1, <2>1, Cast DEF TypeOK
<1>4. Stages'
  BY <1>0, Cast DEF Stages, TypeOK
<1>5. /\ Applicants' = {h} /\ Applicants = {}
      /\ Registrants' = Registrants /\ Banded' = Banded
  BY <1>0, Cast DEF Applicants, Registrants, Banded
<1>6. \A q \in Procs \ {Director} : (Away(q)' <=> Away(q)) /\ (Apart(q)' <=> Apart(q))
  BY <1>0, Cast DEF Away, Apart
<1>7. Numbered'
  <2>1. pc'[Director] = "id" /\ ClassOf(newcomer)' = ClassOf(h)
    BY <1>0, Cast DEF ClassOf
  <2>2. newId' = 256 * 1 + ClassOf(newcomer)' /\ 2 * 1 <= i' + 2
    BY <1>2, <2>1
  <2>3. \A k \in 1..Len(registrations)' : \E serial \in 1..N :
          registrations[k].id' = 256 * serial + ClassOf(registrations[k].from)'
    BY DEF Numbered
  <2> QED BY <1>2, <2>2, <2>3 DEF Numbered
<1>8. DirectorSide'
  <2>1. \A k \in 1..Len(dirQueue) : dirQueue[k] \in Procs
    BY DEF TypeOK
  <2>2. \A k \in 1..Len(dirQueue') : /\ dirQueue'[k] # Director /\ ~Away(dirQueue[k])'
                                     /\ dirQueue'[k] \notin Registrants \cup {h}
    BY <1>1, <1>6, <2>1 DEF DirectorSide
  <2>3. \A q \in Registrants \cup {h} : q # Director /\ ~Away(q)'
    BY <1>1, <1>6, ListsAre DEF DirectorSide
  <2> QED BY <1>1, <1>5, <2>2, <2>3 DEF DirectorSide
<1>9. PlayerSide'
  <2>1. \A k \in 1..Len(playQueue) : playQueue[k] \in Procs \ {Director}
    BY Cast DEF TypeOK
  <2>2. \A m \in Started : pc'[m] = pc[m]
    BY <1>0, Cast
  <2> QED BY <1>5, <1>6, <2>1, <2>2, Cast DEF PlayerSide, NoRepeats
<1>10. Counted(registrations)' /\ Counted(band)'
  BY DEF Counted
<1> QED BY <1>3, <1>4, <1>7, <1>8, <1>9, <1>10

(* One turn of calculateID.                                                 *)
LEMMA VisitInv ==
  ASSUME IInv, VisitRegistration
  PROVE  IInv'
<1> USE DEF IInv, VisitRegistration, At, Up, sockets
<1>0. pc[Director] = "id" /\ newcomer \in Procs \ {Director} /\ ClassOf(newcomer)' = ClassOf(newcomer)
  BY DEF TypeOK, DirectorSide, Applicants, ClassOf
<1>1. /\ i \in 0..N /\ i < Len(registrations) /\ Len(registrations) \in 0..N
      /\ Len(registrations) # N /\ N \in Nat
  BY <1>0, Cast DEF TypeOK, Stages
<1>2. i' = i + 2 /\ i' \in 0..N /\ i' <= Len(registrations) + 1
  BY <1>1
<1>3. PICK serial \in 1..N : newId = 256 * serial + ClassOf(newcomer) /\ 2 * serial <= i + 2
  BY <1>0 DEF Numbered
<1>4. ClassOf(newcomer) \in 0..127
  BY <1>0, Cast
<1>5. \E next \in 1..N : newId' = 256 * next + ClassOf(newcomer) /\ 2 * next <= i' + 2
  <2>1. CASE newId' = newId
    BY <1>1, <1>2, <1>3, <2>1
  <2>2. CASE newId' = NextId
    <3>1. serial + 1 \in 1..N /\ 2 * (serial + 1) <= i' + 2
      BY <1>1, <1>2, <1>3
    <3>2. newId' = 256 * (serial + 1) + ClassOf(newcomer)
      <4>1. newId' = newId + 256
        BY <2>2, Zenon DEF NextId
      <4>2. serial \in Int
        BY <1>1, <1>3
      <4>3. ClassOf(newcomer) \in Int
        <5>1. \A c \in 0..127 : c \in Int
          OBVIOUS
        <5> QED BY <1>4, <5>1, Zenon
      <4> QED BY <1>3, <4>1, <4>2, <4>3
    <3> QED BY <3>1, <3>2
  <2> QED BY <2>1, <2>2
<1>6. TypeOK'
  <2>1. newId' \in Ids
    BY <1>0, <1>5, IdsAre
  <2> QED BY <1>2, <2>1 DEF TypeOK
<1>7. Stages'
  BY <1>2 DEF Stages
<1>8. Numbered'
  BY <1>0, <1>5 DEF Numbered
<1>9. DirectorSide'
  BY DEF DirectorSide, NoRepeats, Registrants, Applicants, Away
<1>10. PlayerSide'
  BY DEF PlayerSide, NoRepeats, Banded, Apart
<1>11. Counted(registrations)' /\ Counted(band)'
  BY DEF Counted
<1> QED BY <1>6, <1>7, <1>8, <1>9, <1>10, <1>11

(* The id that is sent is one, and of the newcomer's class.                 *)
LEMMA CalculatedIsId ==
  ASSUME IInv, Calculated
  PROVE  \E serial \in 1..N : CalculateID = 256 * serial + ClassOf(newcomer)
<1> USE DEF IInv, Calculated, At, Up
<1>1. CASE HasPartner
  <2>1. i + 1 \in 1..Len(registrations)
    BY <1>1 DEF HasPartner, TypeOK
  <2>2. PICK serial \in 1..N :
          registrations[i + 1].id = 256 * serial + ClassOf(registrations[i + 1].from)
    BY <2>1 DEF Numbered
  <2> QED BY <1>1, <2>2 DEF HasPartner, Coupled, CalculateID
<1>2. CASE ~HasPartner
  BY <1>2 DEF Numbered, CalculateID
<1> QED BY <1>1, <1>2

LEMMA SendIdInv ==
  ASSUME IInv, SendId
  PROVE  IInv'
<1> DEFINE entry == [from |-> newcomer, id |-> CalculateID]
<1> USE DEF IInv
<1>0. /\ pc[Director] = "id"
      /\ pc' = [pc EXCEPT ![Director] = IF Len(registrations') = N THEN "number" ELSE "musicians"]
      /\ registrations' = Append(registrations, entry)
      /\ idFor' = [idFor EXCEPT ![newcomer] = CalculateID]
      /\ UNCHANGED <<status, dirQueue, playQueue, said, told, ackFor, player, band, musicians_num,
                     newcomer, newId, i>>
      /\ pc \in [Procs -> {"boot", "player", "musicians", "id", "number", "connect", "subscribe",
                          "await_id", "await_num", "subscribe_player", "await_ack", "ready"}]
  BY DEF SendId, Calculated, At, Up, Goes, AllSubscribed, locals, TypeOK
<1>1. newcomer \in Procs \ {Director} /\ newcomer \notin Registrants /\ Applicants = {newcomer} /\ ~Away(newcomer)
  BY <1>0 DEF TypeOK, DirectorSide, Applicants
<1>2. PICK serial \in 1..N : CalculateID = 256 * serial + ClassOf(newcomer)
  BY CalculatedIsId DEF SendId
<1>3. CalculateID \in Ids /\ CalculateID # NoId /\ entry \in Entry
  BY <1>1, <1>2, IdsAre DEF Entry
<1>4. registrations \in Seq(Entry) /\ Len(registrations) < N /\ N \in Nat
  BY <1>0, Cast DEF TypeOK, Stages
<1>5. /\ registrations' \in Seq(Entry) /\ Len(registrations') = Len(registrations) + 1
      /\ registrations'[Len(registrations) + 1] = entry
      /\ \A k \in 1..Len(registrations) : k \in 1..Len(registrations') /\ registrations'[k] = registrations[k]
      /\ \A k \in 1..Len(registrations') : k \in 1..Len(registrations) \/ k = Len(registrations) + 1
      /\ Len(registrations) + 1 \in 1..Len(registrations')
  BY <1>0, <1>3, <1>4
<1>6. Registrants' = Registrants \cup {newcomer} /\ Applicants' = {} /\ Banded' = Banded
  <2>1. Registrants' = Registrants \cup {newcomer}
    BY <1>5 DEF Registrants
  <2> QED BY <1>0, <2>1, Cast DEF Applicants, Banded
<1>7. /\ idFor' \in [Procs -> Ids \cup {ACK, NoId}] /\ idFor'[newcomer] = CalculateID
      /\ \A p \in Procs : p # newcomer => idFor'[p] = idFor[p]
  BY <1>0, <1>1, <1>3 DEF TypeOK
<1>8. newcomer \in Started => idFor[newcomer] = NoId
  <2>1. ASSUME newcomer \in Started, idFor[newcomer] # NoId PROVE newcomer \in Registrants
    <3>1. PICK k \in 1..Len(registrations) :
            registrations[k] = [from |-> newcomer, id |-> idFor[newcomer]]
      BY <2>1 DEF DirectorSide
    <3> QED BY <3>1 DEF Registrants
  <2> QED BY <1>1, <2>1
<1>9. \A q \in Procs \ {Director} : /\ Away(q)' <=> Away(q)
                                    /\ Apart(q)' <=> Apart(q)
                                    /\ pc'[q] = pc[q]
  BY <1>0, Cast DEF Away, Apart
<1>10. TypeOK'
  <2>1. pc' \in [Procs -> {"boot", "player", "musicians", "id", "number", "connect", "subscribe",
                          "await_id", "await_num", "subscribe_player", "await_ack", "ready"}]
    BY <1>0, Cast
  <2> QED BY <1>0, <1>4, <1>5, <1>7, <2>1 DEF TypeOK
<1>11. Stages'
  BY <1>0, <1>4, <1>5, Cast DEF Stages
<1>12. Numbered'
  <2>1. \A k \in 1..Len(registrations') : \E n \in 1..N :
          registrations'[k].id = 256 * n + ClassOf(registrations'[k].from)
    <3>1. \A k \in 1..Len(registrations) : \E n \in 1..N :
            registrations[k].id = 256 * n + ClassOf(registrations[k].from)
      BY DEF Numbered
    <3>2. entry.id = 256 * serial + ClassOf(entry.from)
      BY <1>2
    <3> HIDE DEF entry
    <3> QED BY <1>5, <3>1, <3>2
  <2>2. pc'[Director] # "id"
    BY <1>0, Cast
  <2>3. \A k \in 1..Len(registrations') : ClassOf(registrations[k].from)' = ClassOf(registrations'[k].from)
    BY DEF ClassOf
  <2> QED BY <2>1, <2>2, <2>3 DEF Numbered
<1>13. DirectorSide'
  <2>1. \A k \in 1..Len(dirQueue) : dirQueue[k] \in Procs
    BY DEF TypeOK
  <2>2. \A k \in 1..Len(dirQueue) : /\ dirQueue[k] # Director /\ ~Away(dirQueue[k])'
                                    /\ dirQueue[k] \notin Registrants \cup {newcomer}
    BY <1>0, <1>1, <1>9, <2>1 DEF DirectorSide
  <2>3. \A q \in Registrants \cup {newcomer} : q # Director /\ ~Away(q)'
    BY <1>1, <1>9, ListsAre DEF DirectorSide
  <2>4. ASSUME NEW m \in Started, idFor'[m] # NoId
        PROVE  \E k \in 1..Len(registrations') : registrations'[k] = [from |-> m, id |-> idFor'[m]]
    <3>1. CASE m = newcomer
      BY <1>5, <1>7, <3>1
    <3>2. CASE m # newcomer
      <4>1. idFor'[m] = idFor[m]
        BY <1>7, <3>2, Cast
      <4>2. PICK k \in 1..Len(registrations) : registrations[k] = [from |-> m, id |-> idFor[m]]
        BY <2>4, <4>1 DEF DirectorSide
      <4> QED BY <1>5, <4>1, <4>2
    <3> QED BY <3>1, <3>2
  <2> QED BY <1>0, <1>6, <2>2, <2>3, <2>4 DEF DirectorSide, NoRepeats
<1>14. PlayerSide'
  <2>1. \A k \in 1..Len(playQueue) : playQueue[k] \in Procs \ {Director}
    BY Cast DEF TypeOK
  <2>2. told \subseteq Started
    BY DEF TypeOK
  <2>3. \A m \in Started : idFor[m] # NoId => idFor'[m] = idFor[m]
    BY <1>7, <1>8, Cast
  <2>4. \A k \in 1..Len(band) : /\ band[k].from \in Started /\ ~Apart(band[k].from)'
                                /\ idFor'[band[k].from] # NoId
                                /\ band[k].id = idFor'[band[k].from]
    BY <1>0, <1>9, <2>3, Cast DEF PlayerSide
  <2>5. \A k \in 1..Len(playQueue) : ~Apart(playQueue[k])' /\ playQueue[k] \notin Banded
    BY <1>0, <1>9, <2>1 DEF PlayerSide
  <2>6. \A m \in Started : pc'[m] = pc[m]
    BY <1>9, Cast
  <2>7. /\ \A m \in told : idFor'[m] # NoId
        /\ \A m \in Started : pc'[m] = "subscribe_player" => idFor'[m] # NoId
    BY <2>2, <2>3, <2>6 DEF PlayerSide
  <2> QED BY <1>0, <1>6, <2>4, <2>5, <2>7 DEF PlayerSide, NoRepeats
<1>15. Counted(registrations)' /\ Counted(band)'
  <2>1. entry \notin ToSet(registrations)
    BY <1>1, <1>4 DEF ToSet, Registrants
  <2>2. Counted(registrations')
    BY <1>0, <1>3, <1>4, <2>1, OneMore
  <2> QED BY <1>0, <2>2 DEF Counted
<1> QED BY <1>10, <1>11, <1>12, <1>13, <1>14, <1>15

-----------------------------------------------------------------------------
LEMMA PlayerRecvInv ==
  ASSUME IInv, NEW h \in Started, PlayerRecvSubscription(h)
  PROVE  IInv'
<1> DEFINE entry == [from |-> h, id |-> idFor[h]]
<1> USE DEF IInv
<1>0. /\ pc[Player] = "musicians" /\ h \in told /\ Len(playQueue) > 0 /\ h = Head(playQueue)
      /\ playQueue' = Tail(playQueue) /\ ackFor' = ackFor \cup {h}
      /\ pc' = [pc EXCEPT ![Player] = IF Len(band') = musicians_num THEN "ready" ELSE "musicians"]
      /\ band' = Append(band, entry)
      /\ UNCHANGED <<status, dirQueue, said, told, idFor, player, registrations, musicians_num,
                     newcomer, newId, i>>
      /\ pc \in [Procs -> {"boot", "player", "musicians", "id", "number", "connect", "subscribe",
                          "await_id", "await_num", "subscribe_player", "await_ack", "ready"}]
  BY DEF PlayerRecvSubscription, At, Up, Goes, BandGathered, locals, TypeOK
<1>1. playQueue \in Seq(Started) /\ NoRepeats(playQueue) /\ h = playQueue[1] /\ 1 \in 1..Len(playQueue)
  BY <1>0 DEF TypeOK, PlayerSide
<1>2. h \notin Banded /\ ~Apart(h) /\ idFor[h] # NoId /\ h \in Procs
  BY <1>0, <1>1, Cast DEF PlayerSide
<1>3. idFor[h] \in Ids /\ entry \in Entry
  <2>1. PICK k \in 1..Len(registrations) : registrations[k] = [from |-> h, id |-> idFor[h]]
    BY <1>2 DEF DirectorSide
  <2> QED BY <1>2, <2>1, ListsAre DEF Entry
<1>4. band \in Seq(Entry) /\ Len(band) < N /\ N \in Nat /\ musicians_num = N
  BY <1>0, Cast DEF TypeOK, Stages
<1>5. /\ band' \in Seq(Entry) /\ Len(band') = Len(band) + 1 /\ band' # <<>>
      /\ band'[Len(band) + 1] = entry
      /\ \A k \in 1..Len(band) : k \in 1..Len(band') /\ band'[k] = band[k]
      /\ \A k \in 1..Len(band') : k \in 1..Len(band) \/ k = Len(band) + 1
      /\ Len(band) + 1 \in 1..Len(band')
  BY <1>0, <1>3, <1>4
<1>6. Banded' = Banded \cup {h} /\ Registrants' = Registrants /\ Applicants' = Applicants
  <2>1. Banded' = Banded \cup {h}
    BY <1>5 DEF Banded
  <2> QED BY <1>0, <2>1, Cast DEF Applicants, Registrants
<1>7. /\ NoRepeats(playQueue') /\ playQueue' \in Seq(Started)
      /\ \A k \in 1..Len(playQueue') : /\ k + 1 \in 1..Len(playQueue)
                                      /\ playQueue'[k] = playQueue[k + 1]
                                      /\ playQueue'[k] # h
  BY <1>0, <1>1, OneLess
<1>8. \A q \in Procs : /\ Away(q)' <=> Away(q)
                       /\ Apart(q)' <=> Apart(q)
                       /\ q # Player => pc'[q] = pc[q]
  BY <1>0, Cast DEF Away, Apart
<1>9. TypeOK'
  <2>1. pc' \in [Procs -> {"boot", "player", "musicians", "id", "number", "connect", "subscribe",
                          "await_id", "await_num", "subscribe_player", "await_ack", "ready"}]
    BY <1>0, Cast
  <2> QED BY <1>0, <1>4, <1>5, <1>7, <2>1 DEF TypeOK
<1>10. Stages'
  BY <1>0, <1>4, <1>5, Cast DEF Stages
<1>11. Numbered'
  BY <1>0, <1>8, Cast DEF Numbered
<1>12. DirectorSide'
  <2>1. \A k \in 1..Len(dirQueue) : dirQueue[k] \in Procs
    BY DEF TypeOK
  <2>2. Registrants \cup Applicants \subseteq Procs
    BY ListsAre DEF Applicants, TypeOK
  <2>3. \A k \in 1..Len(dirQueue) : /\ dirQueue[k] # Director /\ ~Away(dirQueue[k])'
                                    /\ dirQueue[k] \notin Registrants \cup Applicants
    BY <1>0, <1>8, <2>1 DEF DirectorSide
  <2>4. \A q \in Registrants \cup Applicants : q # Director /\ ~Away(q)'
    BY <1>8, <2>2 DEF DirectorSide
  <2> QED BY <1>0, <1>6, <2>3, <2>4 DEF DirectorSide, NoRepeats
<1>13. PlayerSide'
  <2>1. \A k \in 1..Len(playQueue) : playQueue[k] \in Procs
    BY <1>1, Cast
  <2>2. \A k \in 1..Len(playQueue') : ~Apart(playQueue[k])' /\ playQueue'[k] \notin Banded \cup {h}
    BY <1>7, <1>8, <2>1 DEF PlayerSide
  <2>3. \A k \in 1..Len(band') : /\ band'[k].from \in Started /\ ~Apart(band[k].from)'
                                 /\ idFor[band'[k].from] # NoId
                                 /\ band'[k].id = idFor[band'[k].from]
    <3>1. \A k \in 1..Len(band) : /\ band[k].from \in Started /\ ~Apart(band[k].from)
                                  /\ idFor[band[k].from] # NoId
                                  /\ band[k].id = idFor[band[k].from]
      BY DEF PlayerSide
    <3>2. entry.from = h /\ entry.id = idFor[h]
      OBVIOUS
    <3> HIDE DEF entry
    <3>3. \A k \in 1..Len(band') : /\ band'[k].from \in Started /\ ~Apart(band'[k].from)
                                   /\ idFor[band'[k].from] # NoId
                                   /\ band'[k].id = idFor[band'[k].from]
      BY <1>2, <1>5, <3>1, <3>2
    <3>4. \A k \in 1..Len(band') : Apart(band[k].from)' <=> Apart(band'[k].from)
      <4>1. \A q \in Started : (pc'[q] = pc[q])
        BY <1>8, Cast
      <4> QED BY <3>3, <4>1 DEF Apart
    <3> QED BY <3>3, <3>4
  <2>4. \A m \in Started : pc'[m] = pc[m]
    BY <1>8, Cast
  <2>5. \A m \in Started : pc'[m] = "subscribe_player" => idFor[m] # NoId
    BY <2>4 DEF PlayerSide
  <2>6. \A m \in told : idFor[m] # NoId
    BY DEF PlayerSide
  <2> QED BY <1>0, <1>6, <1>7, <2>2, <2>3, <2>5, <2>6 DEF PlayerSide
<1>14. Counted(registrations)' /\ Counted(band)'
  <2>1. entry \notin ToSet(band)
    BY <1>2, <1>4 DEF ToSet, Banded
  <2>2. Counted(band')
    BY <1>0, <1>3, <1>4, <2>1, OneMore
  <2> QED BY <1>0, <2>2 DEF Counted
<1> QED BY <1>9, <1>10, <1>11, <1>12, <1>13, <1>14

-----------------------------------------------------------------------------
LEMMA NextInv == IInv /\ [Next]_vars => IInv'
<1> SUFFICES ASSUME IInv, [Next]_vars PROVE IInv'
  OBVIOUS
<1>1. ASSUME UNCHANGED vars PROVE IInv'
  BY <1>1 DEF vars, IInv, TypeOK, Stages, Numbered, DirectorSide, PlayerSide, Counted,
              NoRepeats, Registrants, Applicants, Banded, Away, Apart
<1>2. ASSUME NEW p \in Procs, NEW how \in {"exited", "aborted", "killed"},
             Leaves(p, how), UNCHANGED <<sockets, rosters>>
      PROVE  IInv'
  BY <1>2, LeaveInv
<1>3. ASSUME DirectorStep PROVE IInv'
  <2>1. ASSUME DirectorEoi \/ SendIdFails \/ SendNumFails PROVE IInv'
    BY <1>2, <2>1, Cast DEF DirectorEoi, SendIdFails, SendNumFails
  <2>2. ASSUME NEW h \in Procs, RecvPlayer(h) \/ RecvSubscription(h) PROVE IInv'
    BY <2>2, RecvPlayerInv, RecvSubscriptionInv
  <2> QED BY <1>3, <2>1, <2>2, QuietInv, VisitInv, SendIdInv DEF DirectorStep
<1>4. ASSUME NEW p \in Started \cup {Player}, GiveUp(p) PROVE IInv'
  BY <1>2, <1>4, Cast DEF GiveUp
<1>5. ASSUME PlayerStep PROVE IInv'
  <2>1. ASSUME PlayerConnect PROVE IInv'
    <3>1. CASE Listening(Director)
      <4>1. pc[Player] = "connect" /\ Goes(Player, "subscribe") /\ dirQueue' = Append(dirQueue, Player)
            /\ UNCHANGED <<playQueue, said, told, idFor, ackFor, rosters>>
        BY <2>1, <3>1 DEF PlayerConnect, At
      <4> QED BY <4>1, DialDirectorInv, Cast DEF Away
    <3>2. CASE ~Listening(Director)
      BY <1>2, <2>1, <3>2, Cast DEF PlayerConnect, sockets
    <3> QED BY <3>1, <3>2
  <2>2. ASSUME PlayerEoi PROVE IInv'
    BY <1>2, <2>2, Cast DEF PlayerEoi
  <2> QED BY <1>4, <1>5, <2>1, <2>2, QuietInv, PlayerRecvInv DEF PlayerStep
<1>6. ASSUME NEW m \in Started, MusicianStep(m) PROVE IInv'
  <2>1. ASSUME ConnectDirector(m) PROVE IInv'
    <3>1. CASE Listening(Director)
      <4>1. pc[m] = "boot" /\ Goes(m, "connect") /\ dirQueue' = Append(dirQueue, m)
            /\ UNCHANGED <<playQueue, said, told, idFor, ackFor, rosters>>
        BY <2>1, <3>1 DEF ConnectDirector, At
      <4> QED BY <4>1, DialDirectorInv, Cast DEF Away
    <3>2. CASE ~Listening(Director)
      BY <1>2, <2>1, <3>2, Cast DEF ConnectDirector, sockets
    <3> QED BY <3>1, <3>2
  <2>2. ASSUME ConnectPlayer(m) PROVE IInv'
    <3>1. CASE Listening(Player)
      <4>1. pc[m] = "connect" /\ Goes(m, "subscribe") /\ playQueue' = Append(playQueue, m)
            /\ UNCHANGED <<dirQueue, said, told, idFor, ackFor, rosters>>
        BY <2>2, <3>1 DEF ConnectPlayer, At
      <4> QED BY <4>1, DialPlayerInv
    <3>2. CASE ~Listening(Player)
      BY <1>2, <2>2, <3>2, Cast DEF ConnectPlayer, sockets
    <3> QED BY <3>1, <3>2
  <2> QED BY <1>4, <1>6, <2>1, <2>2, QuietInv DEF MusicianStep
<1>7. ASSUME NEW p \in Procs, Kill(p) PROVE IInv'
  BY <1>2, <1>7 DEF Kill
<1> QED BY <1>1, <1>3, <1>5, <1>6, <1>7 DEF Next, Ended

LEMMA AlwaysInv == Spec => []IInv
BY InitInv, NextInv, PTL DEF Spec

-----------------------------------------------------------------------------
(* The variables of the registration keep their types; in particular the    *)
(* lists of director and player never have more entries than musicians_num, *)
(* and calculateID finds an id with no more serial numbers than musicians.  *)
THEOREM RegistrationTypes == Spec => []TypeOK
<1>1. IInv => TypeOK
  BY DEF IInv
<1> QED BY <1>1, AlwaysInv, PTL

(* The low byte of every id the director gives is the class of its musician *)
(* (calculateID), also if it was taken over from a coupled one.             *)
THEOREM IdsCarryClass == Spec => []IdCarriesClass
<1>1. IInv => IdCarriesClass
  <2> SUFFICES ASSUME IInv, NEW k \in 1..Len(registrations)
               PROVE  registrations[k].id % 256 = ClassOf(registrations[k].from)
    BY DEF IdCarriesClass
  <2>1. PICK serial \in 1..N : registrations[k].id = 256 * serial + ClassOf(registrations[k].from)
    BY DEF IInv, Numbered
  <2>2. registrations[k].from \in Procs \ {Director}
    BY ListsAre DEF IInv, DirectorSide, Registrants
  <2>3. ClassOf(registrations[k].from) \in 0..127
    BY <2>2, Cast
  <2>4. \A c \in 0..127 : (256 * serial + c) % 256 = c
    BY Cast
  <2> QED BY <2>1, <2>3, <2>4
<1> QED BY <1>1, AlwaysInv, PTL

(* When the player has been told the number of musicians and has gathered   *)
(* as many, they are those of the director, each under its id there: for    *)
(* any order of arrival at the two and whoever dies meanwhile.              *)
THEOREM BandIsTheSame == Spec => []SameBand
<1>1. IInv => SameBand
  <2> SUFFICES ASSUME IInv, pc[Player] = "ready", musicians_num = N
               PROVE  ToSet(band) = ToSet(registrations) /\ Cardinality(ToSet(band)) = N
    BY DEF SameBand
  <2>1. Len(band) = N /\ Len(registrations) = N
    BY DEF IInv, Stages
  <2>2. /\ Cardinality(ToSet(band)) = N
        /\ IsFiniteSet(ToSet(registrations)) /\ Cardinality(ToSet(registrations)) = N
    BY <2>1 DEF IInv, Counted
  <2>3. ToSet(band) \subseteq ToSet(registrations)
    <3> SUFFICES ASSUME NEW k \in DOMAIN band PROVE band[k] \in ToSet(registrations)
      BY DEF ToSet
    <3>1. k \in 1..Len(band) /\ band[k] \in Entry /\ registrations \in Seq(Entry)
      BY DEF IInv, TypeOK
    <3>2. /\ band[k].from \in Started /\ idFor[band[k].from] # NoId
          /\ band[k].id = idFor[band[k].from]
      BY <3>1 DEF IInv, PlayerSide
    <3>3. PICK l \in 1..Len(registrations) :
            registrations[l] = [from |-> band[k].from, id |-> idFor[band[k].from]]
      BY <3>2 DEF IInv, DirectorSide
    <3>4. registrations[l] = band[k]
      BY <3>1, <3>2, <3>3 DEF Entry
    <3> QED BY <3>1, <3>3, <3>4 DEF ToSet
  <2> QED BY <2>2, <2>3, FS_Subset
<1> QED BY <1>1, AlwaysInv, PTL
================================================================================
