---------------------------- MODULE ConcertProofs ----------------------------
(***************************************************************************)
(* Improvisation implements Concert: every step of the three programs is a  *)
(* step of the concert or leaves it where it is.                            *)
(***************************************************************************)
EXTENDS ImprovisationProofs

(* Steps that leave the bar, the parts written and the rounds played alone. *)
LEMMA Unheard ==
  ASSUME phase' = phase, round' = round, played' = played,
         \A m \in Musicians : Written(m)' = Written(m)
  PROVE  UNCHANGED C!concertVars
BY DEF C!concertVars

LEMMA BarOfRound ==
  ASSUME IInv, NEW m \in Musicians, SendToPlay(m)
  PROVE  C!Write(m)
<1> USE ProcFacts
<1> USE DEF SendToPlay, processVars, directorVars, playerVars
<1>1. TypeOK /\ Ranges /\ Conducted
  BY DEF IInv
<1>2. phase = "concert" /\ mi[m] = round
  BY <1>1, PartNumber
<1>3. round < Measures
  <2>1. Owes(m)
    <3>1. Len(toMus[m]) + Busy(m) + acks[m] = IF Owes(m) THEN 1 ELSE 0
      BY <1>1, <1>2 DEF Conducted, Tokens, Mourning
    <3>2. Busy(m) = 1
      BY DEF Busy
    <3> QED
      BY <1>1, <3>1, <3>2 DEF TypeOK
  <2> QED
    BY <1>1, <1>2, <2>1 DEF Owes, Ranges
<1>4. Written(m) = round /\ Written(m)' = round + 1
  BY <1>1, <1>2 DEF Written, TypeOK
<1>5. \A k \in Musicians : k # m => Written(k)' = Written(k)
  BY <1>1 DEF Written, TypeOK
<1>6. m \in 1..N /\ Musicians = 1..N
  BY DEF Musicians
<1> QED
  BY <1>2, <1>3, <1>4, <1>5, <1>6 DEF C!Write

LEMMA NextRound ==
  ASSUME IInv, IInv', NEW m \in Musicians, SyncAck(m)
  PROVE  C!NextBar \/ UNCHANGED C!concertVars
<1> USE ProcFacts
<1> USE DEF SyncAck, processVars, musicianVars, playerVars
<1>1. \A k \in Musicians : Written(k)' = Written(k)
  BY DEF Written
<1>2. CASE pending' # {}
  BY <1>1, <1>2, Unheard DEF AllHeard
<1>3. CASE pending' = {} /\ phase = "concert"
  <2>1. Up(Director)' /\ dpc' = "decide" /\ phase' = "concert" /\ round' = round + 1
    BY <1>3 DEF AllHeard, RoundAfter, Up
  <2>2. \A k \in Musicians : Written(k)' = round'
    <3>1. Barrier'
      BY BarrierInv, PTL
    <3> QED
      BY <2>1, <3>1 DEF Barrier
  <2> QED
    BY <1>1, <1>3, <2>1, <2>2 DEF C!NextBar, C!Parts, Musicians
<1>4. CASE pending' = {} /\ phase # "concert"
  <2>1. (IF phase' = "concert" THEN round' ELSE 0) = 0
    BY <1>4 DEF AllHeard, RoundAfter
  <2> QED
    BY <1>1, <1>4, <2>1 DEF C!concertVars
<1> QED
  BY <1>2, <1>3, <1>4

LEMMA PlayedRound ==
  ASSUME IInv, Player \notin stopped, PlayMeasure
  PROVE  C!Hear
<1> USE ProcFacts
<1> USE DEF PlayMeasure, processVars, channels, directorVars, musicianVars
<1>1. TypeOK /\ waiting = {} /\ ~Dropped
  BY DEF IInv, Gathering, Slots, Dropped
<1>2. ASSUME NEW k \in Musicians PROVE Written(k) > played
  <2>1. Taken(k) + Len(toPlayer[k]) = Written(k)
    BY <1>1 DEF IInv, Gathering, Queues
  <2>2. Taken(k) = played + 1
    BY <1>1 DEF Taken
  <2> QED
    BY <1>1, <2>1, <2>2 DEF TypeOK
<1>3. \A k \in Musicians : Written(k)' = Written(k)
  BY DEF Written
<1> QED
  BY <1>2, <1>3 DEF C!Hear, C!Parts, Musicians

LEMMA StepSimulation ==
  ASSUME IInv, IInv', [Next]_vars, Player \notin stopped
  PROVE  [C!ConcertNext]_(C!concertVars)
<1> USE ProcFacts
<1> USE DEF processVars, channels, directorVars, musicianVars, playerVars
<1>1. ASSUME UNCHANGED <<phase, round, musicianVars, played>>
      PROVE  UNCHANGED C!concertVars
  BY <1>1, Unheard DEF Written
<1>2. ASSUME EndRehearsal, phase = "rehearsal", UNCHANGED <<musicianVars, played>>
      PROVE  UNCHANGED C!concertVars
  BY <1>2 DEF EndRehearsal, C!concertVars, Written
<1>3. CASE DirectorStep
  <2>1. CASE DecideMeasure \/ \E m \in Musicians : BroadcastMeasure(m) \/ BroadcastSigpipe(m)
                                                  \/ SyncReset(m)
    BY <1>1, <2>1 DEF DecideMeasure, BroadcastMeasure, BroadcastSigpipe, SyncReset
  <2>2. CASE EndOfPass
    BY <1>1, <1>2, <2>2 DEF EndOfPass, LeaveDirector
  <2>3. CASE \E m \in Musicians : SyncEoi(m)
    BY <1>1, <1>2, <2>3 DEF SyncEoi, LeaveDirector, EvolutionEoi
  <2>4. CASE \E m \in Musicians : SyncAck(m)
    BY <2>4, NextRound DEF C!ConcertNext
  <2> QED
    BY <1>3, <2>1, <2>2, <2>3, <2>4 DEF DirectorStep
<1>4. ASSUME NEW m \in Musicians, MusicianStep(m)
      PROVE  [C!ConcertNext]_(C!concertVars)
  <2>1. CASE SendToPlay(m)
    BY <2>1, BarOfRound DEF C!ConcertNext, C!Parts, Musicians
  <2>2. CASE \/ RecvMeasure(m) \/ RecvEoi(m) \/ StoreGmeasure(m)
             \/ SendSyncAck(m) \/ GeneticLoop(m) \/ AckReady(m)
    <3>1. \A k \in Musicians : Written(k)' = Written(k)
      BY <2>2, WrittenKept DEF IInv
    <3>2. UNCHANGED <<phase, round, played>>
      BY <2>2 DEF RecvMeasure, RecvEoi, StoreGmeasure, SendSyncAck, GeneticLoop, AckReady
    <3> QED
      BY <3>1, <3>2, Unheard
  <2>3. CASE RecvReset(m) \/ SendToPlayFails(m) \/ AckSigpipe(m)
    BY <1>1, <2>3 DEF RecvReset, SendToPlayFails, AckSigpipe
  <2> QED
    BY <1>4, <2>1, <2>2, <2>3 DEF MusicianStep
<1>5. CASE PlayMeasure
  BY <1>5, PlayedRound DEF C!ConcertNext
<1>6. ASSUME NEW m \in Musicians, RecvToPlay(m) \/ PlayerEoi(m)
      PROVE  UNCHANGED C!concertVars
  BY <1>1, <1>6 DEF RecvToPlay, PlayerEoi
<1>7. CASE SyncInterrupted \/ GatherInterrupted \/ \E p \in Procs : Fail(p)
  BY <1>1, <1>7 DEF SyncInterrupted, GatherInterrupted, Fail
<1>8. CASE UNCHANGED vars
  BY <1>1, <1>8 DEF vars
<1> QED
  BY <1>3, <1>4, <1>5, <1>6, <1>7, <1>8 DEF Next, PlayerStep, Ended

LEMMA InitSimulation == Init => C!ConcertInit
<1> SUFFICES ASSUME Init PROVE C!ConcertInit
  OBVIOUS
<1>1. \A m \in Musicians : Written(m) = 0
  BY DEF Init, Written
<1> QED
  BY <1>1 DEF Init, C!ConcertInit, C!Parts, Musicians

(* Whatever dies, what reaches the audience is a concert: bars in order,    *)
(* written by everybody before the next one begins and heard complete, as   *)
(* long as nobody stops and continues the player.                           *)
THEOREM Implementation ==
  ASSUME Player \notin Suspendable
  PROVE  Spec => ImplementsConcert
<1>1. Init => C!ConcertInit
  BY InitSimulation
<1>2. IInv => Player \notin stopped
  BY DEF IInv, Ranges
<1>3. IInv /\ IInv' /\ [Next]_vars => [C!ConcertNext]_(C!concertVars)
  BY <1>2, StepSimulation
<1> QED
  BY <1>1, <1>3, Invariance, PTL DEF Spec, ImplementsConcert, C!ConcertSpec
==============================================================================
