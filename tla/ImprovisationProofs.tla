------------------------ MODULE ImprovisationProofs --------------------------
(***************************************************************************)
(* Proofs about Improvisation: its type invariant, its inductive invariant  *)
(* (see ImprovisationInvariants) and what follows from it.                  *)
(***************************************************************************)
EXTENDS ImprovisationInvariants, FiniteSetTheorems, TLAPS

-----------------------------------------------------------------------------
(* The processes are distinct.                                              *)

LEMMA ProcFacts ==
  /\ N \in Nat \ {0} /\ Measures \in Nat /\ Buffer \in Nat \ {0} /\ FdLimit \in Nat \ {0}
  /\ Genetics \subseteq Musicians
  /\ Director \in Procs /\ Player \in Procs /\ Director # Player
  /\ \A m \in Musicians : m \in Procs /\ m # Director /\ m # Player
  /\ Suspendable \subseteq Procs
BY ImprovisationAssumption
   DEF ImprovisationAssumption, Musicians, Director, Player, Procs

(* A death changes the status of one process and of no other.               *)
LEMMA Dying ==
  ASSUME NEW p \in Procs, NEW how \in {"up", "exited", "aborted"}, Dies(p, how),
         status \in [Procs -> {"up", "exited", "aborted"}]
  PROVE  /\ status' \in [Procs -> {"up", "exited", "aborted"}]
         /\ status'[p] = how
         /\ \A q \in Procs : q # p => status'[q] = status[q]
BY DEF Dies

-----------------------------------------------------------------------------
(* Arithmetic of the player's epoll set.                                    *)

LEMMA AllWaiting == Cardinality(Musicians) = N /\ IsFiniteSet(Musicians)
<1>1. 1 \in Int /\ N \in Int /\ N >= 1
  BY ProcFacts
<1> QED
  BY <1>1, FS_Interval DEF Musicians

LEMMA WaitingCount ==
  ASSUME NEW S \in SUBSET Musicians
  PROVE  /\ Cardinality(S) \in 0..N
         /\ \A m \in S : Cardinality(S \ {m}) = Cardinality(S) - 1
         /\ Cardinality(S) = 0 <=> S = {}
<1>2. IsFiniteSet(S) /\ Cardinality(S) <= Cardinality(Musicians)
  BY AllWaiting, FS_Subset, Zenon
<1>3. Cardinality(S) \in Nat
  BY <1>2, FS_CardinalityType
<1>4. ASSUME NEW m \in S PROVE Cardinality(S \ {m}) = Cardinality(S) - 1
  BY <1>2, FS_RemoveElement
<1>5. Cardinality(S) = 0 <=> S = {}
  BY <1>2, FS_EmptySet
<1> QED
  BY <1>2, <1>3, <1>4, <1>5, AllWaiting, ProcFacts

-----------------------------------------------------------------------------
(* Types.                                                                   *)

LEMMA TypesInit == Init => TypeOK /\ Ranges
<1> SUFFICES ASSUME Init PROVE TypeOK /\ Ranges
  OBVIOUS
<1>1. TypeOK
  BY ProcFacts DEF Init, TypeOK, Measure, Part, Blank, MEASURE_BPM_EOI
<1>2. Ranges
  BY ProcFacts, AllWaiting DEF Init, Ranges, Up, Dests, genetic_process
<1> QED
  BY <1>1, <1>2

(* One process dies and nothing else happens.                               *)
LEMMA TypesDeath ==
  ASSUME TypeOK, Ranges, NEW p \in Procs, NEW how \in {"exited", "aborted"}, Dies(p, how),
         UNCHANGED <<directorVars, channels, musicianVars, playerVars>>,
         stopped' \subseteq Suspendable, Player \notin Suspendable => Player \notin stopped'
  PROVE  TypeOK' /\ Ranges'
<1>1. /\ status' \in [Procs -> {"up", "exited", "aborted"}]
      /\ \A q \in Procs : status'[q] = "up" => status[q] = "up"
  BY Dying DEF TypeOK
<1>2. TypeOK'
  BY <1>1 DEF TypeOK, directorVars, channels, musicianVars, playerVars
<1>3. Ranges'
  BY <1>1, ProcFacts DEF Ranges, directorVars, playerVars, Up, Dests
<1> QED
  BY <1>2, <1>3

LEMMA TypesNext ==
  ASSUME TypeOK, Ranges, [Next]_vars
  PROVE  TypeOK' /\ Ranges'
<1> USE ProcFacts
<1> USE DEF TypeOK, Ranges, processVars, channels, directorVars, musicianVars,
            playerVars, Dests
<1>1. CASE DecideMeasure
  BY <1>1 DEF DecideMeasure, genetic_process, Up
<1>2. CASE EndOfPass
  <2>1. CASE phase = "rehearsal" /\ EndRehearsal /\ UNCHANGED status
    <3>1. TypeOK'
      BY <1>2, <2>1 DEF EndOfPass, EndRehearsal
    <3>2. Ranges'
      BY <1>2, <2>1 DEF EndOfPass, EndRehearsal, Up, genetic_process
    <3> QED
      BY <3>1, <3>2
  <2>2. CASE phase = "concert" /\ LeaveDirector
    BY <1>2, <2>2, TypesDeath DEF EndOfPass, LeaveDirector
  <2> QED
    BY <1>2, <2>1, <2>2 DEF EndOfPass
<1>3. ASSUME NEW m \in Musicians, BroadcastMeasure(m) PROVE TypeOK' /\ Ranges'
  <2>1. NextMeasure \in Measure
    BY DEF NextMeasure, Measure
  <2>2. stored' \in 0..Measures
    BY <1>3 DEF BroadcastMeasure
  <2>3. (pending \subseteq Dests)' /\ pending' \subseteq Musicians
    BY <1>3 DEF BroadcastMeasure
  <2>4. toMus' \in [Musicians -> Seq(Measure)]
    BY <1>3, <2>1 DEF BroadcastMeasure
  <2>5. TypeOK'
    BY <1>3, <2>2, <2>3, <2>4 DEF BroadcastMeasure
  <2>6. Ranges'
    BY <1>3, <2>3 DEF BroadcastMeasure, Up, genetic_process
  <2> QED
    BY <2>5, <2>6
<1>4. ASSUME NEW m \in Musicians, BroadcastSigpipe(m) PROVE TypeOK' /\ Ranges'
  BY <1>4, TypesDeath DEF BroadcastSigpipe
<1>5. ASSUME NEW m \in Musicians, SyncAck(m) PROVE TypeOK' /\ Ranges'
  <2>1. /\ dpc' \in {dpc, "decide"}
        /\ \/ phase' = phase
           \/ phase = "evolution" /\ phase' = "concert" /\ dpc' = "decide"
    BY <1>5 DEF SyncAck
  <2>2. round' \in 0..Measures
    BY <1>5 DEF SyncAck, RoundAfter
  <2>3. acks' \in [Musicians -> Nat] /\ pending' \subseteq pending
    BY <1>5 DEF SyncAck
  <2>4. TypeOK'
    BY <1>5, <2>1, <2>2, <2>3 DEF SyncAck
  <2>5. dpc' # "decide" => dpc' = dpc /\ phase' = phase /\ round' = round
    BY <1>5 DEF SyncAck
  <2>6. phase' # "concert" => genetic_process
    BY <2>1
  <2>7. pending' \subseteq Dests'
    BY <2>1, <2>3, <1>5 DEF SyncAck
  <2>8. Ranges'
    BY <1>5, <2>1, <2>5, <2>6, <2>7 DEF SyncAck, Up, genetic_process
  <2> QED
    BY <2>4, <2>8
<1>6. ASSUME NEW m \in Musicians, SyncEoi(m) PROVE TypeOK' /\ Ranges'
  <2>1. CASE phase = "rehearsal" /\ EndRehearsal /\ UNCHANGED status
    BY <1>6, <2>1 DEF SyncEoi, EndRehearsal, Up, genetic_process
  <2>2. CASE EvolutionEoi
    BY <1>6, <2>2, TypesDeath DEF SyncEoi, EvolutionEoi
  <2>3. CASE LeaveDirector
    BY <1>6, <2>3, TypesDeath DEF SyncEoi, LeaveDirector
  <2> QED
    BY <1>6, <2>1, <2>2, <2>3 DEF SyncEoi
<1>7. ASSUME NEW m \in Musicians, SyncReset(m) PROVE TypeOK' /\ Ranges'
  BY <1>7, TypesDeath DEF SyncReset
<1>8. CASE SyncInterrupted
  BY <1>8, TypesDeath DEF SyncInterrupted
<1>9. ASSUME NEW m \in Musicians, RecvMeasure(m) PROVE TypeOK' /\ Ranges'
  <2>1. Head(toMus[m]) \in Measure /\ Tail(toMus[m]) \in Seq(Measure)
    BY <1>9 DEF RecvMeasure
  <2> QED
    BY <1>9, <2>1 DEF RecvMeasure, Up
<1>10. ASSUME NEW m \in Musicians, RecvEoi(m) PROVE TypeOK' /\ Ranges'
  <2>1. CASE Dies(m, "exited") /\ UNCHANGED mpc
    BY <1>10, <2>1, TypesDeath DEF RecvEoi
  <2>2. CASE UNCHANGED status /\ mpc' = [mpc EXCEPT ![m] = "evolve"]
    BY <1>10, <2>2 DEF RecvEoi, Up
  <2> QED
    BY <1>10, <2>1, <2>2 DEF RecvEoi
<1>11. ASSUME NEW m \in Musicians, RecvReset(m) PROVE TypeOK' /\ Ranges'
  BY <1>11, TypesDeath DEF RecvReset
<1>12. ASSUME NEW m \in Musicians, SendToPlay(m) PROVE TypeOK' /\ Ranges'
  <2>1. [from |-> m, id |-> mi[m], n |-> nm[m].n] \in Part
    BY SMTT(30) DEF Part, Measure, Musicians
  <2> QED
    BY <1>12, <2>1 DEF SendToPlay, Up
<1>13. ASSUME NEW m \in Musicians, SendToPlayFails(m) PROVE TypeOK' /\ Ranges'
  BY <1>13, TypesDeath DEF SendToPlayFails
<1>14. ASSUME NEW m \in Musicians, StoreGmeasure(m) PROVE TypeOK' /\ Ranges'
  BY <1>14 DEF StoreGmeasure, Up
<1>15. ASSUME NEW m \in Musicians, SendSyncAck(m) PROVE TypeOK' /\ Ranges'
  BY <1>15 DEF SendSyncAck, Up
<1>16. ASSUME NEW m \in Musicians, GeneticLoop(m) PROVE TypeOK' /\ Ranges'
  BY <1>16 DEF GeneticLoop, Up
<1>17. ASSUME NEW m \in Musicians, AckReady(m) PROVE TypeOK' /\ Ranges'
  BY <1>17 DEF AckReady, FirstIndex, Up
<1>18. ASSUME NEW m \in Musicians, AckSigpipe(m) PROVE TypeOK' /\ Ranges'
  BY <1>18, TypesDeath DEF AckSigpipe
<1>19. ASSUME NEW m \in Musicians, RecvToPlay(m) PROVE TypeOK' /\ Ranges'
  <2>1. Head(toPlayer[m]) \in Part /\ Tail(toPlayer[m]) \in Seq(Part)
    BY <1>19 DEF RecvToPlay
  <2>2. /\ Cardinality(waiting) \in 1..N
        /\ Cardinality(waiting \ {m}) = Cardinality(waiting) - 1
    BY <1>19, WaitingCount DEF RecvToPlay
  <2>3. TypeOK'
    <3>1. pm_count' \in 0..N /\ waiting' \subseteq Musicians
      BY <1>19, <2>2 DEF RecvToPlay
    <3>2. note_list' \in [Musicians -> Part]
      BY <1>19, <2>1 DEF RecvToPlay
    <3>3. toPlayer' \in [Musicians -> Seq(Part)]
      BY <1>19, <2>1 DEF RecvToPlay
    <3> QED
      BY <1>19, <3>1, <3>2, <3>3 DEF RecvToPlay, Gathered
  <2>4. Ranges'
    BY <1>19, <2>2 DEF RecvToPlay, Up, genetic_process
  <2> QED
    BY <2>3, <2>4
<1>20. ASSUME NEW m \in Musicians, PlayerEoi(m) PROVE TypeOK' /\ Ranges'
  <2>1. CASE Dies(Player, "exited") /\ UNCHANGED <<ppc, waiting, pm_count, leaked>>
    BY <1>20, <2>1, TypesDeath DEF PlayerEoi
  <2>2. CASE leaked' = leaked + 1 /\ leaked' < FdLimit /\ StartGather /\ UNCHANGED status
    BY <1>20, <2>2, AllWaiting DEF PlayerEoi, StartGather, Up
  <2>3. CASE /\ leaked' = leaked + 1 /\ leaked' = FdLimit /\ Dies(Player, "aborted")
             /\ UNCHANGED <<ppc, waiting, pm_count>>
    BY <1>20, <2>3, Dying DEF PlayerEoi, Up
  <2> QED
    BY <1>20, <2>1, <2>2, <2>3 DEF PlayerEoi, LeaveOrRetry
<1>21. CASE GatherInterrupted
  BY <1>21 DEF GatherInterrupted, Up
<1>22. CASE PlayMeasure
  BY <1>22, AllWaiting DEF PlayMeasure, StartGather, Up
<1>23. ASSUME NEW p \in Procs, Fail(p) PROVE TypeOK' /\ Ranges'
  BY <1>23, TypesDeath DEF Fail
<1>24. CASE UNCHANGED vars
  BY <1>24 DEF vars, Up
<1> QED
  BY <1>1, <1>2, <1>3, <1>4, <1>5, <1>6, <1>7, <1>8, <1>9, <1>10, <1>11, <1>12, <1>13,
     <1>14, <1>15, <1>16, <1>17, <1>18, <1>19, <1>20, <1>21, <1>22, <1>23, <1>24
     DEF Next, DirectorStep, MusicianStep, PlayerStep, Ended

(* Every variable of the three programs keeps its type whatever fails: no    *)
(* counter leaves its range, no slot past note_list is written.             *)
THEOREM TypeCorrect == Spec => []TypeOK
<1>1. Init => TypeOK /\ Ranges
  BY TypesInit
<1>2. TypeOK /\ Ranges /\ [Next]_vars => (TypeOK /\ Ranges)'
  BY TypesNext
<1> QED
  BY <1>1, <1>2, PTL DEF Spec

-----------------------------------------------------------------------------
(* Director and musicians.                                                  *)

(* Steps of the player, and deaths.                                         *)
LEMMA ConductedQuiet ==
  ASSUME TypeOK, Conducted,
         UNCHANGED <<directorVars, musicianVars, toMus, acks>>,
         \A p \in Procs : status'[p] = "up" => status[p] = "up"
  PROVE  Conducted'
<1> USE DEF directorVars, musicianVars
<1> USE ProcFacts
<1>1. /\ Up(Director)' => Up(Director)
      /\ Mourning => Mourning'
  BY DEF Mourning, Up, Down
<1>2. \A m \in Musicians : Owes(m)' <=> Owes(m)
  BY DEF Owes, Dests
<1>3. Tokens'
  BY <1>1, <1>2 DEF Conducted, Tokens, Busy
<1>4. NotYetPlaying'
  BY DEF Conducted, NotYetPlaying
<1>5. Learning'
  BY <1>1 DEF Conducted, Learning, Rehearsing
<1>6. Evolving'
  BY <1>1, <1>2 DEF Conducted, Evolving
<1>7. Stored'
  BY <1>1 DEF Conducted, Stored
<1>8. InConcert'
  BY DEF Conducted, InConcert
<1> QED
  BY <1>3, <1>4, <1>5, <1>6, <1>7, <1>8 DEF Conducted

(* The director goes on to the next measure, or ends the rehearsal.         *)
LEMMA ConductedDecide ==
  ASSUME TypeOK, Ranges, Conducted, DecideMeasure
  PROVE  Conducted'
<1> USE ProcFacts
<1> USE DEF DecideMeasure, Conducted, processVars, channels, musicianVars, playerVars
<1>1. phase # "evolution" /\ dpc = "decide" /\ dpc' = "send" /\ pending' = Dests'
  BY DEF Ranges, Dests
<1>2. \A m \in Musicians : ~Owes(m) /\ ~Owes(m)'
  BY <1>1 DEF Owes
<1>3. Tokens'
  BY <1>1, <1>2 DEF Tokens, Busy, Up, Mourning
<1>4. NotYetPlaying'
  BY DEF NotYetPlaying
<1>5. Learning'
  BY <1>1 DEF Learning, Rehearsing, Up
<1>6. Evolving' /\ Stored'
  BY <1>1 DEF Evolving, Stored
<1>7. InConcert'
  BY <1>1 DEF InConcert
<1> QED
  BY <1>3, <1>4, <1>5, <1>6, <1>7

(* The end of the rehearsal, in order or because a musician is gone.        *)
LEMMA ConductedEndRehearsal ==
  ASSUME TypeOK, Ranges, Conducted, phase = "rehearsal", EndRehearsal, Up(Director),
         UNCHANGED <<status, channels, musicianVars>>,
         \/ dpc = "decide" /\ round = Measures
         \/ \E m \in Genetics : dpc = "sync" /\ Down(m) /\ acks[m] = 0
  PROVE  Conducted'
<1> USE ProcFacts
<1> USE DEF EndRehearsal, Conducted, channels, musicianVars
<1>1. Mourning' \/ (dpc = "decide" /\ round = Measures)
  <2>1. ASSUME NEW g \in Genetics, Down(g), acks[g] = 0
        PROVE  Mourning'
    <3>1. Down(g)' /\ acks'[g] = 0
      BY <2>1 DEF Down
    <3>2. phase' = "evolution" /\ dpc' # "sync"
      OBVIOUS
    <3> QED
      BY <3>1, <3>2 DEF Mourning
  <2> QED
    BY <2>1
<1>2. \A m \in Musicians : ~Owes(m)'
  BY DEF Owes, Dests
<1>3. Tokens'
  <2>1. CASE dpc = "decide"
    BY <2>1, <1>2 DEF Tokens, Busy, Up, Mourning, Owes
  <2> QED
    BY <1>1, <2>1 DEF Tokens
<1>4. NotYetPlaying'
  BY DEF NotYetPlaying
<1>5. Learning'
  BY DEF Learning, Rehearsing, Up
<1>6. Evolving'
  BY <1>2 DEF Evolving
<1>7. Stored'
  BY <1>1 DEF Stored
<1>8. InConcert'
  BY DEF InConcert
<1> QED
  BY <1>3, <1>4, <1>5, <1>6, <1>7, <1>8

LEMMA ConductedBroadcast ==
  ASSUME TypeOK, Ranges, Conducted, NEW m \in Musicians, BroadcastMeasure(m)
  PROVE  Conducted'
<1> USE ProcFacts
<1> USE DEF BroadcastMeasure, Conducted, processVars, musicianVars, playerVars
<1>1. /\ \A k \in Musicians : Owes(k)' <=> Owes(k) \/ k = m
      /\ ~Owes(m)
  BY DEF Owes, Ranges, Dests
<1>2. Mourning' <=> Mourning
  BY DEF Mourning, Down, Dests
<1>3. /\ toMus'[m] = Append(toMus[m], NextMeasure)
      /\ Len(toMus'[m]) = Len(toMus[m]) + 1
      /\ \A k \in 1..Len(toMus[m]) : toMus'[m][k] = toMus[m][k]
      /\ toMus'[m][Len(toMus[m]) + 1] = NextMeasure
      /\ \A k \in Musicians : k # m => toMus'[k] = toMus[k]
      /\ Len(toMus[m]) \in Nat
  <2>1. NextMeasure \in Measure
    BY DEF NextMeasure, Measure, TypeOK
  <2> QED
    BY <2>1 DEF TypeOK
<1>4. (m \in Genetics /\ Rehearsing(m)) \/ phase = "concert"
  BY DEF Learning, Ranges, Dests, TypeOK
<1>5. Tokens'
  <2> SUFFICES ASSUME ~Mourning, NEW k \in Musicians
               PROVE  (Len(toMus[k]) + Busy(k) + acks[k] = IF Owes(k) THEN 1 ELSE 0)'
    BY <1>2 DEF Tokens
  <2>1. Len(toMus[k]) + Busy(k) + acks[k] = IF Owes(k) THEN 1 ELSE 0
    BY DEF Tokens
  <2>2. Busy(k)' = Busy(k) /\ acks'[k] = acks[k] /\ Busy(k) \in Nat /\ acks[k] \in Nat
    BY DEF Busy, TypeOK
  <2>3. CASE k = m
    BY <2>1, <2>2, <2>3, <1>1, <1>3
  <2>4. CASE k # m
    BY <2>1, <2>2, <2>4, <1>1, <1>3
  <2> QED
    BY <2>3, <2>4
<1>6. NotYetPlaying'
  BY <1>3, <1>4 DEF NotYetPlaying, Rehearsing
<1>7. Learning'
  <2>1. ASSUME NEW k \in Musicians, stage[k] = "learn"
        PROVE  (/\ k \in Genetics
                /\ \A j \in 1..Len(toMus[k]) :
                     toMus[k][j].bpm = MEASURE_BPM_EOI => j = Len(toMus[k])
                /\ mpc[k] \in {"evolve", "ready"} => toMus[k] = <<>>)'
    <3>1. CASE k # m
      BY <1>3, <2>1, <3>1 DEF Learning
    <3>2. CASE k = m
      <4>1. Rehearsing(m)
        BY <1>4, <2>1, <3>2 DEF InConcert
      <4> QED
        BY <1>3, <2>1, <3>2, <4>1 DEF Learning, Rehearsing
    <3> QED
      BY <3>1, <3>2
  <2>2. ASSUME NEW k \in Genetics, phase = "rehearsal" PROVE Rehearsing(k)'
    <3>1. Rehearsing(k)
      BY <2>2 DEF Learning
    <3>2. NextMeasure.bpm # MEASURE_BPM_EOI
      BY <2>2 DEF NextMeasure, PlainBpm, MEASURE_BPM_EOI
    <3> QED
      BY <3>1, <3>2, <1>3 DEF Rehearsing
  <2>3. ASSUME NEW k \in Genetics, phase = "evolution", dpc' = "send", k \in pending'
        PROVE  Rehearsing(k)'
    <3>1. Rehearsing(k) /\ k # m
      BY <2>3 DEF Learning
    <3> QED
      BY <3>1, <1>3 DEF Rehearsing
  <2> QED
    BY <2>1, <2>2, <2>3 DEF Learning
<1>8. Evolving'
  <2> SUFFICES ASSUME Up(Director), phase = "evolution", ~Mourning, NEW k \in Genetics
               PROVE  (/\ Owes(k) =>
                            /\ \A j \in 1..Len(toMus[k]) : toMus[k][j].bpm = MEASURE_BPM_EOI
                            /\ mpc[k] \in {"recv", "evolve", "ready"}
                            /\ acks[k] > 0 => stage[k] = "play"
                       /\ dpc = "sync" /\ k \notin pending => stage[k] = "play")'
    BY <1>2 DEF Evolving
  <2>1. (dpc = "sync" => k \in pending)'
    BY DEF Dests
  <2>2. CASE k # m
    BY <1>1, <1>3, <2>1, <2>2 DEF Evolving
  <2>3. CASE k = m
    <3>1. Len(toMus[m]) + Busy(m) + acks[m] = 0
      BY <1>1 DEF Tokens
    <3>2. Len(toMus[m]) = 0 /\ mpc[m] = "recv" /\ acks[m] = 0
      BY <3>1, <1>3 DEF Busy, TypeOK
    <3>3. NextMeasure.bpm = MEASURE_BPM_EOI
      BY DEF NextMeasure
    <3> QED
      BY <1>3, <2>1, <2>3, <3>2, <3>3
  <2> QED
    BY <2>2, <2>3
<1>9. Stored'
  BY <1>2 DEF Stored
<1>10. InConcert'
  <2> SUFFICES ASSUME phase = "concert" PROVE InConcert'
    BY DEF InConcert
  <2>1. NextMeasure.n = round /\ Dests = Musicians
    BY DEF NextMeasure, Dests
  <2> QED
    BY <1>3, <2>1 DEF InConcert
<1> QED
  BY <1>5, <1>6, <1>7, <1>8, <1>9, <1>10

(* An acknowledgement that is not the last one of the round.                *)
LEMMA ConductedSyncAck ==
  ASSUME TypeOK, Ranges, Conducted, NEW m \in Musicians, SyncAck(m), pending' # {}
  PROVE  Conducted'
<1> USE ProcFacts
<1> USE DEF SyncAck, AllHeard, Conducted, processVars, musicianVars, playerVars
<1>1. /\ \A k \in Musicians : Owes(k)' <=> Owes(k) /\ k # m
      /\ Owes(m) /\ dpc = "sync" /\ m \in Dests
  BY DEF Owes, Dests, Ranges
<1>2. acks'[m] = acks[m] - 1 /\ \A k \in Musicians : k # m => acks'[k] = acks[k]
  BY DEF TypeOK
<1>3. Mourning' <=> Mourning
  <2>1. ASSUME NEW g \in Genetics
        PROVE  (acks[g] = 0 /\ (dpc = "sync" => g \in pending))'
                 <=> acks[g] = 0 /\ (dpc = "sync" => g \in pending)
    BY <1>2
  <2> QED
    BY <2>1 DEF Mourning, Down
<1>4. Tokens'
  <2> SUFFICES ASSUME ~Mourning, NEW k \in Musicians
               PROVE  (Len(toMus[k]) + Busy(k) + acks[k] = IF Owes(k) THEN 1 ELSE 0)'
    BY <1>3 DEF Tokens
  <2>1. Len(toMus[k]) + Busy(k) + acks[k] = IF Owes(k) THEN 1 ELSE 0
    BY DEF Tokens
  <2>2. Busy(k)' = Busy(k) /\ Busy(k) \in Nat /\ acks[k] \in Nat /\ Len(toMus[k]) \in Nat
    BY DEF Busy, TypeOK
  <2> QED
    BY <2>1, <2>2, <1>1, <1>2
<1>5. NotYetPlaying' /\ Learning' /\ Stored'
  BY <1>3 DEF NotYetPlaying, Learning, Rehearsing, Up, Stored
<1>6. Evolving'
  <2> SUFFICES ASSUME Up(Director), phase = "evolution", ~Mourning, NEW k \in Genetics
               PROVE  (/\ Owes(k) =>
                            /\ \A j \in 1..Len(toMus[k]) : toMus[k][j].bpm = MEASURE_BPM_EOI
                            /\ mpc[k] \in {"recv", "evolve", "ready"}
                            /\ acks[k] > 0 => stage[k] = "play"
                       /\ dpc = "sync" /\ k \notin pending => stage[k] = "play")'
    BY <1>3 DEF Evolving, Up
  <2>1. CASE k # m
    BY <1>1, <1>2, <2>1 DEF Evolving
  <2>2. CASE k = m
    BY <1>1, <1>2, <2>2 DEF Evolving
  <2> QED
    BY <2>1, <2>2
<1>7. InConcert'
  <2> SUFFICES ASSUME phase = "concert", NEW k \in Musicians
               PROVE  (mi[k] = round + acks[k]
                                + (IF dpc = "sync" /\ k \notin pending THEN 1 ELSE 0))'
    BY DEF InConcert
  <2>1. mi[k] = round + acks[k] + (IF k \notin pending THEN 1 ELSE 0)
    BY <1>1 DEF InConcert
  <2> QED
    BY <2>1, <1>1, <1>2, SMTT(30) DEF TypeOK
<1> QED
  BY <1>4, <1>5, <1>6, <1>7

(* The last acknowledgement of a round: nothing of it is left anywhere.     *)
LEMMA ConductedLastAck ==
  ASSUME TypeOK, Ranges, Conducted, NEW m \in Musicians, SyncAck(m), pending' = {}
  PROVE  Conducted'
<1> USE ProcFacts
<1> USE DEF SyncAck, AllHeard, Conducted, processVars, musicianVars, playerVars
<1>1. /\ Up(Director) /\ dpc = "sync" /\ pending = {m} /\ m \in Dests
      /\ Up(Director)' /\ dpc' = "decide" /\ toMus' = toMus
      /\ phase' = IF phase = "evolution" THEN "concert" ELSE phase
      /\ round' = IF phase = "evolution" THEN 0 ELSE round + 1
  BY DEF Ranges, RoundAfter, Up
<1>2. ~Mourning
  BY <1>1 DEF Mourning, TypeOK
<1>3. acks'[m] = acks[m] - 1 /\ \A k \in Musicians : k # m => acks'[k] = acks[k]
  BY DEF TypeOK
<1>4. \A k \in Musicians : toMus[k] = <<>> /\ mpc[k] = "recv" /\ acks'[k] = 0
  <2> TAKE k \in Musicians
  <2>1. Len(toMus[k]) + Busy(k) + acks[k] = IF Owes(k) THEN 1 ELSE 0
    BY <1>1, <1>2 DEF Tokens
  <2>2. Len(toMus[k]) \in Nat /\ acks[k] \in Nat /\ Busy(k) \in Nat
    BY DEF TypeOK, Busy
  <2>3. Owes(k) <=> k = m
    BY <1>1 DEF Owes
  <2>4. Len(toMus[k]) = 0 /\ Busy(k) = 0 /\ acks'[k] = 0
    BY <2>1, <2>2, <2>3, <1>3
  <2> QED
    BY <2>4 DEF Busy, TypeOK
<1>5. \A k \in Musicians : ~Owes(k)'
  BY <1>1 DEF Owes
<1>6. Tokens'
  <2> SUFFICES ASSUME NEW k \in Musicians
               PROVE  (Len(toMus[k]) + Busy(k) + acks[k] = IF Owes(k) THEN 1 ELSE 0)'
    BY DEF Tokens
  <2>1. Len(toMus'[k]) = 0 /\ Busy(k)' = 0 /\ acks'[k] = 0
    BY <1>1, <1>4 DEF Busy
  <2> QED
    BY <1>5, <2>1
<1>7. phase = "evolution" => \A k \in Musicians : stage[k] = "play" /\ mi[k] = 0
  <2> SUFFICES ASSUME phase = "evolution", NEW k \in Musicians
               PROVE  stage[k] = "play" /\ mi[k] = 0
    OBVIOUS
  <2>1. k \in Genetics => (Owes(k) => (acks[k] > 0 => stage[k] = "play"))
                        /\ (k \notin pending => stage[k] = "play")
    BY <1>1, <1>2 DEF Evolving
  <2>2. stage[k] = "play"
    BY <1>1, <2>1 DEF NotYetPlaying, Owes
  <2> QED
    BY <2>2 DEF NotYetPlaying
<1>8. NotYetPlaying'
  BY <1>1, <1>7 DEF NotYetPlaying
<1>9. Learning'
  BY <1>1 DEF Learning, Rehearsing, TypeOK
<1>10. Evolving'
  BY <1>1 DEF Evolving
<1>11. Stored'
  BY <1>1, <1>2 DEF Stored, TypeOK
<1>12. InConcert'
  <2> SUFFICES ASSUME phase' = "concert", NEW k \in Musicians
               PROVE  stage[k] = "play" /\ mi[k] = round'
    BY <1>1, <1>4 DEF InConcert, TypeOK
  <2>1. CASE phase = "evolution"
    BY <1>1, <1>7, <2>1
  <2>2. CASE phase = "concert"
    <3>1. /\ stage[k] = "play"
          /\ mi[k] = round + acks[k] + (IF k \notin pending THEN 1 ELSE 0)
      BY <1>1, <2>2 DEF InConcert
    <3>2. acks[k] = IF k = m THEN 1 ELSE 0
      BY <1>3, <1>4 DEF TypeOK
    <3> QED
      BY <1>1, <2>2, <3>1, <3>2 DEF TypeOK
  <2> QED
    BY <1>1, <2>1, <2>2
<1> QED
  BY <1>6, <1>8, <1>9, <1>10, <1>11, <1>12

(* A musician moves its token from the connection to itself, from one task  *)
(* to the next, or back on the connection.                                  *)
LEMMA ConductedRecv ==
  ASSUME TypeOK, Ranges, Conducted, NEW m \in Musicians, RecvMeasure(m)
  PROVE  Conducted'
<1> USE ProcFacts
<1> USE DEF RecvMeasure, Conducted, processVars, directorVars, playerVars
<1>1. /\ toMus'[m] = Tail(toMus[m]) /\ Len(toMus'[m]) = Len(toMus[m]) - 1
      /\ Len(toMus[m]) \in Nat /\ Len(toMus[m]) >= 1
      /\ \A j \in 1..Len(toMus'[m]) : toMus'[m][j] = toMus[m][j + 1]
      /\ Head(toMus[m]) = toMus[m][1]
      /\ nm'[m] = Head(toMus[m]) /\ mpc[m] = "recv"
      /\ mpc'[m] = IF stage[m] = "learn" /\ Head(toMus[m]).bpm = MEASURE_BPM_EOI
                   THEN "evolve" ELSE "compose"
  BY DEF TypeOK
<1>2. \A k \in Musicians : k # m => toMus'[k] = toMus[k] /\ mpc'[k] = mpc[k] /\ nm'[k] = nm[k]
  BY DEF TypeOK
<1>3. (\A k \in Musicians : Owes(k)' <=> Owes(k)) /\ (Mourning' <=> Mourning)
  BY DEF Owes, Mourning, Dests, Down
<1>4. Tokens'
  <2> SUFFICES ASSUME (Up(Director) \/ phase = "concert"), ~Mourning, NEW k \in Musicians
               PROVE  (Len(toMus[k]) + Busy(k) + acks[k] = IF Owes(k) THEN 1 ELSE 0)'
    BY <1>3 DEF Tokens, Up
  <2>1. Len(toMus[k]) + Busy(k) + acks[k] = IF Owes(k) THEN 1 ELSE 0
    BY DEF Tokens
  <2>2. acks[k] \in Nat
    BY DEF TypeOK
  <2>3. CASE k = m
    <3>1. Busy(m) = 0 /\ Busy(m)' = 1
      BY <1>1 DEF Busy
    <3> QED
      BY <1>1, <1>3, <2>1, <2>2, <2>3, <3>1
  <2>4. CASE k # m
    BY <1>2, <1>3, <2>1, <2>4 DEF Busy
  <2> QED
    BY <2>3, <2>4
<1>5. phase # "concert" => stage[m] = "learn"
  BY <1>1 DEF NotYetPlaying, TypeOK
<1>6. NotYetPlaying'
  BY <1>2, <1>5 DEF NotYetPlaying
<1>7. Learning'
  <2>1. ASSUME NEW k \in Musicians, stage[k] = "learn"
        PROVE  (/\ k \in Genetics
                /\ \A j \in 1..Len(toMus[k]) :
                     toMus[k][j].bpm = MEASURE_BPM_EOI => j = Len(toMus[k])
                /\ mpc[k] \in {"evolve", "ready"} => toMus[k] = <<>>)'
    <3>1. CASE k # m
      BY <1>2, <2>1, <3>1 DEF Learning
    <3>2. CASE k = m
      <4>1. \A j \in 1..Len(toMus[m]) :
              toMus[m][j].bpm = MEASURE_BPM_EOI => j = Len(toMus[m])
        BY <2>1, <3>2 DEF Learning
      <4>2. \A j \in 1..Len(toMus'[m]) :
              toMus'[m][j].bpm = MEASURE_BPM_EOI => j = Len(toMus'[m])
        BY <1>1, <4>1
      <4>3. mpc'[m] \in {"evolve", "ready"} => Len(toMus'[m]) = 0
        <5> HIDE DEF RecvMeasure
        <5>1. 1 \in 1..Len(toMus[m])
          BY <1>1
        <5>2. mpc'[m] \in {"evolve", "ready"} => toMus[m][1].bpm = MEASURE_BPM_EOI
          BY <1>1
        <5>3. toMus[m][1].bpm = MEASURE_BPM_EOI => Len(toMus[m]) = 1
          BY <4>1, <5>1
        <5>4. Len(toMus'[m]) = Len(toMus[m]) - 1
          BY <1>1
        <5> QED
          BY <5>2, <5>3, <5>4
      <4>4. mpc'[m] \in {"evolve", "ready"} => toMus'[m] = <<>>
        <5> HIDE DEF RecvMeasure
        <5>1. toMus'[m] \in Seq(Measure)
          BY <1>1 DEF TypeOK
        <5> QED
          BY <4>3, <5>1
      <4>5. k \in Genetics
        BY <2>1 DEF Learning
      <4> QED
        BY <3>2, <4>2, <4>4, <4>5
    <3> QED
      BY <3>1, <3>2
  <2>2. ASSUME NEW k \in Genetics, Rehearsing(k) PROVE Rehearsing(k)'
    <3>1. CASE k # m
      BY <1>2, <2>2, <3>1 DEF Rehearsing
    <3>2. CASE k = m
      BY <1>1, <2>2, <3>2 DEF Rehearsing
    <3> QED
      BY <3>1, <3>2
  <2> QED
    BY <2>1, <2>2 DEF Learning, Up
<1>8. Evolving'
  <2> SUFFICES ASSUME Up(Director), phase = "evolution", ~Mourning, NEW k \in Genetics
               PROVE  (/\ Owes(k) =>
                            /\ \A j \in 1..Len(toMus[k]) : toMus[k][j].bpm = MEASURE_BPM_EOI
                            /\ mpc[k] \in {"recv", "evolve", "ready"}
                            /\ acks[k] > 0 => stage[k] = "play"
                       /\ dpc = "sync" /\ k \notin pending => stage[k] = "play")'
    BY <1>3 DEF Evolving, Up
  <2>1. CASE k # m
    BY <1>2, <1>3, <2>1 DEF Evolving
  <2>2. CASE k = m
    BY <1>1, <1>3, <1>5, <2>2 DEF Evolving
  <2> QED
    BY <2>1, <2>2
<1>9. Stored'
  BY <1>3 DEF Stored
<1>10. InConcert'
  <2> SUFFICES ASSUME phase = "concert", NEW k \in Musicians
               PROVE  (/\ stage[k] = "play"
                       /\ mpc[k] \in {"recv", "compose", "ack"}
                       /\ \A j \in 1..Len(toMus[k]) : toMus[k][j].n = round
                       /\ mpc[k] = "compose" => nm[k].n = round
                       /\ mi[k] = round + acks[k]
                                     + (IF dpc = "sync" /\ k \notin pending THEN 1 ELSE 0))'
    BY DEF InConcert
  <2>1. CASE k # m
    BY <1>2, <2>1 DEF InConcert
  <2>2. CASE k = m
    BY <1>1, <2>2 DEF InConcert
  <2> QED
    BY <2>1, <2>2
<1> QED
  BY <1>4, <1>6, <1>7, <1>8, <1>9, <1>10

LEMMA ConductedWork ==
  ASSUME TypeOK, Ranges, Conducted, NEW m \in Musicians, Up(m),
         UNCHANGED <<processVars, directorVars, toMus, acks, stage, mi, nm>>,
         \/ /\ mpc[m] = "recv" /\ mpc' = [mpc EXCEPT ![m] = "evolve"]
            /\ toMus[m] = <<>> /\ Down(Director) /\ stage[m] = "learn"
         \/ mpc[m] = "compose" /\ mpc' = [mpc EXCEPT ![m] = "ack"]
         \/ mpc[m] = "evolve" /\ mpc' = [mpc EXCEPT ![m] = "ready"]
  PROVE  Conducted'
<1> USE ProcFacts
<1> USE DEF Conducted, processVars, directorVars
<1>1. (\A k \in Musicians : Owes(k)' <=> Owes(k)) /\ (Mourning' <=> Mourning)
  BY DEF Owes, Mourning, Dests, Down
<1>2. \A k \in Musicians : k # m => mpc'[k] = mpc[k]
  BY DEF TypeOK
<1>3. phase # "concert" => stage[m] = "learn" \/ mpc[m] = "recv"
  BY DEF NotYetPlaying, TypeOK
<1>4. phase = "concert" => mpc[m] = "compose" /\ mpc'[m] = "ack"
  BY DEF InConcert, TypeOK
<1>5. (Up(Director) \/ phase = "concert") => \A k \in Musicians : Busy(k)' = Busy(k)
  BY <1>2, <1>4 DEF Busy, TypeOK, Up, Down
<1>6. Tokens'
  BY <1>1, <1>5 DEF Tokens, Up
<1>7. NotYetPlaying'
  BY <1>2, <1>3 DEF NotYetPlaying, TypeOK
<1>8. Learning'
  <2>1. ASSUME NEW k \in Genetics, Rehearsing(k), Up(Director) PROVE Rehearsing(k)'
    BY <2>1, <1>2 DEF Rehearsing, TypeOK, Up, Down
  <2>2. \A k \in Musicians : stage[k] = "learn" =>
          (mpc'[k] \in {"evolve", "ready"} => toMus[k] = <<>>)
    BY <1>2 DEF Learning, TypeOK
  <2> QED
    BY <2>1, <2>2 DEF Learning, Up
<1>9. Evolving'
  <2> SUFFICES ASSUME Up(Director), phase = "evolution", ~Mourning, NEW k \in Genetics
               PROVE  (/\ Owes(k) =>
                            /\ \A j \in 1..Len(toMus[k]) : toMus[k][j].bpm = MEASURE_BPM_EOI
                            /\ mpc[k] \in {"recv", "evolve", "ready"}
                            /\ acks[k] > 0 => stage[k] = "play"
                       /\ dpc = "sync" /\ k \notin pending => stage[k] = "play")'
    BY <1>1 DEF Evolving, Up
  <2>1. CASE k # m
    BY <1>1, <1>2, <2>1 DEF Evolving
  <2>2. CASE k = m
    BY <1>1, <2>2 DEF Evolving, TypeOK, Up, Down
  <2> QED
    BY <2>1, <2>2
<1>10. Stored'
  BY <1>1 DEF Stored
<1>11. InConcert'
  BY <1>2, <1>4 DEF InConcert
<1> QED
  BY <1>6, <1>7, <1>8, <1>9, <1>10, <1>11

(* The two acknowledgements: after a measure, and after genetic_loop.       *)
LEMMA ConductedAck ==
  ASSUME TypeOK, Ranges, Conducted, NEW m \in Musicians,
         SendSyncAck(m) \/ AckReady(m)
  PROVE  Conducted'
<1> USE ProcFacts
<1> USE DEF Conducted, processVars, directorVars, playerVars
<1>1. /\ Up(m) /\ acks' = [acks EXCEPT ![m] = @ + 1]
      /\ mpc' = [mpc EXCEPT ![m] = "recv"]
      /\ UNCHANGED <<processVars, directorVars, toMus, nm>>
  BY DEF SendSyncAck, AckReady
<1>2. /\ acks'[m] = acks[m] + 1 /\ mpc'[m] = "recv" /\ acks[m] \in Nat
      /\ \A k \in Musicians : k # m => acks'[k] = acks[k] /\ mpc'[k] = mpc[k]
                                       /\ stage'[k] = stage[k] /\ mi'[k] = mi[k]
  BY <1>1 DEF TypeOK, SendSyncAck, AckReady
<1>3. \/ mpc[m] = "ack" /\ mi'[m] = mi[m] + 1 /\ stage'[m] = stage[m]
      \/ mpc[m] = "ready" /\ mi'[m] = 0 /\ stage'[m] = "play"
  BY DEF TypeOK, SendSyncAck, AckReady, FirstIndex
<1>4. \A k \in Musicians : Owes(k)' <=> Owes(k)
  BY <1>1 DEF Owes, Dests
<1>5. Mourning' <=> Mourning
  <2>1. \A g \in Genetics : Down(g) => g # m
    BY <1>1 DEF Up, Down
  <2>2. \A g \in Genetics : Down(g)' <=> Down(g)
    BY <1>1 DEF Down
  <2>3. \A g \in Genetics : Down(g) => acks'[g] = acks[g]
    BY <1>2, <2>1
  <2> QED
    BY <1>1, <2>2, <2>3 DEF Mourning
<1>6. Tokens'
  <2> SUFFICES ASSUME (Up(Director) \/ phase = "concert"), ~Mourning, NEW k \in Musicians
               PROVE  (Len(toMus[k]) + Busy(k) + acks[k] = IF Owes(k) THEN 1 ELSE 0)'
    BY <1>1, <1>5 DEF Tokens, Up
  <2>1. Len(toMus[k]) + Busy(k) + acks[k] = IF Owes(k) THEN 1 ELSE 0
    BY DEF Tokens
  <2>2. Len(toMus[k]) \in Nat
    BY DEF TypeOK
  <2>3. CASE k = m
    <3>1. Busy(m) = 1 /\ Busy(m)' = 0
      BY <1>2, <1>3 DEF Busy
    <3> QED
      BY <1>1, <1>2, <1>4, <2>1, <2>2, <2>3, <3>1
  <2>4. CASE k # m
    <3>1. Busy(k)' = Busy(k)
      BY <1>2, <2>4 DEF Busy
    <3> QED
      BY <1>1, <1>2, <1>4, <2>1, <2>4, <3>1
  <2> QED
    BY <2>3, <2>4
<1>7. phase # "concert" => stage[m] = "learn"
  BY <1>3 DEF NotYetPlaying, TypeOK
<1>8. phase = "concert" => mpc[m] = "ack"
  BY <1>3 DEF InConcert
<1>9. mpc[m] = "ready" => toMus[m] = <<>>
  BY <1>7, <1>8 DEF Learning
<1>10. m \notin Genetics => phase = "concert"
  BY <1>7 DEF Learning
<1>11. NotYetPlaying'
  <2> SUFFICES ASSUME phase # "concert", NEW k \in Musicians
               PROVE  (/\ k \notin Genetics => stage[k] = "play"
                       /\ stage[k] = "play" =>
                            mi[k] = 0 /\ toMus[k] = <<>> /\ mpc[k] = "recv")'
    BY <1>1 DEF NotYetPlaying
  <2>1. CASE k # m
    BY <1>1, <1>2, <2>1 DEF NotYetPlaying
  <2>2. CASE k = m
    BY <1>1, <1>2, <1>3, <1>7, <1>9, <1>10, <2>2
  <2> QED
    BY <2>1, <2>2
<1>12. Learning'
  <2>1. ASSUME NEW k \in Musicians, stage'[k] = "learn"
        PROVE  (/\ k \in Genetics
                /\ \A j \in 1..Len(toMus[k]) :
                     toMus[k][j].bpm = MEASURE_BPM_EOI => j = Len(toMus[k])
                /\ mpc[k] \in {"evolve", "ready"} => toMus[k] = <<>>)'
    <3>1. stage[k] = "learn"
      BY <1>2, <1>3, <2>1
    <3>2. mpc'[k] \in {"evolve", "ready"} => mpc[k] \in {"evolve", "ready"}
      BY <1>2
    <3>3. toMus'[k] = toMus[k]
      BY <1>1
    <3> QED
      BY <3>1, <3>2, <3>3 DEF Learning
  <2>2. ASSUME NEW k \in Genetics, Rehearsing(k) PROVE Rehearsing(k)'
    <3>1. stage'[k] = "learn" /\ mpc'[k] \in {"recv", "compose", "ack"}
      BY <1>2, <1>3, <2>2 DEF Rehearsing
    <3>2. toMus' = toMus
      BY <1>1
    <3> QED
      BY <2>2, <3>1, <3>2 DEF Rehearsing
  <2> QED
    BY <1>1, <2>1, <2>2 DEF Learning, Up
<1>13. Evolving'
  <2> SUFFICES ASSUME Up(Director), phase = "evolution", ~Mourning, NEW k \in Genetics
               PROVE  (/\ Owes(k) =>
                            /\ \A j \in 1..Len(toMus[k]) : toMus[k][j].bpm = MEASURE_BPM_EOI
                            /\ mpc[k] \in {"recv", "evolve", "ready"}
                            /\ acks[k] > 0 => stage[k] = "play"
                       /\ dpc = "sync" /\ k \notin pending => stage[k] = "play")'
    BY <1>1, <1>5 DEF Evolving, Up
  <2>1. CASE k # m
    BY <1>1, <1>2, <1>4, <2>1 DEF Evolving
  <2>2. CASE k = m
    <3>1. Owes(m) => mpc[m] = "ready" /\ stage'[m] = "play"
      BY <1>3, <2>2 DEF Evolving
    <3> QED
      BY <1>1, <1>2, <1>3, <1>4, <2>2, <3>1 DEF Evolving
  <2> QED
    BY <2>1, <2>2
<1>14. Stored'
  BY <1>1, <1>5 DEF Stored
<1>15. InConcert'
  <2> SUFFICES ASSUME phase = "concert", NEW k \in Musicians
               PROVE  (/\ stage[k] = "play"
                       /\ mpc[k] \in {"recv", "compose", "ack"}
                       /\ \A j \in 1..Len(toMus[k]) : toMus[k][j].n = round
                       /\ mpc[k] = "compose" => nm[k].n = round
                       /\ mi[k] = round + acks[k]
                                     + (IF dpc = "sync" /\ k \notin pending THEN 1 ELSE 0))'
    BY <1>1 DEF InConcert
  <2>1. CASE k # m
    BY <1>1, <1>2, <2>1 DEF InConcert
  <2>2. CASE k = m
    <3>1. /\ stage[m] = "play" /\ toMus' = toMus
          /\ \A j \in 1..Len(toMus[m]) : toMus[m][j].n = round
          /\ mi[m] = round + acks[m] + (IF dpc = "sync" /\ m \notin pending THEN 1 ELSE 0)
      BY <1>1 DEF InConcert
    <3>2. mi'[m] = mi[m] + 1 /\ stage'[m] = "play" /\ mpc'[m] = "recv"
      BY <1>2, <1>3, <1>8, <3>1
    <3> QED
      BY <1>1, <1>2, <2>2, <3>1, <3>2 DEF TypeOK
  <2> QED
    BY <2>1, <2>2
<1> QED
  BY <1>6, <1>11, <1>12, <1>13, <1>14, <1>15

LEMMA ConductedNext ==
  ASSUME TypeOK, Ranges, Conducted, [Next]_vars
  PROVE  Conducted'
<1> USE ProcFacts
<1> USE DEF processVars, channels, directorVars, musicianVars, playerVars
<1>1. ASSUME NEW p \in Procs, NEW how \in {"exited", "aborted"}, Dies(p, how),
             UNCHANGED <<directorVars, musicianVars, toMus, acks>>
      PROVE  Conducted'
  <2>1. \A q \in Procs : status'[q] = "up" => status[q] = "up"
    BY <1>1, Dying DEF TypeOK
  <2> QED
    BY <1>1, <2>1, ConductedQuiet
<1>2. ASSUME UNCHANGED <<directorVars, musicianVars, toMus, acks, status>>
      PROVE  Conducted'
  BY <1>2, ConductedQuiet
<1>3. CASE DecideMeasure
  BY <1>3, ConductedDecide
<1>4. CASE EndOfPass
  <2>1. CASE phase = "rehearsal" /\ EndRehearsal /\ UNCHANGED status
    BY <1>4, <2>1, ConductedEndRehearsal DEF EndOfPass
  <2>2. CASE LeaveDirector
    BY <1>1, <1>4, <2>2 DEF EndOfPass, LeaveDirector
  <2> QED
    BY <1>4, <2>1, <2>2 DEF EndOfPass
<1>5. ASSUME NEW m \in Musicians, SyncEoi(m) PROVE Conducted'
  <2>1. CASE phase = "rehearsal" /\ EndRehearsal /\ UNCHANGED status
    <3>1. m \in Genetics
      BY <1>5, <2>1 DEF SyncEoi, Ranges, Dests
    <3> QED
      BY <1>5, <2>1, <3>1, ConductedEndRehearsal DEF SyncEoi
  <2>2. CASE EvolutionEoi
    BY <1>1, <1>5, <2>2 DEF SyncEoi, EvolutionEoi
  <2>3. CASE LeaveDirector
    BY <1>1, <1>5, <2>3 DEF SyncEoi, LeaveDirector
  <2> QED
    BY <1>5, <2>1, <2>2, <2>3 DEF SyncEoi
<1>6. ASSUME NEW m \in Musicians, RecvEoi(m) PROVE Conducted'
  <2>1. CASE Dies(m, "exited") /\ UNCHANGED mpc
    BY <1>1, <1>6, <2>1 DEF RecvEoi
  <2>2. CASE stage[m] = "learn" /\ mpc' = [mpc EXCEPT ![m] = "evolve"] /\ UNCHANGED status
    BY <1>6, <2>2, ConductedWork DEF RecvEoi
  <2> QED
    BY <1>6, <2>1, <2>2 DEF RecvEoi
<1>7. ASSUME NEW m \in Musicians,
             SendToPlay(m) \/ StoreGmeasure(m) \/ GeneticLoop(m)
      PROVE  Conducted'
  BY <1>7, ConductedWork DEF SendToPlay, StoreGmeasure, GeneticLoop
<1>8. ASSUME NEW m \in Musicians,
             \/ BroadcastSigpipe(m) \/ SyncReset(m) \/ RecvReset(m)
             \/ SendToPlayFails(m) \/ AckSigpipe(m)
      PROVE  Conducted'
  BY <1>1, <1>8 DEF BroadcastSigpipe, SyncReset, RecvReset, SendToPlayFails, AckSigpipe
<1>9. CASE SyncInterrupted
  BY <1>1, <1>9 DEF SyncInterrupted
<1>10. ASSUME NEW p \in Procs, Fail(p) PROVE Conducted'
  BY <1>1, <1>10 DEF Fail
<1>11. ASSUME NEW m \in Musicians, PlayerEoi(m) PROVE Conducted'
  <2>1. CASE Dies(Player, "exited") \/ Dies(Player, "aborted")
    BY <1>1, <1>11, <2>1 DEF PlayerEoi
  <2>2. CASE UNCHANGED status
    BY <1>2, <1>11, <2>2 DEF PlayerEoi
  <2> QED
    BY <1>11, <2>1, <2>2 DEF PlayerEoi, LeaveOrRetry
<1>12. ASSUME NEW m \in Musicians, RecvToPlay(m) PROVE Conducted'
  BY <1>2, <1>12 DEF RecvToPlay
<1>13. CASE GatherInterrupted \/ PlayMeasure
  BY <1>2, <1>13 DEF GatherInterrupted, PlayMeasure
<1>14. CASE UNCHANGED vars
  BY <1>2, <1>14 DEF vars
<1>15. CASE DirectorStep
  BY <1>3, <1>4, <1>5, <1>8, <1>15, ConductedBroadcast, ConductedSyncAck, ConductedLastAck
     DEF DirectorStep
<1>16. ASSUME NEW m \in Musicians, MusicianStep(m) PROVE Conducted'
  BY <1>6, <1>7, <1>8, <1>16, ConductedRecv, ConductedAck DEF MusicianStep
<1> QED
  BY <1>9, <1>10, <1>11, <1>12, <1>13, <1>14, <1>15, <1>16
     DEF Next, PlayerStep, Ended

-----------------------------------------------------------------------------
(* Musicians and player.                                                    *)

(* Steps that neither write to the player nor are taken by it.              *)
LEMMA GatheringQuiet ==
  ASSUME TypeOK, Gathering, UNCHANGED <<toPlayer, playerVars>>,
         Player \notin stopped' => Player \notin stopped,
         \A p \in Procs : status'[p] = "up" => status[p] = "up",
         \A m \in Musicians : Written(m)' = Written(m)
  PROVE  Gathering'
<1> USE ProcFacts
<1> USE DEF playerVars
<1>1. Dropped => Dropped'
  BY DEF Dropped, Closed, Down, TypeOK
<1>2. \A m \in Musicians : Taken(m)' = Taken(m)
  BY DEF Taken
<1>3. Queues'
  BY <1>1, <1>2 DEF Gathering, Queues
<1>4. Slots'
  BY <1>1 DEF Gathering, Slots
<1> QED
  BY <1>3, <1>4 DEF Gathering

(* What a musician has written changes with send_to_play only.              *)
LEMMA WrittenKept ==
  ASSUME TypeOK, Conducted, NEW m \in Musicians,
         \/ RecvMeasure(m) \/ RecvEoi(m) \/ StoreGmeasure(m)
         \/ SendSyncAck(m) \/ GeneticLoop(m) \/ AckReady(m)
  PROVE  \A k \in Musicians : Written(k)' = Written(k)
<1>1. ASSUME NEW k \in Musicians, k # m PROVE Written(k)' = Written(k)
  BY <1>1 DEF TypeOK, Written, RecvMeasure, RecvEoi, StoreGmeasure, SendSyncAck,
              GeneticLoop, AckReady
<1>2. Written(m)' = Written(m)
  <2>1. CASE RecvMeasure(m) \/ RecvEoi(m)
    BY <2>1 DEF TypeOK, Written, RecvMeasure, RecvEoi
  <2>2. CASE StoreGmeasure(m) \/ GeneticLoop(m)
    BY <2>2 DEF TypeOK, Written, StoreGmeasure, GeneticLoop
  <2>3. CASE SendSyncAck(m)
    BY <2>3 DEF TypeOK, Written, SendSyncAck
  <2>4. CASE AckReady(m)
    <3>1. stage[m] # "play"
      BY <2>4 DEF AckReady, Conducted, NotYetPlaying, InConcert
    <3> QED
      BY <2>4, <3>1 DEF TypeOK, Written, AckReady, FirstIndex
  <2> QED
    BY <2>1, <2>2, <2>3, <2>4
<1> QED
  BY <1>1, <1>2

(* A part goes to the player under the number of the bar it was written for *)
LEMMA PartNumber ==
  ASSUME TypeOK, Conducted, NEW m \in Musicians, mpc[m] = "compose", stage[m] = "play"
  PROVE  phase = "concert" /\ mi[m] = round /\ nm[m].n = round
<1> USE ProcFacts
<1>1. phase = "concert"
  BY DEF Conducted, NotYetPlaying
<1>2. Len(toMus[m]) + 1 + acks[m] = IF Owes(m) THEN 1 ELSE 0
  BY <1>1 DEF Conducted, Tokens, Mourning, Busy
<1>3. Owes(m) /\ acks[m] = 0
  BY <1>2 DEF TypeOK
<1>4. mi[m] = round + acks[m] + (IF dpc = "sync" /\ m \notin pending THEN 1 ELSE 0)
  BY <1>1 DEF Conducted, InConcert
<1>5. nm[m].n = round
  BY <1>1 DEF Conducted, InConcert
<1> QED
  BY <1>1, <1>3, <1>4, <1>5 DEF Owes, TypeOK

LEMMA GatheringSend ==
  ASSUME TypeOK, Conducted, Gathering, NEW m \in Musicians, SendToPlay(m)
  PROVE  Gathering'
<1> USE ProcFacts
<1> USE DEF SendToPlay, processVars, directorVars, playerVars
<1> DEFINE part == [from |-> m, id |-> mi[m], n |-> nm[m].n]
<1>1. /\ Len(toPlayer'[m]) = Len(toPlayer[m]) + 1 /\ Len(toPlayer[m]) \in Nat
      /\ \A j \in 1..Len(toPlayer[m]) : toPlayer'[m][j] = toPlayer[m][j]
      /\ toPlayer'[m][Len(toPlayer[m]) + 1] = part
      /\ \A k \in Musicians : k # m => toPlayer'[k] = toPlayer[k]
  <2>1. part \in Part
    BY DEF Part, Measure, TypeOK, Musicians
  <2> QED
    BY <2>1 DEF TypeOK
<1>2. Written(m)' = Written(m) + 1 /\ Written(m) = mi[m]
      /\ \A k \in Musicians : k # m => Written(k)' = Written(k)
  BY DEF Written, TypeOK
<1>3. Dropped => Dropped'
  <2>1. \A k \in Musicians : Closed(k) => k # m
    BY DEF Closed, Up, Down
  <2>2. \A k \in Musicians : Closed(k) => Closed(k)'
    BY <1>1, <2>1 DEF Closed, Down
  <2>3. waiting \subseteq Musicians
    BY DEF TypeOK
  <2> QED
    BY <2>2, <2>3 DEF Dropped
<1>4. \A k \in Musicians : Taken(k)' = Taken(k) /\ Taken(k) \in Nat
  BY DEF Taken, TypeOK
<1>5. part.from = m /\ part.id = mi[m] /\ part.n = mi[m]
  BY PartNumber
<1>6. Queues'
  <2> SUFFICES ASSUME Player \notin stopped, ~Dropped, NEW k \in Musicians
               PROVE  (/\ Taken(k) + Len(toPlayer[k]) = Written(k)
                       /\ \A j \in 1..Len(toPlayer[k]) :
                            toPlayer[k][j] = [from |-> k, id |-> Taken(k) + j - 1,
                                              n |-> Taken(k) + j - 1])'
    BY <1>3 DEF Queues
  <2>1. /\ Taken(k) + Len(toPlayer[k]) = Written(k)
        /\ \A j \in 1..Len(toPlayer[k]) :
             toPlayer[k][j] = [from |-> k, id |-> Taken(k) + j - 1, n |-> Taken(k) + j - 1]
    BY DEF Gathering, Queues
  <2>2. CASE k # m
    BY <1>1, <1>2, <1>4, <2>1, <2>2
  <2>3. CASE k = m
    <3>1. (Taken(k) + Len(toPlayer[k]) = Written(k))'
      BY <1>1, <1>2, <1>4, <2>1, <2>3
    <3>2. part = [from |-> m, id |-> Taken(m) + Len(toPlayer[m]),
                  n |-> Taken(m) + Len(toPlayer[m])]
      BY <1>2, <1>5, <2>1, <2>3
    <3>3. ASSUME NEW j \in 1..Len(toPlayer'[m])
          PROVE  toPlayer'[m][j] = [from |-> m, id |-> Taken(m)' + j - 1, n |-> Taken(m)' + j - 1]
      <4>1. CASE j \in 1..Len(toPlayer[m])
        BY <1>1, <1>4, <2>1, <2>3, <4>1
      <4>2. CASE j = Len(toPlayer[m]) + 1
        BY <1>1, <1>4, <3>2, <4>2
      <4> QED
        BY <1>1, <4>1, <4>2
    <3> QED
      BY <2>3, <3>1, <3>3
  <2> QED
    BY <2>2, <2>3
<1>7. Slots'
  BY <1>3 DEF Gathering, Slots
<1> QED
  BY <1>6, <1>7 DEF Gathering

LEMMA GatheringRecv ==
  ASSUME TypeOK, Ranges, Gathering, NEW m \in Musicians, RecvToPlay(m)
  PROVE  Gathering'
<1> USE ProcFacts
<1> USE DEF RecvToPlay, Gathered, processVars, directorVars, musicianVars
<1>1. /\ Len(toPlayer'[m]) = Len(toPlayer[m]) - 1 /\ Len(toPlayer[m]) \in Nat
      /\ Len(toPlayer[m]) >= 1 /\ Head(toPlayer[m]) = toPlayer[m][1]
      /\ \A j \in 1..Len(toPlayer'[m]) : toPlayer'[m][j] = toPlayer[m][j + 1]
      /\ \A k \in Musicians : k # m => toPlayer'[k] = toPlayer[k]
  BY DEF TypeOK
<1>2. Dropped => Dropped'
  <2> SUFFICES ASSUME server_mode, NEW k \in waiting, Closed(k)
               PROVE  Dropped'
    BY DEF Dropped
  <2>1. k # m /\ k \in Musicians
    BY DEF Closed, TypeOK
  <2>2. k \in waiting' /\ ppc' = "gather" /\ Closed(k)'
    BY <1>1, <2>1 DEF Closed, Down
  <2> QED
    BY <2>2 DEF Dropped
<1>3. /\ \A k \in Musicians : k # m => Taken(k)' = Taken(k)
      /\ Taken(m) = played /\ Taken(m)' = played + 1
      /\ \A k \in Musicians : Taken(k) \in Nat /\ Written(k)' = Written(k)
  BY DEF Taken, TypeOK, Written
<1>4. Queues'
  <2> SUFFICES ASSUME Player \notin stopped, ~Dropped, NEW k \in Musicians
               PROVE  (/\ Taken(k) + Len(toPlayer[k]) = Written(k)
                       /\ \A j \in 1..Len(toPlayer[k]) :
                            toPlayer[k][j] = [from |-> k, id |-> Taken(k) + j - 1,
                                              n |-> Taken(k) + j - 1])'
    BY <1>2 DEF Queues
  <2>1. /\ Taken(k) + Len(toPlayer[k]) = Written(k)
        /\ \A j \in 1..Len(toPlayer[k]) :
             toPlayer[k][j] = [from |-> k, id |-> Taken(k) + j - 1, n |-> Taken(k) + j - 1]
    BY DEF Gathering, Queues
  <2>2. CASE k # m
    BY <1>1, <1>3, <2>1, <2>2
  <2>3. CASE k = m
    <3>1. (Taken(k) + Len(toPlayer[k]) = Written(k))'
      BY <1>1, <1>3, <2>1, <2>3 DEF TypeOK
    <3>2. ASSUME NEW j \in 1..Len(toPlayer'[m])
          PROVE  toPlayer'[m][j] = [from |-> m, id |-> Taken(m)' + j - 1, n |-> Taken(m)' + j - 1]
      <4>1. j + 1 \in 1..Len(toPlayer[m]) /\ toPlayer'[m][j] = toPlayer[m][j + 1]
        BY <1>1
      <4>2. Taken(m) + (j + 1) - 1 = Taken(m)' + j - 1
        BY <1>3 DEF TypeOK
      <4> QED
        BY <2>1, <2>3, <4>1, <4>2
    <3> QED
      BY <2>3, <3>1, <3>2
  <2> QED
    BY <2>2, <2>3
<1>5. Slots'
  <2> SUFFICES ASSUME Player \notin stopped
               PROVE  (/\ ppc = "play" <=> waiting = {}
                       /\ ~Dropped =>
                            /\ \A k \in Musicians \ waiting :
                                 \E j \in 1..pm_count : note_list[j].from = k
                            /\ \A j \in 1..pm_count : note_list[j].id = played
                                                     /\ note_list[j].n = played)'
    BY DEF Slots
  <2>1. (ppc = "play" <=> waiting = {})'
    BY DEF TypeOK
  <2>2. ASSUME ~Dropped
        PROVE  (/\ \A k \in Musicians \ waiting :
                     \E j \in 1..pm_count : note_list[j].from = k
                /\ \A j \in 1..pm_count : note_list[j].id = played
                                         /\ note_list[j].n = played)'
    <3>1. /\ \A k \in Musicians \ waiting : \E j \in 1..pm_count : note_list[j].from = k
          /\ \A j \in 1..pm_count : note_list[j].id = played /\ note_list[j].n = played
      BY <2>2 DEF Gathering, Slots
    <3>2. pm_count \in Nat /\ pm_count + 1 \in 1..N
      <4>1. waiting \in SUBSET Musicians /\ m \in waiting
        BY DEF TypeOK
      <4>2. Cardinality(waiting) \in 1..N
        BY <4>1, WaitingCount
      <4> QED
        BY <4>2 DEF Ranges
    <3>3. /\ note_list'[pm_count + 1] = Head(toPlayer[m])
          /\ \A j \in 1..pm_count : note_list'[j] = note_list[j]
      BY <3>2 DEF TypeOK, Musicians
    <3>4. Head(toPlayer[m]) = [from |-> m, id |-> played, n |-> played]
      <4>1. 1 \in 1..Len(toPlayer[m])
        BY <1>1
      <4>2. toPlayer[m][1] = [from |-> m, id |-> Taken(m) + 1 - 1, n |-> Taken(m) + 1 - 1]
        BY <2>2, <4>1 DEF Gathering, Queues
      <4> QED
        BY <1>1, <1>3, <4>2 DEF TypeOK
    <3>5. ASSUME NEW k \in Musicians \ waiting'
          PROVE  \E j \in 1..(pm_count') : note_list'[j].from = k
      <4>1. CASE k = m
        BY <3>2, <3>3, <3>4, <4>1
      <4>2. CASE k # m
        <5>1. PICK j \in 1..pm_count : note_list[j].from = k
          BY <3>1, <3>5, <4>2
        <5> QED
          BY <3>2, <3>3, <5>1
      <4> QED
        BY <4>1, <4>2
    <3>6. ASSUME NEW j \in 1..(pm_count')
          PROVE  note_list'[j].id = played /\ note_list'[j].n = played
      <4>1. CASE j = pm_count + 1
        BY <3>3, <3>4, <4>1
      <4>2. CASE j \in 1..pm_count
        BY <3>1, <3>3, <4>2
      <4> QED
        BY <3>2, <4>1, <4>2
    <3> QED
      BY <3>5, <3>6
  <2> QED
    BY <1>2, <2>1, <2>2
<1> QED
  BY <1>4, <1>5 DEF Gathering

LEMMA GatheringRetry ==
  ASSUME TypeOK, Gathering, NEW m \in Musicians, PlayerEoi(m)
  PROVE  Gathering'
<1> USE ProcFacts
<1> USE DEF PlayerEoi, channels, directorVars, musicianVars, playerVars
<1>1. /\ \A q \in Procs : status'[q] = "up" => status[q] = "up"
      /\ Closed(m)'
  BY Dying DEF Closed, Down, LeaveOrRetry, TypeOK
<1>2. CASE ~server_mode
  <2>1. UNCHANGED <<toPlayer, playerVars>> /\ \A k \in Musicians : Written(k)' = Written(k)
    BY <1>2 DEF LeaveOrRetry, Written
  <2> QED
    BY <1>1, <2>1, GatheringQuiet
<1>3. CASE server_mode
  <2>1. ppc' = "gather" /\ m \in waiting'
    BY <1>3 DEF LeaveOrRetry, StartGather
  <2>2. Dropped'
    BY <1>1, <1>3, <2>1 DEF Dropped
  <2> QED
    BY <2>1, <2>2 DEF Gathering, Queues, Slots
<1> QED
  BY <1>2, <1>3

LEMMA GatheringPlay ==
  ASSUME TypeOK, Gathering, PlayMeasure
  PROVE  Gathering'
<1> USE ProcFacts
<1> USE DEF PlayMeasure, StartGather, processVars, channels, directorVars, musicianVars
<1> SUFFICES ASSUME Player \notin stopped PROVE Gathering'
  BY DEF Gathering, Queues, Slots
<1>1. waiting = {} /\ ~Dropped
  BY DEF Gathering, Slots, Dropped
<1>2. \A k \in Musicians : Taken(k)' = Taken(k) /\ Written(k)' = Written(k)
  BY <1>1 DEF Taken, Written, TypeOK
<1>3. Queues'
  BY <1>1, <1>2 DEF Gathering, Queues
<1>4. Slots'
  <2>1. 1 \in Musicians
    BY DEF Musicians
  <2>2. waiting' = Musicians /\ ppc' = "gather" /\ pm_count' = 0
    OBVIOUS
  <2> QED
    BY <2>1, <2>2 DEF Slots
<1> QED
  BY <1>3, <1>4 DEF Gathering

LEMMA GatheringNext ==
  ASSUME TypeOK, Ranges, Conducted, Gathering, [Next]_vars
  PROVE  Gathering'
<1> USE ProcFacts
<1> USE DEF processVars, channels, directorVars, musicianVars, playerVars
<1>1. ASSUME UNCHANGED <<musicianVars, toPlayer, playerVars>>,
             \/ UNCHANGED status
             \/ \E p \in Procs, how \in {"exited", "aborted"} : Dies(p, how),
             Player \notin stopped' => Player \notin stopped
      PROVE  Gathering'
  <2>1. \A q \in Procs : status'[q] = "up" => status[q] = "up"
    BY <1>1, Dying DEF TypeOK
  <2>2. \A k \in Musicians : Written(k)' = Written(k)
    BY <1>1 DEF Written
  <2> QED
    BY <1>1, <2>1, <2>2, GatheringQuiet
<1>2. CASE DirectorStep
  <2>1. UNCHANGED <<musicianVars, toPlayer, playerVars, stopped>>
    BY <1>2 DEF DirectorStep, DecideMeasure, EndOfPass, BroadcastMeasure,
                BroadcastSigpipe, SyncAck, SyncEoi, SyncReset
  <2>2. \/ UNCHANGED status
        \/ \E p \in Procs, how \in {"exited", "aborted"} : Dies(p, how)
    <3>1. CASE DecideMeasure \/ \E m \in Musicians : BroadcastMeasure(m) \/ SyncAck(m)
      BY <3>1 DEF DecideMeasure, BroadcastMeasure, SyncAck
    <3>2. CASE EndOfPass
      BY <3>2 DEF EndOfPass, LeaveDirector
    <3>3. CASE \E m \in Musicians : SyncEoi(m)
      BY <3>3 DEF SyncEoi, LeaveDirector, EvolutionEoi
    <3>4. CASE \E m \in Musicians : BroadcastSigpipe(m) \/ SyncReset(m)
      BY <3>4 DEF BroadcastSigpipe, SyncReset
    <3> QED
      BY <1>2, <3>1, <3>2, <3>3, <3>4 DEF DirectorStep
  <2> QED
    BY <1>1, <2>1, <2>2
<1>3. ASSUME NEW m \in Musicians, MusicianStep(m) PROVE Gathering'
  <2>1. CASE SendToPlay(m)
    BY <2>1, GatheringSend
  <2>2. CASE \/ RecvMeasure(m) \/ RecvEoi(m) \/ StoreGmeasure(m)
             \/ SendSyncAck(m) \/ GeneticLoop(m) \/ AckReady(m)
    <3>1. \A k \in Musicians : Written(k)' = Written(k)
      BY <2>2, WrittenKept
    <3>2. UNCHANGED <<toPlayer, playerVars, stopped>>
      BY <2>2 DEF RecvMeasure, RecvEoi, StoreGmeasure, SendSyncAck, GeneticLoop, AckReady
    <3>3. \A q \in Procs : status'[q] = "up" => status[q] = "up"
      BY <2>2, Dying DEF RecvMeasure, RecvEoi, StoreGmeasure, SendSyncAck, GeneticLoop,
                         AckReady, TypeOK
    <3> QED
      BY <3>1, <3>2, <3>3, GatheringQuiet
  <2>3. CASE RecvReset(m) \/ SendToPlayFails(m) \/ AckSigpipe(m)
    BY <1>1, <2>3 DEF RecvReset, SendToPlayFails, AckSigpipe
  <2> QED
    BY <1>3, <2>1, <2>2, <2>3 DEF MusicianStep
<1>4. CASE PlayerStep
  BY <1>4, GatheringRecv, GatheringRetry, GatheringPlay DEF PlayerStep
<1>5. CASE SyncInterrupted
  BY <1>1, <1>5 DEF SyncInterrupted
<1>6. CASE GatherInterrupted
  BY <1>6 DEF GatherInterrupted, Gathering, Queues, Slots
<1>7. ASSUME NEW p \in Procs, Fail(p) PROVE Gathering'
  BY <1>1, <1>7 DEF Fail
<1>8. CASE UNCHANGED vars
  BY <1>1, <1>8 DEF vars
<1> QED
  BY <1>2, <1>3, <1>4, <1>5, <1>6, <1>7, <1>8 DEF Next, Ended

(* The player has left: the musician it left for will not write again.      *)
LEMMA LeavingKept ==
  ASSUME TypeOK, Conducted, Leaving, [Next]_vars, ~ \E m \in Musicians : PlayerEoi(m)
  PROVE  Leaving'
<1> USE ProcFacts
<1> USE DEF processVars, channels, directorVars, musicianVars, playerVars
<1> SUFFICES ASSUME status'[Player] = "exited", Player \notin stopped'
             PROVE  \E m \in Musicians : (Down(m) /\ Written(m) = played)'
  BY DEF Leaving
<1>1. ASSUME UNCHANGED <<musicianVars, played>>,
             \/ UNCHANGED status
             \/ \E p \in Procs : Dies(p, "aborted")
             \/ \E p \in Procs \ {Player} : Dies(p, "exited"),
             Player \notin stopped
      PROVE  \E m \in Musicians : (Down(m) /\ Written(m) = played)'
  <2>1. /\ \A q \in Procs : status'[q] = "up" => status[q] = "up"
        /\ status[Player] = "exited"
    BY <1>1, Dying DEF TypeOK
  <2>2. PICK m \in Musicians : Down(m) /\ Written(m) = played
    BY <1>1, <2>1 DEF Leaving
  <2>3. Down(m)' /\ Written(m)' = Written(m)
    BY <1>1, <2>1, <2>2 DEF Down, Written
  <2> QED
    BY <1>1, <2>2, <2>3
<1>2. CASE DirectorStep
  <2>1. CASE DecideMeasure \/ \E m \in Musicians : BroadcastMeasure(m) \/ SyncAck(m)
    BY <1>1, <2>1 DEF DecideMeasure, BroadcastMeasure, SyncAck
  <2>2. CASE EndOfPass
    BY <1>1, <2>2 DEF EndOfPass, LeaveDirector
  <2>3. CASE \E m \in Musicians : SyncEoi(m)
    BY <1>1, <2>3 DEF SyncEoi, LeaveDirector, EvolutionEoi
  <2>4. CASE \E m \in Musicians : BroadcastSigpipe(m) \/ SyncReset(m)
    BY <1>1, <2>4 DEF BroadcastSigpipe, SyncReset
  <2> QED
    BY <1>2, <2>1, <2>2, <2>3, <2>4 DEF DirectorStep
<1>3. ASSUME NEW m \in Musicians, MusicianStep(m)
      PROVE  \E k \in Musicians : (Down(k) /\ Written(k) = played)'
  <2>1. CASE \/ RecvMeasure(m) \/ StoreGmeasure(m) \/ SendSyncAck(m)
             \/ GeneticLoop(m) \/ AckReady(m)
    <3>1. UNCHANGED <<processVars, playerVars>> /\ \A k \in Musicians : Written(k)' = Written(k)
      BY <2>1, WrittenKept DEF RecvMeasure, StoreGmeasure, SendSyncAck, GeneticLoop, AckReady
    <3> QED
      BY <3>1 DEF Leaving, Down
  <2>2. CASE RecvEoi(m)
    <3>1. CASE Dies(m, "exited") /\ UNCHANGED mpc
      BY <1>1, <2>2, <3>1 DEF RecvEoi
    <3>2. CASE UNCHANGED status /\ stage[m] = "learn"
      <4>1. UNCHANGED <<processVars, playerVars>>
            /\ \A k \in Musicians : Written(k)' = Written(k)
        BY <2>2, <3>2, WrittenKept DEF RecvEoi
      <4> QED
        BY <4>1 DEF Leaving, Down
    <3> QED
      BY <2>2, <3>1, <3>2 DEF RecvEoi
  <2>3. CASE SendToPlay(m)
    <3>1. \A k \in Musicians : Down(k) => Written(k)' = Written(k)
      BY <2>3 DEF SendToPlay, Written, Up, Down, TypeOK
    <3>2. UNCHANGED <<processVars, playerVars>>
      BY <2>3 DEF SendToPlay
    <3> QED
      BY <3>1, <3>2 DEF Leaving, Down
  <2>4. CASE RecvReset(m) \/ SendToPlayFails(m) \/ AckSigpipe(m)
    BY <1>1, <2>4 DEF RecvReset, SendToPlayFails, AckSigpipe
  <2> QED
    BY <1>3, <2>1, <2>2, <2>3, <2>4 DEF MusicianStep
<1>4. ASSUME NEW m \in Musicians, RecvToPlay(m)
      PROVE  \E k \in Musicians : (Down(k) /\ Written(k) = played)'
  BY <1>1, <1>4 DEF RecvToPlay
<1>5. ~PlayMeasure
  BY DEF PlayMeasure, Up
<1>6. ~GatherInterrupted
  BY DEF GatherInterrupted
<1>7. CASE SyncInterrupted
  BY <1>1, <1>7 DEF SyncInterrupted
<1>8. ASSUME NEW p \in Procs, Fail(p)
      PROVE  \E k \in Musicians : (Down(k) /\ Written(k) = played)'
  BY <1>1, <1>8 DEF Fail
<1>9. CASE UNCHANGED vars
  BY <1>1, <1>9 DEF vars
<1> QED
  BY <1>2, <1>3, <1>4, <1>5, <1>6, <1>7, <1>8, <1>9 DEF Next, PlayerStep, Ended

(* The player leaves.                                                       *)
LEMMA LeavingNow ==
  ASSUME TypeOK, Gathering, NEW m \in Musicians, PlayerEoi(m)
  PROVE  Leaving'
<1> USE ProcFacts
<1> USE DEF PlayerEoi, channels, directorVars, musicianVars, playerVars
<1> SUFFICES ASSUME status'[Player] = "exited", Player \notin stopped
             PROVE  (Down(m) /\ Written(m) = played)'
  BY DEF Leaving
<1>1. ~server_mode /\ Dies(Player, "exited")
  BY Dying DEF LeaveOrRetry, Up, TypeOK
<1>2. Down(m)'
  BY <1>1, Dying DEF Closed, Down, TypeOK
<1>3. Taken(m) + Len(toPlayer[m]) = Written(m)
  BY <1>1 DEF Gathering, Queues, Dropped
<1>4. toPlayer[m] = <<>> /\ Taken(m) = played
  BY DEF Closed, Taken, TypeOK
<1>5. Written(m) = played
  BY <1>3, <1>4 DEF TypeOK
<1> QED
  BY <1>2, <1>5 DEF Written

-----------------------------------------------------------------------------
(* The theorems.                                                            *)

LEMMA InvariantInit == Init => IInv
<1> SUFFICES ASSUME Init PROVE IInv
  OBVIOUS
<1> USE ProcFacts
<1>1. TypeOK /\ Ranges
  BY TypesInit
<1>2. Conducted
  <2> USE DEF Init
  <2>1. Tokens
    BY DEF Tokens, Owes, Busy
  <2>2. NotYetPlaying
    BY DEF NotYetPlaying, genetic_process
  <2>3. Learning
    BY DEF Learning, Rehearsing, genetic_process
  <2>4. Evolving /\ Stored
    BY DEF Evolving, Stored, genetic_process
  <2>5. InConcert
    BY DEF InConcert, genetic_process
  <2> QED
    BY <2>1, <2>2, <2>3, <2>4, <2>5 DEF Conducted
<1>3. Gathering
  <2>1. \A m \in Musicians : Taken(m) = 0 /\ Written(m) = 0
    BY DEF Init, Taken, Written
  <2>2. Queues
    BY <2>1 DEF Init, Queues
  <2>3. 1 \in Musicians
    BY DEF Musicians
  <2>4. Slots
    BY <2>3 DEF Init, Slots
  <2> QED
    BY <2>2, <2>4 DEF Gathering
<1>4. Leaving
  BY DEF Init, Leaving
<1> QED
  BY <1>1, <1>2, <1>3, <1>4 DEF IInv

LEMMA InvariantNext == IInv /\ [Next]_vars => IInv'
<1> SUFFICES ASSUME IInv, [Next]_vars PROVE IInv'
  OBVIOUS
<1>1. TypeOK /\ Ranges /\ Conducted /\ Gathering /\ Leaving
  BY DEF IInv
<1>2. TypeOK' /\ Ranges'
  BY <1>1, TypesNext
<1>3. Conducted'
  BY <1>1, ConductedNext
<1>4. Gathering'
  BY <1>1, GatheringNext
<1>5. Leaving'
  BY <1>1, LeavingKept, LeavingNow
<1> QED
  BY <1>2, <1>3, <1>4, <1>5 DEF IInv

(* The measures, parts and acknowledgements under way between the three     *)
(* programs always account for every counter they keep, whatever dies.      *)
THEOREM Invariance == Spec => []IInv
BY InvariantInit, InvariantNext, PTL DEF Spec

LEMMA BarrierInv == IInv => Barrier
<1> SUFFICES ASSUME IInv, Up(Director), dpc = "decide"
             PROVE  /\ \A m \in Dests : toMus[m] = <<>> /\ acks[m] = 0
                    /\ phase = "concert" => \A m \in Musicians : Written(m) = round
  BY DEF Barrier
<1> USE ProcFacts
<1>1. TypeOK /\ Ranges /\ Conducted
  BY DEF IInv
<1>2. ~Mourning /\ \A m \in Musicians : ~Owes(m)
  BY <1>1 DEF Mourning, Owes, Ranges
<1>3. ASSUME NEW m \in Musicians PROVE toMus[m] = <<>> /\ acks[m] = 0 /\ mpc[m] = "recv"
  <2>1. Len(toMus[m]) + Busy(m) + acks[m] = 0
    BY <1>1, <1>2 DEF Conducted, Tokens
  <2>2. Len(toMus[m]) = 0 /\ acks[m] = 0 /\ Busy(m) = 0
    BY <1>1, <2>1 DEF TypeOK, Busy
  <2> QED
    BY <1>1, <2>2 DEF TypeOK, Busy
<1>4. ASSUME phase = "concert", NEW m \in Musicians PROVE Written(m) = round
  <2>1. stage[m] = "play" /\ mi[m] = round + acks[m]
    BY <1>1, <1>4 DEF Conducted, InConcert, TypeOK
  <2> QED
    BY <1>1, <1>3, <2>1 DEF Written, TypeOK
<1>5. Dests \subseteq Musicians
  BY DEF Dests
<1> QED
  BY <1>3, <1>4, <1>5

(* When the director decides a measure nothing of an earlier one is left    *)
(* between it and the musicians it leads: sync_all is a barrier.            *)
THEOREM BarrierHolds == Spec => []Barrier
BY BarrierInv, Invariance, PTL

(* Every round the player starts holds one part of each musician, and all   *)
(* of them are of the bar that is due, unless the player was stopped and    *)
(* continued in recv_to_play.                                               *)
THEOREM RoundsHold == Spec => []RoundComplete
<1>1. IInv => RoundComplete
  <2> SUFFICES ASSUME IInv, ppc = "play", Player \notin stopped
               PROVE  /\ \A m \in Musicians : \E k \in Musicians : note_list[k].from = m
                      /\ \A k \in Musicians : note_list[k].id = played /\ note_list[k].n = played
    BY DEF RoundComplete
  <2>1. waiting = {} /\ ~Dropped
    BY DEF IInv, Gathering, Slots, Dropped
  <2>2. pm_count = N
    BY <2>1, FS_EmptySet, ProcFacts DEF IInv, Ranges
  <2> QED
    BY <2>1, <2>2 DEF IInv, Gathering, Slots, Musicians
<1> QED
  BY <1>1, Invariance, PTL

(* The concert of a genetic improvisation never starts on a stored_impro    *)
(* with holes, nor before every genetic musician has evolved its piece.     *)
THEOREM ConcertIsPrepared == Spec => []ConcertPrepared
<1>1. IInv => ConcertPrepared
  BY DEF IInv, Conducted, Stored, InConcert, ConcertPrepared
<1> QED
  BY <1>1, Invariance, PTL

(* A player that leaves of its own accord has played all that could be      *)
(* played.                                                                  *)
THEOREM NothingLost == Spec => []NoLostPart
<1>1. IInv => NoLostPart
  BY DEF IInv, Leaving, NoLostPart
<1> QED
  BY <1>1, Invariance, PTL
==============================================================================
