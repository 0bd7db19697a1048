---------------------------- MODULE Improvisation ----------------------------
(***************************************************************************)
(* The improvisation proper: one director, N musicians and one player,      *)
(* single-threaded processes joined by TCP connections, from the moment     *)
(* everybody is registered until everybody has stopped.                     *)
(*                                                                          *)
(* The director broadcasts a measure, each musician writes its part, sends  *)
(* it to the player and acknowledges to the director, who waits for every   *)
(* acknowledgement (sync_all).  The player gathers one part from each       *)
(* musician (recv_to_play), plays the round, and talks to nobody.           *)
(*                                                                          *)
(* With genetic musicians the piece is decided twice over: a rehearsal with *)
(* the genetic musicians only (they store what they compose), an            *)
(* end-of-improvisation measure that sends them to genetic_loop, and the    *)
(* concert, in which the stored measures are sent to all.                   *)
(***************************************************************************)
EXTENDS Integers, Sequences, FiniteSets

CONSTANTS
  N,            \* number of musicians
  Genetics,     \* the musicians started with -g
  Measures,     \* measures_count, the length asked of the director
  Buffer,       \* parts a non-blocking player socket can hold
  FdLimit,      \* epoll descriptors the kernel grants the player
  Faulty,       \* the processes that may die or fail at any moment
  Suspendable   \* the processes that may be stopped and continued, once each

Musicians == 1..N
Director  == 0
Player    == N + 1
Procs     == 0..N+1

(* Musicians are numbered by their place in the director's list once        *)
(* concat_list_inplace has put the genetic ones behind the others.          *)
ASSUME ImprovisationAssumption ==
  /\ N \in Nat \ {0}
  /\ Genetics \subseteq 1..N
  /\ \A g \in Genetics : \A m \in (1..N) \ Genetics : m < g
  /\ Measures \in Nat
  /\ Buffer \in Nat \ {0}
  /\ FdLimit \in Nat \ {0}
  /\ Faulty \subseteq 0..N+1
  /\ Suspendable \subseteq {0, N + 1}

VARIABLES
  status,       \* each process is up, has exited, or was aborted
  stopped,      \* the processes that have been stopped and continued
  dpc,          \* director: "decide", "send" (broadcast_measure), "sync" (sync_all)
  phase,        \* director: "rehearsal", "evolution" or "concert"
  round,        \* director: the loop counter i
  pending,      \* director: destinations not yet written to, or not yet acknowledged
  stored,       \* director: how many entries of stored_impro have been copied
  toMus,        \* toMus[m]: measures the director wrote and m has not read
  acks,         \* acks[m]: acknowledgement bytes m wrote and the director has not read
  toPlayer,     \* toPlayer[m]: parts m wrote and the player has not read
  mpc,          \* musician: what it does next
  stage,        \* musician: "learn" (first loop of a genetic one) or "play"
  mi,           \* musician: the loop counter i
  nm,           \* musician: the measure received last
  ppc,          \* player: "gather" (recv_to_play) or "play"
  waiting,      \* player: connections left in the epoll set
  pm_count,     \* player: slots of note_list written in this call
  note_list,    \* player: the parts of the round
  played,       \* player: how many times play_measure has run
  leaked,       \* player: epoll descriptors leaked by an exception
  server_mode   \* player: started with -g

directorVars == <<dpc, phase, round, pending, stored>>
musicianVars == <<mpc, stage, mi, nm>>
playerVars   == <<ppc, waiting, pm_count, note_list, played, leaked, server_mode>>
channels     == <<toMus, acks, toPlayer>>
processVars  == <<status, stopped>>
vars == <<status, stopped, dpc, phase, round, pending, stored, toMus, acks, toPlayer,
          mpc, stage, mi, nm, ppc, waiting, pm_count, note_list, played, leaked,
          server_mode>>

-----------------------------------------------------------------------------
MEASURE_BPM_EOI == 0
PlainBpm == 120

(* A measure: its tempo and which of the director's decisions it carries.   *)
Measure == [bpm : {MEASURE_BPM_EOI, PlainBpm}, n : Nat]

(* A part (play_measure_s): who wrote it, the musician's own counter, and   *)
(* the decision it was written for.  calloc leaves slots from nobody.       *)
Part  == [from : 0..N, id : Nat, n : Nat]
Blank == [from |-> 0, id |-> 0, n |-> 0]

Up(p)   == status[p] = "up"
Down(p) == status[p] # "up"

genetic_process == Genetics # {}

Dies(p, how) == status' = [status EXCEPT ![p] = how]

TypeOK ==
  /\ status \in [Procs -> {"up", "exited", "aborted"}]
  /\ stopped \subseteq Suspendable
  /\ dpc \in {"decide", "send", "sync"}
  /\ phase \in {"rehearsal", "evolution", "concert"}
  /\ round \in 0..Measures
  /\ pending \subseteq Musicians
  /\ stored \in 0..Measures
  /\ toMus \in [Musicians -> Seq(Measure)]
  /\ acks \in [Musicians -> Nat]
  /\ toPlayer \in [Musicians -> Seq(Part)]
  /\ mpc \in [Musicians -> {"recv", "compose", "ack", "evolve", "ready"}]
  /\ stage \in [Musicians -> {"learn", "play"}]
  /\ mi \in [Musicians -> Nat]
  /\ nm \in [Musicians -> Measure]
  /\ ppc \in {"gather", "play"}
  /\ waiting \subseteq Musicians
  /\ pm_count \in 0..N
  /\ note_list \in [Musicians -> Part]
  /\ played \in Nat
  /\ leaked \in 0..FdLimit
  /\ server_mode \in BOOLEAN

Init ==
  /\ status = [p \in Procs |-> "up"]
  /\ stopped = {}
  /\ dpc = "decide"
  /\ phase = IF genetic_process THEN "rehearsal" ELSE "concert"
  /\ round = 0
  /\ pending = {}
  /\ stored = 0
  /\ toMus = [m \in Musicians |-> <<>>]
  /\ acks = [m \in Musicians |-> 0]
  /\ toPlayer = [m \in Musicians |-> <<>>]
  /\ mpc = [m \in Musicians |-> "recv"]
  /\ stage = [m \in Musicians |-> IF m \in Genetics THEN "learn" ELSE "play"]
  /\ mi = [m \in Musicians |-> 0]
  /\ nm = [m \in Musicians |-> [bpm |-> MEASURE_BPM_EOI, n |-> 0]]
  /\ ppc = "gather"
  /\ waiting = Musicians
  /\ pm_count = 0
  /\ note_list = [k \in Musicians |-> Blank]
  /\ played = 0
  /\ leaked = 0
  /\ server_mode \in BOOLEAN

-----------------------------------------------------------------------------
(* The director.                                                            *)

(* The list a loop broadcasts to and synchronises with.  (Mutant: the two   *)
(* lists are never concatenated.)                                           *)
DestsNotConcatenated == IF genetic_process THEN Genetics ELSE Musicians

Dests == IF phase = "concert" THEN Musicians ELSE Genetics

(* The measure of the round: decided anew, copied back from stored_impro,   *)
(* or the empty one that ends the rehearsal.                                *)
NextMeasure ==
  IF phase = "evolution" THEN [bpm |-> MEASURE_BPM_EOI, n |-> 0]
                         ELSE [bpm |-> PlainBpm, n |-> round]

(* Head of the loops: one more measure, or out of the loop.                 *)
DecideMeasure ==
  /\ Up(Director) /\ dpc = "decide" /\ round < Measures
  /\ dpc' = "send"
  /\ pending' = Dests
  /\ UNCHANGED <<phase, round, stored>>
  /\ UNCHANGED <<processVars, channels, musicianVars, playerVars>>

(* The loops end when as many acknowledgements as destinations were read,   *)
(* and go on to the next measure.  (Mutant: one too few.)                   *)
AllHeardButOne(rest) == Cardinality(rest) <= 1

AllHeard(rest) == rest = {}

RoundAfter == IF phase = "evolution" THEN 0 ELSE round + 1

EndRehearsal ==
  /\ phase' = "evolution"
  /\ dpc' = "send"
  /\ pending' = Genetics
  /\ UNCHANGED <<round, stored>>

(* main frees every list entry and then cleanup walks the freed list: the   *)
(* process leaves either by returning or by an abort in free.               *)
LeaveDirector ==
  /\ \E how \in {"exited", "aborted"} : Dies(Director, how)
  /\ UNCHANGED directorVars

EndOfPass ==
  /\ Up(Director) /\ dpc = "decide" /\ round = Measures
  /\ \/ phase = "rehearsal" /\ EndRehearsal /\ UNCHANGED status
     \/ phase = "concert" /\ LeaveDirector
  /\ UNCHANGED <<stopped, channels, musicianVars, playerVars>>

(* broadcast_measure writes to one destination after the other.  Writing to *)
(* a musician that is gone goes unnoticed, or raises SIGPIPE.               *)
BroadcastMeasure(m) ==
  /\ Up(Director) /\ dpc = "send" /\ m \in pending
  /\ \A k \in pending : m <= k
  /\ LET rest == pending \ {m} IN
     /\ toMus' = [toMus EXCEPT ![m] = Append(@, NextMeasure)]
     /\ dpc' = IF rest = {} THEN "sync" ELSE "send"
     /\ pending' = IF rest = {} THEN Dests ELSE rest
     /\ stored' = IF rest = {} /\ phase = "rehearsal" THEN round + 1 ELSE stored
  /\ UNCHANGED <<phase, round, acks, toPlayer>>
  /\ UNCHANGED <<processVars, musicianVars, playerVars>>

BroadcastSigpipe(m) ==
  /\ Up(Director) /\ dpc = "send" /\ m \in pending
  /\ \A k \in pending : m <= k
  /\ Down(m)
  /\ Dies(Director, "aborted")
  /\ UNCHANGED <<stopped, directorVars, channels, musicianVars, playerVars>>

(* sync_all reads one byte from each connection, in the order they become   *)
(* readable, and returns when all have been heard.                          *)
SyncAck(m) ==
  /\ Up(Director) /\ dpc = "sync" /\ m \in pending /\ acks[m] > 0
  /\ acks' = [acks EXCEPT ![m] = @ - 1]
  /\ pending' = pending \ {m}
  /\ IF AllHeard(pending')
     THEN /\ dpc' = "decide"
          /\ phase' = IF phase = "evolution" THEN "concert" ELSE phase
          /\ round' = RoundAfter
     ELSE UNCHANGED <<dpc, phase, round>>
  /\ UNCHANGED <<stored, toMus, toPlayer>>
  /\ UNCHANGED <<processVars, musicianVars, playerVars>>

(* A closed connection: read returns 0 and sync_all throws eoi_ex, or -1    *)
(* when the musician left measures unread (the kernel resets the connection *)
(* then) and it throws net_ex.  The loops catch the first, nobody catches   *)
(* the second, and the synchronisation after the rehearsal is not in a try. *)
(* (Mutant: it is, and the second loop follows.)                            *)
EvolutionEoiCaught ==
  /\ phase' = "concert" /\ round' = 0 /\ dpc' = "decide"
  /\ UNCHANGED <<pending, stored, status>>

EvolutionEoi == Dies(Director, "aborted") /\ UNCHANGED directorVars

SyncEoi(m) ==
  /\ Up(Director) /\ dpc = "sync" /\ m \in pending /\ acks[m] = 0 /\ Down(m)
  /\ \/ phase = "rehearsal" /\ EndRehearsal /\ UNCHANGED status
     \/ phase = "evolution" /\ EvolutionEoi
     \/ phase = "concert" /\ LeaveDirector
  /\ UNCHANGED <<stopped, channels, musicianVars, playerVars>>

SyncReset(m) ==
  /\ Up(Director) /\ dpc = "sync" /\ m \in pending /\ acks[m] = 0 /\ Down(m)
  /\ toMus[m] # <<>>
  /\ Dies(Director, "aborted")
  /\ UNCHANGED <<stopped, directorVars, channels, musicianVars, playerVars>>

(* Stopping and continuing a process makes the epoll_wait it sleeps in      *)
(* return -1 (EINTR); sync_all throws net_ex.                               *)
SyncInterrupted ==
  /\ Up(Director) /\ dpc = "sync"
  /\ Director \in Suspendable \ stopped
  /\ \A m \in pending : acks[m] = 0 /\ Up(m)
  /\ stopped' = stopped \cup {Director}
  /\ Dies(Director, "aborted")
  /\ UNCHANGED <<directorVars, channels, musicianVars, playerVars>>

DirectorStep ==
  \/ DecideMeasure \/ EndOfPass
  \/ \E m \in Musicians : \/ BroadcastMeasure(m) \/ BroadcastSigpipe(m)
                          \/ SyncAck(m) \/ SyncEoi(m) \/ SyncReset(m)

-----------------------------------------------------------------------------
(* A musician.                                                              *)

RecvMeasure(m) ==
  /\ Up(m) /\ mpc[m] = "recv" /\ toMus[m] # <<>>
  /\ nm' = [nm EXCEPT ![m] = Head(toMus[m])]
  /\ toMus' = [toMus EXCEPT ![m] = Tail(@)]
  /\ mpc' = [mpc EXCEPT ![m] =
       IF stage[m] = "learn" /\ Head(toMus[m]).bpm = MEASURE_BPM_EOI
       THEN "evolve" ELSE "compose"]
  /\ UNCHANGED <<acks, toPlayer, stage, mi>>
  /\ UNCHANGED <<processVars, directorVars, playerVars>>

(* The director is gone: eoi_ex ends the loop, and a genetic musician still *)
(* in its first one goes on to evolve.  Acknowledgements the director never *)
(* read may have reset the connection, which is a net_ex.                   *)
RecvEoi(m) ==
  /\ Up(m) /\ mpc[m] = "recv" /\ toMus[m] = <<>> /\ Down(Director)
  /\ \/ stage[m] = "learn" /\ mpc' = [mpc EXCEPT ![m] = "evolve"] /\ UNCHANGED status
     \/ stage[m] = "play" /\ Dies(m, "exited") /\ UNCHANGED mpc
  /\ UNCHANGED <<stopped, stage, mi, nm, channels, directorVars, playerVars>>

RecvReset(m) ==
  /\ Up(m) /\ mpc[m] = "recv" /\ toMus[m] = <<>> /\ Down(Director) /\ acks[m] > 0
  /\ Dies(m, "aborted")
  /\ UNCHANGED <<stopped, musicianVars, channels, directorVars, playerVars>>

(* send_to_play on a socket that was made non-blocking: a full buffer is an *)
(* error like any other, and so is a player that is gone.                   *)
SendToPlay(m) ==
  /\ Up(m) /\ mpc[m] = "compose" /\ stage[m] = "play"
  /\ Len(toPlayer[m]) < Buffer
  /\ toPlayer' = [toPlayer EXCEPT ![m] =
                    Append(@, [from |-> m, id |-> mi[m], n |-> nm[m].n])]
  /\ mpc' = [mpc EXCEPT ![m] = "ack"]
  /\ UNCHANGED <<toMus, acks, stage, mi, nm>>
  /\ UNCHANGED <<processVars, directorVars, playerVars>>

SendToPlayFails(m) ==
  /\ Up(m) /\ mpc[m] = "compose" /\ stage[m] = "play"
  /\ Len(toPlayer[m]) = Buffer \/ Down(Player)
  /\ Dies(m, "aborted")
  /\ UNCHANGED <<stopped, musicianVars, channels, directorVars, playerVars>>

(* In its first loop a genetic musician keeps what it composes.             *)
StoreGmeasure(m) ==
  /\ Up(m) /\ mpc[m] = "compose" /\ stage[m] = "learn"
  /\ mpc' = [mpc EXCEPT ![m] = "ack"]
  /\ UNCHANGED <<stage, mi, nm, channels, processVars, directorVars, playerVars>>

SendSyncAck(m) ==
  /\ Up(m) /\ mpc[m] = "ack"
  /\ acks' = [acks EXCEPT ![m] = @ + 1]
  /\ mi' = [mi EXCEPT ![m] = @ + 1]
  /\ mpc' = [mpc EXCEPT ![m] = "recv"]
  /\ UNCHANGED <<toMus, toPlayer, stage, nm>>
  /\ UNCHANGED <<processVars, directorVars, playerVars>>

GeneticLoop(m) ==
  /\ Up(m) /\ mpc[m] = "evolve"
  /\ mpc' = [mpc EXCEPT ![m] = "ready"]
  /\ UNCHANGED <<stage, mi, nm, channels, processVars, directorVars, playerVars>>

(* Tells the director the evolved piece is ready and enters the second      *)
(* loop, which counts its measures from 0.  (Mutant: it goes on counting.)  *)
FirstIndexKept(m) == mi[m]

FirstIndex(m) == 0

AckReady(m) ==
  /\ Up(m) /\ mpc[m] = "ready"
  /\ acks' = [acks EXCEPT ![m] = @ + 1]
  /\ stage' = [stage EXCEPT ![m] = "play"]
  /\ mi' = [mi EXCEPT ![m] = FirstIndex(m)]
  /\ mpc' = [mpc EXCEPT ![m] = "recv"]
  /\ UNCHANGED <<toMus, toPlayer, nm>>
  /\ UNCHANGED <<processVars, directorVars, playerVars>>

AckSigpipe(m) ==
  /\ Up(m) /\ mpc[m] \in {"ack", "ready"} /\ Down(Director)
  /\ Dies(m, "aborted")
  /\ UNCHANGED <<stopped, musicianVars, channels, directorVars, playerVars>>

MusicianStep(m) ==
  \/ RecvMeasure(m) \/ RecvEoi(m) \/ RecvReset(m)
  \/ SendToPlay(m) \/ SendToPlayFails(m) \/ StoreGmeasure(m)
  \/ SendSyncAck(m) \/ GeneticLoop(m) \/ AckReady(m) \/ AckSigpipe(m)

-----------------------------------------------------------------------------
(* The player.                                                              *)

(* Entering recv_to_play: a new epoll set with every musician.              *)
StartGather ==
  /\ ppc' = "gather"
  /\ waiting' = Musicians
  /\ pm_count' = 0

(* while (psize < size).  (Mutant: one musician too few.)                   *)
GatheredButOne(rest) == Cardinality(rest) <= 1

Gathered(rest) == rest = {}

(* One readable connection: its part goes to the next slot, and the         *)
(* connection leaves the epoll set.                                         *)
RecvToPlay(m) ==
  /\ Up(Player) /\ ppc = "gather" /\ m \in waiting /\ toPlayer[m] # <<>>
  /\ note_list' = [note_list EXCEPT ![pm_count + 1] = Head(toPlayer[m])]
  /\ pm_count' = pm_count + 1
  /\ toPlayer' = [toPlayer EXCEPT ![m] = Tail(@)]
  /\ waiting' = waiting \ {m}
  /\ ppc' = IF Gathered(waiting') THEN "play" ELSE "gather"
  /\ UNCHANGED <<played, leaked, server_mode, toMus, acks>>
  /\ UNCHANGED <<processVars, directorVars, musicianVars>>

(* readv returns 0 once the other end is closed and everything it wrote has *)
(* been read.  (Mutant: as soon as it is closed.)                           *)
ClosedAtOnce(m) == Down(m)

Closed(m) == Down(m) /\ toPlayer[m] = <<>>

(* eoi_ex ends the main loop.  With -g it does not: each exception loses    *)
(* the epoll descriptor of the call, and when none is left the next         *)
(* epoll_ctl fails with a net_ex.  (Mutant: nothing is lost.)               *)
PlayerEoiRetries ==
  IF server_mode
  THEN StartGather /\ UNCHANGED <<leaked, status>>
  ELSE Dies(Player, "exited") /\ UNCHANGED <<ppc, waiting, pm_count, leaked>>

LeaveOrRetry ==
  \/ /\ ~server_mode
     /\ Dies(Player, "exited")
     /\ UNCHANGED <<ppc, waiting, pm_count, leaked>>
  \/ /\ server_mode
     /\ leaked' = leaked + 1
     /\ \/ leaked' < FdLimit /\ StartGather /\ UNCHANGED status
        \/ leaked' = FdLimit /\ Dies(Player, "aborted")
                            /\ UNCHANGED <<ppc, waiting, pm_count>>

PlayerEoi(m) ==
  /\ Up(Player) /\ ppc = "gather" /\ m \in waiting /\ Closed(m)
  /\ LeaveOrRetry
  /\ UNCHANGED <<stopped, note_list, played, server_mode>>
  /\ UNCHANGED <<channels, directorVars, musicianVars>>

(* epoll_wait fails with EINTR; the test on its result compares the         *)
(* function itself with 0, so recv_to_play takes -1 for "nothing processed" *)
(* and returns normally with whatever note_list holds.                      *)
GatherInterrupted ==
  /\ Up(Player) /\ ppc = "gather"
  /\ Player \in Suspendable \ stopped
  /\ \A m \in waiting : toPlayer[m] = <<>> /\ Up(m)
  /\ stopped' = stopped \cup {Player}
  /\ ppc' = "play"
  /\ UNCHANGED <<status, waiting, pm_count, note_list, played, leaked, server_mode>>
  /\ UNCHANGED <<channels, directorVars, musicianVars>>

PlayMeasure ==
  /\ Up(Player) /\ ppc = "play"
  /\ played' = played + 1
  /\ StartGather
  /\ UNCHANGED <<note_list, leaked, server_mode>>
  /\ UNCHANGED <<processVars, channels, directorVars, musicianVars>>

PlayerStep ==
  PlayMeasure \/ \E m \in Musicians : RecvToPlay(m) \/ PlayerEoi(m)

-----------------------------------------------------------------------------
(* A process dies wherever it is: killed, out of memory, or (a musician)    *)
(* leaving main because compose_measure or genetic_loop returned -1.        *)
Fail(p) ==
  /\ p \in Faulty /\ Up(p)
  /\ Dies(p, "aborted")
  /\ UNCHANGED <<stopped, channels, directorVars, musicianVars, playerVars>>

AllDown == \A p \in Procs : Down(p)

(* The normal end: nothing is left to run.                                  *)
Ended == AllDown /\ UNCHANGED vars

Next ==
  \/ DirectorStep
  \/ \E m \in Musicians : MusicianStep(m)
  \/ PlayerStep
  \/ SyncInterrupted
  \/ GatherInterrupted
  \/ \E p \in Procs : Fail(p)
  \/ Ended

Spec == Init /\ [][Next]_vars

(* The operating system runs every process that can run.  Nothing obliges   *)
(* a process to die or the user to stop one.                                *)
FairSpec ==
  /\ Spec
  /\ WF_vars(DirectorStep)
  /\ \A m \in Musicians : WF_vars(MusicianStep(m))
  /\ WF_vars(PlayerStep)

-----------------------------------------------------------------------------
(* Properties.                                                              *)

(* How many bars of the concert m has written to the player.                *)
Written(m) ==
  IF stage[m] = "play" THEN mi[m] + (IF mpc[m] = "ack" THEN 1 ELSE 0) ELSE 0

(* The barrier of sync_all: when the director decides the next measure, no  *)
(* measure and no acknowledgement of an earlier one is left on any          *)
(* connection of the musicians it leads, whatever died meanwhile, and in    *)
(* the concert each of them has written exactly the bars decided so far.    *)
Barrier ==
  Up(Director) /\ dpc = "decide" =>
    /\ \A m \in Dests : toMus[m] = <<>> /\ acks[m] = 0
    /\ phase = "concert" => \A m \in Musicians : Written(m) = round

(* Each round the player plays holds one part of every musician, and all    *)
(* of the bar that is due, unless an interrupted epoll_wait ended a         *)
(* recv_to_play early: the counters the musicians keep on their own never   *)
(* drift from each other, from the director's decisions or from the player, *)
(* although the director never waits for the player.                        *)
RoundComplete ==
  ppc = "play" /\ Player \notin stopped =>
    /\ \A m \in Musicians : \E k \in Musicians : note_list[k].from = m
    /\ \A k \in Musicians : note_list[k].id = played /\ note_list[k].n = played

(* The concert of a genetic improvisation starts only when every measure of *)
(* the rehearsal is in stored_impro and every genetic musician has finished *)
(* genetic_loop, also if some of them died in between: what the director    *)
(* replays is never an entry nobody filled.                                 *)
ConcertPrepared ==
  phase = "concert" =>
    /\ genetic_process => stored = Measures
    /\ \A m \in Musicians : stage[m] = "play"

(* When the player leaves of its own accord, it has played every bar that   *)
(* all the musicians managed to write.                                      *)
NoLostPart ==
  status[Player] = "exited" /\ Player \notin stopped =>
    \E m \in Musicians : Written(m) = played

(* Nobody is left waiting for somebody who is gone: whatever fails, and     *)
(* also if nothing does, all processes eventually stop.                     *)
AllStop == <>AllDown

(* If nothing fails the whole piece is played, every musician returns from  *)
(* main, and the player too (and so finishes the MIDI file), except that    *)
(* with -g it can only be aborted.                                          *)
FullPerformance ==
  <>(/\ AllDown
     /\ played = Measures
     /\ \A m \in Musicians : status[m] = "exited"
     /\ server_mode <=> status[Player] = "aborted")

(* The improvisation implements the concert it promises: the bar being      *)
(* written is the director's round, a bar is written when its part is sent  *)
(* to the player, and heard when the player plays it.                       *)
C == INSTANCE Concert WITH
       bar     <- IF phase = "concert" THEN round ELSE 0,
       written <- [m \in Musicians |-> Written(m)],
       heard   <- played

ImplementsConcert     == C!ConcertSpec
ImplementsFairConcert == C!FairConcertSpec
==============================================================================
