----------------------- MODULE ImprovisationInvariants -----------------------
(***************************************************************************)
(* The inductive invariant of Improvisation: why every round is complete    *)
(* and aligned, whatever dies.  The argument has three parts.               *)
(*                                                                          *)
(*  - Counters stay in range (Ranges).                                      *)
(*  - Between the director and a musician travels one token: a measure not  *)
(*    read, work not acknowledged, or an acknowledgement not read.  The     *)
(*    director's position says who holds one (Tokens), which ties the       *)
(*    counter of each musician to the director's (InConcert).               *)
(*  - What a musician has written is what the player has taken from it and  *)
(*    what still lies on the connection, in order (Queues).                 *)
(*                                                                          *)
(* Two kinds of break make the argument vacuous rather than false: a        *)
(* genetic musician that died in the rehearsal (the director will never     *)
(* leave the synchronisation that follows), and, with -g, a player that     *)
(* dropped a half-gathered round (it will never complete another).          *)
(***************************************************************************)
EXTENDS Improvisation

Ranges ==
  /\ pending \subseteq Dests
  /\ phase # "concert" => genetic_process
  /\ phase = "evolution" => dpc # "decide"
  /\ dpc # "decide" /\ phase # "evolution" => round < Measures
  /\ Up(Player) => leaked < FdLimit
  /\ pm_count = N - Cardinality(waiting)
  /\ Player \notin Suspendable => Player \notin stopped

(* m holds the token of the current round.                                  *)
Owes(m) ==
  \/ dpc = "send" /\ m \in Dests \ pending
  \/ dpc = "sync" /\ m \in pending

(* A genetic musician died before acknowledging its last measure of the     *)
(* rehearsal: sync_all will wait for it and find it gone.                   *)
Mourning ==
  /\ phase = "evolution"
  /\ \E g \in Genetics : Down(g) /\ acks[g] = 0 /\ (dpc = "sync" => g \in pending)

Busy(m) == IF mpc[m] = "recv" THEN 0 ELSE 1

Tokens ==
  (Up(Director) \/ phase = "concert") /\ ~Mourning =>
    \A m \in Musicians :
      Len(toMus[m]) + Busy(m) + acks[m] = IF Owes(m) THEN 1 ELSE 0

(* Musicians outside the concert.                                           *)
NotYetPlaying ==
  phase # "concert" =>
    \A m \in Musicians :
      /\ m \notin Genetics => stage[m] = "play"
      /\ stage[m] = "play" => mi[m] = 0 /\ toMus[m] = <<>> /\ mpc[m] = "recv"

(* A genetic musician that has not been sent the end of the rehearsal.      *)
Rehearsing(m) ==
  /\ stage[m] = "learn"
  /\ mpc[m] \in {"recv", "compose", "ack"}
  /\ \A k \in 1..Len(toMus[m]) : toMus[m][k].bpm # MEASURE_BPM_EOI

Learning ==
  /\ \A m \in Musicians : stage[m] = "learn" =>
       /\ m \in Genetics
       /\ \A k \in 1..Len(toMus[m]) :
            toMus[m][k].bpm = MEASURE_BPM_EOI => k = Len(toMus[m])
       /\ mpc[m] \in {"evolve", "ready"} => toMus[m] = <<>>
  /\ Up(Director) =>
       \A m \in Genetics :
         \/ phase = "rehearsal"
         \/ phase = "evolution" /\ dpc = "send" /\ m \in pending
         => Rehearsing(m)

Evolving ==
  Up(Director) /\ phase = "evolution" /\ ~Mourning =>
    \A m \in Genetics :
      /\ Owes(m) =>
           /\ \A k \in 1..Len(toMus[m]) : toMus[m][k].bpm = MEASURE_BPM_EOI
           /\ mpc[m] \in {"recv", "evolve", "ready"}
           /\ acks[m] > 0 => stage[m] = "play"
      /\ dpc = "sync" /\ m \notin pending => stage[m] = "play"

Stored ==
  /\ phase = "rehearsal" => stored = IF dpc = "sync" THEN round + 1 ELSE round
  /\ phase = "evolution" => Mourning \/ stored = Measures
  /\ phase = "concert" /\ genetic_process => stored = Measures

InConcert ==
  phase = "concert" =>
    \A m \in Musicians :
      /\ stage[m] = "play"
      /\ mpc[m] \in {"recv", "compose", "ack"}
      /\ \A k \in 1..Len(toMus[m]) : toMus[m][k].n = round
      /\ mpc[m] = "compose" => nm[m].n = round
      /\ mi[m] = round + acks[m] + (IF dpc = "sync" /\ m \notin pending THEN 1 ELSE 0)

(* What the player has taken from m.                                        *)
Taken(m) == played + (IF m \in waiting THEN 0 ELSE 1)

(* With -g, a half-gathered round was dropped, or is about to be.           *)
Dropped ==
  server_mode /\ ppc = "gather" /\ \E m \in waiting : Closed(m)

Queues ==
  Player \notin stopped /\ ~Dropped =>
    \A m \in Musicians :
      /\ Taken(m) + Len(toPlayer[m]) = Written(m)
      /\ \A k \in 1..Len(toPlayer[m]) :
           toPlayer[m][k] = [from |-> m, id |-> Taken(m) + k - 1, n |-> Taken(m) + k - 1]

Slots ==
  Player \notin stopped =>
    /\ ppc = "play" <=> waiting = {}
    /\ ~Dropped =>
         /\ \A m \in Musicians \ waiting : \E k \in 1..pm_count : note_list[k].from = m
         /\ \A k \in 1..pm_count : note_list[k].id = played /\ note_list[k].n = played

(* Without -g the player leaves when a musician that is gone has nothing    *)
(* left to be taken.                                                        *)
Leaving ==
  status[Player] = "exited" /\ Player \notin stopped =>
    \E m \in Musicians : Down(m) /\ Written(m) = played

(* What ties the musicians to the director, and the player to the musicians *)
Conducted ==
  Tokens /\ NotYetPlaying /\ Learning /\ Evolving /\ Stored /\ InConcert

Gathering == Queues /\ Slots

(* The inductive invariant: the measures, parts and acknowledgements under  *)
(* way between the three programs account for every counter they keep.      *)
IInv == TypeOK /\ Ranges /\ Conducted /\ Gathering /\ Leaving
==============================================================================
