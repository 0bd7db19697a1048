-------------------------------- MODULE Fitness --------------------------------
(***************************************************************************)
(* How much a piece is like the goal: compute_similarity                    *)
(* (musician_evolution.cpp).  A piece is the sequence of the first pitches  *)
(* and the durations of its notes; triplets are left out.  The doubles of   *)
(* the code are whole hundredths here, rounded down.                        *)
(***************************************************************************)
EXTENDS Integers, Sequences, FiniteSets

UNIT == 100

(* The value of a division of zero by zero.                                 *)
NaN == -1

(* 1 / sqrt(1 + d^2), as the hundredths that it has: those x with           *)
(* x^2 (1 + d^2) <= 1.  (Mutant: the 1 is forgotten where a division by     *)
(* zero is feared.)                                                         *)
ClosenessOfNothing(d) == IF d = 0 THEN {} ELSE {x \in 1..UNIT : x * x * d * d <= UNIT * UNIT}

Closeness(d) == {x \in 1..UNIT : x * x * (1 + d * d) <= UNIT * UNIT}

Count(keys, key) == Cardinality({k \in DOMAIN keys : keys[k] = key})

Distance(m, n) == IF m < n THEN n - m ELSE m - n

(* The maps: how often something occurs in the goal (train) and in the      *)
(* piece (test), compared for all that occurs in the piece.  The sum is the *)
(* number of hundredths of all that occurs in both.                         *)
Perplexity(train, test) ==
  LET keys == {test[k] : k \in DOMAIN test}
      both == {key \in keys : Count(train, key) # 0}
      sum  == UNION {{key} \X Closeness(Distance(Count(train, key), Count(test, key))) : key \in both}
  IN Cardinality(sum) \div Cardinality(keys)

Pitches(piece) == [k \in DOMAIN piece |-> piece[k].pitch]

Tempos(piece) == [k \in DOMAIN piece |-> piece[k].tempo]

Bigrams(keys) == [k \in 1..Len(keys) - 1 |-> <<keys[k], keys[k + 1]>>]

(* Point to point: pitches and durations in place.                          *)
InPlace(goal, trial) ==
  (UNIT * (Cardinality({k \in DOMAIN goal : goal[k].pitch = trial[k].pitch})
             + Cardinality({k \in DOMAIN goal : goal[k].tempo = trial[k].tempo})))
     \div (2 * Len(goal))

(* The weighted sum.  One note has no bigram, and its mean is 0/0.          *)
ComputeSimilarity(goal, trial) ==
  IF Len(goal) = 1 THEN NaN
  ELSE 70 * InPlace(goal, trial)
         + 10 * Perplexity(Pitches(goal), Pitches(trial))
         + 5 * Perplexity(Tempos(goal), Tempos(trial))
         + 10 * Perplexity(Bigrams(Pitches(goal)), Bigrams(Pitches(trial)))
         + 5 * Perplexity(Bigrams(Tempos(goal)), Bigrams(Tempos(trial)))
==============================================================================
