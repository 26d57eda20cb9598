---------------------------- MODULE AlertService ----------------------------
(***************************************************************************)
(* What the alerting service promises for one monitor: every result that   *)
(* decodes is applied in one step, exactly once and in the order of        *)
(* check.results.  A healthy result ends the open incident; a failing one  *)
(* counts, and opens an incident when the count reaches the monitor's      *)
(* threshold.  Announcements are made for these steps only, once for each, *)
(* and may be lost (the code says so of a failed produce).                 *)
(*                                                                         *)
(* The threshold in force when a result is applied is any that the monitor *)
(* may have, because an edit may come between reading it and using it.     *)
(***************************************************************************)
EXTENDS Integers, Sequences

CONSTANTS
  None,
  Feedable,     \* what a result may be: records with fields ok and healthy
  Thresholds,   \* failure thresholds the monitor may have
  Levels,       \* certificate levels a warning may carry, None for http
  Senders       \* consumers, each holding at most one announcement

VARIABLES
  feed,         \* check.results
  upto,         \* position of the last applied result, 0 at first
  fails,        \* failing results since the last healthy one
  covered,      \* an incident was opened since the last healthy one
  life,         \* incident -> "open", "recovered" or "manual"
  hand,         \* sender -> the announcement it is about to make, or None
  said          \* announcements made, in order

svc == <<feed, upto, fails, covered, life, hand, said>>

SvcInit ==
  /\ feed = << >> /\ upto = 0 /\ fails = 0 /\ covered = FALSE
  /\ life = << >> /\ hand = [s \in Senders |-> None] /\ said = << >>

OpenOnes == {i \in DOMAIN life : life[i] = "open"}

Announcement(i, kind, level) == [inc |-> i, kind |-> kind, warn |-> level]

\* The sender takes the announcement, unless the answer of its commit is lost.
Take(s, a) == hand' \in {hand, [hand EXCEPT ![s] = a]}

\* The next result that decodes is applied, by a sender with free hands.
Observe(s, k) ==
  /\ k \in DOMAIN feed /\ k > upto /\ feed[k].ok
  /\ \A j \in DOMAIN feed : upto < j /\ j < k => ~ feed[j].ok
  /\ hand[s] = None
  /\ upto' = k
  /\ UNCHANGED <<feed, said>>

Recovers(s, k) ==
  /\ Observe(s, k) /\ feed[k].healthy
  /\ fails' = 0 /\ covered' = FALSE
  /\ IF OpenOnes = {} THEN UNCHANGED <<life, hand>>
     ELSE \E i \in OpenOnes :
            /\ life' = [life EXCEPT ![i] = "recovered"]
            /\ Take(s, Announcement(i, "recovery", None))

\* Not applied to an open incident means the threshold is not reached, or an
\* operator closed this run's incident.
Counts(s, k) ==
  /\ Observe(s, k) /\ ~ feed[k].healthy
  /\ fails' = fails + 1
  /\ OpenOnes # {} \/ covered \/ \E t \in Thresholds : fails' < t
  /\ UNCHANGED <<covered, life, hand>>

Opens(s, k) ==
  /\ Observe(s, k) /\ ~ feed[k].healthy
  /\ fails' = fails + 1
  /\ OpenOnes = {} /\ \E t \in Thresholds : fails' >= t
  /\ life' = Append(life, "open") /\ covered' = TRUE
  /\ \E l \in Levels : Take(s, Announcement(Len(life) + 1, "down", l))

Warns(s, k) ==
  /\ Observe(s, k) /\ ~ feed[k].healthy
  /\ fails' = fails + 1
  /\ \E i \in OpenOnes, l \in Levels \ {None} : Take(s, Announcement(i, "down", l))
  /\ UNCHANGED <<covered, life>>

Announce(s) ==
  /\ hand[s] # None
  /\ said' = Append(said, hand[s]) /\ hand' = [hand EXCEPT ![s] = None]
  /\ UNCHANGED <<feed, upto, fails, covered, life>>

Lose(s) ==
  /\ hand[s] # None
  /\ hand' = [hand EXCEPT ![s] = None]
  /\ UNCHANGED <<feed, upto, fails, covered, life, said>>

\* The workers, and an operator.
Arrives(res) == feed' = Append(feed, res) /\ UNCHANGED <<upto, fails, covered, life, hand, said>>

ClosesByHand(i) ==
  /\ i \in OpenOnes /\ life' = [life EXCEPT ![i] = "manual"]
  /\ UNCHANGED <<feed, upto, fails, covered, hand, said>>

SvcNext ==
  \/ \E s \in Senders :
       \/ \E k \in DOMAIN feed : Recovers(s, k) \/ Counts(s, k) \/ Opens(s, k) \/ Warns(s, k)
       \/ Announce(s) \/ Lose(s)
  \/ \E res \in Feedable : Arrives(res)
  \/ \E i \in DOMAIN life : ClosesByHand(i)

SvcSpec == SvcInit /\ [][SvcNext]_svc
=============================================================================
