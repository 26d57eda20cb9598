----------------------------- MODULE MCNotifier -----------------------------
(* Instances of Notifier for TLC. *)
EXTENDS Notifier, TLC

\* An ssl incident's first two warnings.
SSLKeys == {[inc |-> 1, kind |-> "down", warn |-> 7],
            [inc |-> 1, kind |-> "down", warn |-> 3]}

Symmetry == Permutations(Consumers) \cup Permutations(Channels)
=============================================================================
