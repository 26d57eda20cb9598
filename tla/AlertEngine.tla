---------------------------- MODULE AlertEngine ----------------------------
(***************************************************************************)
(* The pure alerting state machine of internal/alerting/alerting.go and    *)
(* the certificate warning level of internal/domain/domain.go it reads.    *)
(*                                                                         *)
(* Apply takes the monitor's configuration, one check result and the alert *)
(* state loaded from Postgres and returns a decision.  It keeps no state,  *)
(* so it is one operator.  A nil pointer is None, a timestamp an integer,  *)
(* and the certificate expiry of a result is `days`, the days left on the  *)
(* certificate when the check ran (None when the check saw no              *)
(* certificate).                                                           *)
(***************************************************************************)
EXTENDS Integers

CONSTANT None      \* Go's nil: no timestamp, no incident, no warned level

ASSUME NoneAssumption == None \notin Int

SSLWarnThresholds == {7, 3, 1}

\* The tightest crossed threshold, 0 once expired, -1 while the expiry is
\* still further out than the widest threshold.
SSLWarnLevel(daysLeft) ==
  LET crossed == {t \in SSLWarnThresholds : daysLeft <= t}
  IN  IF daysLeft <= 0 THEN 0
      ELSE IF crossed = {} THEN -1
      ELSE CHOOSE t \in crossed : \A u \in crossed : t <= u

sslLevel(res) == IF res.days = None THEN -1 ELSE SSLWarnLevel(res.days)

WarnLevels == {-1, 0} \cup SSLWarnThresholds

NotifyEvent(type, warnDays) == [type |-> type, warn |-> warnDays]

\* A healthy result resets the counters and closes the open incident, if any.
applyHealthy(res, state) ==
  LET closes == state.open # None
  IN  [ action    |-> IF closes THEN "close" ELSE "none",
        consec    |-> 0,    firstFail |-> None, warned |-> None,
        startedAt |-> None, endedAt |-> IF closes THEN res.at ELSE None,
        renotify  |-> FALSE,
        notify    |-> IF closes THEN NotifyEvent("recovery", None) ELSE None ]

\* The first failure of the run.  Mutant: every failure is taken for it.
FirstFailForgotten(res, state) == res.at
firstFailAt(res, state) == IF state.consec = 0 THEN res.at ELSE state.firstFail

\* The incident is opened now.  Mutant: one failure late.
OpensLate(m, consec) == consec > m.threshold
ReachesThreshold(m, consec) == consec >= m.threshold

\* The level has not been warned about yet.  Mutant: the same level twice.
TighterOrSame(level, state) == state.warned = None \/ level <= state.warned
Tighter(level, state) == state.warned = None \/ level < state.warned

\* An unhealthy result counts.  It opens an incident at the threshold, and on
\* an open incident of an ssl monitor it notifies again when a tighter expiry
\* level than the last warned one is reached.
applyUnhealthy(m, res, state) ==
  LET consec    == state.consec + 1
      firstFail == firstFailAt(res, state)
      isSSL     == m.type = "ssl"
      level     == sslLevel(res)
      opens     == state.open = None /\ ReachesThreshold(m, consec)
      warns     == state.open # None /\ isSSL /\ Tighter(level, state)
  IN  [ action    |-> IF opens THEN "open" ELSE "none",
        consec    |-> consec,
        firstFail |-> firstFail,
        startedAt |-> IF ~opens THEN None
                      ELSE IF firstFail # None THEN firstFail ELSE res.at,
        endedAt   |-> None,
        warned    |-> IF ~isSSL THEN None ELSE IF opens \/ warns THEN level ELSE state.warned,
        renotify  |-> warns,
        notify    |-> IF opens \/ warns
                        THEN NotifyEvent("down", IF isSSL THEN level ELSE None)
                        ELSE None ]

Apply(m, res, state) ==
  IF res.healthy THEN applyHealthy(res, state) ELSE applyUnhealthy(m, res, state)
=============================================================================
