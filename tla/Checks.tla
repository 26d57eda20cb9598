------------------------------- MODULE Checks -------------------------------
(***************************************************************************)
(* The check pipeline: internal/scheduler dispatches due monitors to one   *)
(* job stream per region, internal/worker runs the checks and emits the    *)
(* results, internal/checkstate shows each region's progress, and alerting *)
(* writes the results the scheduler seeds its next runs from.              *)
(*                                                                         *)
(* Time is relative: nextRun counts the ticks until a monitor is due and   *)
(* age the ticks since its newest stored result, so that the pipeline runs *)
(* for ever in finitely many states.                                       *)
(***************************************************************************)
EXTENDS Integers, Sequences, FiniteSets

CONSTANTS
  None,
  Monitors, Regions,
  DefaultRegion,  \* region.Default
  Configs,        \* rows an edit may store: [type, enabled, interval, regions, policy,
                  \*   expected, latency, contains]; the first is how monitors start
  Worlds,         \* what the network may do during a check (module Checker)
  Block,          \* PULSE_BLOCK_PRIVATE_NETWORKS
  MaxStream,      \* entries a stream keeps: XADD MAXLEN, 10000 in the code
  MaxFaults,      \* bound: failed calls, crashes and restarts
  MaxEdits        \* bound: edits of a monitor

INSTANCE Checker
Seqs == INSTANCE SequencesExt

FailureReasons ==
  {"timeout", "connection_error", "blocked_target", "status_mismatch", "latency_exceeded",
   "body_assertion_failed", "cert_expired", "cert_invalid", "cert_expiring_soon"}

\* A row and a world: the fields the checker looks at.  A certificate that is
\* good has not expired.
StatusEntry(e) == \/ e.kind = "junk"
                  \/ e.kind = "code" /\ e.n \in 100..599
                  \/ e.kind = "range" /\ e.n \in 1..5
MonitorRow(m) ==
  /\ m.interval \in Nat \ {0} /\ m.contains \in BOOLEAN /\ m.latency \in Nat \cup {None}
  /\ \A i \in 1..Len(m.expected) : StatusEntry(m.expected[i])
World(w) ==
  /\ w.dials \in Seq({"public", "loopback", "link-local", "private"})
  /\ w.status \in Nat /\ w.ms \in Nat /\ w.has \in BOOLEAN
  /\ w.cert \in {"none", "ok", "expired", "invalid"} /\ w.days \in Int
  /\ w.cert = "ok" => w.days >= 0

ASSUME ChecksAssumption ==
  /\ MaxStream \in Nat \ {0} /\ MaxFaults \in Nat /\ MaxEdits \in Nat
  /\ IsFiniteSet(Monitors) /\ Block \in BOOLEAN /\ None \notin Nat \cup FailureReasons
  /\ Len(Configs) \in Nat \ {0} /\ \A i \in 1..Len(Configs) : MonitorRow(Configs[i])
  /\ \A w \in Worlds : World(w)

VARIABLES
  conf,           \* monitors table: id -> row
  edits,          \* edits so far
  nextRun,        \* Dispatcher.nextRun, in memory: id -> ticks left, or None
  age,            \* newest check_results.checked_at: id -> its age, or None
  pending,        \* newest result on check.results that alerting has not stored
  sched,          \* Dispatcher: what is left of the tick it is in
  stream,         \* region -> jobs not yet acked
  work,           \* region -> the worker's job and how far it is
  hash,           \* live state: id -> region -> state
  faults          \* failures so far

vars == <<conf, edits, nextRun, age, pending, sched, stream, work, hash, faults>>
busVars == <<stream, work, hash>>

MaxAge == CHOOSE n \in {Configs[i].interval : i \in 1..Len(Configs)} :
            \A i \in 1..Len(Configs) : n >= Configs[i].interval

Idle == [pc |-> "idle", list |-> << >>, todo |-> << >>]
Free == [pc |-> "poll", job |-> None]

Init ==
  /\ conf = [id \in Monitors |-> Configs[1]] /\ edits = 0
  /\ nextRun = [id \in Monitors |-> None]
  /\ age = [id \in Monitors |-> None] /\ pending = [id \in Monitors |-> None]
  /\ sched = Idle
  /\ stream = [r \in Regions |-> << >>] /\ work = [r \in Regions |-> Free]
  /\ hash = [id \in Monitors |-> [r \in Regions |-> "none"]]
  /\ faults = 0

Fault == faults < MaxFaults /\ faults' = faults + 1

\* A call that a fault may make fail: ok tells.
Call(ok) == IF ok THEN UNCHANGED faults ELSE Fault

-----------------------------------------------------------------------------
(* checkstate *)

\* writeRegion: HSET and EXPIRE; interval*3, at least an hour, outlives a cycle.
writeRegion(id, r, s) == hash' = [hash EXCEPT ![id][r] = s]
SetScheduled(id, r)   == writeRegion(id, r, "scheduled")
SetRunning(id, r)     == writeRegion(id, r, "running")
SetResult(id, r, res) == writeRegion(id, r, IF res.healthy THEN "done" ELSE "failed")

\* The fields of a hash that were ever written.
GetMany(id) == {r \in Regions : hash[id][r] # "none"}

\* What the monitors page shows of each region that has a field.
regionStatesDTO(id) == [r \in GetMany(id) |-> hash[id][r]]

reduceHealthy(healthy, total, policy) ==
  LET down == total - healthy IN
  CASE policy = "all" -> down < total [] policy = "quorum" -> down * 2 <= total [] OTHER -> down = 0

Rollup(id) ==
  LET rs       == GetMany(id)
      terminal == {r \in rs : hash[id][r] \in {"done", "failed"}}
      healthy  == {r \in rs : hash[id][r] = "done"} IN
  CASE rs = {} -> [phase |-> "pending", healthy |-> None]
    [] rs # {} /\ terminal = rs ->
         [phase |-> "complete",
          healthy |-> reduceHealthy(Cardinality(healthy), Cardinality(rs), conf[id].policy)]
    [] rs # {} /\ \A r \in rs : hash[id][r] = "scheduled" -> [phase |-> "pending", healthy |-> None]
    [] OTHER -> [phase |-> "running", healthy |-> None]

-----------------------------------------------------------------------------
(* scheduler *)

\* XADD MAXLEN: the oldest entries go, read or not.
Produce(r, job) ==
  LET s == Append(stream[r], job) IN
  stream' = [stream EXCEPT ![r] = IF Len(s) > MaxStream THEN Tail(s) ELSE s]

Older(a)  == IF a = None THEN None ELSE IF a < MaxAge THEN a + 1 ELSE a
Sooner(n) == IF n = None THEN None ELSE IF n > 0 THEN n - 1 ELSE n

\* The enabled monitors, as they are now, with the age of their last result.
ListEnabledMonitorsWithLastCheck ==
  LET ids == Seqs!SetToSeq({id \in Monitors : conf[id].enabled}) IN
  [i \in DOMAIN ids |-> [id |-> ids[i], m |-> conf[ids[i]], age |-> age[ids[i]]]]

\* A tick of Run: time passes, and dispatchDue reads the monitors or gives up.
Tick ==
  /\ sched.pc = "idle"
  /\ nextRun' = [id \in Monitors |-> Sooner(nextRun[id])]
  /\ age' = [id \in Monitors |-> Older(age[id])]
  /\ pending' = [id \in Monitors |-> Older(pending[id])]
  /\ \E ok \in BOOLEAN :
       /\ Call(ok)
       /\ sched' = IF ok THEN [Idle EXCEPT !.pc = "scan", !.list = ListEnabledMonitorsWithLastCheck]
                   ELSE sched
  /\ UNCHANGED <<conf, edits, busVars>>

\* An ssl monitor is checked from one region, an empty list means the default.
\* Mutant: every monitor is checked from one region.
onlyFirst(m) == SubSeq(m.regions, 1, 1)
dispatchRegions(m) ==
  LET regions == IF m.regions = << >> THEN <<DefaultRegion>> ELSE m.regions IN
  IF m.type = "ssl" THEN SubSeq(regions, 1, 1) ELSE regions

\* Ticks until the monitor is due: what the map holds, or the last check plus
\* the interval; a monitor without a result is due at once.
dueIn(row) ==
  IF nextRun[row.id] # None THEN nextRun[row.id]
  ELSE IF row.age = None \/ row.age >= row.m.interval THEN 0
  ELSE row.m.interval - row.age

\* One monitor of dispatchDue; the row it dispatches is the one it has read.
dispatchDue ==
  /\ sched.pc = "scan"
  /\ IF sched.list = << >> THEN sched' = Idle /\ UNCHANGED nextRun
     ELSE LET row == Head(sched.list) IN
       IF dueIn(row) > 0
       THEN /\ nextRun' = [nextRun EXCEPT ![row.id] = dueIn(row)]
            /\ sched' = [sched EXCEPT !.list = Tail(@)]
       ELSE /\ sched' = [sched EXCEPT !.pc = "dispatch", !.todo = dispatchRegions(row.m)]
            /\ UNCHANGED nextRun
  /\ UNCHANGED <<conf, edits, age, pending, busVars, faults>>

\* dispatch, per region: produce the job, then mark the region; a failed
\* produce skips the region.
dispatch ==
  /\ sched.pc = "dispatch" /\ sched.todo # << >>
  /\ LET row == Head(sched.list) IN
     \E ok \in BOOLEAN :
       /\ Call(ok)
       /\ IF ok THEN /\ Produce(Head(sched.todo), [id |-> row.id, m |-> row.m])
                     /\ sched' = [sched EXCEPT !.pc = "mark"]
          ELSE sched' = [sched EXCEPT !.todo = Tail(@)] /\ UNCHANGED stream
  /\ UNCHANGED <<conf, edits, nextRun, age, pending, work, hash>>

markScheduled ==
  /\ sched.pc = "mark"
  /\ \E ok \in BOOLEAN :
       Call(ok) /\ IF ok THEN SetScheduled(Head(sched.list).id, Head(sched.todo)) ELSE UNCHANGED hash
  /\ sched' = [sched EXCEPT !.pc = "dispatch", !.todo = Tail(@)]
  /\ UNCHANGED <<conf, edits, nextRun, age, pending, stream, work>>

\* The next run is set when every region was tried, produced or not.
setNextRun(row) == nextRun' = [nextRun EXCEPT ![row.id] = row.m.interval]
dispatched ==
  /\ sched.pc = "dispatch" /\ sched.todo = << >>
  /\ setNextRun(Head(sched.list))
  /\ sched' = [sched EXCEPT !.pc = "scan", !.list = Tail(@)]
  /\ UNCHANGED <<conf, edits, age, pending, busVars, faults>>

\* A deployment restarts the process; the map is in memory.
restartScheduler ==
  /\ Fault
  /\ sched' = Idle /\ nextRun' = [id \in Monitors |-> None]
  /\ UNCHANGED <<conf, edits, age, pending, busVars>>

-----------------------------------------------------------------------------
(* worker *)

Work(r, pc) == work[r].pc = pc /\ UNCHANGED <<conf, edits, nextRun, age, sched>>

\* The live state is written if it can be.
\* Mutant: an outcome is written only where the region still shows as running.
whileRunning(r, res, ok) ==
  IF ok /\ hash[work[r].job.id][r] = "running" THEN SetResult(work[r].job.id, r, res) ELSE UNCHANGED hash
markRunning(r, job, ok) == IF ok THEN SetRunning(job.id, r) ELSE UNCHANGED hash
markResult(r, res, ok)  == IF ok THEN SetResult(work[r].job.id, r, res) ELSE UNCHANGED hash

\* Poll hands over the oldest entry that was not acked; handle marks it running.
handle(r) ==
  /\ Work(r, "poll") /\ stream[r] # << >>
  /\ LET job == Head(stream[r]) IN
     /\ work' = [work EXCEPT ![r] = [pc |-> "check", job |-> job]]
     /\ \E ok \in BOOLEAN : Call(ok) /\ markRunning(r, job, ok)
  /\ UNCHANGED <<pending, stream>>

\* The check, and the outcome in the live state.
runCheck(r) ==
  /\ Work(r, "check")
  /\ \E w \in Worlds, ok \in BOOLEAN :
       Call(ok) /\ markResult(r, Check(work[r].job.m, w, Block, TRUE), ok)
  /\ work' = [work EXCEPT ![r].pc = "emit"]
  /\ UNCHANGED <<pending, stream>>

\* A failed emit returns an error: the entry stays and is handled again.
emit(r) ==
  /\ Work(r, "emit")
  /\ \E ok \in BOOLEAN :
       /\ Call(ok)
       /\ IF ok THEN /\ pending' = [pending EXCEPT ![work[r].job.id] = 0]
                     /\ work' = [work EXCEPT ![r].pc = "ack"]
          ELSE work' = [work EXCEPT ![r] = Free] /\ UNCHANGED pending
  /\ UNCHANGED <<stream, hash>>

\* The entry may have been trimmed while it was handled.
Acked(r) == IF stream[r] # << >> /\ Head(stream[r]) = work[r].job THEN Tail(stream[r]) ELSE stream[r]

\* handle returns nil: the snapshot and the certificate, which it stores if it
\* can, are read by nothing modelled here.
ack(r) ==
  /\ Work(r, "ack")
  /\ stream' = [stream EXCEPT ![r] = Acked(r)]
  /\ work' = [work EXCEPT ![r] = Free]
  /\ UNCHANGED <<pending, hash, faults>>

crashWorker(r) ==
  /\ work[r].pc # "poll" /\ Fault
  /\ work' = [work EXCEPT ![r] = Free]
  /\ UNCHANGED <<conf, edits, nextRun, age, pending, sched, stream, hash>>

-----------------------------------------------------------------------------
(* alerting stores the newest result; users edit monitors. *)

Persist(id) ==
  /\ pending[id] # None
  /\ age' = [age EXCEPT ![id] = pending[id]]
  /\ pending' = [pending EXCEPT ![id] = None]
  /\ UNCHANGED <<conf, edits, nextRun, sched, busVars, faults>>

Edit(id) ==
  /\ edits < MaxEdits /\ edits' = edits + 1
  /\ \E i \in 1..Len(Configs) : conf' = [conf EXCEPT ![id] = Configs[i]]
  /\ UNCHANGED <<nextRun, age, pending, sched, busVars, faults>>

Scheduler == Tick \/ dispatchDue \/ dispatch \/ markScheduled \/ dispatched
Worker(r) == handle(r) \/ runCheck(r) \/ emit(r) \/ ack(r)

Next ==
  \/ Scheduler \/ restartScheduler
  \/ \E r \in Regions : Worker(r) \/ crashWorker(r)
  \/ \E id \in Monitors : Persist(id) \/ Edit(id)

Spec ==
  /\ Init /\ [][Next]_vars
  /\ WF_vars(Scheduler)
  /\ \A r \in Regions : WF_vars(Worker(r))
  /\ \A id \in Monitors : WF_vars(Persist(id))

-----------------------------------------------------------------------------
(* Correctness. *)

\* What a list of status codes means: the set of codes it stands for.
Codes(spec) ==
  UNION {IF spec[i].kind = "range" THEN (100 * spec[i].n)..(100 * spec[i].n + 99) ELSE {spec[i].n} :
           i \in 1..Len(spec)}
Valid(m) == \A i \in 1..Len(m.expected) : m.expected[i].kind # "junk"

\* Whatever the network does during the check in flight, its verdict is right:
\* healthy exactly when the target was reached over allowed addresses only and
\* every assertion of the monitor holds (or its certificate is good for more
\* than a week, or expires this very instant), and no connection is made to a
\* blocked address even when the DNS answer changes after the first lookup or
\* a redirect leads there.
VerdictIsRight ==
  \A r \in Regions : work[r].pc = "check" =>
    \A w \in Worlds :
      LET m   == work[r].job.m
          res == Check(m, w, Block, TRUE)
          reached == /\ Block => w.lookup # {}
                     /\ \A ip \in w.lookup \cup {w.dials[i] : i \in 1..Len(w.dials)} :
                          Block => ~ isBlockedIP(ip)
                     /\ w.answer = "reply"
          holds == IF m.type = "ssl" THEN w.cert = "ok" /\ (w.days > 7 \/ w.days = 0)
                   ELSE /\ m.contains => w.read = "ok" /\ w.has
                        /\ m.expected # << >> => Valid(m) /\ w.status \in Codes(m.expected)
                        /\ m.latency # None => w.ms <= m.latency IN
      /\ res.healthy <=> reached /\ holds
      /\ (res.reason = None) <=> res.healthy
      /\ LET made == Connections(w, Block) IN
           Block => \A i \in 1..Len(made) : ~ isBlockedIP(made[i])

\* Region r is to check the monitor: one of its own, the first for a certificate.
Wanted(id, r) ==
  /\ conf[id].enabled
  /\ \E i \in 1..Len(conf[id].regions) :
       conf[id].regions[i] = r /\ (conf[id].type = "ssl" => i = 1)

\* A monitor that stays enabled is checked from every one of its regions again
\* and again: failed produces, trimmed streams, restarts of the scheduler and
\* crashes of workers delay a check and never end the checking
\* (Dispatcher.dispatchDue seeds, sets and clears the next runs).
KeepsChecking ==
  \A id \in Monitors, r \in Regions :
    []<>(~ Wanted(id, r) \/ (work[r].pc = "check" /\ work[r].job.id = id))

\* What the screens show recovers by itself: a region marked scheduled after
\* the worker was done with the job, or left running by a crash, shows an
\* outcome again.
LiveStateHeals ==
  \A id \in Monitors, r \in Regions :
    []<>(~ Wanted(id, r) \/ (r \in GetMany(id) /\ regionStatesDTO(id)[r] \in {"done", "failed"}))
=============================================================================
