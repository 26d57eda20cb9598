------------------------------ MODULE Alerting ------------------------------
(***************************************************************************)
(* The alerting service: consumers of check.results that persist each      *)
(* result, run the state machine and persist its decision, for one monitor *)
(* (results are keyed by monitor, so one monitor's results are one ordered *)
(* stream).                                                                *)
(*                                                                         *)
(* One record is handled by Runner.handle (internal/alerting/service.go)   *)
(* as four database transactions and one produce.  Each of them is an      *)
(* action here (the two reads of GetAlertState, which see two snapshots,   *)
(* are two), because the other consumers of the group, the api and a crash *)
(* can come between any two:                                               *)
(*                                                                         *)
(*    upsert -> getMonitor -> getState -> getOpen -> apply -> emit         *)
(***************************************************************************)
EXTENDS AlertEngine, ConsumerGroup, FiniteSets

CONSTANTS
  Regions,      \* regions whose workers check the monitor
  Payloads,     \* may a payload decode (TRUE), may one be malformed (FALSE)
  CertDays,     \* days left on the certificate that a result may report, or None
  Types,        \* monitor types an edit may set: "http", "ssl"
  Thresholds,   \* failure thresholds an edit may set
  MaxResults,   \* bound: results the workers publish
  MaxAt,        \* bound: the check timestamps are 1..MaxAt
  MaxEdits      \* bound: api requests on the monitor and its incidents

ASSUME BoundAssumption ==
  /\ Payloads \subseteq BOOLEAN
  /\ CertDays \subseteq Int \cup {None}
  /\ Types \subseteq {"http", "ssl"}
  /\ Thresholds \subseteq Nat \ {0}
  /\ MaxResults \in Nat /\ MaxAt \in Nat /\ MaxEdits \in Nat

VARIABLES
  rid,          \* consumer -> resultID of the record it handles
  cfg,          \* consumer -> the monitor row it loaded
  st,           \* consumer -> the alert columns it loaded
  dec,          \* consumer -> the decision it computed
  evt,          \* consumer -> the notify event it is about to produce
  mon,          \* monitors row: existence and the columns the service reads
  alert,        \* monitors row: the alert state columns
  rows,         \* check_results: row id -> index in stream
  incidents,    \* incidents: id -> row
  emitted,      \* notify.events, in produce order
  edits         \* api requests so far

locals == <<rid, cfg, st, dec, evt>>
db     == <<mon, alert, rows, incidents>>
vars   == <<stream, committed, owner, pos, fetched, pc, faults, rid, cfg, st, dec,
            evt, mon, alert, rows, incidents, emitted, edits>>

Times    == 1..MaxAt
Result   == [region : Regions, at : Times, healthy : BOOLEAN, days : CertDays,
             ok : Payloads]
Steps    == {"upsert", "getMonitor", "getState", "getOpen", "apply", "emit"}
\* The close reasons the code writes (domain.CloseDisabled is never used).
CloseReasons == {"recovered", "manual"}
Incident == [started : Times, ended : Times \cup {None},
             reason : CloseReasons \cup {None}, first : Nat]

ASSUME ReasonAssumption == None \notin CloseReasons

-----------------------------------------------------------------------------
(* Reads shared by the actions. *)

\* getOpenIncidentTx: the id of the open incident, or None.
Open(i) == i \in DOMAIN incidents /\ incidents[i].ended = None
\* Mutant of openIncident: the query forgets `ended_at IS NULL`.
lastIncident == IF incidents = <<>> THEN None ELSE Len(incidents)
openIncident ==
  IF \E i \in DOMAIN incidents : Open(i)
  THEN CHOOSE i \in DOMAIN incidents : Open(i)
  ELSE None

\* The table with row i closed.
ClosedRow(i, at, why) ==
  [incidents EXCEPT ![i] = [started |-> @.started, ended |-> at, reason |-> why,
                            first |-> @.first]]

dedupKey(i, kind, warn) == [inc |-> i, kind |-> kind, warn |-> warn]

\* What handle kept in memory is gone when it returns or the process dies.
Forget(c) ==
  /\ rid' = [rid EXCEPT ![c] = None]
  /\ cfg' = [cfg EXCEPT ![c] = None]
  /\ st'  = [st EXCEPT ![c] = None]
  /\ dec' = [dec EXCEPT ![c] = None]
  /\ evt' = [evt EXCEPT ![c] = None]

HandleOK(c)  == ReturnOK(c) /\ Forget(c)
HandleErr(c) == ReturnErr(c) /\ Forget(c)

-----------------------------------------------------------------------------
(* Runner.handle, one action per call it makes. *)

Receive(c) ==
  /\ HasRecord(c) /\ record(c).ok
  /\ Goto(c, "upsert")
  /\ UNCHANGED <<locals, db, emitted, edits, faults>>

\* A payload handle cannot decode is logged and dropped.
DropMalformed(c) ==
  /\ HasRecord(c) /\ ~record(c).ok
  /\ HandleOK(c)
  /\ UNCHANGED <<db, emitted, edits, faults>>

\* UpsertCheckResult: a redelivered result finds its row again.
UpsertCheckResult(c) ==
  /\ pc[c] = "upsert"
  /\ mon.exists
  /\ \/ /\ \E id \in DOMAIN rows : rows[id] = pos[c] /\ rid' = [rid EXCEPT ![c] = id]
        /\ UNCHANGED rows
     \/ /\ \A id \in DOMAIN rows : rows[id] # pos[c]
        /\ rows' = Append(rows, pos[c])
        /\ rid'  = [rid EXCEPT ![c] = Len(rows) + 1]
  /\ Goto(c, "getMonitor")
  /\ UNCHANGED <<cfg, st, dec, evt, mon, alert, incidents, emitted, edits, faults>>

\* The insert for a deleted monitor breaks check_results' foreign key.
UpsertOrphan(c) ==
  /\ pc[c] = "upsert"
  /\ ~mon.exists
  /\ HandleErr(c)
  /\ UNCHANGED <<db, emitted, edits, faults>>

GetMonitor(c) ==
  /\ pc[c] = "getMonitor"
  /\ mon.exists
  /\ cfg' = [cfg EXCEPT ![c] = [type |-> mon.type, threshold |-> mon.threshold]]
  /\ Goto(c, "getState")
  /\ UNCHANGED <<rid, st, dec, evt, db, emitted, edits, faults>>

\* GetAlertState, first read: the alert columns of the monitor.
GetAlertState(c) ==
  /\ pc[c] = "getState"
  /\ mon.exists
  /\ st' = [st EXCEPT ![c] = [consec |-> alert.consec, firstFail |-> alert.firstFail,
                              warned |-> alert.warned]]
  /\ Goto(c, "getOpen")
  /\ UNCHANGED <<rid, cfg, dec, evt, db, emitted, edits, faults>>

\* GetAlertState, second read: the open incident (none once the monitor's rows
\* are gone).  Then Apply decides on what was loaded.
GetOpenIncident(c) ==
  /\ pc[c] = "getOpen"
  /\ dec' = [dec EXCEPT ![c] =
               Apply(cfg[c], record(c),
                     [consec |-> st[c].consec, firstFail |-> st[c].firstFail,
                      warned |-> st[c].warned,
                      open |-> IF mon.exists THEN openIncident ELSE None])]
  /\ Goto(c, "apply")
  /\ UNCHANGED <<rid, cfg, st, evt, db, emitted, edits, faults>>

\* GetMonitor or GetAlertState found no row: the result is dropped.
MonitorGone(c) ==
  /\ pc[c] \in {"getMonitor", "getState"}
  /\ ~mon.exists
  /\ HandleOK(c)
  /\ UNCHANGED <<db, emitted, edits, faults>>

\* The watermark check inside the transaction.  Mutant: only older results are
\* skipped, so a redelivery of the last one is applied again.
SkippedIfOlder(c) == alert.watermark # None /\ rid[c] < alert.watermark
Skipped(c) == alert.watermark # None /\ rid[c] <= alert.watermark

\* The incident the transaction acted on: the inserted one (the partial unique
\* index lets no second one be open), the closed one, the renotified one.
\* Mutants: an insert that met the index, or a close that an operator won, is
\* reported as done.
AppliedConflict(d) ==
  CASE d.action = "open"  -> IF openIncident = None THEN Len(incidents) + 1 ELSE openIncident
    [] d.action = "close" -> openIncident
    [] OTHER              -> IF d.renotify THEN openIncident ELSE None
AppliedLostClose(d) ==
  CASE d.action = "open"  -> IF openIncident = None THEN Len(incidents) + 1 ELSE None
    [] d.action = "close" -> IF incidents = <<>> THEN None ELSE Len(incidents)
    [] OTHER              -> IF d.renotify THEN openIncident ELSE None
AppliedIncident(d) ==
  CASE d.action = "open"  -> IF openIncident = None THEN Len(incidents) + 1 ELSE None
    [] d.action = "close" -> openIncident
    [] OTHER              -> IF d.renotify THEN openIncident ELSE None

\* Mutant of IncidentsAfter: no unique index.
IncidentsNoIndex(d, id) ==
  CASE d.action = "open" ->
         Append(incidents, [started |-> d.startedAt, ended |-> None,
                            reason |-> None, first |-> id])
    [] d.action = "close" /\ openIncident # None ->
         ClosedRow(openIncident, d.endedAt, "recovered")
    [] OTHER -> incidents
IncidentsAfter(d, id) ==
  CASE d.action = "open" /\ openIncident = None ->
         Append(incidents, [started |-> d.startedAt, ended |-> None,
                            reason |-> None, first |-> id])
    [] d.action = "close" /\ openIncident # None ->
         ClosedRow(openIncident, d.endedAt, "recovered")
    [] OTHER -> incidents

\* ApplyAlertDecision: one transaction under the monitor row's lock.
Persist(c) ==
  /\ pc[c] = "apply"
  /\ mon.exists
  /\ ~Skipped(c)
  /\ incidents' = IncidentsAfter(dec[c], rid[c])
  /\ alert' = [consec |-> dec[c].consec, firstFail |-> dec[c].firstFail,
               watermark |-> rid[c], warned |-> dec[c].warned]
  /\ UNCHANGED <<mon, rows, emitted, edits>>

ApplyAlertDecision(c) ==
  /\ Persist(c)
  /\ LET inc == AppliedIncident(dec[c])
         n   == dec[c].notify
     IN  IF n # None /\ inc # None
           THEN /\ evt' = [evt EXCEPT ![c] = dedupKey(inc, n.type, n.warn)]
                /\ Goto(c, "emit")
                /\ UNCHANGED <<rid, cfg, st, dec>>
           ELSE HandleOK(c)
  /\ UNCHANGED faults

\* The commit is made but its answer is lost: handle returns the error.
ApplyUnsure(c) ==
  /\ Persist(c)
  /\ GoesWrong
  /\ HandleErr(c)

\* The watermark drops a redelivered or older result.
ApplySkipped(c) ==
  /\ pc[c] = "apply"
  /\ mon.exists
  /\ Skipped(c)
  /\ HandleOK(c)
  /\ UNCHANGED <<db, emitted, edits, faults>>

\* The locking read finds no monitor: an error here, not a drop.
ApplyGone(c) ==
  /\ pc[c] = "apply"
  /\ ~mon.exists
  /\ HandleErr(c)
  /\ UNCHANGED <<db, emitted, edits, faults>>

\* A Postgres call fails; its transaction rolls back.
StoreFail(c) ==
  /\ pc[c] \in {"upsert", "getMonitor", "getState", "getOpen", "apply"}
  /\ GoesWrong
  /\ HandleErr(c)
  /\ UNCHANGED <<db, emitted, edits>>

Emit(c) ==
  /\ pc[c] = "emit"
  /\ emitted' = Append(emitted, evt[c])
  /\ HandleOK(c)
  /\ UNCHANGED <<db, edits, faults>>

\* The produce fails: emit logs it and handle returns nil all the same.
EmitFail(c) ==
  /\ pc[c] = "emit"
  /\ GoesWrong
  /\ HandleOK(c)
  /\ UNCHANGED <<db, emitted, edits>>

\* Runner.Run outside handle.
PollLoop(c)  == Loop(c) /\ UNCHANGED <<locals, db, emitted, edits>>
PollFault(c) == LoopFault(c) /\ UNCHANGED <<locals, db, emitted, edits>>
Crash(c)     == Restart(c) /\ Forget(c) /\ UNCHANGED <<db, emitted, edits>>

-----------------------------------------------------------------------------
(* The workers and the api. *)

\* A worker publishes a result; one region's checks are later and later, two
\* regions' results may reach the stream out of checked_at order.
Publish ==
  /\ Len(stream) < MaxResults
  /\ \E res \in Result :
       /\ \A k \in DOMAIN stream : stream[k].region = res.region => stream[k].at < res.at
       /\ Produce(res)
  /\ UNCHANGED <<locals, db, emitted, edits>>

Request ==
  /\ edits < MaxEdits
  /\ edits' = edits + 1

\* Mutant of ManualCloseIncident: the update does not ask for an open row.
CloseAnyIncident(i, now) ==
  /\ mon.exists
  /\ Request
  /\ \A k \in DOMAIN stream : stream[k].at <= now
  /\ incidents' = ClosedRow(i, now, "manual")
  /\ UNCHANGED <<groupVars, locals, mon, alert, rows, emitted>>

\* CloseIncident: closes the row while it is open, touches neither the counters
\* nor notify.events.  The api's clock is not behind the checks already run.
ManualCloseIncident(i, now) ==
  /\ mon.exists
  /\ Open(i)
  /\ Request
  /\ \A k \in DOMAIN stream : stream[k].at <= now
  /\ incidents' = ClosedRow(i, now, "manual")
  /\ UNCHANGED <<groupVars, locals, mon, alert, rows, emitted>>

\* UpdateMonitor overwrites the editable columns only.
UpdateMonitor(type, threshold, enabled) ==
  /\ mon.exists
  /\ Request
  /\ mon' = [mon EXCEPT !.type = type, !.threshold = threshold, !.enabled = enabled]
  /\ UNCHANGED <<groupVars, locals, alert, rows, incidents, emitted>>

\* DeleteMonitor: results and incidents cascade.  Their ids are never used
\* again, so what the tables held is kept as history and `exists` hides it.
DeleteMonitor ==
  /\ mon.exists
  /\ Request
  /\ mon' = [mon EXCEPT !.exists = FALSE]
  /\ UNCHANGED <<groupVars, locals, alert, rows, incidents, emitted>>

-----------------------------------------------------------------------------
Init ==
  /\ GroupInit
  /\ rid = [c \in Consumers |-> None] /\ cfg = [c \in Consumers |-> None]
  /\ st  = [c \in Consumers |-> None]
  /\ dec = [c \in Consumers |-> None] /\ evt = [c \in Consumers |-> None]
  /\ mon \in [exists : {TRUE}, type : Types, threshold : Thresholds, enabled : {TRUE}]
  /\ alert = [consec |-> 0, firstFail |-> None, watermark |-> None, warned |-> None]
  /\ rows = <<>> /\ incidents = <<>> /\ emitted = <<>>
  /\ edits = 0

\* What a live consumer does by itself.
Work(c) ==
  \/ PollLoop(c) \/ Receive(c) \/ DropMalformed(c)
  \/ UpsertCheckResult(c) \/ UpsertOrphan(c)
  \/ GetMonitor(c) \/ GetAlertState(c) \/ GetOpenIncident(c) \/ MonitorGone(c)
  \/ ApplyAlertDecision(c) \/ ApplySkipped(c) \/ ApplyGone(c)
  \/ Emit(c)

\* What may go wrong with it.
Fault(c) ==
  \/ PollFault(c) \/ Crash(c) \/ StoreFail(c) \/ ApplyUnsure(c) \/ EmitFail(c)

Api ==
  \/ \E i \in DOMAIN incidents, now \in Times : ManualCloseIncident(i, now)
  \/ \E type \in Types, threshold \in Thresholds, enabled \in BOOLEAN :
       UpdateMonitor(type, threshold, enabled)
  \/ DeleteMonitor

Next == Publish \/ Api \/ \E c \in Consumers : Work(c) \/ Fault(c)

Spec == Init /\ [][Next]_vars

\* Run polls in a loop for as long as the process lives.
FairSpec == Spec /\ \A c \in Consumers : WF_vars(Work(c))

-----------------------------------------------------------------------------
(* Correctness. *)

MaybeNat     == Nat \cup {None}
MaybeTime    == Times \cup {None}
MaybeLevel   == WarnLevels \cup {None}
MonitorRow   == [type : Types, threshold : Thresholds]
AlertColumns == [consec : Nat, firstFail : MaybeTime, warned : MaybeLevel]
Notify       == [type : {"down", "recovery"}, warn : MaybeLevel]
Decision     == [action : {"none", "open", "close"}, consec : Nat,
                 firstFail : MaybeTime, startedAt : MaybeTime,
                 endedAt : MaybeTime, warned : MaybeLevel,
                 renotify : BOOLEAN, notify : Notify \cup {None}]
Event        == [inc : Nat \ {0}, kind : {"down", "recovery"}, warn : MaybeLevel]

ASSUME EventAssumption == None \notin Event

\* What the handlers hold in memory, and what the tables and the topic hold.
LocalsType ==
  /\ rid \in [Consumers -> MaybeNat]
  /\ cfg \in [Consumers -> MonitorRow \cup {None}]
  /\ st \in [Consumers -> AlertColumns \cup {None}]
  /\ dec \in [Consumers -> Decision \cup {None}]
  /\ evt \in [Consumers -> Event \cup {None}]

StoreType ==
  /\ mon \in [exists : BOOLEAN, type : Types, threshold : Thresholds, enabled : BOOLEAN]
  /\ alert \in [consec : Nat, firstFail : MaybeTime, watermark : MaybeNat,
                warned : MaybeLevel]
  /\ rows \in Seq(Nat) /\ \A id \in DOMAIN rows : rows[id] \in DOMAIN stream
  /\ incidents \in Seq(Incident)
  /\ emitted \in Seq(Event)
  /\ edits \in Nat

\* Every variable has its type, and the indices stay inside what they index.
TypeOK == GroupTypeOK(Result, Steps) /\ LocalsType /\ StoreType

\* A monitor has at most one open incident, whichever consumers, closes and
\* redeliveries race (ApplyAlertDecision, ManualCloseIncident).
OneOpenIncident == \A i, j \in DOMAIN incidents : Open(i) /\ Open(j) => i = j

\* A notify event with one dedup key is produced at most once, and two consumers
\* never hold the same one: redelivery, overlap and restarts are absorbed before
\* the notifier's own dedup (handle, step 6).
NotifyOnce ==
  /\ \A m, n \in DOMAIN emitted : emitted[m] = emitted[n] => m = n
  /\ \A c \in Consumers, n \in DOMAIN emitted : pc[c] = "emit" => evt[c] # emitted[n]
  /\ \A c, d \in Consumers :
       pc[c] = "emit" /\ pc[d] = "emit" /\ evt[c] = evt[d] => c = d

\* The part of NotifyOnce that is independent of certificate levels: one down
\* and one recovery per incident of an http monitor, on either bus.
PlainOnce ==
  /\ \A m, n \in DOMAIN emitted :
       emitted[m].warn = None /\ emitted[m] = emitted[n] => m = n
  /\ \A c \in Consumers, n \in DOMAIN emitted :
       pc[c] = "emit" /\ evt[c].warn = None => evt[c] # emitted[n]
  /\ \A c, d \in Consumers :
       pc[c] = "emit" /\ pc[d] = "emit" /\ evt[c].warn = None /\ evt[c] = evt[d] => c = d

\* A recovery is announced only for an incident the alerting service closed: an
\* operator's close that wins the race sends no "up" (CloseIncident).
UpOnlyIfRecovered ==
  \A n \in DOMAIN emitted :
    /\ emitted[n].inc \in DOMAIN incidents
    /\ emitted[n].kind = "recovery" => incidents[emitted[n].inc].reason = "recovered"

\* The unbroken run of failing results that ends at the watermark.
Watermark == IF alert.watermark = None THEN 0 ELSE alert.watermark
Run == {id \in 1..Watermark : \A j \in id..Watermark : ~stream[rows[j]].healthy}

\* consecutive_fails and first_fail_at are what the applied history says they
\* are: no result is counted twice, none is left out (GetAlertState ...
\* ApplyAlertDecision, with redeliveries and crashes in between).
CountersMatchHistory ==
  /\ alert.consec = Cardinality(Run)
  /\ IF Run = {} THEN alert.firstFail = None
     ELSE \A id \in Run : (\A j \in Run : id <= j) => alert.firstFail = stream[rows[id]].at

\* An open incident belongs to the failing run at the watermark: it began with
\* that run's first failure and no healthy result has been applied since.
OpenIncidentIsCurrent ==
  \A i \in DOMAIN incidents : Open(i) =>
    /\ incidents[i].first \in Run
    /\ incidents[i].started = alert.firstFail

\* What was acked has been applied: a handler error leaves the record for
\* redelivery, so no result is lost to a Postgres blip (Run, bus.Consumer.Poll).
AckedIsApplied ==
  mon.exists => \A k \in 1..committed : stream[k].ok =>
    \E id \in 1..Watermark : rows[id] = k

\* A closed incident is never reopened, closed again or edited.
ClosedIsFinal ==
  [][\A i \in DOMAIN incidents : ~Open(i) => incidents'[i] = incidents[i]]_incidents

\* The counters move only together with the watermark, forward: no result is
\* counted a second time when it is redelivered.
CountedOnce ==
  [][alert' # alert => alert.watermark = None \/ alert.watermark < alert'.watermark]_alert

\* Every published result is eventually behind the consumer group, unless the
\* monitor is deleted: the insert of a result without a monitor fails for ever.
AllProcessed == <>[](committed = Len(stream) \/ ~ mon.exists)

-----------------------------------------------------------------------------
(* What the documents promise and the code does not keep: the property of a  *)
(* run that is expected to find a counterexample.                            *)

\* RFC-006 5.4 and the comment on emit: a crash or a failed produce after the
\* commit does not lose the notification, because a redelivery emits it again.
NotificationNotLost ==
  Settled => \A i \in DOMAIN incidents :
               \E n \in DOMAIN emitted : emitted[n].inc = i /\ emitted[n].kind = "down"
=============================================================================
