--------------------------- MODULE AlertingProofs ---------------------------
(***************************************************************************)
(* The safety of the alerting service.                                     *)
(*                                                                         *)
(* For every bus, any number of consumers, results, faults and edits:      *)
(* OneOpenIncident, PlainOnce and UpOnlyIfRecovered are not inductive: a   *)
(* step of handle relies on what the earlier steps of the same handle left *)
(* in the consumer's memory.  Inv adds that (LocalsOK), that a decision    *)
(* announces what it does (DecisionOK), that a recovered incident is       *)
(* closed, and that an event not yet produced is as good as a produced one.*)
(*                                                                         *)
(* On Redis, where one consumer with a stable name reads the stream and an *)
(* entry is acked by itself, also: for any results, faults and edits the   *)
(* counters are what the history of results says, nothing acked is left    *)
(* out, and the whole of Runner.handle implements module AlertService, one *)
(* atomic step for each result.  RedisInv says how the tables, the         *)
(* watermark and the consumer's position hang together between any two of  *)
(* handle's calls.                                                         *)
(***************************************************************************)
EXTENDS AlertingRefinement, ConsumerGroupProofs, FiniteSetTheorems, SequenceTheorems, TLAPS

\* What Apply promises about a decision: the fields an action needs are set,
\* and "recovery" or a down without a certificate level is announced only
\* together with the close or the open.
DecisionOK(d) ==
  /\ d \in Decision
  /\ d.action = "open" => d.startedAt \in Times /\ ~d.renotify
  /\ d.action = "close" => d.endedAt \in Times /\ ~d.renotify
  /\ d.notify # None =>
       /\ d.action = "open" => d.notify.type = "down"
       /\ d.action = "close" => d.notify.type = "recovery"
       /\ d.action = "none" => d.renotify /\ d.notify.type = "down" /\ d.notify.warn # None

\* What the steps of handle behind pc[c] have left for the ones before it.
LocalOK(c) ==
  /\ pc[c] \in {"getMonitor", "getState", "getOpen", "apply"} => rid[c] \in Nat
  /\ pc[c] \in {"getState", "getOpen"} => cfg[c] \in MonitorRow
  /\ pc[c] = "getOpen" => st[c] \in AlertColumns
  /\ pc[c] = "apply" => DecisionOK(dec[c])
  /\ pc[c] = "emit" => evt[c] \in Event

LocalsOK == \A c \in Consumers : LocalOK(c)

RecoveredIsClosed ==
  \A i \in DOMAIN incidents : incidents[i].reason = "recovered" => incidents[i].ended # None

\* A produced or pending event names an incident and does not lie about it.
EventOK(e, incs) ==
  /\ e.inc \in DOMAIN incs
  /\ e.kind = "recovery" => incs[e.inc].reason = "recovered"

EventsOK ==
  /\ \A n \in DOMAIN emitted : EventOK(emitted[n], incidents)
  /\ \A c \in Consumers : pc[c] = "emit" => EventOK(evt[c], incidents)

IncidentsOK == OneOpenIncident /\ RecoveredIsClosed

Inv == TypeOK /\ LocalsOK /\ IncidentsOK /\ EventsOK /\ PlainOnce

-----------------------------------------------------------------------------
(* The state machine. *)

\* A warning level is one of the thresholds, 0 or -1 (domain.SSLWarnLevel).
LEMMA LevelType ==
  ASSUME NEW res \in Result
  PROVE  sslLevel(res) \in WarnLevels
<1> DEFINE crossed == {t \in SSLWarnThresholds : res.days <= t}
<1>1. CASE res.days = None
  BY <1>1 DEF sslLevel, WarnLevels
<1>2. CASE res.days # None
  <2>1. res.days \in Int
    BY <1>2, BoundAssumption DEF Result
  <2>2. CASE crossed # {}
    <3>1. PICK least \in crossed : \A u \in crossed : least <= u
      BY <2>1, <2>2 DEF SSLWarnThresholds
    <3>2. (CHOOSE t \in crossed : \A u \in crossed : t <= u) \in crossed
      BY <3>1
    <3> QED BY <1>2, <3>2 DEF sslLevel, SSLWarnLevel, WarnLevels
  <2>3. CASE crossed = {}
    BY <1>2, <2>3 DEF sslLevel, SSLWarnLevel, WarnLevels
  <2> QED BY <2>2, <2>3
<1> QED BY <1>1, <1>2

\* The alert state as GetAlertState hands it to Apply.
AlertState == [consec : Nat, firstFail : MaybeTime, warned : MaybeLevel, open : MaybeNat]

\* Engine.applyHealthy closes and announces the recovery, or does nothing.
LEMMA HealthyDecision ==
  ASSUME NEW res \in Result, NEW state \in AlertState
  PROVE  DecisionOK(applyHealthy(res, state))
<1>1. res.at \in Times
  BY DEF Result
<1> QED BY <1>1 DEF applyHealthy, NotifyEvent, DecisionOK, Decision, Notify,
                    MaybeTime, MaybeLevel

\* Engine.applyUnhealthy counts, opens, or warns of a certificate level.
LEMMA UnhealthyDecision ==
  ASSUME NEW m \in MonitorRow, NEW res \in Result, NEW state \in AlertState
  PROVE  DecisionOK(applyUnhealthy(m, res, state))
<1>1. /\ res.at \in Times /\ state.consec + 1 \in Nat
      /\ firstFailAt(res, state) \in MaybeTime /\ state.warned \in MaybeLevel
  BY DEF Result, AlertState, MaybeTime, firstFailAt
<1>2. sslLevel(res) \in MaybeLevel /\ sslLevel(res) # None
  BY LevelType, NoneAssumption DEF MaybeLevel, WarnLevels, SSLWarnThresholds
<1> QED BY <1>1, <1>2 DEF applyUnhealthy, NotifyEvent, DecisionOK, Decision, Notify,
                          MaybeTime, MaybeLevel

\* Engine.Apply on any state GetAlertState can return.
LEMMA ApplyDecision ==
  ASSUME NEW m \in MonitorRow, NEW res \in Result, NEW state \in AlertState
  PROVE  DecisionOK(Apply(m, res, state))
  BY HealthyDecision, UnhealthyDecision DEF Apply

-----------------------------------------------------------------------------
(* The store. *)

\* getOpenIncidentTx returns nil or an open row.
LEMMA OpenIncidentFact ==
  /\ openIncident # None => Open(openIncident)
  /\ openIncident = None /\ incidents \in Seq(Incident) => \A i \in DOMAIN incidents : ~Open(i)
<1>1. CASE \E i \in DOMAIN incidents : Open(i)
  <2>1. Open(openIncident) /\ openIncident \in DOMAIN incidents
    BY <1>1 DEF openIncident
  <2>2. incidents \in Seq(Incident) => openIncident # None
    BY <2>1, NoneAssumption
  <2> QED BY <2>1, <2>2
<1>2. CASE ~ \E i \in DOMAIN incidents : Open(i)
  BY <1>2 DEF openIncident
<1> QED BY <1>1, <1>2

\* The committed transaction inserts one open row when there was none, closes
\* the open row, or leaves the table alone; closed rows stay as they are.
LEMMA PersistIncidents ==
  ASSUME incidents \in Seq(Incident), NEW d, DecisionOK(d), NEW id \in Nat,
         incidents' = IncidentsAfter(d, id)
  PROVE  /\ d.action = "open" /\ openIncident = None =>
              incidents' = Append(incidents, [started |-> d.startedAt, ended |-> None,
                                              reason |-> None, first |-> id])
         /\ d.action = "close" /\ openIncident # None =>
              incidents' = ClosedRow(openIncident, d.endedAt, "recovered")
         /\ ~(d.action = "open" /\ openIncident = None)
            /\ ~(d.action = "close" /\ openIncident # None) => incidents' = incidents
  BY DEF IncidentsAfter

\* What no write to the incidents table does: drop a row or touch a closed one.
IncidentStep ==
  /\ incidents' \in Seq(Incident)
  /\ DOMAIN incidents \subseteq DOMAIN incidents'
  /\ \A i \in DOMAIN incidents : ~Open(i) => incidents'[i] = incidents[i]

\* The insert that met no conflict.
LEMMA InsertRow ==
  ASSUME incidents \in Seq(Incident), IncidentsOK, openIncident = None,
         NEW t \in Times, NEW id \in Nat,
         incidents' = Append(incidents, [started |-> t, ended |-> None,
                                         reason |-> None, first |-> id])
  PROVE  IncidentStep /\ IncidentsOK' /\ Len(incidents) + 1 \in DOMAIN incidents'
<1> DEFINE row == [started |-> t, ended |-> None, reason |-> None, first |-> id]
<1>1. row \in Incident /\ row.reason # "recovered"
  BY ReasonAssumption DEF Incident, CloseReasons
<1>2. /\ incidents' \in Seq(Incident) /\ Len(incidents') = Len(incidents) + 1
      /\ \A i \in DOMAIN incidents : incidents'[i] = incidents[i]
      /\ incidents'[Len(incidents) + 1] = row
  BY <1>1
<1>3. \A i \in DOMAIN incidents : ~Open(i)
  BY OpenIncidentFact
<1>4. DOMAIN incidents = 1..Len(incidents) /\ DOMAIN incidents' = 1..(Len(incidents) + 1)
      /\ Len(incidents) \in Nat
  BY <1>2
<1> HIDE DEF row
<1>5. \A i \in DOMAIN incidents' : i \in DOMAIN incidents \/ i = Len(incidents) + 1
  BY <1>4
<1>6. RecoveredIsClosed'
  BY <1>1, <1>2, <1>5 DEF RecoveredIsClosed, IncidentsOK
<1>7. OneOpenIncident'
  BY <1>2, <1>3, <1>5 DEF OneOpenIncident, Open
<1> QED BY <1>2, <1>4, <1>6, <1>7 DEF IncidentStep, IncidentsOK

\* The close, by recovery or by an operator.
LEMMA CloseRow ==
  ASSUME incidents \in Seq(Incident), IncidentsOK,
         NEW k, Open(k), NEW t \in Times, NEW r \in {"recovered", "manual"},
         incidents' = ClosedRow(k, t, r)
  PROVE  IncidentStep /\ IncidentsOK' /\ incidents'[k].reason = r
<1> DEFINE row == [started |-> incidents[k].started, ended |-> t, reason |-> r,
                   first |-> incidents[k].first]
<1>1. k \in DOMAIN incidents /\ incidents[k] \in Incident
  BY DEF Open
<1>2. row \in Incident /\ row.ended # None /\ row.reason = r
  BY <1>1, NoneAssumption DEF Incident, CloseReasons, Times
<1> HIDE DEF row
<1>3. incidents' = [incidents EXCEPT ![k] = row]
  BY <1>1 DEF ClosedRow, row
<1>4. incidents' \in Seq(Incident) /\ DOMAIN incidents' = DOMAIN incidents
  BY <1>1, <1>2, <1>3
<1>5. incidents'[k] = row /\ \A i \in DOMAIN incidents : i # k => incidents'[i] = incidents[i]
  BY <1>1, <1>3
<1>6. RecoveredIsClosed'
  BY <1>2, <1>4, <1>5 DEF RecoveredIsClosed, IncidentsOK
<1>7. OneOpenIncident'
  BY <1>2, <1>4, <1>5 DEF OneOpenIncident, Open, IncidentsOK
<1>8. \A i \in DOMAIN incidents : ~Open(i) => incidents'[i] = incidents[i]
  BY <1>5
<1> QED BY <1>2, <1>4, <1>5, <1>6, <1>7, <1>8 DEF IncidentStep, IncidentsOK

\* What was announced of an incident stays true of it.
LEMMA EventStays ==
  ASSUME IncidentStep, IncidentsOK, NEW e, EventOK(e, incidents)
  PROVE  EventOK(e, incidents')
  BY DEF IncidentStep, IncidentsOK, RecoveredIsClosed, EventOK, Open

\* A step that announces nothing new leaves every announcement in order.
LEMMA NothingAnnounced ==
  ASSUME IncidentsOK, EventsOK, PlainOnce, IncidentStep, emitted' = emitted,
         \A c \in Consumers : pc'[c] = "emit" => pc[c] = "emit" /\ evt'[c] = evt[c]
  PROVE  EventsOK' /\ PlainOnce'
<1>1. EventsOK'
  BY EventStays DEF EventsOK
<1>2. PlainOnce'
  BY DEF PlainOnce
<1> QED BY <1>1, <1>2

-----------------------------------------------------------------------------
(* The handler. *)

\* What handle kept in memory is dropped, and no other consumer's memory moves.
LEMMA ForgetStep ==
  ASSUME Inv, NEW c \in Consumers, Forget(c),
         pc' = [pc EXCEPT ![c] = "idle"] \/ pc' = [pc EXCEPT ![c] = "ack"]
  PROVE  /\ LocalsType' /\ LocalsOK' /\ pc'[c] # "emit"
         /\ \A d \in Consumers \ {c} : pc'[d] = pc[d] /\ evt'[d] = evt[d]
<1>1. /\ rid' = [rid EXCEPT ![c] = None] /\ cfg' = [cfg EXCEPT ![c] = None]
      /\ st' = [st EXCEPT ![c] = None] /\ dec' = [dec EXCEPT ![c] = None]
      /\ evt' = [evt EXCEPT ![c] = None]
  BY DEF Forget
<1>2. LocalsType'
  BY <1>1 DEF Inv, TypeOK, LocalsType, MaybeNat
<1>3. /\ pc'[c] \in {"idle", "ack"}
      /\ \A d \in Consumers \ {c} : /\ pc'[d] = pc[d] /\ rid'[d] = rid[d] /\ cfg'[d] = cfg[d]
                                    /\ st'[d] = st[d] /\ dec'[d] = dec[d] /\ evt'[d] = evt[d]
  BY <1>1 DEF Inv, TypeOK, GroupTypeOK, LocalsType
<1>4. LocalsOK'
  <2> SUFFICES ASSUME NEW d \in Consumers PROVE LocalOK(d)'
    BY DEF LocalsOK
  <2>1. CASE d = c
    BY <1>3, <2>1 DEF LocalOK
  <2>2. CASE d # c
    BY <1>3, <2>2 DEF LocalOK, Inv, LocalsOK
  <2> QED BY <2>1, <2>2
<1> QED BY <1>2, <1>3, <1>4

\* handle returns: the consumer leaves its record and forgets its locals.
LEMMA HandleReturns ==
  ASSUME Inv, NEW c \in Consumers, pos[c] <= fetched[c],
         HandleOK(c) \/ HandleErr(c),
         faults' \in Nat, StoreType', IncidentStep, IncidentsOK', emitted' = emitted
  PROVE  Inv'
<1>1. GroupTypeOK(Result, Steps)'
  BY ReturnOKType, ReturnErrType DEF Inv, TypeOK, HandleOK, HandleErr
<1>2. Forget(c) /\ (pc' = [pc EXCEPT ![c] = "idle"] \/ pc' = [pc EXCEPT ![c] = "ack"])
  BY DEF HandleOK, HandleErr, ReturnOK, ReturnErr
<1>3. EventsOK' /\ PlainOnce'
  BY <1>2, ForgetStep, NothingAnnounced DEF Inv
<1> QED BY <1>1, <1>2, <1>3, ForgetStep DEF Inv, TypeOK

\* handle goes on to another step before the emit, with its own locals set.
LEMMA HandleGoesOn ==
  ASSUME Inv, NEW c \in Consumers, pos[c] <= fetched[c],
         NEW step \in Steps \ {"emit"}, Goto(c, step), LocalsType', LocalOK(c)',
         \A d \in Consumers \ {c} : /\ rid'[d] = rid[d] /\ cfg'[d] = cfg[d]
                                    /\ st'[d] = st[d] /\ dec'[d] = dec[d],
         UNCHANGED <<evt, incidents, emitted, faults>>, StoreType'
  PROVE  Inv'
<1>1. GroupTypeOK(Result, Steps)'
  <2>1. faults' \in Nat
    BY DEF Inv, TypeOK, GroupTypeOK
  <2> QED BY <2>1, GotoType DEF Inv, TypeOK
<1>2. pc'[c] = step /\ \A d \in Consumers \ {c} : pc'[d] = pc[d]
  BY DEF Goto, Inv, TypeOK, GroupTypeOK
<1>3. LocalsOK'
  <2> SUFFICES ASSUME NEW d \in Consumers, d # c PROVE LocalOK(d)'
    BY DEF LocalsOK
  <2> QED BY <1>2 DEF LocalOK, Inv, LocalsOK
<1>4. IncidentStep /\ IncidentsOK'
  BY DEF Inv, TypeOK, StoreType, IncidentStep, IncidentsOK, OneOpenIncident,
         RecoveredIsClosed, Open
<1>5. EventsOK' /\ PlainOnce'
  BY <1>2, <1>4, NothingAnnounced DEF Inv
<1> QED BY <1>1, <1>3, <1>4, <1>5 DEF Inv, TypeOK

\* ApplyAlertDecision, the rows it writes: whatever the decision was computed
\* from, the tables it meets are left in order, and the incident it acted on is
\* one the decision's announcement is true of.
LEMMA PersistStep ==
  ASSUME Inv, NEW c \in Consumers, Persist(c), stream' = stream
  PROVE  /\ StoreType' /\ IncidentStep /\ IncidentsOK' /\ emitted' = emitted
         /\ dec[c].notify # None /\ AppliedIncident(dec[c]) # None =>
              LET e == dedupKey(AppliedIncident(dec[c]), dec[c].notify.type, dec[c].notify.warn)
              IN  /\ e \in Event
                  /\ EventOK(e, incidents')
                  /\ e.warn = None => ~EventOK(e, incidents)
<1> DEFINE d == dec[c]
           e == dedupKey(AppliedIncident(d), d.notify.type, d.notify.warn)
<1>1. /\ incidents \in Seq(Incident) /\ IncidentsOK /\ rid[c] \in Nat /\ DecisionOK(d)
      /\ incidents' = IncidentsAfter(d, rid[c]) /\ emitted' = emitted
  BY DEF Inv, TypeOK, StoreType, LocalsOK, LocalOK, Persist
<1>2. incidents' \in Seq(Incident) => StoreType'
  <2>1. alert' \in [consec : Nat, firstFail : MaybeTime, watermark : MaybeNat,
                    warned : MaybeLevel]
    BY <1>1 DEF Persist, DecisionOK, Decision, MaybeNat
  <2> QED BY <2>1 DEF Inv, TypeOK, StoreType, Persist
<1> HIDE DEF d
<1>3. CASE d.action = "open" /\ openIncident = None
  <2>1. d.startedAt \in Times
    BY <1>1, <1>3 DEF DecisionOK
  <2>2. incidents' = Append(incidents, [started |-> d.startedAt, ended |-> None,
                                        reason |-> None, first |-> rid[c]])
    BY <1>1, <1>3, PersistIncidents
  <2>3. IncidentStep /\ IncidentsOK' /\ Len(incidents) + 1 \in DOMAIN incidents'
    BY <1>1, <1>3, <2>1, <2>2, InsertRow
  <2>4. AppliedIncident(d) = Len(incidents) + 1
    BY <1>3 DEF AppliedIncident
  <2>5. ASSUME d.notify # None
        PROVE  e \in Event /\ EventOK(e, incidents') /\ ~EventOK(e, incidents)
    <3>1. d.notify \in Notify /\ d.notify.type = "down"
      BY <1>1, <1>3, <2>5 DEF DecisionOK, Decision
    <3>2. e = [inc |-> Len(incidents) + 1, kind |-> "down", warn |-> d.notify.warn]
      BY <2>4, <3>1 DEF dedupKey
    <3>3. Len(incidents) + 1 \in Nat \ {0} /\ Len(incidents) + 1 \notin DOMAIN incidents
      BY <1>1
    <3> QED BY <2>3, <3>1, <3>2, <3>3 DEF Event, Notify, EventOK
  <2> QED BY <1>1, <1>2, <2>3, <2>5 DEF IncidentStep, d
<1>4. CASE d.action = "close" /\ openIncident # None
  <2>1. d.endedAt \in Times /\ Open(openIncident)
    BY <1>1, <1>4, OpenIncidentFact DEF DecisionOK
  <2>2. incidents' = ClosedRow(openIncident, d.endedAt, "recovered")
    BY <1>1, <1>4, PersistIncidents
  <2>3. IncidentStep /\ IncidentsOK' /\ incidents'[openIncident].reason = "recovered"
    BY <1>1, <2>1, <2>2, CloseRow
  <2>4. AppliedIncident(d) = openIncident
    BY <1>4 DEF AppliedIncident
  <2>5. ASSUME d.notify # None
        PROVE  e \in Event /\ EventOK(e, incidents') /\ ~EventOK(e, incidents)
    <3>1. d.notify \in Notify /\ d.notify.type = "recovery"
      BY <1>1, <1>4, <2>5 DEF DecisionOK, Decision
    <3>2. e = [inc |-> openIncident, kind |-> "recovery", warn |-> d.notify.warn]
      BY <2>4, <3>1 DEF dedupKey
    <3>3. openIncident \in DOMAIN incidents /\ openIncident \in Nat \ {0}
      BY <1>1, <2>1 DEF Open
    <3>4. incidents[openIncident].reason # "recovered"
      BY <1>1, <2>1 DEF Open, IncidentsOK, RecoveredIsClosed
    <3>5. openIncident \in DOMAIN incidents'
      BY <2>3, <3>3 DEF IncidentStep
    <3> QED BY <2>3, <3>1, <3>2, <3>3, <3>4, <3>5 DEF Event, Notify, EventOK
  <2> QED BY <1>1, <1>2, <2>3, <2>5 DEF IncidentStep, d
<1>5. CASE ~(d.action = "open" /\ openIncident = None) /\ ~(d.action = "close" /\ openIncident # None)
  <2>0. incidents' = incidents
    BY <1>1, <1>5, PersistIncidents
  <2>1. IncidentStep /\ IncidentsOK'
    BY <1>1, <2>0 DEF IncidentStep, IncidentsOK, OneOpenIncident, RecoveredIsClosed, Open
  <2>2. ASSUME d.notify # None, AppliedIncident(d) # None
        PROVE  e \in Event /\ EventOK(e, incidents') /\ e.warn # None
    <3>1. d.action = "none" /\ d.renotify /\ AppliedIncident(d) = openIncident
      BY <1>1, <1>5, <2>2 DEF AppliedIncident, DecisionOK, Decision
    <3>2. d.notify \in Notify /\ d.notify.type = "down" /\ d.notify.warn # None
      BY <1>1, <2>2, <3>1 DEF DecisionOK, Decision
    <3>3. openIncident \in DOMAIN incidents /\ openIncident \in Nat \ {0}
      BY <1>1, <2>2, <3>1, OpenIncidentFact DEF Open
    <3>4. e = [inc |-> openIncident, kind |-> "down", warn |-> d.notify.warn]
      BY <3>1, <3>2 DEF dedupKey
    <3> QED BY <2>0, <3>2, <3>3, <3>4 DEF Event, Notify, EventOK
  <2> QED BY <1>1, <1>2, <2>1, <2>2 DEF IncidentStep, d
<1> QED BY <1>3, <1>4, <1>5

\* A step that writes no table keeps them well typed and every incident as it is.
LEMMA TablesStay ==
  ASSUME Inv, UNCHANGED <<stream, mon, alert, rows, incidents, emitted, edits>>
  PROVE  StoreType' /\ IncidentStep /\ IncidentsOK'
  BY DEF Inv, TypeOK, StoreType, IncidentStep, IncidentsOK, OneOpenIncident,
         RecoveredIsClosed, Open

\* A consumer inside handle has its record in the batch it fetched.
LEMMA OnItsRecord ==
  ASSUME Inv, NEW c \in Consumers, pc[c] # "idle" \/ HasRecord(c)
  PROVE  /\ pos[c] <= fetched[c] /\ pos[c] \in DOMAIN stream
         /\ record(c) \in Result /\ faults \in Nat
<1>1. pos[c] \in Nat \ {0} /\ pos[c] <= fetched[c] /\ fetched[c] \in Nat
      /\ fetched[c] <= Len(stream) /\ stream \in Seq(Result) /\ faults \in Nat
  BY DEF Inv, TypeOK, GroupTypeOK, HasRecord
<1>2. pos[c] \in DOMAIN stream
  BY <1>1
<1> QED BY <1>1, <1>2 DEF record

\* The steps of handle that read: each leaves for the next what it needs.
LEMMA ReadSteps ==
  ASSUME Inv, NEW c \in Consumers,
         \/ Receive(c) \/ UpsertCheckResult(c) \/ GetMonitor(c)
         \/ GetAlertState(c) \/ GetOpenIncident(c)
  PROVE  Inv'
<1>0. LocalsType /\ LocalOK(c) /\ StoreType /\ GroupTypeOK(Result, Steps)
  BY DEF Inv, TypeOK, LocalsOK
<1>1. CASE Receive(c)
  <2>1. Goto(c, "upsert") /\ UNCHANGED <<locals, db, emitted, edits, faults>> /\ stream' = stream
    BY <1>1 DEF Receive, Goto
  <2>2. pc'[c] = "upsert" /\ LocalsType'
    BY <1>0, <2>1 DEF Goto, GroupTypeOK, LocalsType, locals
  <2>3. LocalOK(c)'
    BY <2>2 DEF LocalOK
  <2>4. pos[c] <= fetched[c] /\ StoreType'
    BY <1>1, <2>1, OnItsRecord, TablesStay DEF Receive, db
  <2> QED BY <2>1, <2>2, <2>3, <2>4, HandleGoesOn DEF Steps, locals, db
<1>2. CASE UpsertCheckResult(c)
  <2>1. /\ Goto(c, "getMonitor") /\ stream' = stream /\ pc[c] # "idle"
        /\ UNCHANGED <<cfg, st, dec, evt, mon, alert, incidents, emitted, edits, faults>>
    BY <1>2 DEF UpsertCheckResult, Goto
  <2>2. pos[c] <= fetched[c] /\ pos[c] \in DOMAIN stream /\ pos[c] \in Nat
    BY <1>0, <2>1, OnItsRecord DEF GroupTypeOK
  <2>3. PICK id \in Nat : /\ rid' = [rid EXCEPT ![c] = id]
                          /\ rows' \in Seq(Nat) /\ \A k \in DOMAIN rows' : rows'[k] \in DOMAIN stream
    <3>1. CASE \E id \in DOMAIN rows : rows[id] = pos[c] /\ rid' = [rid EXCEPT ![c] = id] /\ UNCHANGED rows
      <4>1. PICK id \in DOMAIN rows : rid' = [rid EXCEPT ![c] = id] /\ rows' = rows
        BY <3>1
      <4>2. id \in Nat /\ rows \in Seq(Nat) /\ \A k \in DOMAIN rows : rows[k] \in DOMAIN stream
        BY <1>0 DEF StoreType
      <4> QED BY <4>1, <4>2
    <3>2. CASE rows' = Append(rows, pos[c]) /\ rid' = [rid EXCEPT ![c] = Len(rows) + 1]
      <4>1. rows \in Seq(Nat) /\ \A k \in DOMAIN rows : rows[k] \in DOMAIN stream
        BY <1>0 DEF StoreType
      <4>2. /\ rows' \in Seq(Nat) /\ Len(rows) \in Nat /\ Len(rows') = Len(rows) + 1
            /\ \A k \in 1..Len(rows) : rows'[k] = rows[k]
            /\ rows'[Len(rows) + 1] = pos[c]
        BY <2>2, <3>2, <4>1
      <4>3. \A k \in DOMAIN rows' : rows'[k] \in DOMAIN stream
        <5> SUFFICES ASSUME NEW k \in DOMAIN rows' PROVE rows'[k] \in DOMAIN stream
          OBVIOUS
        <5>1. CASE k = Len(rows) + 1
          BY <2>2, <4>2, <5>1
        <5>2. CASE k # Len(rows) + 1
          <6>1. k \in 1..Len(rows) /\ k \in DOMAIN rows
            BY <4>1, <4>2, <5>2
          <6> QED BY <4>1, <4>2, <6>1
        <5> QED BY <5>1, <5>2
      <4>4. Len(rows) + 1 \in Nat /\ rows' \in Seq(Nat)
        BY <4>2
      <4> QED BY <3>2, <4>3, <4>4
    <3> QED BY <1>2, <3>1, <3>2 DEF UpsertCheckResult
  <2>4. LocalsType' /\ rid'[c] \in Nat /\ \A d \in Consumers \ {c} : rid'[d] = rid[d]
    BY <1>0, <2>1, <2>3 DEF LocalsType, MaybeNat
  <2>5. pc'[c] = "getMonitor"
    BY <1>0, <2>1 DEF Goto, GroupTypeOK
  <2>6. LocalOK(c)'
    BY <2>4, <2>5 DEF LocalOK
  <2>7. StoreType'
    BY <1>0, <2>1, <2>3 DEF StoreType
  <2> QED BY <2>1, <2>2, <2>4, <2>6, <2>7, HandleGoesOn DEF Steps
<1>3. CASE GetMonitor(c)
  <2>1. /\ pc[c] = "getMonitor" /\ Goto(c, "getState") /\ stream' = stream
        /\ cfg' = [cfg EXCEPT ![c] = [type |-> mon.type, threshold |-> mon.threshold]]
        /\ UNCHANGED <<rid, st, dec, evt, db, emitted, edits, faults>>
    BY <1>3 DEF GetMonitor, Goto
  <2>2. [type |-> mon.type, threshold |-> mon.threshold] \in MonitorRow
    BY <1>0 DEF StoreType, MonitorRow
  <2>3. LocalsType' /\ cfg'[c] \in MonitorRow /\ \A d \in Consumers \ {c} : cfg'[d] = cfg[d]
    BY <1>0, <2>1, <2>2 DEF LocalsType
  <2>4. pc'[c] = "getState"
    BY <1>0, <2>1 DEF Goto, GroupTypeOK
  <2>5. LocalOK(c)'
    BY <1>0, <2>1, <2>3, <2>4 DEF LocalOK
  <2>6. pos[c] <= fetched[c] /\ StoreType'
    BY <2>1, OnItsRecord, TablesStay DEF db
  <2> QED BY <2>1, <2>3, <2>5, <2>6, HandleGoesOn DEF Steps, db
<1>4. CASE GetAlertState(c)
  <2>1. /\ pc[c] = "getState" /\ Goto(c, "getOpen") /\ stream' = stream
        /\ st' = [st EXCEPT ![c] = [consec |-> alert.consec, firstFail |-> alert.firstFail,
                                    warned |-> alert.warned]]
        /\ UNCHANGED <<rid, cfg, dec, evt, db, emitted, edits, faults>>
    BY <1>4 DEF GetAlertState, Goto
  <2>2. [consec |-> alert.consec, firstFail |-> alert.firstFail, warned |-> alert.warned]
          \in AlertColumns
    BY <1>0 DEF StoreType, AlertColumns
  <2>3. LocalsType' /\ st'[c] \in AlertColumns /\ \A d \in Consumers \ {c} : st'[d] = st[d]
    BY <1>0, <2>1, <2>2 DEF LocalsType
  <2>4. pc'[c] = "getOpen"
    BY <1>0, <2>1 DEF Goto, GroupTypeOK
  <2>5. LocalOK(c)'
    BY <1>0, <2>1, <2>3, <2>4 DEF LocalOK
  <2>6. pos[c] <= fetched[c] /\ StoreType'
    BY <2>1, OnItsRecord, TablesStay DEF db
  <2> QED BY <2>1, <2>3, <2>5, <2>6, HandleGoesOn DEF Steps, db
<1>5. CASE GetOpenIncident(c)
  <2> DEFINE state == [consec |-> st[c].consec, firstFail |-> st[c].firstFail,
                       warned |-> st[c].warned,
                       open |-> IF mon.exists THEN openIncident ELSE None]
             d == Apply(cfg[c], record(c), state)
  <2>1. /\ pc[c] = "getOpen" /\ Goto(c, "apply") /\ stream' = stream
        /\ dec' = [dec EXCEPT ![c] = d]
        /\ UNCHANGED <<rid, cfg, st, evt, db, emitted, edits, faults>>
    BY <1>5 DEF GetOpenIncident, Goto
  <2>2. openIncident \in MaybeNat
    BY <1>0, OpenIncidentFact DEF StoreType, MaybeNat, Open
  <2>3. state \in AlertState
    BY <1>0, <2>1, <2>2 DEF LocalOK, AlertColumns, AlertState, MaybeNat
  <2>4. DecisionOK(d)
    <3>1. cfg[c] \in MonitorRow /\ record(c) \in Result
      BY <1>0, <2>1, OnItsRecord DEF LocalOK
    <3> HIDE DEF state
    <3> QED BY <2>3, <3>1, ApplyDecision
  <2> HIDE DEF d, state
  <2>5. LocalsType' /\ dec'[c] = d /\ \A k \in Consumers \ {c} : dec'[k] = dec[k]
    BY <1>0, <2>1, <2>4 DEF LocalsType, DecisionOK
  <2>6. pc'[c] = "apply"
    BY <1>0, <2>1 DEF Goto, GroupTypeOK
  <2>7. LocalOK(c)'
    BY <1>0, <2>1, <2>4, <2>5, <2>6 DEF LocalOK
  <2>8. pos[c] <= fetched[c] /\ StoreType'
    BY <2>1, OnItsRecord, TablesStay DEF db
  <2> QED BY <2>1, <2>5, <2>7, <2>8, HandleGoesOn DEF Steps, db
<1> QED BY <1>1, <1>2, <1>3, <1>4, <1>5

\* The ways handle returns without touching a table: a drop or an error.
LEMMA ReturnSteps ==
  ASSUME Inv, NEW c \in Consumers,
         \/ DropMalformed(c) \/ UpsertOrphan(c) \/ MonitorGone(c)
         \/ ApplySkipped(c) \/ ApplyGone(c) \/ StoreFail(c) \/ EmitFail(c)
  PROVE  Inv'
<1>1. /\ pc[c] # "idle" \/ HasRecord(c)
      /\ HandleOK(c) \/ HandleErr(c)
      /\ UNCHANGED <<db, emitted, edits>>
      /\ faults' = faults \/ faults' = faults + 1
  BY DEF DropMalformed, UpsertOrphan, MonitorGone, ApplySkipped, ApplyGone, StoreFail,
         EmitFail, GoesWrong
<1>2. pos[c] <= fetched[c] /\ faults' \in Nat
  BY <1>1, OnItsRecord
<1>3. stream' = stream
  BY <1>1 DEF HandleOK, HandleErr, ReturnOK, ReturnErr
<1>4. StoreType' /\ IncidentStep /\ IncidentsOK'
  BY <1>1, <1>3, TablesStay DEF db
<1> QED BY <1>1, <1>2, <1>4, HandleReturns

\* ApplyAlertDecision, whether its answer arrives or is lost.
LEMMA ApplySteps ==
  ASSUME Inv, NEW c \in Consumers, ApplyAlertDecision(c) \/ ApplyUnsure(c)
  PROVE  Inv'
<1> DEFINE e == dedupKey(AppliedIncident(dec[c]), dec[c].notify.type, dec[c].notify.warn)
<1>1. Persist(c) /\ pc[c] = "apply" /\ stream' = stream
  BY DEF ApplyAlertDecision, ApplyUnsure, Persist, HandleOK, HandleErr, ReturnOK, ReturnErr, Goto
<1>2. StoreType' /\ IncidentStep /\ IncidentsOK' /\ emitted' = emitted
  BY <1>1, PersistStep
<1>3. pos[c] <= fetched[c] /\ faults \in Nat
  BY <1>1, OnItsRecord
<1>4. CASE (HandleOK(c) /\ UNCHANGED faults) \/ (HandleErr(c) /\ faults' = faults + 1)
  BY <1>2, <1>3, <1>4, HandleReturns
<1>5. CASE /\ dec[c].notify # None /\ AppliedIncident(dec[c]) # None
           /\ evt' = [evt EXCEPT ![c] = e] /\ Goto(c, "emit")
           /\ UNCHANGED <<rid, cfg, st, dec, faults>>
  <2>1. e \in Event /\ EventOK(e, incidents') /\ (e.warn = None => ~EventOK(e, incidents))
    BY <1>1, <1>5, PersistStep
  <2> HIDE DEF e
  <2>2. GroupTypeOK(Result, Steps)'
    BY <1>3, <1>5, GotoType DEF Inv, TypeOK, Steps
  <2>3. LocalsType' /\ evt'[c] = e /\ \A d \in Consumers \ {c} : evt'[d] = evt[d]
    BY <1>5, <2>1 DEF Inv, TypeOK, LocalsType
  <2>4. pc'[c] = "emit" /\ \A d \in Consumers \ {c} : pc'[d] = pc[d]
    BY <1>5 DEF Goto, Inv, TypeOK, GroupTypeOK
  <2>5. LocalsOK'
    <3> SUFFICES ASSUME NEW d \in Consumers PROVE LocalOK(d)'
      BY DEF LocalsOK
    <3>1. CASE d = c
      BY <2>1, <2>3, <2>4, <3>1 DEF LocalOK
    <3>2. CASE d # c
      BY <1>5, <2>3, <2>4, <3>2 DEF LocalOK, Inv, LocalsOK
    <3> QED BY <3>1, <3>2
  <2>6. EventsOK'
    <3>1. \A n \in DOMAIN emitted : EventOK(emitted[n], incidents')
      BY <1>2, EventStays DEF Inv, EventsOK
    <3>2. \A d \in Consumers \ {c} : pc[d] = "emit" => EventOK(evt[d], incidents')
      BY <1>2, EventStays DEF Inv, EventsOK
    <3> QED BY <1>2, <2>1, <2>3, <2>4, <3>1, <3>2 DEF EventsOK
  <2>7. e.warn = None => /\ \A n \in DOMAIN emitted : e # emitted[n]
                         /\ \A d \in Consumers : pc[d] = "emit" => e # evt[d]
    BY <2>1 DEF Inv, EventsOK
  <2>8. PlainOnce'
    <3>1. \A m, n \in DOMAIN emitted' :
            emitted'[m].warn = None /\ emitted'[m] = emitted'[n] => m = n
      BY <1>2 DEF Inv, PlainOnce
    <3>2. \A k \in Consumers, n \in DOMAIN emitted' :
            pc'[k] = "emit" /\ evt'[k].warn = None => evt'[k] # emitted'[n]
      BY <1>2, <2>3, <2>4, <2>7 DEF Inv, PlainOnce
    <3>3. \A j, k \in Consumers :
            pc'[j] = "emit" /\ pc'[k] = "emit" /\ evt'[j].warn = None /\ evt'[j] = evt'[k] => j = k
      BY <2>3, <2>4, <2>7 DEF Inv, PlainOnce
    <3> QED BY <3>1, <3>2, <3>3 DEF PlainOnce
  <2> QED BY <1>2, <2>2, <2>3, <2>5, <2>6, <2>8 DEF Inv, TypeOK
<1> QED BY <1>4, <1>5 DEF ApplyAlertDecision, ApplyUnsure, GoesWrong

\* Emit moves an event from the consumer's memory to the topic.
LEMMA EmitStep ==
  ASSUME Inv, NEW c \in Consumers, Emit(c)
  PROVE  Inv'
<1>1. /\ pc[c] = "emit" /\ emitted' = Append(emitted, evt[c]) /\ HandleOK(c)
      /\ UNCHANGED <<db, edits, faults>> /\ stream' = stream
  BY DEF Emit, HandleOK, ReturnOK
<1>2. /\ evt[c] \in Event /\ EventOK(evt[c], incidents) /\ emitted \in Seq(Event)
      /\ pos[c] <= fetched[c] /\ faults' \in Nat
  BY <1>1, OnItsRecord DEF Inv, TypeOK, StoreType, LocalsOK, LocalOK, EventsOK
<1>3. /\ emitted' \in Seq(Event) /\ Len(emitted') = Len(emitted) + 1 /\ Len(emitted) \in Nat
      /\ \A n \in DOMAIN emitted : emitted'[n] = emitted[n]
      /\ emitted'[Len(emitted) + 1] = evt[c]
  BY <1>1, <1>2
<1>4. \A n \in DOMAIN emitted' : n \in DOMAIN emitted \/ n = Len(emitted) + 1
  BY <1>2, <1>3
<1>5. GroupTypeOK(Result, Steps)'
  BY <1>1, <1>2, ReturnOKType DEF Inv, TypeOK, HandleOK
<1>6. Forget(c) /\ (pc' = [pc EXCEPT ![c] = "idle"] \/ pc' = [pc EXCEPT ![c] = "ack"])
  BY <1>1 DEF HandleOK, ReturnOK
<1>7. /\ LocalsType' /\ LocalsOK' /\ pc'[c] # "emit"
      /\ \A d \in Consumers \ {c} : pc'[d] = pc[d] /\ evt'[d] = evt[d]
  BY <1>6, ForgetStep
<1>8. StoreType' /\ IncidentsOK'
  BY <1>1, <1>3 DEF Inv, TypeOK, StoreType, db, IncidentsOK, OneOpenIncident, RecoveredIsClosed, Open
<1>9. incidents' = incidents
  BY <1>1 DEF db
<1>10. EventsOK'
  BY <1>2, <1>3, <1>4, <1>7, <1>9 DEF Inv, EventsOK
<1>11. PlainOnce'
  <2>1. \A m, n \in DOMAIN emitted' :
          emitted'[m].warn = None /\ emitted'[m] = emitted'[n] => m = n
    BY <1>1, <1>3, <1>4 DEF Inv, PlainOnce
  <2>2. \A k \in Consumers, n \in DOMAIN emitted' :
          pc'[k] = "emit" /\ evt'[k].warn = None => evt'[k] # emitted'[n]
    BY <1>1, <1>3, <1>4, <1>7 DEF Inv, PlainOnce
  <2>3. \A j, k \in Consumers :
          pc'[j] = "emit" /\ pc'[k] = "emit" /\ evt'[j].warn = None /\ evt'[j] = evt'[k] => j = k
    BY <1>7 DEF Inv, PlainOnce
  <2> QED BY <2>1, <2>2, <2>3 DEF PlainOnce
<1> QED BY <1>5, <1>7, <1>8, <1>10, <1>11 DEF Inv, TypeOK

\* The poll loop outside handle, and a crash.
LEMMA LoopSteps ==
  ASSUME Inv, NEW c \in Consumers, PollLoop(c) \/ PollFault(c) \/ Crash(c)
  PROVE  Inv'
<1>0. stream' = stream /\ UNCHANGED <<db, emitted, edits>>
  BY DEF PollLoop, PollFault, Crash, Loop, LoopFault, Poll, AutoCommit, Ack, AckFail,
         Rebalance, Restart, ReturnErr
<1>1. StoreType' /\ IncidentStep /\ IncidentsOK'
  BY <1>0, TablesStay DEF db
<1>2. CASE PollLoop(c) \/ PollFault(c)
  <2>1. GroupTypeOK(Result, Steps)'
    BY <1>2, LoopType, LoopFaultType DEF Inv, TypeOK, PollLoop, PollFault
  <2>2. UNCHANGED locals /\ (pc' = pc \/ pc' = [pc EXCEPT ![c] = "idle"])
    BY <1>2 DEF PollLoop, PollFault, Loop, LoopFault, Poll, AutoCommit, Ack, AckFail,
                Rebalance, ReturnErr
  <2>3. LocalsType' /\ \A d \in Consumers : pc'[d] = pc[d] \/ pc'[d] = "idle"
    BY <2>2 DEF Inv, TypeOK, GroupTypeOK, LocalsType, locals
  <2>4. LocalsOK'
    BY <2>2, <2>3 DEF Inv, LocalsOK, LocalOK, locals
  <2>5. EventsOK' /\ PlainOnce'
    BY <1>0, <1>1, <2>2, <2>3, NothingAnnounced DEF Inv, locals
  <2> QED BY <1>1, <2>1, <2>3, <2>4, <2>5 DEF Inv, TypeOK
<1>3. CASE Crash(c)
  <2>1. GroupTypeOK(Result, Steps)'
    BY <1>3, RestartType DEF Inv, TypeOK, Crash
  <2>2. Forget(c) /\ pc' = [pc EXCEPT ![c] = "idle"]
    BY <1>3 DEF Crash, Restart
  <2>3. EventsOK' /\ PlainOnce'
    BY <1>0, <1>1, <2>2, ForgetStep, NothingAnnounced DEF Inv
  <2> QED BY <1>1, <2>1, <2>2, <2>3, ForgetStep DEF Inv, TypeOK
<1> QED BY <1>2, <1>3

\* The workers and the api change no consumer.
LEMMA OutsideSteps ==
  ASSUME Inv, Publish \/ Api
  PROVE  Inv'
<1>1. CASE Publish
  <2>1. PICK res \in Result : Produce(res)
    BY <1>1 DEF Publish
  <2>2. UNCHANGED <<locals, db, emitted, edits, pc>> /\ stream' = Append(stream, res)
    BY <1>1, <2>1 DEF Publish, Produce
  <2>3. GroupTypeOK(Result, Steps)'
    BY <2>1, ProduceType DEF Inv, TypeOK
  <2>4. DOMAIN stream \subseteq DOMAIN stream'
    BY <2>2 DEF Inv, TypeOK, GroupTypeOK
  <2>5. LocalsType' /\ LocalsOK' /\ StoreType'
    BY <2>2, <2>4 DEF Inv, TypeOK, LocalsType, LocalsOK, LocalOK, StoreType, locals, db
  <2>6. IncidentStep /\ IncidentsOK'
    BY <2>2 DEF Inv, TypeOK, StoreType, db, IncidentStep, IncidentsOK, OneOpenIncident,
                RecoveredIsClosed, Open
  <2>7. EventsOK' /\ PlainOnce'
    BY <2>2, <2>6, NothingAnnounced DEF Inv, locals
  <2> QED BY <2>3, <2>5, <2>6, <2>7 DEF Inv, TypeOK
<1>2. CASE Api
  <2>1. UNCHANGED <<groupVars, locals, alert, rows, emitted>>
    BY <1>2 DEF Api, ManualCloseIncident, UpdateMonitor, DeleteMonitor
  <2>2. GroupTypeOK(Result, Steps)' /\ LocalsType' /\ LocalsOK'
    BY <2>1 DEF Inv, TypeOK, GroupTypeOK, groupVars, LocalsType, LocalsOK, LocalOK, locals
  <2>3. edits' \in Nat
    <3>1. edits' = edits + 1
      BY <1>2 DEF Api, ManualCloseIncident, UpdateMonitor, DeleteMonitor, Request
    <3> QED BY <3>1 DEF Inv, TypeOK, StoreType
  <2>4. IncidentStep /\ IncidentsOK' /\ (mon' \in [exists : BOOLEAN, type : Types,
                                           threshold : Thresholds, enabled : BOOLEAN])
    <3>1. CASE \E i \in DOMAIN incidents, now \in Times : ManualCloseIncident(i, now)
      <4>1. PICK i \in DOMAIN incidents, now \in Times : ManualCloseIncident(i, now)
        BY <3>1
      <4>2. Open(i) /\ incidents \in Seq(Incident)
        BY <4>1 DEF ManualCloseIncident, Inv, TypeOK, StoreType
      <4>4. incidents' = ClosedRow(i, now, "manual")
        BY <4>1 DEF ManualCloseIncident
      <4>5. IncidentStep /\ IncidentsOK'
        BY <4>2, <4>4, CloseRow DEF Inv
      <4> QED BY <4>1, <4>5 DEF ManualCloseIncident, Inv, TypeOK, StoreType
    <3>2. CASE ~ \E i \in DOMAIN incidents, now \in Times : ManualCloseIncident(i, now)
      <4>1. incidents' = incidents
        BY <1>2, <3>2 DEF Api, UpdateMonitor, DeleteMonitor
      <4>2. mon' \in [exists : BOOLEAN, type : Types, threshold : Thresholds, enabled : BOOLEAN]
        BY <1>2, <3>2 DEF Api, UpdateMonitor, DeleteMonitor, Inv, TypeOK, StoreType
      <4> QED BY <4>1, <4>2 DEF Inv, TypeOK, StoreType, IncidentStep, IncidentsOK,
                                OneOpenIncident, RecoveredIsClosed, Open
    <3> QED BY <3>1, <3>2
  <2>5. StoreType'
    BY <2>1, <2>3, <2>4 DEF Inv, TypeOK, StoreType, IncidentStep, groupVars
  <2>6. EventsOK' /\ PlainOnce'
    BY <2>1, <2>4, NothingAnnounced DEF Inv, groupVars, locals
  <2> QED BY <2>2, <2>4, <2>5, <2>6 DEF Inv, TypeOK
<1> QED BY <1>1, <1>2

-----------------------------------------------------------------------------
(* The theorems. *)

\* The invariant holds when the services start with an empty history.
LEMMA InitInv == Init => Inv
<1> SUFFICES ASSUME Init PROVE Inv
  OBVIOUS
<1>1. GroupTypeOK(Result, Steps)
  BY GroupInitType DEF Init
<1>2. LocalsType
  BY DEF Init, LocalsType, MaybeNat
<1>3. StoreType
  <2>1. mon \in [exists : BOOLEAN, type : Types, threshold : Thresholds, enabled : BOOLEAN]
    BY DEF Init
  <2>2. alert \in [consec : Nat, firstFail : MaybeTime, watermark : MaybeNat,
                   warned : MaybeLevel]
    BY DEF Init, MaybeNat, MaybeTime, MaybeLevel
  <2>3. rows = <<>> /\ incidents = <<>> /\ emitted = <<>> /\ edits = 0
    BY DEF Init
  <2> QED BY <2>1, <2>2, <2>3 DEF StoreType
<1>4. LocalsOK
  BY DEF Init, GroupInit, LocalsOK, LocalOK
<1>5. IncidentsOK /\ EventsOK /\ PlainOnce
  BY DEF Init, GroupInit, IncidentsOK, OneOpenIncident, RecoveredIsClosed, EventsOK, PlainOnce
<1> QED BY <1>1, <1>2, <1>3, <1>4, <1>5 DEF Inv, TypeOK

\* Every step of every consumer, of the workers and of the api keeps it.
LEMMA NextInv == Inv /\ [Next]_vars => Inv'
<1> SUFFICES ASSUME Inv, [Next]_vars PROVE Inv'
  OBVIOUS
<1>1. CASE Publish \/ Api
  BY <1>1, OutsideSteps
<1>2. CASE \E c \in Consumers : Work(c) \/ Fault(c)
  <2>1. PICK c \in Consumers : Work(c) \/ Fault(c)
    BY <1>2
  <2> QED BY <2>1, LoopSteps, ReadSteps, ReturnSteps, ApplySteps, EmitStep DEF Work, Fault
<1>3. CASE UNCHANGED vars
  BY <1>3 DEF vars, Inv, TypeOK, GroupTypeOK, LocalsType, StoreType, LocalsOK, LocalOK,
              IncidentsOK, OneOpenIncident, RecoveredIsClosed, Open, EventsOK, PlainOnce
<1> QED BY <1>1, <1>2, <1>3 DEF Next

\* The inductive invariant is an invariant.
THEOREM Invariance == Spec => []Inv
  BY InitInv, NextInv, PTL DEF Spec

\* Every variable keeps its type: no step indexes a row, record or local that is
\* not there (Runner.handle, bus.Consumer.Poll).
THEOREM TypeCorrect == Spec => []TypeOK
<1>1. Inv => TypeOK
  BY DEF Inv
<1> QED BY <1>1, Invariance, PTL

\* A monitor never has two open incidents (ApplyAlertDecision).
THEOREM AtMostOneOpenIncident == Spec => []OneOpenIncident
<1>1. Inv => OneOpenIncident
  BY DEF Inv, IncidentsOK
<1> QED BY <1>1, Invariance, PTL

\* One down without a certificate level and one recovery per incident are
\* announced at most, whatever is redelivered or overlaps (handle, step 6).
THEOREM AnnouncedOnce == Spec => []PlainOnce
<1>1. Inv => PlainOnce
  BY DEF Inv
<1> QED BY <1>1, Invariance, PTL

\* Only an incident that alerting closed is announced as recovered.
THEOREM RecoveryIsTrue == Spec => []UpOnlyIfRecovered
<1>1. Inv => UpOnlyIfRecovered
  BY DEF Inv, EventsOK, EventOK, UpOnlyIfRecovered
<1> QED BY <1>1, Invariance, PTL

\* No step, of whichever consumer or operator, edits or reopens a closed incident.
THEOREM ClosedStaysClosed == Spec => ClosedIsFinal
<1>1. Inv /\ [Next]_vars =>
        [\A i \in DOMAIN incidents : ~Open(i) => incidents'[i] = incidents[i]]_incidents
  <2> SUFFICES ASSUME Inv, [Next]_vars, incidents' # incidents
               PROVE  IncidentStep
    BY DEF IncidentStep
  <2>1. CASE \E i \in DOMAIN incidents, now \in Times : ManualCloseIncident(i, now)
    <3>1. PICK i \in DOMAIN incidents, now \in Times : ManualCloseIncident(i, now)
      BY <2>1
    <3>2. Open(i) /\ incidents' = ClosedRow(i, now, "manual")
      BY <3>1 DEF ManualCloseIncident
    <3> QED BY <3>2, CloseRow DEF Inv, TypeOK, StoreType
  <2>2. CASE \E c \in Consumers : Persist(c) /\ stream' = stream
    BY <2>2, PersistStep
  <2>3. UNCHANGED incidents
        \/ (\E c \in Consumers : Persist(c) /\ stream' = stream)
        \/ (\E i \in DOMAIN incidents, now \in Times : ManualCloseIncident(i, now))
    BY DEF Next, vars, Publish, Api, UpdateMonitor, DeleteMonitor, Work, Fault, db,
           PollLoop, PollFault, Crash, Receive, DropMalformed, UpsertCheckResult,
           UpsertOrphan, GetMonitor, GetAlertState, GetOpenIncident, MonitorGone,
           ApplyAlertDecision, ApplyUnsure, ApplySkipped, ApplyGone, StoreFail, Emit,
           EmitFail, HandleOK, HandleErr, ReturnOK, ReturnErr, Goto
  <2> QED BY <2>1, <2>2, <2>3
<1> QED BY <1>1, Invariance, PTL DEF Spec, ClosedIsFinal

\* The counters move only forward with the watermark: no result is applied twice.
THEOREM NoResultTwice == Spec => CountedOnce
<1>1. Inv /\ [Next]_vars =>
        [alert' # alert => alert.watermark = None \/ alert.watermark < alert'.watermark]_alert
  <2> SUFFICES ASSUME Inv, [Next]_vars, alert' # alert
               PROVE  alert.watermark = None \/ alert.watermark < alert'.watermark
    OBVIOUS
  <2>1. UNCHANGED alert \/ \E c \in Consumers : Persist(c)
    BY DEF Next, vars, Publish, Api, ManualCloseIncident, UpdateMonitor, DeleteMonitor, Work,
           Fault, db, PollLoop, PollFault, Crash, Receive, DropMalformed, UpsertCheckResult,
           UpsertOrphan, GetMonitor, GetAlertState, GetOpenIncident, MonitorGone,
           ApplyAlertDecision, ApplyUnsure, ApplySkipped, ApplyGone, StoreFail, Emit, EmitFail
  <2>2. PICK c \in Consumers : Persist(c)
    BY <2>1
  <2>3. rid[c] \in Nat /\ alert.watermark \in MaybeNat
    BY <2>2 DEF Inv, TypeOK, StoreType, LocalsOK, LocalOK, Persist
  <2>4. alert'.watermark = rid[c] /\ ~(alert.watermark # None /\ rid[c] <= alert.watermark)
    BY <2>2 DEF Persist, Skipped
  <2> QED BY <2>3, <2>4 DEF MaybeNat
<1> QED BY <1>1, Invariance, PTL DEF Spec, CountedOnce

-----------------------------------------------------------------------------
(* On Redis. *)

\* The rows are in stream order, and none is of an entry behind the one at hand.
RowsOK ==
  /\ \A i, j \in DOMAIN rows : i < j => rows[i] < rows[j]
  /\ \A i \in DOMAIN rows : rows[i] <= committed + 1 /\ stream[rows[i]].ok
  /\ alert.watermark = None \/ alert.watermark \in DOMAIN rows

Applied(k) == \E id \in 1..Watermark : rows[id] = k

\* The failing run is an interval that ends at the watermark, or is empty.
RunFrom(a) ==
  /\ Run = a..Watermark
  /\ alert.consec = Watermark + 1 - a
  /\ alert.firstFail = IF a <= Watermark THEN stream[rows[a]].at ELSE None
RunOK == \E a \in 1..(Watermark + 1) : RunFrom(a)

FirstOK == \A i \in DOMAIN incidents : incidents[i].first \in 1..Watermark

Columns == [consec |-> alert.consec, firstFail |-> alert.firstFail, warned |-> alert.warned]

\* The decision was made on the counters as they are, and on an incident o of the
\* current run that has at most been closed since.
Decided(c, m, o) ==
  /\ dec[c] = Apply(m, record(c), [consec |-> alert.consec, firstFail |-> alert.firstFail,
                                   warned |-> alert.warned, open |-> o])
  /\ o # None => incidents[o].first \in Run
  /\ mon.exists => openIncident \in {o, None}

Stored == {"getMonitor", "getState", "getOpen", "apply"}

Inside(c) ==
  /\ pos[c] = committed + 1
  /\ pc[c] \in Stored \cup {"upsert"} => record(c).ok
  /\ pc[c] \in Stored => rid[c] = Len(rows) /\ rid[c] \in DOMAIN rows /\ rows[rid[c]] = pos[c]
  /\ pc[c] = "getOpen" => st[c] = Columns
  /\ pc[c] = "apply" => \E m \in MonitorRow, o \in DOMAIN incidents \cup {None} : Decided(c, m, o)
  /\ pc[c] \in {"emit", "ack"} /\ mon.exists /\ record(c).ok => Applied(pos[c])
  /\ pc[c] # "emit" => evt[c] = None

TablesOK == RowsOK /\ AckedIsApplied /\ RunOK /\ FirstOK /\ OpenIncidentIsCurrent
RedisInv == TablesOK /\ \A c \in Consumers : Inside(c)

-----------------------------------------------------------------------------
(* The tables between two writes. *)

\* The types the steps rely on.
LEMMA StoreFacts ==
  ASSUME Inv
  PROVE  /\ stream \in Seq(Result) /\ committed \in Nat /\ committed <= Len(stream)
         /\ rows \in Seq(Nat) /\ \A id \in DOMAIN rows : rows[id] \in DOMAIN stream
         /\ incidents \in Seq(Incident) /\ OneOpenIncident
         /\ alert.watermark \in MaybeNat /\ alert.consec \in Nat /\ alert.firstFail \in MaybeTime
         /\ Watermark \in Nat
  BY DEF Inv, TypeOK, StoreType, GroupTypeOK, IncidentsOK, Watermark, MaybeNat

LEMMA WatermarkFact ==
  ASSUME Inv, RowsOK
  PROVE  /\ Watermark \in 0..Len(rows) /\ DOMAIN rows = 1..Len(rows) /\ Len(rows) \in Nat
         /\ alert.watermark = None \/ alert.watermark = Watermark
         /\ \A id \in 1..Watermark : id \in DOMAIN rows /\ rows[id] \in DOMAIN stream
<1>1. /\ DOMAIN rows = 1..Len(rows) /\ Len(rows) \in Nat
      /\ \A id \in DOMAIN rows : rows[id] \in DOMAIN stream
  BY StoreFacts
<1>2. Watermark \in 0..Len(rows)
  BY <1>1 DEF RowsOK, Watermark
<1>3. \A id \in 1..Watermark : id \in DOMAIN rows
  BY <1>1, <1>2
<1> QED BY <1>1, <1>2, <1>3 DEF Watermark

\* A write that keeps the applied rows and their results keeps the run.
LEMMA RunSame ==
  ASSUME Inv, RowsOK, UNCHANGED alert,
         \A id \in 1..Watermark : rows'[id] = rows[id] /\ stream'[rows[id]] = stream[rows[id]]
  PROVE  Run' = Run /\ Watermark' = Watermark /\ (RunOK => RunOK')
<1>1. Watermark' = Watermark /\ Watermark \in Nat
  BY StoreFacts DEF Watermark
<1>2. Run' = Run
  <2>1. \A j \in 1..Watermark : stream'[rows'[j]] = stream[rows[j]]
    OBVIOUS
  <2>2. \A id \in 1..Watermark : \A j \in id..Watermark : j \in 1..Watermark
    BY <1>1
  <2> QED BY <1>1, <2>1, <2>2 DEF Run
<1>3. RunOK => RunOK'
  <2> SUFFICES ASSUME NEW a \in 1..(Watermark + 1), RunFrom(a) PROVE RunFrom(a)'
    BY <1>1 DEF RunOK
  <2>1. a <= Watermark => stream'[rows'[a]] = stream[rows[a]]
    BY <1>1
  <2> QED BY <1>1, <1>2, <2>1 DEF RunFrom
<1> QED BY <1>1, <1>2, <1>3

\* A step that writes no table.
LEMMA TablesQuiet ==
  ASSUME Inv, TablesOK, UNCHANGED <<stream, committed, mon, alert, rows, incidents>>
  PROVE  TablesOK' /\ Run' = Run /\ Watermark' = Watermark
<1>1. Run' = Run /\ Watermark' = Watermark /\ RunOK'
  BY RunSame DEF TablesOK
<1> QED BY <1>1 DEF TablesOK, RowsOK, AckedIsApplied, FirstOK, OpenIncidentIsCurrent, Open

\* On Redis there is one consumer.
LEMMA OneConsumer ==
  ASSUME Bus = "redis", NEW c \in Consumers, NEW d \in Consumers
  PROVE  c = d
BY BusAssumption

\* handle returns nil, and the entry waits for its ack.
LEMMA ReturnsOK ==
  ASSUME Bus = "redis", Inv, RedisInv, NEW c \in Consumers, HandleOK(c)
  PROVE  /\ pc'[c] = "ack" /\ evt'[c] = None
         /\ UNCHANGED <<stream, committed, pos>>
<1>1. /\ pc' = [pc EXCEPT ![c] = "ack"] /\ evt' = [evt EXCEPT ![c] = None]
      /\ UNCHANGED <<stream, committed, pos>>
  BY DEF HandleOK, ReturnOK, Forget
<1> QED BY <1>1 DEF Inv, TypeOK, GroupTypeOK, LocalsType

LEMMA ReturnsErr ==
  ASSUME Bus = "redis", Inv, RedisInv, NEW c \in Consumers, HandleErr(c)
  PROVE  /\ pc'[c] = "idle" /\ evt'[c] = None
         /\ UNCHANGED <<stream, committed, pos>>
<1>1. /\ pc' = [pc EXCEPT ![c] = "idle"] /\ evt' = [evt EXCEPT ![c] = None]
      /\ UNCHANGED <<stream, committed, pos>>
  BY DEF HandleErr, ReturnErr, Forget
<1> QED BY <1>1 DEF Inv, TypeOK, GroupTypeOK, LocalsType

-----------------------------------------------------------------------------
(* The steps that write no table. *)

LEMMA QuietSteps ==
  ASSUME Bus = "redis", Inv, RedisInv, NEW c \in Consumers,
         \/ Receive(c) \/ DropMalformed(c) \/ UpsertOrphan(c) \/ MonitorGone(c) \/ ApplySkipped(c)
         \/ ApplyGone(c) \/ StoreFail(c) \/ Emit(c) \/ EmitFail(c)
  PROVE  RedisInv'
<1>1. UNCHANGED <<mon, alert, rows, incidents>>
  BY DEF Receive, DropMalformed, UpsertOrphan, MonitorGone, ApplySkipped, ApplyGone, StoreFail,
         Emit, EmitFail, db
<1>2. Inside(c) /\ TablesOK
  BY DEF RedisInv
<1>3. CASE Receive(c)
  <2>1. pc'[c] = "upsert" /\ UNCHANGED <<stream, committed, pos, evt>> /\ record(c).ok /\ pc[c] = "idle"
    BY <1>3 DEF Receive, Goto, HasRecord, locals, Inv, TypeOK, GroupTypeOK
  <2>2. TablesOK'
    BY <1>1, <1>2, <2>1, TablesQuiet
  <2>3. Inside(c)'
    BY <1>2, <2>1 DEF Inside, Stored, record
  <2> QED BY <2>2, <2>3, OneConsumer DEF RedisInv
<1>4. CASE HandleErr(c)
  <2>1. pc'[c] = "idle" /\ evt'[c] = None /\ UNCHANGED <<stream, committed, pos>>
    BY <1>4, ReturnsErr
  <2>2. TablesOK'
    BY <1>1, <1>2, <2>1, TablesQuiet
  <2>3. Inside(c)'
    BY <1>2, <2>1 DEF Inside, Stored
  <2> QED BY <2>2, <2>3, OneConsumer DEF RedisInv
<1>5. CASE HandleOK(c) /\ (mon.exists /\ record(c).ok => Applied(pos[c]))
  <2>1. pc'[c] = "ack" /\ evt'[c] = None /\ UNCHANGED <<stream, committed, pos>>
    BY <1>5, ReturnsOK
  <2>2. TablesOK' /\ Watermark' = Watermark
    BY <1>1, <1>2, <2>1, TablesQuiet
  <2>3. mon'.exists /\ stream'[pos'[c]].ok => \E id \in 1..Watermark' : rows'[id] = pos'[c]
    BY <1>1, <1>5, <2>1, <2>2 DEF Applied, record
  <2>4. Inside(c)'
    BY <1>2, <2>1, <2>3 DEF Inside, Stored, Applied, record
  <2> QED BY <2>2, <2>4, OneConsumer DEF RedisInv
<1>6. ASSUME ApplySkipped(c) PROVE Applied(pos[c])
  <2>1. rid[c] \in DOMAIN rows /\ rows[rid[c]] = pos[c] /\ Skipped(c) /\ DOMAIN rows = 1..Len(rows)
    BY <1>2, <1>6, WatermarkFact DEF ApplySkipped, Inside, Stored, TablesOK
  <2>2. rid[c] \in 1..Watermark
    BY <2>1, StoreFacts DEF Skipped, Watermark
  <2> QED BY <2>1, <2>2 DEF Applied
<1> QED BY <1>2, <1>3, <1>4, <1>5, <1>6 DEF DropMalformed, UpsertOrphan, MonitorGone, ApplySkipped,
        ApplyGone, StoreFail, Emit, EmitFail, Inside

LEMMA LoopKeeps ==
  ASSUME Bus = "redis", Inv, RedisInv, NEW c \in Consumers, PollLoop(c) \/ PollFault(c) \/ Crash(c)
  PROVE  RedisInv'
<1>1. UNCHANGED <<mon, alert, rows, incidents, stream>>
  BY DEF PollLoop, PollFault, Crash, db, Loop, LoopFault, Poll, AutoCommit, Ack, AckFail,
         Rebalance, Restart, ReturnErr
<1>2. Inside(c) /\ TablesOK
  BY DEF RedisInv
<1>3. CASE Ack(c) /\ PollLoop(c)
  <2>1. /\ pc[c] = "ack" /\ committed' = pos[c] /\ pos'[c] = pos[c] + 1 /\ pc'[c] = "idle" /\ evt'[c] = evt[c]
    BY <1>3 DEF Ack, PollLoop, locals, Inv, TypeOK, GroupTypeOK
  <2>2. Run' = Run /\ Watermark' = Watermark /\ RunOK'
    BY <1>1, <1>2, RunSame DEF TablesOK
  <2>3. committed' = committed + 1 /\ committed \in Nat
    BY <1>2, <2>1, StoreFacts DEF Inside
  <2>4. RowsOK'
    <3>1. \A i \in DOMAIN rows : rows[i] \in Nat
      BY StoreFacts
    <3> QED BY <1>1, <1>2, <2>3, <3>1 DEF RowsOK, TablesOK
  <2>5. AckedIsApplied'
    <3>1. \A k \in 1..committed' : k \in 1..committed \/ k = pos[c]
      BY <1>2, <2>1, <2>3 DEF Inside
    <3>2. mon.exists /\ stream[pos[c]].ok => Applied(pos[c])
      BY <1>2, <2>1 DEF Inside, record
    <3> QED BY <1>1, <1>2, <2>2, <3>1, <3>2 DEF TablesOK, AckedIsApplied, Applied
  <2>6. FirstOK' /\ OpenIncidentIsCurrent'
    BY <1>1, <1>2, <2>2 DEF TablesOK, FirstOK, OpenIncidentIsCurrent, Open
  <2>7. Inside(c)'
    BY <1>2, <2>1, <2>3 DEF Inside, Stored
  <2> QED BY <2>2, <2>4, <2>5, <2>6, <2>7, OneConsumer DEF RedisInv, TablesOK
<1>4. CASE Poll(c) /\ PollLoop(c)
  <2>1. UNCHANGED <<committed, pos, pc, evt>> /\ pc[c] = "idle"
    BY <1>4 DEF Poll, PollLoop, locals
  <2>2. TablesOK'
    BY <1>1, <1>2, <2>1, TablesQuiet
  <2>3. Inside(c)'
    BY <1>2, <2>1 DEF Inside, Stored
  <2> QED BY <2>2, <2>3, OneConsumer DEF RedisInv
<1>5. CASE (AckFail(c) /\ PollFault(c)) \/ Crash(c)
  <2>1. pc'[c] = "idle" /\ evt'[c] = None /\ pos'[c] = committed' + 1 /\ UNCHANGED committed
    <3>1. CASE AckFail(c) /\ PollFault(c)
      BY <1>2, <3>1 DEF AckFail, PollFault, ReturnErr, locals, Inside, Inv, TypeOK, GroupTypeOK
    <3>2. CASE Crash(c)
      BY <3>2 DEF Crash, Restart, Forget, Inv, TypeOK, GroupTypeOK, LocalsType
    <3> QED BY <1>5, <3>1, <3>2
  <2>2. TablesOK'
    BY <1>1, <1>2, <2>1, TablesQuiet
  <2>3. Inside(c)'
    BY <2>1 DEF Inside, Stored
  <2> QED BY <2>2, <2>3, OneConsumer DEF RedisInv
<1> QED BY <1>3, <1>4, <1>5 DEF PollLoop, PollFault, Loop, LoopFault, AutoCommit, Rebalance

-----------------------------------------------------------------------------
(* The reads, and the upsert. *)

LEMMA ReadsKeep ==
  ASSUME Bus = "redis", Inv, RedisInv, NEW c \in Consumers,
         GetMonitor(c) \/ GetAlertState(c) \/ GetOpenIncident(c)
  PROVE  RedisInv'
<1>1. UNCHANGED <<mon, alert, rows, incidents, stream, committed, pos, rid, evt>>
  BY DEF GetMonitor, GetAlertState, GetOpenIncident, db, Goto
<1>2. Inside(c) /\ TablesOK /\ pc[c] \in Stored /\ LocalOK(c)
  BY DEF RedisInv, GetMonitor, GetAlertState, GetOpenIncident, Stored, Inv, LocalsOK
<1>3. TablesOK' /\ Run' = Run
  BY <1>1, <1>2, TablesQuiet
<1>4. CASE GetMonitor(c)
  <2>1. pc'[c] = "getState"
    BY <1>4 DEF GetMonitor, Goto, Inv, TypeOK, GroupTypeOK
  <2>2. Inside(c)'
    BY <1>1, <1>2, <2>1 DEF Inside, Stored, record
  <2> QED BY <1>3, <2>2, OneConsumer DEF RedisInv
<1>5. CASE GetAlertState(c)
  <2>1. pc'[c] = "getOpen" /\ st'[c] = Columns
    BY <1>5 DEF GetAlertState, Goto, Columns, Inv, TypeOK, GroupTypeOK, LocalsType
  <2>2. Inside(c)'
    BY <1>1, <1>2, <2>1 DEF Inside, Stored, record, Columns
  <2> QED BY <1>3, <2>2, OneConsumer DEF RedisInv
<1>6. CASE GetOpenIncident(c)
  <2>0. PICK m \in MonitorRow : m = cfg[c]
    BY <1>2, <1>6 DEF GetOpenIncident, LocalOK
  <2>1. PICK o : m = cfg[c] /\ o = IF mon.exists THEN openIncident ELSE None
    BY <2>0
  <2>2. pc'[c] = "apply" /\ st[c] = Columns
    BY <1>2, <1>6 DEF GetOpenIncident, Goto, Inv, TypeOK, GroupTypeOK, Inside
  <2>3. dec'[c] = Apply(m, record(c), [consec |-> alert.consec, firstFail |-> alert.firstFail,
                                       warned |-> alert.warned, open |-> o])
    <3>1. dec'[c] = Apply(cfg[c], record(c), [consec |-> st[c].consec, firstFail |-> st[c].firstFail,
                            warned |-> st[c].warned, open |-> IF mon.exists THEN openIncident ELSE None])
      BY <1>6 DEF GetOpenIncident, Inv, TypeOK, LocalsType
    <3> QED BY <2>1, <2>2, <3>1 DEF Columns
  <2>4. o \in DOMAIN incidents \cup {None} /\ (o # None => incidents[o].first \in Run)
    BY <1>2, <2>1, OpenIncidentFact DEF Open, TablesOK, OpenIncidentIsCurrent
  <2>5. mon.exists => openIncident \in {o, None}
    BY <2>1
  <2>6. UNCHANGED openIncident
    BY <1>1 DEF openIncident, Open
  <2>7. Decided(c, m, o)'
    BY <1>1, <1>3, <2>3, <2>4, <2>5, <2>6 DEF Decided, record
  <2>8. Inside(c)'
    BY <1>1, <1>2, <2>2, <2>4, <2>7 DEF Inside, Stored, record
  <2> QED BY <1>3, <2>8, OneConsumer DEF RedisInv
<1> QED BY <1>4, <1>5, <1>6

\* A redelivered entry finds its own row, which is the last one.
LEMMA LastRow ==
  ASSUME Inv, RowsOK, NEW id \in DOMAIN rows, rows[id] = committed + 1
  PROVE  id = Len(rows)
<1>1. DOMAIN rows = 1..Len(rows) /\ Len(rows) \in Nat /\ committed \in Nat /\ \A i \in DOMAIN rows : rows[i] \in Nat
  BY StoreFacts
<1>2. Len(rows) \in DOMAIN rows
  BY <1>1
<1>3. rows[Len(rows)] <= committed + 1
  BY <1>2 DEF RowsOK
<1>4. id < Len(rows) => rows[id] < rows[Len(rows)]
  BY <1>2 DEF RowsOK
<1> QED BY <1>1, <1>2, <1>3, <1>4

LEMMA UpsertKeeps ==
  ASSUME Bus = "redis", Inv, RedisInv, NEW c \in Consumers, UpsertCheckResult(c)
  PROVE  RedisInv'
<1>1. /\ UNCHANGED <<mon, alert, incidents, stream, committed, pos, evt>>
      /\ pc[c] = "upsert" /\ pc'[c] = "getMonitor"
  BY DEF UpsertCheckResult, Goto, Inv, TypeOK, GroupTypeOK
<1>2. Inside(c) /\ TablesOK /\ pos[c] = committed + 1 /\ stream[pos[c]].ok
  BY <1>1 DEF RedisInv, Inside, record
<1>3. CASE \E id \in DOMAIN rows : rows[id] = pos[c] /\ rid' = [rid EXCEPT ![c] = id] /\ UNCHANGED rows
  <2>1. PICK id \in DOMAIN rows : rows[id] = pos[c] /\ rid' = [rid EXCEPT ![c] = id] /\ UNCHANGED rows
    BY <1>3
  <2>2. id = Len(rows) /\ rid'[c] = id
    BY <1>2, <2>1, LastRow DEF TablesOK, Inv, TypeOK, LocalsType
  <2>3. TablesOK'
    BY <1>1, <1>2, <2>1, TablesQuiet
  <2>4. Inside(c)'
    BY <1>1, <1>2, <2>1, <2>2 DEF Inside, Stored, record
  <2> QED BY <2>3, <2>4, OneConsumer DEF RedisInv
<1>4. CASE /\ \A id \in DOMAIN rows : rows[id] # pos[c]
           /\ rows' = Append(rows, pos[c]) /\ rid' = [rid EXCEPT ![c] = Len(rows) + 1]
  <2>1. PICK new : new = Len(rows) + 1
    OBVIOUS
  <2>2. /\ DOMAIN rows = 1..Len(rows) /\ Len(rows) \in Nat /\ pos[c] \in Nat
        /\ \A id \in DOMAIN rows : rows[id] \in Nat
    BY <1>2, StoreFacts
  <2>3. /\ rows' \in Seq(Nat) /\ Len(rows') = new /\ rows'[new] = pos[c] /\ rid'[c] = new
        /\ \A id \in DOMAIN rows : rows'[id] = rows[id]
    BY <1>4, <2>1, <2>2, StoreFacts DEF Inv, TypeOK, LocalsType
  <2>4. DOMAIN rows' = DOMAIN rows \cup {new} /\ new \in Nat /\ \A id \in DOMAIN rows : id < new
    BY <2>1, <2>2, <2>3
  <2>5. \A id \in 1..Watermark : id \in DOMAIN rows
    BY <1>2, WatermarkFact DEF TablesOK
  <2>6. Run' = Run /\ Watermark' = Watermark /\ RunOK'
    BY <1>1, <1>2, <2>3, <2>5, RunSame DEF TablesOK
  <2>7. RowsOK'
    <3>1. \A i \in DOMAIN rows : rows[i] < pos[c]
      BY <1>2, <1>4, <2>2 DEF TablesOK, RowsOK
    <3>2. \A i, j \in DOMAIN rows' : i < j => rows'[i] < rows'[j]
      <4>1. \A i, j \in DOMAIN rows : i < j => rows[i] < rows[j]
        BY <1>2 DEF TablesOK, RowsOK
      <4>2. \A i \in DOMAIN rows : i \in Nat /\ ~ (new < i)
        BY <2>1, <2>2
      <4> QED BY <2>3, <2>4, <3>1, <4>1, <4>2
    <3>3. \A i \in DOMAIN rows' : rows'[i] <= committed' + 1 /\ stream'[rows'[i]].ok
      <4>1. \A i \in DOMAIN rows : rows[i] <= committed + 1 /\ stream[rows[i]].ok
        BY <1>2 DEF TablesOK, RowsOK
      <4> QED BY <1>1, <1>2, <2>2, <2>3, <2>4, <4>1
    <3>4. alert'.watermark = None \/ alert'.watermark \in DOMAIN rows'
      BY <1>1, <1>2, <2>4 DEF TablesOK, RowsOK
    <3> QED BY <3>2, <3>3, <3>4 DEF RowsOK
  <2>8. AckedIsApplied'
    BY <1>1, <1>2, <2>3, <2>5, <2>6 DEF TablesOK, AckedIsApplied
  <2>9. FirstOK' /\ OpenIncidentIsCurrent'
    BY <1>1, <1>2, <2>6 DEF TablesOK, FirstOK, OpenIncidentIsCurrent, Open
  <2>10. Inside(c)'
    BY <1>1, <1>2, <2>3, <2>4 DEF Inside, Stored, record
  <2> QED BY <2>6, <2>7, <2>8, <2>9, <2>10, OneConsumer DEF RedisInv, TablesOK
<1> QED BY <1>3, <1>4 DEF UpsertCheckResult

-----------------------------------------------------------------------------
(* The workers and the api. *)

LEMMA PublishKeeps ==
  ASSUME Bus = "redis", Inv, RedisInv, Publish
  PROVE  RedisInv'
<1>1. PICK res \in Result : Produce(res)
  BY DEF Publish
<1>2. /\ UNCHANGED <<mon, alert, rows, incidents, committed, pos, pc, rid, st, dec, evt>>
      /\ stream' = Append(stream, res) /\ stream \in Seq(Result)
  BY <1>1, StoreFacts DEF Publish, Produce, locals, db
<1>3. \A k \in DOMAIN stream : stream'[k] = stream[k]
  BY <1>2
<1>4. TablesOK
  BY DEF RedisInv
<1>5. Run' = Run /\ Watermark' = Watermark /\ RunOK'
  BY <1>2, <1>3, <1>4, RunSame, WatermarkFact DEF TablesOK
<1>6. RowsOK'
  BY <1>2, <1>3, <1>4, StoreFacts DEF TablesOK, RowsOK
<1>7. AckedIsApplied'
  <2>1. \A k \in 1..committed : k \in DOMAIN stream
    BY StoreFacts
  <2> QED BY <1>2, <1>3, <1>4, <1>5, <2>1 DEF TablesOK, AckedIsApplied
<1>8. FirstOK' /\ OpenIncidentIsCurrent'
  BY <1>2, <1>4, <1>5 DEF TablesOK, FirstOK, OpenIncidentIsCurrent, Open
<1>9. ASSUME NEW c \in Consumers PROVE Inside(c)'
  <2>1. Inside(c)
    BY DEF RedisInv
  <2>2. CASE pc[c] = "idle"
    BY <1>2, <2>1, <2>2 DEF Inside, Stored
  <2>3. CASE pc[c] # "idle"
    <3>1. record(c)' = record(c)
      BY <1>2, <1>3, <2>3, OnItsRecord DEF record
    <3>2. UNCHANGED openIncident
      BY <1>2 DEF openIncident, Open
    <3>3. pc[c] = "apply" => \E m \in MonitorRow, o \in DOMAIN incidents \cup {None} : Decided(c, m, o)'
      <4> SUFFICES ASSUME NEW m \in MonitorRow, NEW o \in DOMAIN incidents \cup {None}, Decided(c, m, o)
                   PROVE  Decided(c, m, o)'
        BY <2>1 DEF Inside
      <4> QED BY <1>2, <1>5, <3>1, <3>2 DEF Decided
    <3> QED BY <1>2, <1>5, <2>1, <3>1, <3>3 DEF Inside, Stored, Applied, Columns
  <2> QED BY <2>2, <2>3
<1> QED BY <1>5, <1>6, <1>7, <1>8, <1>9 DEF RedisInv, TablesOK

\* An operator's close, an edit or a delete: the counters stay.
LEMMA ApiKeeps ==
  ASSUME Bus = "redis", Inv, RedisInv, Api
  PROVE  RedisInv'
<1>1. UNCHANGED <<alert, rows, committed, pos, pc, rid, st, dec, evt, stream>>
  BY DEF Api, ManualCloseIncident, UpdateMonitor, DeleteMonitor, groupVars, locals
<1>2. TablesOK /\ (mon'.exists => mon.exists)
  BY DEF RedisInv, Api, ManualCloseIncident, UpdateMonitor, DeleteMonitor, Inv, TypeOK, StoreType
<1>3. Run' = Run /\ Watermark' = Watermark /\ RunOK'
  BY <1>1, <1>2, RunSame DEF TablesOK
<1>4. /\ DOMAIN incidents' = DOMAIN incidents
      /\ \A i \in DOMAIN incidents : /\ incidents'[i].first = incidents[i].first
                                     /\ incidents'[i].started = incidents[i].started
                                     /\ Open(i)' => Open(i)
      /\ mon'.exists => openIncident' \in {openIncident, None}
  <2>1. CASE UNCHANGED incidents
    <3>1. openIncident' = openIncident
      BY <2>1 DEF openIncident, Open
    <3> QED BY <2>1, <3>1 DEF Open
  <2>2. CASE \E i \in DOMAIN incidents, now \in Times : ManualCloseIncident(i, now)
    <3>0. PICK i \in DOMAIN incidents, now \in Times : ManualCloseIncident(i, now)
      BY <2>2
    <3>1. PICK row : /\ row = [started |-> incidents[i].started, ended |-> now, reason |-> "manual",
                               first |-> incidents[i].first]
                     /\ incidents' = [incidents EXCEPT ![i] = row]
      BY <3>0 DEF ManualCloseIncident, ClosedRow
    <3>2. /\ DOMAIN incidents' = DOMAIN incidents /\ row.ended # None
          /\ row.first = incidents[i].first /\ row.started = incidents[i].started
          /\ \A j \in DOMAIN incidents : incidents'[j] = IF j = i THEN row ELSE incidents[j]
      BY <3>1, NoneAssumption DEF Times
    <3>3. \A j \in DOMAIN incidents : ~ Open(j)'
      BY <3>0, <3>2, StoreFacts DEF ManualCloseIncident, OneOpenIncident, Open
    <3>4. openIncident' = None
      BY <3>2, <3>3 DEF openIncident
    <3> QED BY <3>2, <3>3, <3>4
  <2> QED BY <2>1, <2>2 DEF Api, UpdateMonitor, DeleteMonitor
<1>5. TablesOK'
  BY <1>1, <1>2, <1>3, <1>4 DEF TablesOK, RowsOK, AckedIsApplied, FirstOK, OpenIncidentIsCurrent, Open
<1>6. ASSUME NEW c \in Consumers PROVE Inside(c)'
  <2>1. Inside(c)
    BY DEF RedisInv
  <2>2. pc[c] = "apply" => \E m \in MonitorRow, o \in DOMAIN incidents \cup {None} : Decided(c, m, o)'
    <3> SUFFICES ASSUME NEW m \in MonitorRow, NEW o \in DOMAIN incidents \cup {None}, Decided(c, m, o)
                 PROVE  Decided(c, m, o)'
      BY <2>1 DEF Inside
    <3> QED BY <1>1, <1>2, <1>3, <1>4 DEF Decided, record
  <2> QED BY <1>1, <1>2, <1>3, <1>4, <2>1, <2>2 DEF Inside, Stored, Applied, Columns, record
<1> QED BY <1>5, <1>6 DEF RedisInv

-----------------------------------------------------------------------------
(* ApplyAlertDecision. *)

State(n, first, warned, o) == [consec |-> n, firstFail |-> first, warned |-> warned, open |-> o]

\* What Apply decides on a healthy result and on a failing one.
Resets(d, o) ==
  /\ d.action = (IF o # None THEN "close" ELSE "none")
  /\ d.consec = 0 /\ d.firstFail = None /\ d.warned = None /\ d.renotify = FALSE
  /\ d.notify = IF o # None THEN [type |-> "recovery", warn |-> None] ELSE None
FailureCounted(d, m, res, n, first, warned, o) ==
  /\ d.consec = n + 1 /\ d.firstFail = IF n = 0 THEN res.at ELSE first
  /\ d.action = IF o = None /\ n + 1 >= m.threshold THEN "open" ELSE "none"
  /\ d.action = "open" => /\ d.startedAt = IF d.firstFail # None THEN d.firstFail ELSE res.at
                          /\ d.notify = [type |-> "down", warn |-> IF m.type = "ssl" THEN sslLevel(res) ELSE None]
  /\ d.renotify => /\ o # None /\ m.type = "ssl" /\ d.notify = [type |-> "down", warn |-> sslLevel(res)]
                   /\ d.warned = sslLevel(res) /\ (warned = None \/ sslLevel(res) < warned)
  /\ d.action = "none" /\ ~ d.renotify =>
       d.notify = None /\ d.warned = IF m.type = "ssl" THEN warned ELSE None
  /\ d.action = "open" => d.warned = IF m.type = "ssl" THEN sslLevel(res) ELSE None
  /\ d.renotify \in BOOLEAN

LEMMA HealthyFacts ==
  ASSUME NEW m, NEW res, NEW n, NEW first, NEW warned, NEW o, res.healthy
  PROVE  Resets(Apply(m, res, State(n, first, warned, o)), o)
BY DEF Apply, applyHealthy, State, NotifyEvent, Resets

LEMMA UnhealthyFacts ==
  ASSUME NEW m, NEW res, NEW n, NEW first, NEW warned, NEW o, ~ res.healthy
  PROVE  FailureCounted(Apply(m, res, State(n, first, warned, o)), m, res, n, first, warned, o)
<1>0. SUFFICES ASSUME NEW d, d = Apply(m, res, State(n, first, warned, o))
              PROVE  FailureCounted(d, m, res, n, first, warned, o)
  OBVIOUS
<1>1. d = applyUnhealthy(m, res, State(n, first, warned, o))
  BY <1>0 DEF Apply
<1>2. PICK opens, warns, ff :
        /\ opens = (o = None /\ n + 1 >= m.threshold)
        /\ warns = (o # None /\ m.type = "ssl" /\ (warned = None \/ sslLevel(res) < warned))
        /\ ff = IF n = 0 THEN res.at ELSE first
  OBVIOUS
<1>3. d = [ action    |-> IF opens THEN "open" ELSE "none",
            consec    |-> n + 1,
            firstFail |-> ff,
            startedAt |-> IF ~opens THEN None ELSE IF ff # None THEN ff ELSE res.at,
            endedAt   |-> None,
            warned    |-> IF ~ (m.type = "ssl") THEN None ELSE IF opens \/ warns THEN sslLevel(res) ELSE warned,
            renotify  |-> warns,
            notify    |-> IF opens \/ warns
                            THEN [type |-> "down", warn |-> IF m.type = "ssl" THEN sslLevel(res) ELSE None]
                            ELSE None ]
  BY <1>1, <1>2 DEF applyUnhealthy, State, NotifyEvent, ReachesThreshold, Tighter, firstFailAt
<1>4. /\ d.action = (IF opens THEN "open" ELSE "none") /\ d.consec = n + 1 /\ d.firstFail = ff
      /\ d.startedAt = (IF ~opens THEN None ELSE IF ff # None THEN ff ELSE res.at)
      /\ d.warned = (IF ~ (m.type = "ssl") THEN None ELSE IF opens \/ warns THEN sslLevel(res) ELSE warned)
      /\ d.renotify = warns
      /\ d.notify = (IF opens \/ warns
                       THEN [type |-> "down", warn |-> IF m.type = "ssl" THEN sslLevel(res) ELSE None]
                       ELSE None)
  BY <1>3
<1>5. CASE opens
  BY <1>2, <1>4, <1>5 DEF FailureCounted
<1>6. CASE ~ opens /\ warns
  BY <1>2, <1>4, <1>6 DEF FailureCounted
<1>7. CASE ~ opens /\ ~ warns
  BY <1>2, <1>4, <1>7 DEF FailureCounted
<1> QED BY <1>5, <1>6, <1>7

\* The result that is applied is the next row behind the watermark.
LEMMA PersistRow ==
  ASSUME Bus = "redis", Inv, RedisInv, NEW c \in Consumers, Persist(c), UNCHANGED <<stream, committed>>
  PROVE  /\ rid[c] \in DOMAIN rows /\ rows[rid[c]] = pos[c] /\ rid[c] = Len(rows) /\ rid[c] \in Nat
         /\ Watermark = rid[c] - 1 /\ Watermark' = rid[c]
<1>1. /\ Inside(c) /\ TablesOK /\ pc[c] = "apply" /\ mon.exists /\ ~ Skipped(c)
      /\ alert'.watermark = rid[c]
  BY DEF RedisInv, Persist
<1>2. /\ rid[c] = Len(rows) /\ rid[c] \in DOMAIN rows /\ rows[rid[c]] = pos[c] /\ pos[c] = committed + 1
      /\ DOMAIN rows = 1..Len(rows) /\ Len(rows) \in Nat /\ Watermark \in 0..Len(rows)
      /\ alert.watermark = None \/ alert.watermark = Watermark
  BY <1>1, WatermarkFact DEF Inside, Stored, TablesOK
<1>3. Watermark < rid[c]
  BY <1>1, <1>2 DEF Skipped, Watermark
<1>4. Watermark >= rid[c] - 1
  <2>1. CASE rid[c] = 1
    BY <1>2, <2>1
  <2>2. CASE rid[c] # 1
    <3>1. PICK prev \in DOMAIN rows : prev = rid[c] - 1
      BY <1>2, <2>2
    <3>2. rows[prev] < pos[c] /\ rows[prev] \in DOMAIN stream /\ stream[rows[prev]].ok
      <4>1. rows[prev] \in DOMAIN stream /\ stream[rows[prev]].ok
        BY <1>1, StoreFacts DEF TablesOK, RowsOK
      <4>2. prev < rid[c]
        BY <1>2, <3>1
      <4>3. rows[prev] < rows[rid[c]]
        BY <1>1, <1>2, <4>2 DEF TablesOK, RowsOK
      <4> QED BY <1>2, <4>1, <4>3
    <3>3. rows[prev] \in 1..committed
      BY <1>2, <3>2, StoreFacts
    <3>4. PICK id \in 1..Watermark : rows[id] = rows[prev]
      BY <1>1, <3>2, <3>3 DEF TablesOK, AckedIsApplied
    <3>5. id \in DOMAIN rows
      BY <1>2
    <3>6. id = prev
      <4>1. id < prev => rows[id] < rows[prev]
        BY <1>1, <3>1, <3>5 DEF TablesOK, RowsOK
      <4>2. prev < id => rows[prev] < rows[id]
        BY <1>1, <3>1, <3>5 DEF TablesOK, RowsOK
      <4>3. rows[id] \in Nat /\ id \in Nat /\ prev \in Nat
        BY <1>2, <3>5, StoreFacts
      <4> QED BY <3>4, <4>1, <4>2, <4>3
    <3> QED BY <1>2, <3>1, <3>6
  <2> QED BY <2>1, <2>2
<1>5. Watermark' = rid[c]
  BY <1>1, <1>2, NoneAssumption DEF Watermark
<1>6. Watermark = rid[c] - 1 /\ rid[c] \in Nat
  <2>1. rid[c] \in Nat /\ Watermark \in Nat
    BY <1>2
  <2> QED BY <1>3, <1>4, <2>1
<1> QED BY <1>2, <1>5, <1>6

\* A healthy result ends the run, a failing one is its new end.
LEMMA RunNext ==
  ASSUME Inv, RowsOK, NEW id \in DOMAIN rows, Watermark = id - 1, Watermark' = id, UNCHANGED <<stream, rows>>
  PROVE  Run' = IF stream[rows[id]].healthy THEN {} ELSE Run \cup {id}
<1>1. id \in Nat /\ id >= 1
  BY StoreFacts
<1>2. Run' = {i \in 1..id : \A j \in i..id : ~ stream[rows[j]].healthy}
  BY DEF Run
<1>3. Run = {i \in 1..(id - 1) : \A j \in i..(id - 1) : ~ stream[rows[j]].healthy}
  BY DEF Run
<1>4. CASE stream[rows[id]].healthy
  <2>1. \A i \in 1..id : id \in i..id
    BY <1>1
  <2> QED BY <1>2, <1>4, <2>1
<1>5. CASE ~ stream[rows[id]].healthy
  <2>1. \A i \in 1..(id - 1) : i..id = (i..(id - 1)) \cup {id}
    BY <1>1
  <2>2. id..id = {id} /\ 1..id = (1..(id - 1)) \cup {id}
    BY <1>1
  <2> QED BY <1>2, <1>3, <1>5, <2>1, <2>2
<1> QED BY <1>4, <1>5

\* What the transaction writes, for each kind of result.
Recovered ==
  /\ alert'.consec = 0 /\ alert'.firstFail = None
  /\ openIncident = None => incidents' = incidents
  /\ openIncident # None => \E t \in Times : incidents' = ClosedRow(openIncident, t, "recovered")
Failed(c) ==
  /\ alert'.consec = alert.consec + 1
  /\ alert'.firstFail = IF alert.consec = 0 THEN record(c).at ELSE alert.firstFail
  /\ \/ /\ dec[c].action = "open" /\ openIncident = None
        /\ dec[c].startedAt = IF alert'.firstFail # None THEN alert'.firstFail ELSE record(c).at
        /\ incidents' = Append(incidents, [started |-> dec[c].startedAt, ended |-> None,
                                           reason |-> None, first |-> rid[c]])
     \/ dec[c].action = "none" /\ incidents' = incidents

LEMMA PersistEffect ==
  ASSUME Bus = "redis", Inv, RedisInv, NEW c \in Consumers, Persist(c), UNCHANGED <<stream, committed>>
  PROVE  /\ record(c) = stream[rows[rid[c]]] /\ record(c) \in Result
         /\ Run' = IF record(c).healthy THEN {} ELSE Run \cup {rid[c]}
         /\ record(c).healthy => Recovered
         /\ ~ record(c).healthy => Failed(c)
<1>1. /\ Inside(c) /\ TablesOK /\ pc[c] = "apply" /\ mon.exists
      /\ incidents' = IncidentsAfter(dec[c], rid[c]) /\ rows' = rows
      /\ alert'.consec = dec[c].consec /\ alert'.firstFail = dec[c].firstFail
  BY DEF RedisInv, Persist
<1>2. PICK m \in MonitorRow, o \in DOMAIN incidents \cup {None} : Decided(c, m, o)
  BY <1>1 DEF Inside
<1>3. /\ rid[c] \in DOMAIN rows /\ rows[rid[c]] = pos[c] /\ Watermark = rid[c] - 1 /\ Watermark' = rid[c]
  BY PersistRow
<1>4. record(c) = stream[rows[rid[c]]] /\ record(c) \in Result
  BY <1>1, <1>3, OnItsRecord DEF record
<1>5. Run' = IF record(c).healthy THEN {} ELSE Run \cup {rid[c]}
  BY <1>1, <1>3, <1>4, RunNext DEF TablesOK
<1>6. /\ dec[c] = Apply(m, record(c), State(alert.consec, alert.firstFail, alert.warned, o))
      /\ openIncident \in {o, None}
  BY <1>1, <1>2 DEF Decided, State
<1>7. /\ DecisionOK(dec[c]) /\ rid[c] \in Nat /\ incidents \in Seq(Incident)
  BY <1>1 DEF Inv, LocalsOK, LocalOK, TypeOK, StoreType
<1>8. PICK d, id, res, n, first, w :
        /\ d = dec[c] /\ id = rid[c] /\ res = record(c)
        /\ n = alert.consec /\ first = alert.firstFail /\ w = alert.warned
  OBVIOUS
<1>9. d = Apply(m, res, State(n, first, w, o))
  BY <1>6, <1>8
<1>10. /\ d.action = "open" /\ openIncident = None =>
            incidents' = Append(incidents, [started |-> d.startedAt, ended |-> None,
                                            reason |-> None, first |-> id])
       /\ d.action = "close" /\ openIncident # None =>
            incidents' = ClosedRow(openIncident, d.endedAt, "recovered")
       /\ ~(d.action = "open" /\ openIncident = None)
          /\ ~(d.action = "close" /\ openIncident # None) => incidents' = incidents
  BY <1>1, <1>7, <1>8, PersistIncidents
<1>11. CASE record(c).healthy
  <2>1. /\ d.action = (IF o # None THEN "close" ELSE "none") /\ d.consec = 0 /\ d.firstFail = None
    <3>1. Resets(d, o)
      BY <1>8, <1>9, <1>11, HealthyFacts
    <3>2. /\ d.action = (IF o # None THEN "close" ELSE "none") /\ d.consec = 0 /\ d.firstFail = None
      BY <3>1 DEF Resets
    <3> QED BY <3>2
  <2>2. CASE openIncident = None
    <3>1. incidents' = incidents
      BY <1>10, <2>1, <2>2
    <3> QED BY <1>1, <1>4, <1>5, <1>8, <1>11, <2>1, <2>2, <3>1 DEF Recovered
  <2>3. CASE openIncident # None
    <3>1. o # None /\ d.action = "close" /\ d.endedAt \in Times
      BY <1>6, <1>7, <1>8, <2>1, <2>3 DEF DecisionOK
    <3>2. incidents' = ClosedRow(openIncident, d.endedAt, "recovered")
      BY <1>10, <2>3, <3>1
    <3> QED BY <1>1, <1>4, <1>5, <1>8, <1>11, <2>1, <2>3, <3>1, <3>2 DEF Recovered
  <2> QED BY <2>2, <2>3
<1>12. CASE ~ record(c).healthy
  <2>1. /\ d.consec = alert.consec + 1
        /\ d.firstFail = IF alert.consec = 0 THEN record(c).at ELSE alert.firstFail
        /\ d.action = IF o = None /\ alert.consec + 1 >= m.threshold THEN "open" ELSE "none"
        /\ d.action = "open" => d.startedAt = IF d.firstFail # None THEN d.firstFail ELSE record(c).at
    <3>1. FailureCounted(d, m, res, n, first, w, o)
      BY <1>8, <1>9, <1>12, UnhealthyFacts
    <3>2. /\ d.consec = n + 1
          /\ d.firstFail = IF n = 0 THEN res.at ELSE first
          /\ d.action = IF o = None /\ n + 1 >= m.threshold THEN "open" ELSE "none"
          /\ d.action = "open" => d.startedAt = IF d.firstFail # None THEN d.firstFail ELSE res.at
      BY <3>1 DEF FailureCounted
    <3> QED BY <1>8, <3>2
  <2>2. CASE d.action = "open"
    <3>1. openIncident = None
      BY <1>6, <2>1, <2>2
    <3>2. incidents' = Append(incidents, [started |-> d.startedAt, ended |-> None,
                                          reason |-> None, first |-> id])
      BY <1>10, <2>2, <3>1
    <3> QED BY <1>1, <1>4, <1>5, <1>8, <1>12, <2>1, <2>2, <3>1, <3>2 DEF Failed
  <2>3. CASE d.action = "none"
    <3>1. incidents' = incidents
      BY <1>10, <2>3
    <3> QED BY <1>1, <1>4, <1>5, <1>8, <1>12, <2>1, <2>3, <3>1 DEF Failed
  <2> QED BY <2>1, <2>2, <2>3
<1> QED BY <1>11, <1>12

LEMMA PersistKeeps ==
  ASSUME Bus = "redis", Inv, RedisInv, NEW c \in Consumers, Persist(c), UNCHANGED <<stream, committed>>
  PROVE  TablesOK' /\ Watermark' = rid[c] /\ rows' = rows /\ rows[rid[c]] = pos[c] /\ rid[c] \in 1..Watermark'
<1>1. TablesOK /\ rows' = rows /\ mon' = mon /\ alert'.watermark = rid[c]
  BY DEF RedisInv, Persist
<1>2. /\ rid[c] \in DOMAIN rows /\ rows[rid[c]] = pos[c] /\ rid[c] \in Nat
      /\ Watermark = rid[c] - 1 /\ Watermark' = rid[c]
  BY PersistRow
<1>3. PICK id, W, res : id = rid[c] /\ W = Watermark /\ res = record(c)
  OBVIOUS
<1>4. id \in Nat /\ W \in Nat /\ id = W + 1 /\ Watermark' = id /\ Watermark = W /\ id \in 1..id
  BY <1>2, <1>3, StoreFacts
<1>5. RowsOK'
  BY <1>1, <1>2 DEF TablesOK, RowsOK
<1>6. AckedIsApplied'
  <2>1. \A j \in 1..W : j \in 1..id
    BY <1>4
  <2> QED BY <1>1, <1>4, <2>1 DEF TablesOK, AckedIsApplied
<1>7. PICK a \in 1..(W + 1) : RunFrom(a)
  BY <1>1, <1>4 DEF TablesOK, RunOK
<1>8. /\ Run = a..W /\ alert.consec = W + 1 - a /\ alert.consec \in Nat /\ a \in Nat
      /\ alert.firstFail = IF a <= W THEN stream[rows[a]].at ELSE None
  BY <1>4, <1>7 DEF RunFrom
<1>9. /\ res = stream[rows[id]] /\ res.at \in Times
      /\ Run' = IF res.healthy THEN {} ELSE Run \cup {id}
      /\ res.healthy => Recovered
      /\ ~ res.healthy => Failed(c)
  BY <1>3, PersistEffect DEF Result
<1>10. CASE res.healthy
  <2>1. Recovered /\ Run' = {}
    BY <1>9, <1>10
  <2>2. RunFrom(id + 1)'
    BY <1>4, <2>1 DEF RunFrom, Recovered
  <2>3. RunOK'
    BY <1>4, <2>2 DEF RunOK
  <2>4. CASE openIncident = None
    <3>1. incidents' = incidents /\ \A i \in DOMAIN incidents : ~ Open(i)
      BY <2>1, <2>4, OpenIncidentFact, StoreFacts DEF Recovered
    <3>2. FirstOK' /\ OpenIncidentIsCurrent'
      BY <1>1, <1>4, <3>1 DEF TablesOK, FirstOK, OpenIncidentIsCurrent, Open
    <3> QED BY <1>1, <1>2, <1>3, <1>4, <1>5, <1>6, <2>3, <3>2 DEF TablesOK
  <2>5. CASE openIncident # None
    <3>0. PICK t \in Times : incidents' = ClosedRow(openIncident, t, "recovered")
      BY <2>1, <2>5 DEF Recovered
    <3>1. PICK k : k = openIncident /\ Open(k) /\ incidents' = ClosedRow(k, t, "recovered")
      BY <2>5, <3>0, OpenIncidentFact
    <3>2. PICK row : /\ row = [started |-> incidents[k].started, ended |-> t, reason |-> "recovered",
                               first |-> incidents[k].first]
                     /\ incidents' = [incidents EXCEPT ![k] = row]
      BY <3>1 DEF ClosedRow
    <3>3. /\ DOMAIN incidents' = DOMAIN incidents /\ row.ended # None /\ row.first = incidents[k].first
          /\ \A j \in DOMAIN incidents : incidents'[j] = IF j = k THEN row ELSE incidents[j]
      BY <3>2, NoneAssumption DEF Times
    <3>4. \A j \in DOMAIN incidents : ~ Open(j)'
      BY <3>1, <3>3, StoreFacts DEF OneOpenIncident, Open
    <3>5. \A i \in DOMAIN incidents' : incidents'[i].first \in 1..W
      BY <1>1, <1>4, <3>3 DEF TablesOK, FirstOK
    <3>6. FirstOK' /\ OpenIncidentIsCurrent'
      BY <1>4, <3>3, <3>4, <3>5 DEF FirstOK, OpenIncidentIsCurrent
    <3> QED BY <1>1, <1>2, <1>3, <1>4, <1>5, <1>6, <2>3, <3>6 DEF TablesOK
  <2> QED BY <2>4, <2>5
<1>11. CASE ~ res.healthy
  <2>1. Failed(c) /\ Run' = Run \cup {id}
    BY <1>9, <1>11
  <2>2. alert'.consec = alert.consec + 1 /\ alert'.firstFail = IF alert.consec = 0 THEN res.at ELSE alert.firstFail
    BY <1>3, <2>1 DEF Failed
  <2>3. RunFrom(a)'
    <3>1. Run' = a..id /\ alert'.consec = id + 1 - a /\ a <= id
      BY <1>4, <1>8, <2>1, <2>2
    <3>2. alert'.firstFail = stream[rows[a]].at
      <4>1. CASE a = W + 1
        BY <1>4, <1>8, <1>9, <2>2, <4>1
      <4>2. CASE a <= W
        BY <1>4, <1>8, <2>2, <4>2
      <4> QED BY <1>4, <1>8, <4>1, <4>2
    <3> QED BY <1>1, <1>4, <3>1, <3>2 DEF RunFrom
  <2>4. RunOK'
    BY <1>4, <1>8, <2>3 DEF RunOK
  <2>5. alert'.firstFail # None
    <3>1. a \in DOMAIN rows
      <4>1. DOMAIN rows = 1..Len(rows) /\ Len(rows) \in Nat /\ id \in DOMAIN rows
        BY <1>2, <1>3, StoreFacts
      <4> QED BY <1>4, <1>8, <4>1
    <3>0. alert'.firstFail = stream[rows[a]].at
      <4>1. a <= Watermark'
        BY <1>4, <1>8
      <4> QED BY <1>1, <2>3, <4>1 DEF RunFrom
    <3>2. stream[rows[a]] \in Result
      BY <3>1, StoreFacts
    <3> QED BY <3>0, <3>2, NoneAssumption DEF Result, Times
  <2>6. CASE /\ openIncident = None
             /\ dec[c].startedAt = IF alert'.firstFail # None THEN alert'.firstFail ELSE record(c).at
             /\ incidents' = Append(incidents, [started |-> dec[c].startedAt, ended |-> None,
                                                reason |-> None, first |-> rid[c]])
    <3>1. PICK row : /\ row = [started |-> dec[c].startedAt, ended |-> None, reason |-> None, first |-> rid[c]]
                     /\ incidents' = Append(incidents, row)
      BY <2>6
    <3>2. row.started = alert'.firstFail /\ row.first = id
      BY <1>3, <2>5, <2>6, <3>1
    <3>3. /\ incidents \in Seq(Incident) /\ \A i \in DOMAIN incidents : ~ Open(i)
      BY <2>6, OpenIncidentFact, StoreFacts
    <3>4. /\ \A i \in DOMAIN incidents' : i \in DOMAIN incidents \/ incidents'[i] = row
          /\ \A i \in DOMAIN incidents : incidents'[i] = incidents[i]
      BY <3>1, <3>3
    <3>5. FirstOK'
      <4>1. \A i \in DOMAIN incidents : incidents[i].first \in 1..id
        BY <1>1, <1>4 DEF TablesOK, FirstOK
      <4> QED BY <1>4, <3>2, <3>4, <4>1 DEF FirstOK
    <3>6. OpenIncidentIsCurrent'
      BY <2>1, <3>2, <3>3, <3>4 DEF OpenIncidentIsCurrent, Open
    <3> QED BY <1>1, <1>2, <1>3, <1>4, <1>5, <1>6, <2>4, <3>5, <3>6 DEF TablesOK
  <2>7. CASE incidents' = incidents
    <3>1. FirstOK'
      <4>1. \A i \in DOMAIN incidents : incidents[i].first \in 1..id
        BY <1>1, <1>4 DEF TablesOK, FirstOK
      <4> QED BY <1>4, <2>7, <4>1 DEF FirstOK
    <3>2. Run # {} => alert'.firstFail = alert.firstFail
      BY <1>4, <1>8, <2>2
    <3>3. OpenIncidentIsCurrent'
      BY <1>1, <2>1, <2>7, <3>2 DEF TablesOK, OpenIncidentIsCurrent, Open
    <3> QED BY <1>1, <1>2, <1>3, <1>4, <1>5, <1>6, <2>4, <3>1, <3>3 DEF TablesOK
  <2> QED BY <2>1, <2>6, <2>7 DEF Failed
<1> QED BY <1>10, <1>11

LEMMA ApplyKeeps ==
  ASSUME Bus = "redis", Inv, RedisInv, NEW c \in Consumers, ApplyAlertDecision(c) \/ ApplyUnsure(c)
  PROVE  RedisInv'
<1>1. Persist(c) /\ Inside(c) /\ pc[c] = "apply" /\ record(c).ok
  BY DEF ApplyAlertDecision, ApplyUnsure, RedisInv, Persist, Inside, Stored
<1>2. UNCHANGED <<stream, committed, pos>>
  BY ReturnsOK, ReturnsErr DEF ApplyAlertDecision, ApplyUnsure, Goto
<1>3. TablesOK' /\ rows' = rows /\ rows[rid[c]] = pos[c] /\ rid[c] \in 1..Watermark'
  BY <1>1, <1>2, PersistKeeps
<1>4. Applied(pos[c])'
  BY <1>2, <1>3 DEF Applied
<1>5. pc'[c] \in {"emit", "ack", "idle"} /\ (pc'[c] # "emit" => evt'[c] = None)
  <2>1. CASE HandleOK(c) \/ HandleErr(c)
    BY <2>1, ReturnsOK, ReturnsErr
  <2>2. CASE Goto(c, "emit")
    BY <2>2 DEF Goto, Inv, TypeOK, GroupTypeOK
  <2> QED BY <2>1, <2>2 DEF ApplyAlertDecision, ApplyUnsure
<1>6. Inside(c)'
  BY <1>1, <1>2, <1>4, <1>5 DEF Inside, Stored
<1> QED BY <1>3, <1>6, OneConsumer DEF RedisInv

-----------------------------------------------------------------------------
(* The theorems. *)

LEMMA RedisInit ==
  ASSUME Init
  PROVE  RedisInv
<1>1. /\ stream = <<>> /\ committed = 0 /\ rows = <<>> /\ incidents = <<>>
      /\ alert = [consec |-> 0, firstFail |-> None, watermark |-> None, warned |-> None]
      /\ \A c \in Consumers : pos[c] = 1 /\ pc[c] = "idle" /\ evt[c] = None
  BY DEF Init, GroupInit
<1>2. Watermark = 0 /\ Run = {}
  BY <1>1 DEF Watermark, Run
<1>3. RowsOK /\ AckedIsApplied /\ FirstOK /\ OpenIncidentIsCurrent
  BY <1>1 DEF RowsOK, AckedIsApplied, FirstOK, OpenIncidentIsCurrent
<1>4. RunOK
  <2>1. RunFrom(1)
    BY <1>1, <1>2 DEF RunFrom
  <2> QED BY <1>2, <2>1 DEF RunOK
<1>5. \A c \in Consumers : Inside(c)
  BY <1>1 DEF Inside, Stored
<1> QED BY <1>3, <1>4, <1>5 DEF RedisInv, TablesOK

LEMMA RedisNext ==
  ASSUME Bus = "redis", Inv, RedisInv, [Next]_vars
  PROVE  RedisInv'
<1>1. CASE Publish \/ Api
  BY <1>1, PublishKeeps, ApiKeeps
<1>2. CASE \E c \in Consumers : Work(c) \/ Fault(c)
  <2>1. PICK c \in Consumers : Work(c) \/ Fault(c)
    BY <1>2
  <2> QED BY <2>1, LoopKeeps, QuietSteps, UpsertKeeps, ReadsKeep, ApplyKeeps DEF Work, Fault
<1>3. CASE UNCHANGED vars
  <2>1. UNCHANGED <<stream, committed, mon, alert, rows, incidents, pos, pc, rid, st, dec, evt>>
    BY <1>3 DEF vars
  <2>2. TablesOK' /\ Run' = Run /\ Watermark' = Watermark
    BY <2>1, TablesQuiet DEF RedisInv
  <2>3. ASSUME NEW c \in Consumers PROVE Inside(c)'
    <3>1. Inside(c) /\ openIncident' = openIncident /\ record(c)' = record(c)
      BY <2>1 DEF RedisInv, openIncident, Open, record
    <3>2. pc[c] = "apply" => \E m \in MonitorRow, o \in DOMAIN incidents \cup {None} : Decided(c, m, o)'
      <4> SUFFICES ASSUME NEW m \in MonitorRow, NEW o \in DOMAIN incidents \cup {None}, Decided(c, m, o)
                   PROVE  Decided(c, m, o)'
        BY <3>1 DEF Inside
      <4> QED BY <2>1, <2>2, <3>1 DEF Decided
    <3> QED BY <2>1, <2>2, <3>1, <3>2 DEF Inside, Stored, Applied, Columns
  <2> QED BY <2>2, <2>3 DEF RedisInv
<1> QED BY <1>1, <1>2, <1>3 DEF Next

\* The invariant of the Redis deployment is one.
LEMMA RedisInvariance ==
  ASSUME Bus = "redis"
  PROVE  Spec => []RedisInv
<1>1. Inv /\ RedisInv /\ [Next]_vars => RedisInv'
  BY RedisNext
<1>2. Init => RedisInv
  BY RedisInit
<1> QED BY <1>1, <1>2, Invariance, PTL DEF Spec

\* On Redis no result is counted twice or left out: the two counters of the
\* monitor row are what the applied rows say (GetAlertState, ApplyAlertDecision).
THEOREM CountersAreTrue ==
  ASSUME Bus = "redis"
  PROVE  Spec => []CountersMatchHistory
<1>1. Inv /\ RedisInv => CountersMatchHistory
  <2> SUFFICES ASSUME Inv, RedisInv PROVE CountersMatchHistory
    OBVIOUS
  <2>1. Watermark \in Nat
    BY StoreFacts
  <2>2. PICK a \in 1..(Watermark + 1) : RunFrom(a)
    BY DEF RedisInv, TablesOK, RunOK
  <2>3. PICK W \in Nat : W = Watermark
    BY <2>1
  <2>4. /\ Run = a..W /\ alert.consec = W + 1 - a /\ a \in 1..(W + 1)
        /\ alert.firstFail = IF a <= W THEN stream[rows[a]].at ELSE None
    BY <2>2, <2>3 DEF RunFrom
  <2>5. Cardinality(a..W) = IF a > W THEN 0 ELSE W - a + 1
    BY <2>4, FS_Interval
  <2>6. alert.consec = Cardinality(Run)
    BY <2>4, <2>5
  <2>7. Run = {} => alert.firstFail = None
    BY <2>4
  <2>8. ASSUME NEW id \in Run, \A j \in Run : id <= j
        PROVE  alert.firstFail = stream[rows[id]].at
    <3>1. a \in Run /\ a <= W
      BY <2>4
    <3>2. id = a
      BY <2>4, <2>8, <3>1
    <3> QED BY <2>4, <3>1, <3>2
  <2> QED BY <2>6, <2>7, <2>8 DEF CountersMatchHistory
<1> QED BY <1>1, Invariance, RedisInvariance, PTL

\* On Redis an open incident is always the one of the run that is still failing:
\* no healthy result leaves an incident of an earlier run behind it.
THEOREM IncidentOfThisRun ==
  ASSUME Bus = "redis"
  PROVE  Spec => []OpenIncidentIsCurrent
<1>1. RedisInv => OpenIncidentIsCurrent
  BY DEF RedisInv, TablesOK
<1> QED BY <1>1, RedisInvariance, PTL

\* On Redis an entry is acked only when its result has been applied: crashes,
\* failed calls and lost commit answers lose none (Run, redis Consumer.Poll).
THEOREM NothingAckedUnapplied ==
  ASSUME Bus = "redis"
  PROVE  Spec => []AckedIsApplied
<1>1. RedisInv => AckedIsApplied
  BY DEF RedisInv, TablesOK
<1> QED BY <1>1, RedisInvariance, PTL

-----------------------------------------------------------------------------
(* The refinement: Service!SvcNext, step by step. *)

\* The state of AlertService as AlertingRefinement maps it.
Upto    == IF alert.watermark = None THEN 0 ELSE rows[alert.watermark]
Covered == \E i \in DOMAIN incidents : incidents[i].first \in Run
Life    == [i \in DOMAIN incidents |->
              IF incidents[i].ended = None THEN "open" ELSE incidents[i].reason]

LEMMA UptoSame ==
  ASSUME Inv, RowsOK, UNCHANGED alert, \A id \in 1..Watermark : rows'[id] = rows[id]
  PROVE  Upto' = Upto
<1>1. alert.watermark # None => alert.watermark \in 1..Watermark
  BY WatermarkFact DEF RowsOK, Watermark
<1> QED BY <1>1 DEF Upto

\* A step that writes neither the alert columns nor the incidents.
LEMMA ServiceSame ==
  ASSUME Inv, RedisInv, UNCHANGED <<alert, incidents>>,
         \A id \in 1..Watermark : rows'[id] = rows[id] /\ stream'[rows[id]] = stream[rows[id]]
  PROVE  Upto' = Upto /\ Covered' = Covered /\ Life' = Life
<1>1. RowsOK
  BY DEF RedisInv, TablesOK
<1>2. Run' = Run
  BY <1>1, RunSame
<1>3. Upto' = Upto
  BY <1>1, UptoSame
<1> QED BY <1>2, <1>3 DEF Covered, Life

LEMMA ServiceStutters ==
  ASSUME Upto' = Upto, Covered' = Covered, Life' = Life, UNCHANGED <<stream, evt, emitted>>,
         alert'.consec = alert.consec
  PROVE  UNCHANGED Service!svc
BY DEF Service!svc, Upto, Covered, Life

\* A consumer that holds no event forgets none.
LEMMA ForgetsNothing ==
  ASSUME Inv, NEW c \in Consumers, evt[c] = None, Forget(c)
  PROVE  evt' = evt
BY DEF Forget, Inv, TypeOK, LocalsType

LEMMA OpenOnesFact ==
  ASSUME Inv
  PROVE  /\ DOMAIN Life = DOMAIN incidents
         /\ Service!OpenOnes = {i \in DOMAIN incidents : Open(i)}
         /\ openIncident = None => Service!OpenOnes = {}
         /\ openIncident # None => openIncident \in Service!OpenOnes
<1>1. \A i \in DOMAIN incidents : Life[i] = "open" <=> Open(i)
  <2>1. \A i \in DOMAIN incidents : incidents[i] \in Incident
    BY StoreFacts
  <2>2. \A row \in Incident : row.reason # "open"
    BY OpenAssumption DEF Incident, CloseReasons
  <2> QED BY <2>1, <2>2 DEF Life, Open
<1>2. Service!OpenOnes = {i \in DOMAIN incidents : Open(i)} /\ DOMAIN Life = DOMAIN incidents
  BY <1>1 DEF Service!OpenOnes, Life
<1>3. openIncident # None => Open(openIncident)
  BY OpenIncidentFact
<1>4. openIncident = None => \A i \in DOMAIN incidents : ~Open(i)
  BY OpenIncidentFact, StoreFacts
<1> QED BY <1>2, <1>3, <1>4 DEF Open

\* Closing one row, and inserting one.
LEMMA LifeCloses ==
  ASSUME NEW k \in DOMAIN incidents, NEW t \in Times, NEW why, incidents' = ClosedRow(k, t, why)
  PROVE  /\ Life' = [Life EXCEPT ![k] = why]
         /\ DOMAIN incidents' = DOMAIN incidents
         /\ \A i \in DOMAIN incidents : incidents'[i].first = incidents[i].first
<1>1. PICK row : row = [started |-> incidents[k].started, ended |-> t, reason |-> why, first |-> incidents[k].first]
  OBVIOUS
<1>2. incidents' = [incidents EXCEPT ![k] = row]
  BY <1>1 DEF ClosedRow
<1>3. row.ended # None /\ row.reason = why /\ row.first = incidents[k].first
  BY <1>1, NoneAssumption DEF Times
<1>4. /\ DOMAIN incidents' = DOMAIN incidents
      /\ \A i \in DOMAIN incidents : incidents'[i] = IF i = k THEN row ELSE incidents[i]
  BY <1>2
<1> QED BY <1>3, <1>4 DEF Life

LEMMA LifeOpens ==
  ASSUME incidents \in Seq(Incident), NEW row, row.ended = None, incidents' = Append(incidents, row)
  PROVE  Life' = Append(Life, "open") /\ Len(Life) = Len(incidents)
<1>1. PICK n \in Nat : n = Len(incidents) /\ DOMAIN incidents = 1..n
  OBVIOUS
<1>2. Life \in Seq({"open"} \cup CloseReasons \cup {None}) /\ Len(Life) = n
  <2>0. \A i \in 1..n : incidents[i] \in Incident
    BY <1>1
  <2>1. \A i \in 1..n : Life[i] \in {"open"} \cup CloseReasons \cup {None}
    BY <1>1, <2>0 DEF Life, Incident
  <2>2. Life = [i \in 1..n |-> Life[i]]
    BY <1>1 DEF Life
  <2> QED BY <1>1, <2>1, <2>2, IsASeq
<1>3. /\ DOMAIN incidents' = 1..(n + 1) /\ incidents'[n + 1] = row
      /\ \A i \in 1..n : incidents'[i] = incidents[i]
  BY <1>1
<1>4. /\ DOMAIN Append(Life, "open") = 1..(n + 1) /\ Append(Life, "open")[n + 1] = "open"
      /\ \A i \in 1..n : Append(Life, "open")[i] = Life[i]
  BY <1>2
<1>5. Append(Life, "open") = [i \in 1..(n + 1) |-> Append(Life, "open")[i]]
  <2>1. PICK s : s = Append(Life, "open")
    OBVIOUS
  <2>2. s \in Seq({"open"} \cup CloseReasons \cup {None}) /\ DOMAIN s = 1..(n + 1)
    BY <1>2, <1>4, <2>1
  <2>3. s = [i \in 1..(n + 1) |-> s[i]]
    BY <2>2
  <2> QED BY <2>1, <2>3
<1>6. Life' = [i \in 1..(n + 1) |-> IF i = n + 1 THEN "open" ELSE Life[i]]
  BY <1>1, <1>3 DEF Life
<1> QED BY <1>1, <1>2, <1>4, <1>5, <1>6

\* The transaction observes the next result that decodes.
LEMMA PersistObserves ==
  ASSUME Bus = "redis", Inv, RedisInv, NEW c \in Consumers, Persist(c), UNCHANGED <<stream, committed>>
  PROVE  Service!Observe(c, pos[c]) /\ pos[c] \in DOMAIN stream
<1>1. /\ pc[c] = "apply" /\ Inside(c) /\ TablesOK /\ mon.exists /\ rows' = rows
      /\ alert'.watermark = rid[c] /\ emitted' = emitted /\ record(c).ok /\ evt[c] = None
  BY DEF Persist, RedisInv, Inside, Stored
<1>2. /\ rid[c] \in DOMAIN rows /\ rows[rid[c]] = pos[c] /\ rid[c] \in Nat
      /\ Watermark = rid[c] - 1 /\ Watermark' = rid[c]
  BY PersistRow
<1>3. /\ pos[c] \in DOMAIN stream /\ pos[c] = committed + 1 /\ committed \in Nat
      /\ \A i \in DOMAIN rows : rows[i] \in Nat
      /\ DOMAIN stream = 1..Len(stream) /\ Len(stream) \in Nat
  BY <1>1, OnItsRecord, StoreFacts DEF Inside
<1>4. /\ Watermark \in Nat /\ (alert.watermark = None \/ alert.watermark = Watermark)
      /\ \A id \in 1..Watermark : id \in DOMAIN rows
  BY <1>1, WatermarkFact DEF TablesOK
<1>5. Upto' = pos[c]
  BY <1>1, <1>2, NoneAssumption DEF Upto
<1>6. \A id \in 1..Watermark : rows[id] <= Upto /\ alert.watermark = Watermark
  <2> SUFFICES ASSUME NEW id \in 1..Watermark
               PROVE  rows[id] <= Upto /\ alert.watermark = Watermark
    OBVIOUS
  <2>1. alert.watermark = Watermark /\ alert.watermark # None
    BY <1>4, NoneAssumption DEF Watermark
  <2>2. Upto = rows[Watermark] /\ Watermark \in DOMAIN rows /\ id \in DOMAIN rows
    BY <1>4, <2>1 DEF Upto
  <2>3. id < Watermark => rows[id] < rows[Watermark]
    BY <1>1, <2>2 DEF TablesOK, RowsOK
  <2> QED BY <1>3, <1>4, <2>1, <2>2, <2>3
<1>7. Upto < pos[c] /\ Upto \in Nat
  <2>1. CASE alert.watermark = None
    BY <1>3, <2>1 DEF Upto
  <2>2. CASE alert.watermark # None
    <3>1. Upto = rows[Watermark] /\ Watermark \in DOMAIN rows
      BY <1>1, <2>2 DEF Upto, Watermark, TablesOK, RowsOK
    <3>2. Watermark < rid[c]
      BY <1>2
    <3>3. rows[Watermark] < rows[rid[c]]
      BY <1>1, <1>2, <3>1, <3>2 DEF TablesOK, RowsOK
    <3> QED BY <1>2, <1>3, <3>1, <3>3
  <2> QED BY <2>1, <2>2
<1>8. ASSUME NEW j \in DOMAIN stream, Upto < j, j < pos[c]
      PROVE  ~ stream[j].ok
  <2> SUFFICES ASSUME stream[j].ok PROVE FALSE
    OBVIOUS
  <2>1. j \in 1..committed
    BY <1>3, <1>8
  <2>2. PICK id \in 1..Watermark : rows[id] = j
    BY <1>1, <2>1 DEF TablesOK, AckedIsApplied
  <2> QED BY <1>3, <1>6, <1>7, <1>8, <2>2
<1>9. stream[pos[c]].ok
  BY <1>1 DEF record
<1> QED BY <1>1, <1>3, <1>5, <1>7, <1>8, <1>9 DEF Service!Observe, Upto

\* The configuration and the incident the decision was made on.
LEMMA PersistDecided ==
  ASSUME Bus = "redis", Inv, RedisInv, NEW c \in Consumers, Persist(c)
  PROVE  \E m \in MonitorRow, o \in DOMAIN incidents \cup {None} :
           /\ openIncident \in {o, None} /\ (o # None => incidents[o].first \in Run)
           /\ record(c).healthy => Resets(dec[c], o)
           /\ ~ record(c).healthy =>
                FailureCounted(dec[c], m, record(c), alert.consec, alert.firstFail, alert.warned, o)
<1>1. Inside(c) /\ pc[c] = "apply" /\ mon.exists
  BY DEF RedisInv, Persist
<1>2. PICK m \in MonitorRow, o \in DOMAIN incidents \cup {None} : Decided(c, m, o)
  BY <1>1 DEF Inside
<1>3. PICK res, n, first, w : res = record(c) /\ n = alert.consec /\ first = alert.firstFail /\ w = alert.warned
  OBVIOUS
<1>4. /\ dec[c] = Apply(m, res, State(n, first, w, o))
      /\ openIncident \in {o, None} /\ (o # None => incidents[o].first \in Run)
  BY <1>1, <1>2, <1>3 DEF Decided, State
<1>5. res.healthy => Resets(dec[c], o)
  BY <1>4, HealthyFacts
<1>6. ~ res.healthy => FailureCounted(dec[c], m, res, n, first, w, o)
  BY <1>4, UnhealthyFacts
<1> QED BY <1>3, <1>4, <1>5, <1>6

\* The event a consumer holds behind the transaction, if any.
LEMMA PersistHolds ==
  ASSUME Bus = "redis", Inv, RedisInv, NEW c \in Consumers, ApplyAlertDecision(c) \/ ApplyUnsure(c)
  PROVE  \/ evt' = evt
         \/ /\ AppliedIncident(dec[c]) # None /\ dec[c].notify # None
            /\ evt' = [evt EXCEPT ![c] = dedupKey(AppliedIncident(dec[c]), dec[c].notify.type,
                                                  dec[c].notify.warn)]
<1>1. evt[c] = None
  BY DEF RedisInv, Inside, ApplyAlertDecision, ApplyUnsure, Persist
<1>2. HandleOK(c) \/ HandleErr(c) => evt' = evt
  BY <1>1, ForgetsNothing DEF HandleOK, HandleErr
<1> QED BY <1>2 DEF ApplyAlertDecision, ApplyUnsure

LEMMA ApplyIsAtomic ==
  ASSUME Bus = "redis", Inv, RedisInv, NEW c \in Consumers, ApplyAlertDecision(c) \/ ApplyUnsure(c)
  PROVE  \E k \in DOMAIN stream :
           Service!Recovers(c, k) \/ Service!Counts(c, k) \/ Service!Opens(c, k) \/ Service!Warns(c, k)
<1>1. Persist(c) /\ UNCHANGED <<stream, committed, pos>>
  BY ReturnsOK, ReturnsErr DEF ApplyAlertDecision, ApplyUnsure, Goto
<1>2. PICK k \in DOMAIN stream : k = pos[c] /\ Service!Observe(c, k)
  BY <1>1, PersistObserves
<1>3. PICK m \in MonitorRow, o \in DOMAIN incidents \cup {None} :
           /\ openIncident \in {o, None} /\ (o # None => incidents[o].first \in Run)
           /\ record(c).healthy => Resets(dec[c], o)
           /\ ~ record(c).healthy =>
                FailureCounted(dec[c], m, record(c), alert.consec, alert.firstFail, alert.warned, o)
  BY <1>1, PersistDecided
<1>4. PICK d, res : d = dec[c] /\ res = record(c) /\ res = stream[k] /\ res \in Result
  BY <1>1, <1>2, PersistEffect DEF record
<1>5. /\ Run' = IF res.healthy THEN {} ELSE Run \cup {rid[c]}
      /\ res.healthy => Recovered
      /\ ~ res.healthy => Failed(c)
  BY <1>1, <1>4, PersistEffect
<1>6. /\ AppliedIncident(d) = CASE d.action = "open" -> IF openIncident = None THEN Len(incidents) + 1 ELSE None
                              [] d.action = "close" -> openIncident
                              [] OTHER -> IF d.renotify THEN openIncident ELSE None
      /\ \/ evt' = evt
         \/ /\ AppliedIncident(d) # None /\ d.notify # None
            /\ evt' = [evt EXCEPT ![c] = dedupKey(AppliedIncident(d), d.notify.type, d.notify.warn)]
  BY <1>4, PersistHolds DEF AppliedIncident
<1>7. CASE res.healthy
  <2>1. Resets(d, o) /\ Recovered /\ Run' = {}
    BY <1>3, <1>4, <1>5, <1>7
  <2>2. alert'.consec = 0 /\ Covered' = FALSE
    BY <2>1 DEF Recovered, Covered
  <2>3. CASE openIncident = None
    <3>1. AppliedIncident(d) = None
      BY <1>6, <2>1, <2>3 DEF Resets
    <3>2. Service!OpenOnes = {} /\ evt' = evt /\ Life' = Life
      BY <1>6, <2>1, <2>3, <3>1, OpenOnesFact DEF Recovered, Life
    <3>3. Service!Recovers(c, k)
      BY <1>2, <1>4, <1>7, <2>2, <3>2 DEF Service!Recovers, Covered, Life
    <3> QED BY <3>3
  <2>4. CASE openIncident # None
    <3>1. PICK i : i = openIncident /\ i \in Service!OpenOnes /\ i \in DOMAIN incidents
      BY <2>4, OpenOnesFact, OpenIncidentFact DEF Open
    <3>2. Life' = [Life EXCEPT ![i] = "recovered"]
      BY <2>1, <2>4, <3>1, LifeCloses DEF Recovered
    <3>3. AppliedIncident(d) = i /\ d.notify = [type |-> "recovery", warn |-> None]
      BY <1>3, <1>6, <2>1, <2>4, <3>1 DEF Resets
    <3>4. Service!Take(c, Service!Announcement(i, "recovery", None))
      BY <1>6, <3>3 DEF Service!Take, Service!Announcement, dedupKey
    <3>5. Service!Recovers(c, k)
      BY <1>2, <1>4, <1>7, <2>2, <3>1, <3>2, <3>4 DEF Service!Recovers, Covered, Life
    <3> QED BY <3>5
  <2> QED BY <2>3, <2>4
<1>8. CASE ~ res.healthy
  <2>1. /\ FailureCounted(d, m, res, alert.consec, alert.firstFail, alert.warned, o)
        /\ Failed(c) /\ Run' = Run \cup {rid[c]} /\ alert'.consec = alert.consec + 1
    BY <1>3, <1>4, <1>5, <1>8 DEF Failed
  <2>2. m.threshold \in Thresholds /\ Thresholds \subseteq Nat /\ alert.consec \in Nat
    BY StoreFacts, BoundAssumption DEF MonitorRow
  <2>3. rid[c] \notin 1..Watermark /\ \A i \in DOMAIN incidents : incidents[i].first \in 1..Watermark
    BY <1>1, PersistRow DEF RedisInv, TablesOK, FirstOK
  <2>4. CASE d.action = "open"
    <3>1. PICK row : /\ row = [started |-> d.startedAt, ended |-> None, reason |-> None, first |-> rid[c]]
                     /\ incidents' = Append(incidents, row) /\ openIncident = None
      BY <1>4, <2>1, <2>4 DEF Failed
    <3>2. row.ended = None /\ row.first = rid[c] /\ incidents \in Seq(Incident)
      BY <3>1, StoreFacts
    <3>3. Life' = Append(Life, "open") /\ Len(Life) = Len(incidents) /\ Service!OpenOnes = {}
      BY <3>1, <3>2, LifeOpens, OpenOnesFact
    <3>4. Covered' = TRUE
      <4>1. Len(incidents) + 1 \in DOMAIN incidents' /\ incidents'[Len(incidents) + 1] = row
        BY <3>1, <3>2
      <4> QED BY <2>1, <3>2, <4>1 DEF Covered
    <3>5. PICK l \in WarnLevels \cup {None} : d.notify = [type |-> "down", warn |-> l]
      BY <1>4, <2>1, <2>4, LevelType DEF FailureCounted
    <3>6. alert.consec + 1 >= m.threshold
      BY <2>1, <2>2, <2>4 DEF FailureCounted
    <3>7. AppliedIncident(d) = Len(Life) + 1
      BY <1>6, <2>4, <3>1, <3>3
    <3>8. Service!Take(c, Service!Announcement(Len(Life) + 1, "down", l))
      BY <1>6, <3>5, <3>7 DEF Service!Take, Service!Announcement, dedupKey
    <3>9. Service!Opens(c, k)
      BY <1>2, <1>4, <1>8, <2>1, <2>2, <3>3, <3>4, <3>6, <3>8 DEF Service!Opens, Covered, Life
    <3> QED BY <3>9
  <2>5. CASE d.action = "none"
    <3>1. incidents' = incidents
      BY <1>4, <2>1, <2>5 DEF Failed
    <3>2. Life' = Life /\ Covered' = Covered
      BY <2>1, <2>3, <3>1 DEF Life, Covered
    <3>3. AppliedIncident(d) = IF d.renotify THEN openIncident ELSE None
      BY <1>6, <2>5
    <3>4. CASE evt' = evt
      <4>1. Service!OpenOnes # {} \/ Covered \/ \E t \in Thresholds : alert.consec + 1 < t
        <5>1. CASE o # None
          BY <1>3, <5>1 DEF Covered
        <5>2. CASE o = None
          <6>1. ~ (alert.consec + 1 >= m.threshold)
            BY <2>1, <2>5, <5>2 DEF FailureCounted
          <6>2. PICK t \in Thresholds : t = m.threshold /\ t \in Nat
            BY <2>2
          <6>3. alert.consec + 1 < t
            BY <2>2, <6>1, <6>2
          <6> QED BY <6>3
        <5> QED BY <5>1, <5>2
      <4>2. Service!Counts(c, k)
        BY <1>2, <1>4, <1>8, <2>1, <3>2, <3>4, <4>1 DEF Service!Counts, Covered, Life
      <4> QED BY <4>2
    <3>5. CASE evt' # evt
      <4>1. /\ d.renotify /\ openIncident # None
            /\ evt' = [evt EXCEPT ![c] = dedupKey(openIncident, d.notify.type, d.notify.warn)]
        BY <1>6, <3>3, <3>5
      <4>2. PICK l \in (WarnLevels \cup {None}) \ {None} : d.notify = [type |-> "down", warn |-> l]
        <5>1. sslLevel(res) \in WarnLevels /\ sslLevel(res) # None
          BY <1>4, LevelType, NoneAssumption DEF WarnLevels, SSLWarnThresholds
        <5> QED BY <2>1, <4>1, <5>1 DEF FailureCounted
      <4>3. PICK i : i = openIncident /\ i \in Service!OpenOnes
        BY <4>1, OpenOnesFact
      <4>4. Service!Take(c, Service!Announcement(i, "down", l))
        BY <4>1, <4>2, <4>3 DEF Service!Take, Service!Announcement, dedupKey
      <4>5. Service!Warns(c, k)
        BY <1>2, <1>4, <1>8, <2>1, <3>2, <4>2, <4>3, <4>4 DEF Service!Warns, Covered, Life
      <4> QED BY <4>5
    <3> QED BY <3>4, <3>5
  <2> QED BY <1>4, <2>1, <2>4, <2>5 DEF Failed
<1> QED BY <1>7, <1>8

\* Everything handle does besides the transaction and the produce.
LEMMA RestStutters ==
  ASSUME Bus = "redis", Inv, RedisInv, NEW c \in Consumers,
         \/ Receive(c) \/ DropMalformed(c) \/ UpsertCheckResult(c) \/ UpsertOrphan(c)
         \/ GetMonitor(c) \/ GetAlertState(c) \/ GetOpenIncident(c) \/ MonitorGone(c)
         \/ ApplySkipped(c) \/ ApplyGone(c) \/ StoreFail(c) \/ PollLoop(c) \/ PollFault(c)
         \/ (Crash(c) /\ pc[c] # "emit")
  PROVE  UNCHANGED Service!svc
<1>1. UNCHANGED <<alert, incidents, emitted, stream>>
  BY DEF Receive, DropMalformed, UpsertCheckResult, UpsertOrphan, GetMonitor, GetAlertState,
         GetOpenIncident, MonitorGone, ApplySkipped, ApplyGone, StoreFail, PollLoop, PollFault, Crash,
         db, Goto, HandleOK, HandleErr, ReturnOK, ReturnErr, Loop, LoopFault, Poll, AutoCommit, Ack,
         AckFail, Rebalance, Restart
<1>2. \A id \in 1..Watermark : rows'[id] = rows[id]
  <2>1. CASE UpsertCheckResult(c)
    <3>1. rows' = rows \/ rows' = Append(rows, pos[c])
      BY <2>1 DEF UpsertCheckResult
    <3>2. rows \in Seq(Nat) /\ \A id \in 1..Watermark : id \in DOMAIN rows
      BY StoreFacts, WatermarkFact DEF RedisInv, TablesOK
    <3> QED BY <3>1, <3>2
  <2>2. CASE ~ UpsertCheckResult(c)
    BY <2>2 DEF Receive, DropMalformed, UpsertOrphan, GetMonitor, GetAlertState,
         GetOpenIncident, MonitorGone, ApplySkipped, ApplyGone, StoreFail, PollLoop, PollFault, Crash, db
  <2> QED BY <2>1, <2>2
<1>3. evt' = evt
  <2>1. pc[c] # "emit" => evt[c] = None
    BY DEF RedisInv, Inside
  <2>2. Forget(c) /\ pc[c] # "emit" => evt' = evt
    BY <2>1, ForgetsNothing
  <2> QED BY <2>2 DEF Receive, DropMalformed, UpsertCheckResult, UpsertOrphan, GetMonitor, GetAlertState,
         GetOpenIncident, MonitorGone, ApplySkipped, ApplyGone, StoreFail, PollLoop, PollFault, Crash,
         HandleOK, HandleErr, HasRecord, locals
<1>4. Upto' = Upto /\ Covered' = Covered /\ Life' = Life
  BY <1>1, <1>2, ServiceSame
<1> QED BY <1>1, <1>3, <1>4, ServiceStutters

\* The produce, and a produce that fails or that a crash keeps from happening.
LEMMA EmitIsAnnounce ==
  ASSUME Bus = "redis", Inv, RedisInv, NEW c \in Consumers,
         Emit(c) \/ EmitFail(c) \/ (Crash(c) /\ pc[c] = "emit")
  PROVE  Service!Announce(c) \/ Service!Lose(c)
<1>1. UNCHANGED <<alert, incidents, rows, stream>> /\ Forget(c) /\ pc[c] = "emit"
  BY DEF Emit, EmitFail, Crash, db, HandleOK, ReturnOK, Restart
<1>2. Upto' = Upto /\ Covered' = Covered /\ Life' = Life
  BY <1>1, ServiceSame
<1>3. evt[c] # None
  BY <1>1, EventAssumption DEF Inv, LocalsOK, LocalOK
<1>4. evt' = [evt EXCEPT ![c] = None]
  BY <1>1 DEF Forget
<1>5. emitted' = Append(emitted, evt[c]) \/ emitted' = emitted
  BY DEF Emit, EmitFail, Crash
<1> QED BY <1>1, <1>2, <1>3, <1>4, <1>5 DEF Service!Announce, Service!Lose, Upto, Covered, Life

LEMMA PublishIsArrival ==
  ASSUME Inv, RedisInv, Publish
  PROVE  \E res \in Result : Service!Arrives(res)
<1>1. PICK res \in Result : Produce(res)
  BY DEF Publish
<1>2. /\ UNCHANGED <<alert, rows, incidents, evt, emitted>>
      /\ stream' = Append(stream, res) /\ stream \in Seq(Result)
  BY <1>1, StoreFacts DEF Publish, Produce, locals, db
<1>3. \A id \in 1..Watermark : stream'[rows[id]] = stream[rows[id]]
  <2>1. \A id \in 1..Watermark : rows[id] \in DOMAIN stream
    BY WatermarkFact DEF RedisInv, TablesOK
  <2> QED BY <1>2, <2>1
<1>4. Upto' = Upto /\ Covered' = Covered /\ Life' = Life
  BY <1>2, <1>3, ServiceSame
<1> QED BY <1>2, <1>4 DEF Service!Arrives, Upto, Covered, Life

LEMMA ApiIsByHand ==
  ASSUME Inv, RedisInv, Api
  PROVE  (\E i \in DOMAIN Life : Service!ClosesByHand(i)) \/ UNCHANGED Service!svc
<1>1. UNCHANGED <<alert, rows, stream, evt, emitted>>
  BY DEF Api, ManualCloseIncident, UpdateMonitor, DeleteMonitor, groupVars, locals
<1>2. CASE \E i \in DOMAIN incidents, now \in Times : ManualCloseIncident(i, now)
  <2>1. PICK i \in DOMAIN incidents, now \in Times : Open(i) /\ incidents' = ClosedRow(i, now, "manual")
    BY <1>2 DEF ManualCloseIncident
  <2>2. /\ Life' = [Life EXCEPT ![i] = "manual"] /\ DOMAIN incidents' = DOMAIN incidents
        /\ \A j \in DOMAIN incidents : incidents'[j].first = incidents[j].first
    BY <2>1, LifeCloses
  <2>3. Run' = Run /\ Upto' = Upto
    BY <1>1, RunSame, UptoSame DEF RedisInv, TablesOK
  <2>4. Covered' = Covered
    BY <2>2, <2>3 DEF Covered
  <2>5. i \in Service!OpenOnes /\ i \in DOMAIN Life
    BY <2>1, OpenOnesFact
  <2>6. Service!ClosesByHand(i)
    BY <1>1, <2>2, <2>3, <2>4, <2>5 DEF Service!ClosesByHand, Upto, Covered, Life
  <2> QED BY <2>5, <2>6
<1>3. CASE UNCHANGED incidents
  <2>1. Upto' = Upto /\ Covered' = Covered /\ Life' = Life
    BY <1>1, <1>3, ServiceSame
  <2> QED BY <1>1, <2>1, ServiceStutters
<1> QED BY <1>2, <1>3 DEF Api, UpdateMonitor, DeleteMonitor

LEMMA ServiceInit ==
  ASSUME Init
  PROVE  Service!SvcInit
<1>1. /\ stream = <<>> /\ rows = <<>> /\ incidents = <<>> /\ emitted = <<>>
      /\ alert = [consec |-> 0, firstFail |-> None, watermark |-> None, warned |-> None]
      /\ evt = [c \in Consumers |-> None]
  BY DEF Init, GroupInit
<1>2. Life = <<>>
  BY <1>1 DEF Life
<1>3. Covered = FALSE /\ Upto = 0
  BY <1>1 DEF Covered, Upto
<1> QED BY <1>1, <1>2, <1>3 DEF Service!SvcInit, Life, Covered, Upto

LEMMA ServiceNext ==
  ASSUME Bus = "redis", Inv, RedisInv, [Next]_vars
  PROVE  [Service!SvcNext]_Service!svc
<1>1. CASE Publish
  BY <1>1, PublishIsArrival DEF Service!SvcNext
<1>2. CASE Api
  BY <1>2, ApiIsByHand DEF Service!SvcNext, Life
<1>3. CASE \E c \in Consumers : Work(c) \/ Fault(c)
  <2>1. PICK c \in Consumers : Work(c) \/ Fault(c)
    BY <1>3
  <2>2. CASE ApplyAlertDecision(c) \/ ApplyUnsure(c)
    BY <2>2, ApplyIsAtomic DEF Service!SvcNext
  <2>3. CASE Emit(c) \/ EmitFail(c) \/ (Crash(c) /\ pc[c] = "emit")
    BY <2>3, EmitIsAnnounce DEF Service!SvcNext
  <2> QED BY <2>1, <2>2, <2>3, RestStutters DEF Work, Fault
<1>4. CASE UNCHANGED vars
  BY <1>4, ServiceSame, ServiceStutters DEF vars
<1> QED BY <1>1, <1>2, <1>3, <1>4 DEF Next

\* On Redis Runner.handle, with its five calls, the crashes and failures between
\* them, redeliveries, edits and manual closes, implements AlertService: every
\* result that decodes is applied in one step, once and in stream order.
THEOREM HandlesAtomically ==
  ASSUME Bus = "redis"
  PROVE  Spec => ActsAtomically
<1>1. Init => Service!SvcInit
  BY ServiceInit
<1>2. Inv /\ RedisInv /\ [Next]_vars => [Service!SvcNext]_Service!svc
  BY ServiceNext
<1> QED BY <1>1, <1>2, Invariance, RedisInvariance, PTL DEF Spec, ActsAtomically, Service!SvcSpec

-----------------------------------------------------------------------------
(* Certificate levels.  The levels announced for one incident only get       *)
(* tighter, and last_warned_days holds the last of them, as long as the      *)
(* monitor keeps its type: an edit to http and back forgets it.              *)

TypeKept == \A t, u \in Types : t = u

\* An announced level is not below the one the monitor row remembers.
LevelOK(e) ==
  e.warn # None => /\ e.kind = "down" /\ "ssl" \in Types
                   /\ Open(e.inc) => alert.warned # None /\ alert.warned <= e.warn

LevelsOK ==
  /\ \A n \in DOMAIN emitted : LevelOK(emitted[n])
  /\ \A c \in Consumers : pc[c] = "emit" => LevelOK(evt[c])

LEMMA LevelIsInt ==
  ASSUME NEW l \in MaybeLevel, l # None
  PROVE  l \in Int
BY DEF MaybeLevel, WarnLevels, SSLWarnThresholds

\* The transaction keeps what is known of the levels announced before it.
LEMMA OldLevels ==
  ASSUME Bus = "redis", TypeKept, Inv, RedisInv, NEW c \in Consumers, ApplyAlertDecision(c) \/ ApplyUnsure(c),
         NEW e \in Event, EventOK(e, incidents), LevelOK(e)
  PROVE  LevelOK(e)'
<1>1. Persist(c) /\ UNCHANGED <<stream, committed, pos>> /\ alert'.warned = dec[c].warned
  BY ReturnsOK, ReturnsErr DEF ApplyAlertDecision, ApplyUnsure, Goto, Persist
<1>2. PICK m \in MonitorRow, o \in DOMAIN incidents \cup {None} :
           /\ openIncident \in {o, None} /\ (o # None => incidents[o].first \in Run)
           /\ record(c).healthy => Resets(dec[c], o)
           /\ ~ record(c).healthy =>
                FailureCounted(dec[c], m, record(c), alert.consec, alert.firstFail, alert.warned, o)
  BY <1>1, PersistDecided
<1>3. PICK d, res : d = dec[c] /\ res = record(c) /\ res \in Result
  BY <1>1, PersistEffect
<1>4. (res.healthy => Recovered) /\ (~ res.healthy => Failed(c))
  BY <1>1, <1>3, PersistEffect
<1>5. e.inc \in DOMAIN incidents /\ incidents \in Seq(Incident) /\ OneOpenIncident /\ alert.warned \in MaybeLevel
  BY StoreFacts DEF EventOK, Inv, TypeOK, StoreType
<1>6. SUFFICES ASSUME e.warn # None, e.kind = "down", "ssl" \in Types, Open(e.inc)'
               PROVE  alert'.warned # None /\ alert'.warned <= e.warn
  BY DEF LevelOK
<1>7. e.warn \in Int
  BY <1>6, LevelIsInt DEF Event
<1>8. CASE res.healthy
  <2>1. CASE openIncident = None
    BY <1>4, <1>5, <1>6, <1>8, <2>1, OpenIncidentFact DEF Recovered, Open
  <2>2. CASE openIncident # None
    <3>0. PICK t \in Times : incidents' = ClosedRow(openIncident, t, "recovered")
      BY <1>4, <1>8, <2>2 DEF Recovered
    <3>1. PICK k : k = openIncident /\ Open(k) /\ incidents' = ClosedRow(k, t, "recovered")
      BY <2>2, <3>0, OpenIncidentFact
    <3>2. PICK row : /\ row = [started |-> incidents[k].started, ended |-> t, reason |-> "recovered",
                               first |-> incidents[k].first]
                     /\ incidents' = [incidents EXCEPT ![k] = row]
      BY <3>1 DEF ClosedRow
    <3>3. row.ended # None
      BY <3>2, NoneAssumption DEF Times
    <3>4. incidents'[e.inc] = IF e.inc = k THEN row ELSE incidents[e.inc]
      BY <1>5, <3>2
    <3>5. e.inc # k /\ Open(e.inc)
      BY <1>5, <1>6, <3>3, <3>4 DEF Open
    <3> QED BY <1>5, <3>1, <3>5 DEF OneOpenIncident, Open
  <2> QED BY <2>1, <2>2
<1>9. CASE ~ res.healthy
  <2>1. FailureCounted(d, m, res, alert.consec, alert.firstFail, alert.warned, o) /\ Failed(c)
    BY <1>2, <1>3, <1>4, <1>9
  <2>2. m.type = "ssl"
    BY <1>6 DEF MonitorRow, TypeKept
  <2>3. CASE incidents' = incidents /\ d.action = "none"
    <3>1. alert.warned # None /\ alert.warned <= e.warn
      BY <1>6, <2>3 DEF LevelOK, Open
    <3>2. alert.warned \in Int /\ sslLevel(res) \in Int /\ sslLevel(res) # None
      BY <1>3, <1>5, <3>1, LevelIsInt, LevelType, NoneAssumption DEF WarnLevels, SSLWarnThresholds
    <3>3. alert'.warned = d.warned
      BY <1>1, <1>3
    <3>4. CASE d.renotify
      BY <1>7, <2>1, <3>1, <3>2, <3>3, <3>4 DEF FailureCounted
    <3>5. CASE ~ d.renotify
      BY <2>1, <2>2, <2>3, <3>1, <3>3, <3>5 DEF FailureCounted
    <3> QED BY <3>4, <3>5
  <2>4. CASE openIncident = None /\ \E row : incidents' = Append(incidents, row)
    <3>1. ~ Open(e.inc)
      BY <1>5, <2>4, OpenIncidentFact
    <3>2. incidents'[e.inc] = incidents[e.inc]
      BY <1>5, <2>4
    <3> QED BY <1>5, <1>6, <3>1, <3>2 DEF Open
  <2> QED BY <1>3, <2>1, <2>3, <2>4 DEF Failed
<1> QED BY <1>8, <1>9

\* What it announces has not been announced before.
LEMMA NewLevel ==
  ASSUME Bus = "redis", TypeKept, Inv, RedisInv, LevelsOK, NEW c \in Consumers, Persist(c),
         UNCHANGED <<stream, committed>>, NEW e,
         AppliedIncident(dec[c]) # None, dec[c].notify # None,
         e = dedupKey(AppliedIncident(dec[c]), dec[c].notify.type, dec[c].notify.warn)
  PROVE  LevelOK(e)' /\ \A n \in DOMAIN emitted : e # emitted[n]
<1>1. PICK m \in MonitorRow, o \in DOMAIN incidents \cup {None} :
           /\ openIncident \in {o, None} /\ (o # None => incidents[o].first \in Run)
           /\ record(c).healthy => Resets(dec[c], o)
           /\ ~ record(c).healthy =>
                FailureCounted(dec[c], m, record(c), alert.consec, alert.firstFail, alert.warned, o)
  BY PersistDecided
<1>2. PICK d, res : d = dec[c] /\ res = record(c) /\ res \in Result
  BY PersistEffect
<1>3. /\ ~ res.healthy => Failed(c)
      /\ alert'.warned = d.warned /\ m.type \in Types /\ incidents \in Seq(Incident)
  BY <1>2, PersistEffect, StoreFacts DEF Persist, MonitorRow
<1>4. /\ AppliedIncident(d) = CASE d.action = "open" -> IF openIncident = None THEN Len(incidents) + 1 ELSE None
                              [] d.action = "close" -> openIncident
                              [] OTHER -> IF d.renotify THEN openIncident ELSE None
      /\ AppliedIncident(d) # None /\ d.notify # None
      /\ e = [inc |-> AppliedIncident(d), kind |-> d.notify.type, warn |-> d.notify.warn]
  BY <1>2 DEF AppliedIncident, dedupKey
<1>5. e.warn = None => LevelOK(e)' /\ \A n \in DOMAIN emitted : e # emitted[n]
  <2>1. e.warn = None => ~ EventOK(e, incidents)
    BY PersistStep
  <2> QED BY <2>1 DEF Inv, EventsOK, LevelOK
<1>6. CASE res.healthy
  <2>1. d.notify = [type |-> "recovery", warn |-> None]
    BY <1>1, <1>2, <1>4, <1>6 DEF Resets
  <2> QED BY <1>4, <1>5, <2>1
<1>7. CASE ~ res.healthy /\ e.warn # None
  <2>1. FailureCounted(d, m, res, alert.consec, alert.firstFail, alert.warned, o) /\ Failed(c)
    BY <1>1, <1>2, <1>3, <1>7
  <2>2. sslLevel(res) \in Int /\ sslLevel(res) # None
    BY <1>2, LevelType, NoneAssumption DEF WarnLevels, SSLWarnThresholds
  <2>3. CASE d.action = "open"
    <3>1. e.inc = Len(incidents) + 1 /\ e.inc \notin DOMAIN incidents
      BY <1>3, <1>4, <2>3
    <3>2. \A n \in DOMAIN emitted : emitted[n].inc \in DOMAIN incidents
      BY DEF Inv, EventsOK, EventOK
    <3>3. /\ e.kind = "down" /\ m.type = "ssl" /\ e.warn = sslLevel(res) /\ d.warned = sslLevel(res)
      BY <1>4, <1>7, <2>1, <2>3 DEF FailureCounted
    <3> QED BY <1>3, <2>2, <3>1, <3>2, <3>3 DEF LevelOK
  <2>4. CASE d.action = "none"
    <3>1. d.renotify /\ e.inc = openIncident /\ openIncident # None
      BY <1>4, <2>4
    <3>2. /\ m.type = "ssl" /\ e.kind = "down" /\ e.warn = sslLevel(res) /\ d.warned = sslLevel(res)
          /\ alert.warned = None \/ sslLevel(res) < alert.warned
      BY <1>4, <2>1, <3>1 DEF FailureCounted
    <3>3. ASSUME NEW n \in DOMAIN emitted, e = emitted[n] PROVE FALSE
      <4>1. LevelOK(e) /\ Open(e.inc)
        BY <3>1, <3>3, OpenIncidentFact DEF LevelsOK
      <4>2. alert.warned # None /\ alert.warned <= sslLevel(res)
        BY <1>7, <3>2, <4>1 DEF LevelOK
      <4>3. alert.warned \in Int
        BY <4>2, LevelIsInt DEF Inv, TypeOK, StoreType
      <4> QED BY <2>2, <3>2, <4>2, <4>3
    <3> QED BY <1>3, <2>2, <3>2, <3>3 DEF LevelOK
  <2> QED BY <1>2, <2>1, <2>3, <2>4 DEF Failed
<1> QED BY <1>5, <1>6, <1>7

\* A step that neither announces nor counts.
LEMMA NothingNew ==
  ASSUME Bus = "redis", NotifyOnce, LevelsOK, UNCHANGED <<alert, emitted>>,
         \A i \in Nat : Open(i)' => Open(i), Inv,
         \A c \in Consumers : pc'[c] = "emit" => pc[c] = "emit" /\ evt'[c] = evt[c]
  PROVE  NotifyOnce' /\ LevelsOK'
<1>1. ASSUME NEW e \in Event, LevelOK(e) PROVE LevelOK(e)'
  BY <1>1 DEF LevelOK, Event
<1>2. /\ \A n \in DOMAIN emitted : emitted[n] \in Event
      /\ \A c \in Consumers : pc[c] = "emit" => evt[c] \in Event
  BY DEF Inv, TypeOK, StoreType, LocalsOK, LocalOK
<1>3. ASSUME NEW n \in DOMAIN emitted' PROVE LevelOK(emitted[n])'
  <2>1. PICK e \in Event : e = emitted[n] /\ e = emitted'[n] /\ LevelOK(e)
    BY <1>2 DEF LevelsOK
  <2>2. LevelOK(e)'
    BY <1>1, <2>1
  <2> QED BY <2>1, <2>2 DEF LevelOK
<1>4. ASSUME NEW c \in Consumers, pc'[c] = "emit" PROVE LevelOK(evt[c])'
  <2>1. PICK e \in Event : e = evt[c] /\ e = evt'[c] /\ LevelOK(e)
    BY <1>2, <1>4 DEF LevelsOK
  <2>2. LevelOK(e)'
    BY <1>1, <2>1
  <2> QED BY <2>1, <2>2 DEF LevelOK
<1>5. NotifyOnce'
  BY DEF NotifyOnce
<1> QED BY <1>3, <1>4, <1>5 DEF LevelsOK

LEMMA OnceApply ==
  ASSUME Bus = "redis", TypeKept, Inv, RedisInv, NotifyOnce, LevelsOK,
         NEW c \in Consumers, ApplyAlertDecision(c) \/ ApplyUnsure(c)
  PROVE  NotifyOnce' /\ LevelsOK'
<1>1. Persist(c) /\ UNCHANGED <<stream, committed>> /\ emitted' = emitted /\ pc[c] = "apply"
  BY ReturnsOK, ReturnsErr DEF ApplyAlertDecision, ApplyUnsure, Goto, Persist
<1>2. ASSUME NEW n \in DOMAIN emitted PROVE LevelOK(emitted[n])'
  <2>1. PICK e \in Event : e = emitted[n] /\ e = emitted'[n] /\ LevelOK(e) /\ EventOK(e, incidents)
    BY <1>1 DEF LevelsOK, Inv, TypeOK, StoreType, EventsOK
  <2>2. LevelOK(e)'
    BY <2>1, OldLevels
  <2> QED BY <2>1, <2>2 DEF LevelOK
<1>3. CASE pc'[c] # "emit"
  BY <1>1, <1>2, <1>3, OneConsumer DEF NotifyOnce, LevelsOK
<1>4. CASE pc'[c] = "emit"
  <2>1. PICK e : /\ AppliedIncident(dec[c]) # None /\ dec[c].notify # None
                 /\ e = dedupKey(AppliedIncident(dec[c]), dec[c].notify.type, dec[c].notify.warn)
                 /\ evt' = [evt EXCEPT ![c] = e]
    BY <1>4, ReturnsOK, ReturnsErr DEF ApplyAlertDecision, ApplyUnsure
  <2>2. LevelOK(e)' /\ \A n \in DOMAIN emitted : e # emitted[n]
    BY <1>1, <2>1, NewLevel
  <2>3. evt'[c] = e
    BY <2>1 DEF Inv, TypeOK, LocalsType
  <2>4. LevelOK(evt[c])'
    BY <2>2, <2>3 DEF LevelOK
  <2> QED BY <1>1, <1>2, <2>2, <2>3, <2>4, OneConsumer DEF NotifyOnce, LevelsOK
<1> QED BY <1>3, <1>4

LEMMA OnceEmit ==
  ASSUME Bus = "redis", Inv, NotifyOnce, LevelsOK, NEW c \in Consumers, Emit(c)
  PROVE  NotifyOnce' /\ LevelsOK'
<1>1. /\ pc[c] = "emit" /\ emitted' = Append(emitted, evt[c]) /\ UNCHANGED <<alert, incidents>>
      /\ pc'[c] = "ack" /\ emitted \in Seq(Event)
  BY DEF Emit, HandleOK, ReturnOK, db, Inv, TypeOK, GroupTypeOK, StoreType
<1>2. PICK e, k : e = evt[c] /\ k = Len(emitted) + 1 /\ k \in Nat
  BY <1>1
<1>3. /\ DOMAIN emitted' = DOMAIN emitted \cup {k} /\ k \notin DOMAIN emitted /\ emitted'[k] = e
      /\ \A n \in DOMAIN emitted : emitted'[n] = emitted[n]
  BY <1>1, <1>2
<1>4. \A n \in DOMAIN emitted : e # emitted[n]
  BY <1>1, <1>2 DEF NotifyOnce
<1>5. \A n \in DOMAIN emitted' : LevelOK(emitted'[n])
  BY <1>1, <1>2, <1>3 DEF LevelsOK
<1>6. \A n \in DOMAIN emitted' : LevelOK(emitted[n])'
  BY <1>1, <1>5 DEF LevelOK, Open
<1> QED BY <1>1, <1>3, <1>4, <1>6, OneConsumer DEF NotifyOnce, LevelsOK

LEMMA OnceNext ==
  ASSUME Bus = "redis", TypeKept, Inv, RedisInv, NotifyOnce, LevelsOK, [Next]_vars
  PROVE  NotifyOnce' /\ LevelsOK'
<1>1. CASE Publish \/ UNCHANGED vars
  BY <1>1, NothingNew DEF Publish, Produce, locals, db, vars, Open
<1>2. CASE Api
  <2>1. UNCHANGED <<alert, emitted, pc, evt>>
    BY <1>2 DEF Api, ManualCloseIncident, UpdateMonitor, DeleteMonitor, groupVars, locals
  <2>2. \A i \in Nat : Open(i)' => Open(i)
    <3>1. CASE UNCHANGED incidents
      BY <3>1 DEF Open
    <3>2. CASE \E k \in DOMAIN incidents, now \in Times : ManualCloseIncident(k, now)
      <4>1. PICK k \in DOMAIN incidents, now \in Times : Open(k) /\ incidents' = ClosedRow(k, now, "manual")
        BY <3>2 DEF ManualCloseIncident
      <4>2. PICK row : incidents' = [incidents EXCEPT ![k] = row]
        BY <4>1 DEF ClosedRow
      <4> QED BY <4>1, <4>2 DEF Open
    <3> QED BY <1>2, <3>1, <3>2 DEF Api, UpdateMonitor, DeleteMonitor
  <2> QED BY <2>1, <2>2, NothingNew
<1>3. CASE \E c \in Consumers : Work(c) \/ Fault(c)
  <2>1. PICK c \in Consumers : Work(c) \/ Fault(c)
    BY <1>3
  <2>2. CASE ApplyAlertDecision(c) \/ ApplyUnsure(c)
    BY <2>2, OnceApply
  <2>3. CASE Emit(c)
    BY <2>3, OnceEmit
  <2>4. CASE \/ Receive(c) \/ DropMalformed(c) \/ UpsertCheckResult(c) \/ UpsertOrphan(c)
             \/ GetMonitor(c) \/ GetAlertState(c) \/ GetOpenIncident(c) \/ MonitorGone(c)
             \/ ApplySkipped(c) \/ ApplyGone(c) \/ StoreFail(c) \/ PollLoop(c) \/ PollFault(c)
             \/ Crash(c) \/ EmitFail(c)
    <3>1. UNCHANGED <<alert, incidents, emitted>>
      BY <2>4 DEF Receive, DropMalformed, UpsertCheckResult, UpsertOrphan, GetMonitor, GetAlertState,
         GetOpenIncident, MonitorGone, ApplySkipped, ApplyGone, StoreFail, PollLoop, PollFault, Crash,
         EmitFail, db
    <3>2. pc'[c] = "emit" => pc[c] = "emit" /\ evt'[c] = evt[c]
      <4>1. HandleOK(c) \/ HandleErr(c) => pc'[c] # "emit"
        BY ReturnsOK, ReturnsErr
      <4>2. CASE Crash(c)
        BY <4>2 DEF Crash, Restart, Inv, TypeOK, GroupTypeOK
      <4>3. CASE PollLoop(c) \/ PollFault(c)
        BY <4>3 DEF PollLoop, PollFault, Loop, LoopFault, Poll, AutoCommit, Ack, AckFail, Rebalance,
                    ReturnErr, locals, Inv, TypeOK, GroupTypeOK
      <4>4. CASE \E step \in Steps \ {"emit"} : Goto(c, step)
        BY <4>4 DEF Goto, Inv, TypeOK, GroupTypeOK
      <4>5. CASE \/ Receive(c) \/ UpsertCheckResult(c) \/ GetMonitor(c) \/ GetAlertState(c) \/ GetOpenIncident(c)
        BY <4>4, <4>5 DEF Receive, UpsertCheckResult, GetMonitor, GetAlertState, GetOpenIncident, Steps
      <4> QED BY <2>4, <4>1, <4>2, <4>3, <4>5 DEF DropMalformed, UpsertOrphan, MonitorGone,
                ApplySkipped, ApplyGone, StoreFail, EmitFail
    <3>3. \A d \in Consumers : d = c
      BY OneConsumer
    <3> QED BY <3>1, <3>2, <3>3, NothingNew DEF Open
  <2> QED BY <2>1, <2>2, <2>3, <2>4 DEF Work, Fault
<1> QED BY <1>1, <1>2, <1>3 DEF Next

\* On Redis, for a monitor whose type is not edited, no notify event is produced
\* twice: one down for each certificate level of an incident, one recovery
\* (handle, step 6; last_warned_days).
THEOREM EachLevelOnce ==
  ASSUME Bus = "redis", TypeKept
  PROVE  Spec => []NotifyOnce
<1>1. Inv /\ RedisInv /\ (NotifyOnce /\ LevelsOK) /\ [Next]_vars => (NotifyOnce /\ LevelsOK)'
  BY OnceNext
<1>2. Init => NotifyOnce /\ LevelsOK
  BY DEF Init, GroupInit, NotifyOnce, LevelsOK
<1> QED BY <1>1, <1>2, Invariance, RedisInvariance, PTL DEF Spec
=============================================================================
