---------------------------- MODULE MonitorsApi -----------------------------
(***************************************************************************)
(* Monitors: internal/api/monitors.go over internal/store/monitors.go.     *)
(* An input is the decoded request body with its text fields reduced to    *)
(* what validation tells apart (a URL is its shape, a list of status codes *)
(* whether it parses); monitorFromInput keeps every rule.  Create and      *)
(* update count the enabled monitors in one transaction and write the row  *)
(* in another.                                                             *)
(***************************************************************************)
EXTENDS Tenant

CONSTANTS
  MonitorInputs,   \* request bodies
  MonitorResolver, \* plan -> limits, injected into the server
  MaxMonitors      \* bound: monitors ever created

ASSUME MonitorsAssumption ==
  /\ MaxMonitors \in Nat
  /\ \A p \in Plans : MonitorResolver[p].cap \in Nat
  /\ \A p, q \in Plans : Rank(p) <= Rank(q) => MonitorResolver[p].cap <= MonitorResolver[q].cap
  /\ \A in \in MonitorInputs :
       /\ in.enabled \in BOOLEAN
       /\ Len(in.headers) \in Nat
       /\ \A i \in 1..Len(in.headers) :
            LET h == in.headers[i] IN
            /\ h = [key |-> h.key, secret |-> h.secret, value |-> h.value] /\ h.secret \in BOOLEAN
            /\ IF h.secret THEN h.value \in Values \cup {None, Blank} ELSE h.value \notin Values

VARIABLES
  monitors,        \* monitors table: id -> row
  monSeq,          \* ids handed out so far
  live             \* id -> "none", "up" or "down": results and open incident

monitorVars == <<monitors, monSeq, live>>

MonitorsInit == monitors = << >> /\ monSeq = 0 /\ live = << >>

sslIntervalSeconds == 86400
sslTimeoutSeconds  == 10
maxHeaders         == 2    \* bound: 50 in the code

Err(field, bad) == IF bad THEN {field} ELSE {}
NoDuplicates(s) == \A i, j \in 1..Len(s) : i # j => s[i] # s[j]

validURL(u) == u \in {"http", "https"}
\* "name:port" parses as a URL whose scheme is the name and which has no host.
validSSLTarget(u) == u \in {"http", "https", "ftp", "host", "ip:port"}
validMethod(m) == m \in {"GET", "POST", "PUT", "PATCH", "DELETE", "HEAD"}
bodyAllowed(m) == m \in {"POST", "PUT", "PATCH"}
validDownPolicy(d) == d \in {"any", "quorum", "all"}

\* Non-empty, unique keys, and not too many of them.
validateHeaders(hs) ==
  /\ Len(hs) <= maxHeaders
  /\ \A i \in 1..Len(hs) : hs[i].key # ""
  /\ NoDuplicates([i \in 1..Len(hs) |-> hs[i].key])

validateRegions(rs, l) ==
  /\ rs # << >>
  /\ \A i \in 1..Len(rs) : rs[i] # "" /\ AllowsRegion(l, rs[i])
  /\ NoDuplicates(rs)
  /\ Len(rs) <= l.perMonitor

\* The interval is at least the hard floor, the timeout and the plan's floor.
badInterval(in, l) ==
  \/ in.interval < HardIntervalFloorSeconds
  \/ in.timeout \in 1..60 /\ in.interval < in.timeout
  \/ in.interval < EffectiveIntervalFloor(l)

noAssertion(in) ==
  in.expected = "none" /\ in.contains \notin {"text", "long"} /\ (in.latency = None \/ in.latency <= 0)

inputType(in)   == IF in.type = "" THEN "http" ELSE in.type
inputMethod(in) == IF in.method = "" \/ in.type = "ssl" THEN "GET" ELSE in.method
inputPolicy(in) == IF in.policy = "" THEN "quorum" ELSE in.policy

\* The fields monitorFromInput rejects.  An ssl monitor has its check
\* settings overwritten, so only the common fields are validated.
monitorErrors(in, l) ==
  Err("type", inputType(in) \notin {"http", "ssl"})
  \cup Err("name", in.name \in {"blank", "long"})
  \cup Err("url", IF in.type = "ssl" THEN ~ validSSLTarget(in.url) ELSE ~ validURL(in.url))
  \cup Err("notification_channel_ids", ~ in.channels.ok)
  \cup IF in.type = "ssl" THEN {} ELSE
       Err("method", ~ validMethod(inputMethod(in)))
       \cup Err("body", in.body = "huge" \/ (in.body # "none" /\ ~ bodyAllowed(inputMethod(in))))
       \cup Err("expected_status_codes", in.expected = "bad" \/ noAssertion(in))
       \cup Err("timeout_seconds", in.timeout \notin 1..60)
       \cup Err("interval_seconds", badInterval(in, l))
       \cup Err("max_latency_ms", in.latency # None /\ in.latency <= 0)
       \cup Err("body_contains", in.contains = "long")
       \cup Err("failure_threshold", in.threshold < 1)
       \cup Err("headers", ~ validateHeaders(in.headers))
       \cup Err("down_policy", ~ validDownPolicy(inputPolicy(in)))
       \cup Err("regions", ~ validateRegions(in.regions, l))

inputHeaders(in) ==
  [i \in 1..Len(in.headers) |->
    [in.headers[i] EXCEPT !.value = IF @ = None THEN Blank ELSE @]]

monitorFromInput(o, in) ==
  LET ssl == in.type = "ssl" IN
  [org       |-> o,
   type      |-> inputType(in),
   method    |-> inputMethod(in),
   body      |-> IF ssl THEN "none" ELSE in.body,
   expected  |-> IF ssl THEN "ok" ELSE in.expected,
   timeout   |-> IF ssl THEN sslTimeoutSeconds ELSE in.timeout,
   interval  |-> IF ssl THEN sslIntervalSeconds ELSE in.interval,
   enabled   |-> in.enabled,
   latency   |-> IF ssl THEN None ELSE in.latency,
   contains  |-> IF ssl THEN "none" ELSE in.contains,
   threshold |-> IF ssl THEN 1 ELSE in.threshold,
   regions   |-> IF ssl THEN <<DefaultRegion>> ELSE in.regions,
   policy    |-> IF ssl THEN "any" ELSE inputPolicy(in),
   headers   |-> IF ssl THEN << >> ELSE inputHeaders(in),
   channels  |-> in.channels.ids]

\* Secret header values are encrypted in the row, each on its own.
encodeHeaders(hs) ==
  [i \in 1..Len(hs) |->
    IF hs[i].secret THEN [hs[i] EXCEPT !.value = encryptSecret(@)] ELSE hs[i]]
decodeHeaders(hs) ==
  [i \in 1..Len(hs) |->
    IF hs[i].secret THEN [hs[i] EXCEPT !.value = decryptSecret(@)] ELSE hs[i]]

scanMonitor(row) == [row EXCEPT !.headers = decodeHeaders(@)]
monitorRow(m)    == [m EXCEPT !.headers = encodeHeaders(@),
                              !.regions = IF @ = << >> THEN <<DefaultRegion>> ELSE @]

\* The response leaves secret header values out.
monitorDTO(m) ==
  {m.headers[i].value : i \in {j \in 1..Len(m.headers) : ~ m.headers[j].secret}} \ {Blank}

\* Pool_X is the store method X: one transaction bound to the org.
Pool_GetMonitor(o, id)  == IF id \in WithOrg(monitors, o) THEN scanMonitor(monitors[id]) ELSE None
Pool_ListMonitors(o)    == {[id |-> id, m |-> scanMonitor(monitors[id]), live |-> live[id]] :
                              id \in WithOrg(monitors, o)}
CountEnabledMonitors(o) == Cardinality({id \in WithOrg(monitors, o) : monitors[id].enabled})
Pool_CreateMonitor(m) ==
  /\ monSeq' = monSeq + 1
  /\ monitors' = Put(monitors, monSeq', monitorRow(m))
  /\ live' = Put(live, monSeq', "none")
Pool_UpdateMonitor(id, m) == monitors' = Put(monitors, id, monitorRow(m))
\* Results, incidents and page entries go with the row (ON DELETE CASCADE).
Pool_DeleteMonitor(o, id) ==
  LET gone == {id} \cap WithOrg(monitors, o) IN
    monitors' = Drop(monitors, gone) /\ live' = Drop(live, gone)

monitorLimitsOf(o) == MonitorResolver[orgPlan(o)]

DeriveStatus(enabled, results) ==
  IF ~ enabled THEN "disabled" ELSE CASE results = "none" -> "pending"
                                      [] results = "down" -> "down"
                                      [] results = "up"   -> "up"

\* One line of the monitor list: its status, and the interval it really runs at.
monitorListItemDTO(row, floor) ==
  [id       |-> row.id,
   status   |-> DeriveStatus(row.m.enabled, row.live),
   interval |-> IF row.m.interval < floor THEN floor ELSE row.m.interval,
   shows    |-> monitorDTO(row.m)]

ListMonitors(c, p) ==
  /\ Request(c) /\ CanInOrg(p, "view_monitoring")
  /\ LET floor == EffectiveIntervalFloor(monitorLimitsOf(p.org))
         items == {monitorListItemDTO(row, floor) : row \in Pool_ListMonitors(p.org)} IN
       Reply(c, 200, UNION {it.shows : it \in items})
  /\ UNCHANGED monitorVars

GetMonitor(c, p, id) ==
  /\ Request(c) /\ CanInOrg(p, "view_monitoring")
  /\ LET m == Pool_GetMonitor(p.org, id) IN
       IF m # None THEN Reply(c, 200, monitorDTO(m)) ELSE Reply(c, 404, {})
  /\ UNCHANGED monitorVars

\* Gate, validation and plan cap; the row is written by InsertMonitor.
CreateMonitor(c, p, in) ==
  /\ Request(c) /\ CanInOrg(p, "manage_monitors")
  /\ LET l == monitorLimitsOf(p.org) IN
     IF monitorErrors(in, l) # {} THEN Reply(c, 422, {})
     ELSE IF in.enabled /\ CountEnabledMonitors(p.org) >= l.cap THEN Reply(c, 402, {})
     ELSE Hold(c, [op |-> "insertMonitor", m |-> monitorFromInput(p.org, in)])
  /\ UNCHANGED monitorVars

InsertMonitor(c) ==
  /\ Resume(c, "insertMonitor") /\ monSeq < MaxMonitors
  /\ Pool_CreateMonitor(req[c].m)
  /\ Reply(c, 201, monitorDTO(req[c].m))

\* Update counts only when it enables a monitor that was disabled.
UpdateMonitor(c, p, id, in) ==
  /\ Request(c) /\ CanInOrg(p, "manage_monitors")
  /\ LET l   == monitorLimitsOf(p.org)
         old == Pool_GetMonitor(p.org, id) IN
     IF old = None THEN Reply(c, 404, {})
     ELSE IF monitorErrors(in, l) # {} THEN Reply(c, 422, {})
     ELSE IF in.enabled /\ ~ old.enabled /\ CountEnabledMonitors(p.org) >= l.cap
     THEN Reply(c, 402, {})
     ELSE Hold(c, [op |-> "overwriteMonitor", id |-> id, m |-> monitorFromInput(p.org, in)])
  /\ UNCHANGED monitorVars

OverwriteMonitor(c) ==
  /\ Resume(c, "overwriteMonitor")
  /\ IF req[c].id \in WithOrg(monitors, req[c].m.org)
     THEN /\ Pool_UpdateMonitor(req[c].id, req[c].m)
          /\ Reply(c, 200, monitorDTO(req[c].m))
     ELSE Reply(c, 404, {}) /\ UNCHANGED monitors
  /\ UNCHANGED <<monSeq, live>>

DeleteMonitor(c, p, id) ==
  /\ Request(c) /\ CanInOrg(p, "manage_monitors")
  /\ Pool_DeleteMonitor(p.org, id)
  /\ Reply(c, 204, {})
  /\ UNCHANGED monSeq

\* The check pipeline writes results, opens and closes incidents (Alerting).
PipelineWrites(id) ==
  /\ monitors[id].enabled
  /\ \E s \in {"up", "down"} : live' = [live EXCEPT ![id] = s]
  /\ UNCHANGED <<monitors, monSeq, tenantVars>>
=============================================================================
