------------------------------ MODULE Notifier ------------------------------
(***************************************************************************)
(* The notifier: consumers of notify.events that pass each event through   *)
(* the dedup gate (Redis, then Postgres) and fan it out to the monitor's   *)
(* channels and the org's webhooks (internal/notify/service.go, notify.go, *)
(* webhookdeliver.go, internal/store/channels.go).                         *)
(*                                                                         *)
(*    setnx -> claim -> channels -> send -> record -> hooks                *)
(*                                                                         *)
(* An event is its dedup key: incident, kind and the certificate level of  *)
(* an ssl warning.  While a fan-out runs, each channel has a goroutine of  *)
(* its own; out[c] holds the outcome it has reached so far.                *)
(***************************************************************************)
EXTENDS ConsumerGroup, FiniteSets

CONSTANTS
  None,
  Keys,         \* notify events: [inc, kind, warn]
  Payloads,     \* may a payload decode (TRUE), may one be malformed (FALSE)
  Channels,     \* notification channels of the org
  Hooks,        \* enabled org webhooks, subscribed to every event type
  maxRetries,   \* send attempts per channel and fan-out
  MaxEvents,    \* bound: events alerting produces
  MaxEvictions, \* bound: dedup keys Redis loses
  MaxEdits      \* bound: edits of the monitor's channel list

ASSUME NotifierAssumption ==
  /\ None \notin STRING
  /\ \A k \in Keys : k.kind \in {"down", "recovery"}
  /\ maxRetries \in Nat \ {0}
  /\ MaxEvents \in Nat /\ MaxEvictions \in Nat /\ MaxEdits \in Nat

VARIABLES
  redis,        \* dedup keys present in Redis
  claimed,      \* notify_dedup rows
  attached,     \* enabled channels attached to the monitor
  out,          \* consumer -> channel -> None, "sending", or an outcome to record
  tries,        \* key -> channel -> send attempts made, ever
  accepted,     \* key -> channel -> attempts that returned nil, ever
  deliveries,   \* notify_deliveries: (incident, kind, channel) -> status
  hooksLeft,    \* consumer -> webhooks still to be delivered to
  posted,       \* key -> (webhook, event type) -> posts that returned nil, ever
  evictions,    \* dedup keys Redis lost so far
  edits         \* channel list edits so far

gate    == <<redis, claimed>>
fan     == <<out, hooksLeft>>
history == <<tries, accepted, deliveries, posted>>
env     == <<attached, evictions, edits>>
vars    == <<stream, committed, owner, pos, fetched, pc, faults, redis, claimed,
            attached, out, tries, accepted, deliveries, hooksLeft, posted,
            evictions, edits>>

Record == [key : Keys, ok : Payloads]
Steps  == {"setnx", "claim", "channels", "send", "record", "hooks"}

Slots == {<<k.inc, k.kind>> : k \in Keys} \X Channels
slot(k, ch) == <<<<k.inc, k.kind>>, ch>>

\* orgEventTypes: what a webhook gets for a down and for a recovery.
orgEventTypes(kind) ==
  IF kind = "down" THEN {"monitor.down", "incident.opened"}
                   ELSE {"monitor.recovery", "incident.closed"}
HookPosts == Hooks \X (orgEventTypes("down") \cup orgEventTypes("recovery"))

Forget(c) ==
  /\ out' = [out EXCEPT ![c] = [ch \in Channels |-> None]]
  /\ hooksLeft' = [hooksLeft EXCEPT ![c] = {}]

HandleOK(c)  == ReturnOK(c) /\ Forget(c)
HandleErr(c) == ReturnErr(c) /\ Forget(c)
key(c)       == record(c).key

-----------------------------------------------------------------------------
(* Runner.handle. *)

Receive(c) ==
  /\ HasRecord(c) /\ record(c).ok
  /\ Goto(c, "setnx")
  /\ UNCHANGED <<gate, fan, history, env, faults>>

DropMalformed(c) ==
  /\ HasRecord(c) /\ ~record(c).ok
  /\ HandleOK(c)
  /\ UNCHANGED <<gate, history, env, faults>>

\* dedup, fast path: SET NX in Redis.
SetIfAbsent(c) ==
  /\ pc[c] = "setnx"
  /\ IF key(c) \in redis
       THEN HandleOK(c) /\ UNCHANGED redis
       ELSE /\ redis' = redis \cup {key(c)}
            /\ Goto(c, "claim")
            /\ UNCHANGED fan
  /\ UNCHANGED <<claimed, history, env, faults>>

\* Redis answers with an error (its write may have been made): Postgres decides.
RedisFail(c) ==
  /\ pc[c] = "setnx"
  /\ GoesWrong
  /\ redis' \in {redis, redis \cup {key(c)}}
  /\ Goto(c, "claim")
  /\ UNCHANGED <<claimed, fan, history, env>>

\* ON CONFLICT DO NOTHING affected no row: someone has the event.  Mutants: the
\* affected rows are not looked at; the key leaves out the event's kind.
ConflictIgnored(c) == FALSE
ConflictOnIncident(c) == \E k \in claimed : k.inc = key(c).inc
Conflict(c) == key(c) \in claimed

\* dedup, backstop: the unique row of notify_dedup.
ClaimNotifyDedup(c) ==
  /\ pc[c] = "claim"
  /\ IF Conflict(c)
       THEN HandleOK(c) /\ UNCHANGED claimed
       ELSE /\ claimed' = claimed \cup {key(c)}
            /\ Goto(c, "channels")
            /\ UNCHANGED fan
  /\ UNCHANGED <<redis, history, env, faults>>

\* The claim fails (its commit may have been made): the event is redelivered.
ClaimFail(c) ==
  /\ pc[c] = "claim"
  /\ GoesWrong
  /\ claimed' \in {claimed, claimed \cup {key(c)}}
  /\ HandleErr(c)
  /\ UNCHANGED <<redis, history, env>>

\* With no channel attached the fan-out goes straight to the webhooks.
GetChannelsForMonitor(c) ==
  /\ pc[c] = "channels"
  /\ out' = [out EXCEPT ![c] = [ch \in Channels |->
               IF ch \in attached THEN "sending" ELSE None]]
  /\ hooksLeft' = [hooksLeft EXCEPT ![c] = Hooks]
  /\ Goto(c, IF attached = {} THEN "hooks" ELSE "send")
  /\ UNCHANGED <<gate, history, env, faults>>

LoadFail(c) ==
  /\ pc[c] = "channels"
  /\ GoesWrong
  /\ HandleErr(c)
  /\ UNCHANGED <<gate, history, env>>

\* sendWithRetry: one attempt of one channel's goroutine.  err says whether the
\* provider returned an error; the last of maxRetries errors is the outcome.
\* Mutant of MayRetry: one attempt more than maxRetries.
RetriesOnceMore(n) == n <= maxRetries
MayRetry(n) == n < maxRetries
Tried(c, ch) == tries' = [tries EXCEPT ![key(c)][ch] = @ + 1]
Send(c, ch) ==
  /\ pc[c] = "send" /\ out[c][ch] = "sending"
  /\ Tried(c, ch)
  /\ accepted' = [accepted EXCEPT ![key(c)][ch] = @ + 1]
  /\ out' = [out EXCEPT ![c][ch] = "delivered"]
  /\ UNCHANGED <<group, gate, hooksLeft, deliveries, posted, env, faults>>
SendFail(c, ch) ==
  /\ pc[c] = "send" /\ out[c][ch] = "sending"
  /\ Tried(c, ch)
  /\ out' = [out EXCEPT ![c][ch] =
               IF MayRetry(tries'[key(c)][ch]) THEN "sending" ELSE "failed"]
  /\ UNCHANGED <<group, gate, hooksLeft, accepted, deliveries, posted, env, faults>>

\* Dispatch returns once every goroutine has finished.
Dispatched(c) ==
  /\ pc[c] = "send"
  /\ \A ch \in Channels : out[c][ch] # "sending"
  /\ Goto(c, "record")
  /\ UNCHANGED <<gate, fan, history, env, faults>>

\* The outcome of each channel is upserted; a failed upsert is only logged.
RecordDelivery(c, ch) ==
  /\ pc[c] = "record" /\ out[c][ch] # None
  /\ deliveries' = [deliveries EXCEPT ![slot(key(c), ch)] = out[c][ch]]
  /\ out' = [out EXCEPT ![c][ch] = None]
  /\ UNCHANGED <<group, gate, hooksLeft, tries, accepted, posted, env, faults>>
RecordFail(c, ch) ==
  /\ pc[c] = "record" /\ out[c][ch] # None
  /\ GoesWrong
  /\ out' = [out EXCEPT ![c][ch] = None]
  /\ UNCHANGED <<group, gate, hooksLeft, history, env>>
Recorded(c) ==
  /\ pc[c] = "record"
  /\ \A ch \in Channels : out[c][ch] = None
  /\ Goto(c, "hooks")
  /\ UNCHANGED <<gate, fan, history, env, faults>>

\* deliverOne for each event type of one webhook; whatever its attempts come to,
\* delivery goes on with the next webhook.
DeliverWebhook(c, h) ==
  /\ pc[c] = "hooks" /\ h \in hooksLeft[c]
  /\ \E sent \in SUBSET orgEventTypes(key(c).kind) :
       posted' = [posted EXCEPT ![key(c)] =
                    [p \in HookPosts |-> IF p[1] = h /\ p[2] \in sent THEN @[p] + 1 ELSE @[p]]]
  /\ hooksLeft' = [hooksLeft EXCEPT ![c] = @ \ {h}]
  /\ UNCHANGED <<group, gate, out, tries, accepted, deliveries, env, faults>>
\* ListEnabledWebhooks failed: logged and swallowed.
HooksFail(c) ==
  /\ pc[c] = "hooks" /\ hooksLeft[c] = Hooks /\ Hooks # {}
  /\ GoesWrong
  /\ HandleOK(c)
  /\ UNCHANGED <<gate, history, env>>
Handled(c) ==
  /\ pc[c] = "hooks" /\ hooksLeft[c] = {}
  /\ HandleOK(c)
  /\ UNCHANGED <<gate, history, env, faults>>

PollLoop(c)  == Loop(c) /\ UNCHANGED <<gate, fan, history, env>>
PollFault(c) == LoopFault(c) /\ UNCHANGED <<gate, fan, history, env>>
Crash(c)     == Restart(c) /\ Forget(c) /\ UNCHANGED <<gate, history, env>>

-----------------------------------------------------------------------------
\* Alerting produces an event, possibly one it has produced before.
Publish ==
  /\ Len(stream) < MaxEvents
  /\ \E r \in Record : Produce(r)
  /\ UNCHANGED <<gate, fan, history, env>>

\* A dedup key expires, is evicted or goes with a flush.
Evict(k) ==
  /\ k \in redis
  /\ evictions < MaxEvictions
  /\ evictions' = evictions + 1
  /\ redis' = redis \ {k}
  /\ UNCHANGED <<groupVars, claimed, fan, history, attached, edits>>

\* The api edits the monitor's channel list, or enables or deletes a channel.
SetChannels(S) ==
  /\ edits < MaxEdits
  /\ edits' = edits + 1
  /\ attached' = S
  /\ UNCHANGED <<groupVars, gate, fan, history, evictions>>

Init ==
  /\ GroupInit
  /\ redis = {} /\ claimed = {} /\ attached = Channels
  /\ out = [c \in Consumers |-> [ch \in Channels |-> None]]
  /\ hooksLeft = [c \in Consumers |-> {}]
  /\ tries = [k \in Keys |-> [ch \in Channels |-> 0]]
  /\ accepted = [k \in Keys |-> [ch \in Channels |-> 0]]
  /\ deliveries = [s \in Slots |-> None]
  /\ posted = [k \in Keys |-> [p \in HookPosts |-> 0]]
  /\ evictions = 0 /\ edits = 0

Deliver(c) ==
  \/ \E ch \in Channels : Send(c, ch) \/ SendFail(c, ch) \/ RecordDelivery(c, ch)
  \/ \E h \in Hooks : DeliverWebhook(c, h)

Work(c) ==
  \/ PollLoop(c) \/ Receive(c) \/ DropMalformed(c) \/ SetIfAbsent(c)
  \/ ClaimNotifyDedup(c) \/ GetChannelsForMonitor(c) \/ Deliver(c)
  \/ Dispatched(c) \/ Recorded(c) \/ Handled(c)

Fault(c) ==
  \/ PollFault(c) \/ Crash(c) \/ RedisFail(c) \/ ClaimFail(c) \/ LoadFail(c)
  \/ HooksFail(c) \/ \E ch \in Channels : RecordFail(c, ch)

Next ==
  \/ Publish \/ \E k \in Keys : Evict(k) \/ \E S \in SUBSET Channels : SetChannels(S)
  \/ \E c \in Consumers : Work(c) \/ Fault(c)

Spec == Init /\ [][Next]_vars

-----------------------------------------------------------------------------
(* Correctness. *)

\* For one event a channel and a webhook are reached at most once, and a channel
\* is tried at most maxRetries times: however often the event is produced,
\* redelivered after a crash or handed to two consumers by a rebalance, and even
\* if Redis loses its key (dedup).
DeliveredOnce ==
  \A k \in Keys :
    /\ \A ch \in Channels : accepted[k][ch] <= 1 /\ tries[k][ch] <= maxRetries
    /\ \A p \in HookPosts : posted[k][p] <= 1

\* Past the gate a consumer is alone with its event.
FanningOut(c) == pc[c] \in {"channels", "send", "record", "hooks"}
SoleDispatcher ==
  \A c, d \in Consumers : FanningOut(c) /\ FanningOut(d) /\ key(c) = key(d) => c = d

\* As long as nothing but receivers failed and the channels stayed, every
\* event has been tried on every channel of the monitor: the gate suppresses
\* duplicates only.
EveryAlertTried ==
  Settled /\ faults = 0 /\ edits = 0 => \A n \in DOMAIN stream : stream[n].ok =>
    \A ch \in Channels : tries[stream[n].key][ch] > 0
=============================================================================
