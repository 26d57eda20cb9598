------------------------------ MODULE Delivery ------------------------------
(***************************************************************************)
(* One notifier process fanning events out, in detail: Manager.Dispatch    *)
(* runs a goroutine per channel, each with its retries; the recording      *)
(* provider keeps the last outcome of each channel in the collector; then  *)
(* the outcomes are recorded and the org webhooks are posted to, one after *)
(* the other, within a time budget (internal/notify: service.go,           *)
(* notify.go, platformemail.go, webhookdeliver.go).  Which events get this *)
(* far is the subject of Notifier.                                         *)
(***************************************************************************)
EXTENDS Providers, Integers, Sequences, FiniteSets

CONSTANTS
  Script,       \* events handled, in order: [type, inc, test]
  Channels,     \* channel id -> [type, cfg, enabled]
  Members,      \* users who may be active members of the org
  Hooks,        \* enabled webhooks in id order: <<[id, events], ...>>
  Attempts,     \* SetRetryPolicy's argument
  HookAttempts, \* attempts per webhook and event type
  Budget,       \* age at which a webhook delivery gives up
  MaxAge,       \* bound: how old an event gets
  MaxRemovals   \* bound: members removed or suspended

ASSUME DeliveryAssumption ==
  /\ Attempts \in Int /\ HookAttempts \in Nat /\ Budget \in Nat /\ MaxAge \in Nat
  /\ IsFiniteSet(Members)
  /\ \A i \in 1..Len(Script) :
       /\ Script[i].type \in Events /\ Script[i].test \in BOOLEAN
       /\ Script[i].test => Script[i].type = ""

VARIABLES
  cur,        \* index in Script of the event being handled
  stage,      \* "load", "dispatch", "record", "hooks"
  gor,        \* channel -> its goroutine: [at, n, todo]
  col,        \* channel -> None or [attempts, err]: the collector
  active,     \* members of the org that are active now
  rows,       \* notify_deliveries of the event: channel -> None or [status, attempts]
  jobs,       \* webhook posts still to make: <<[hook, type], ...>>
  n,          \* attempts made at Head(jobs)
  age,        \* time since the event was produced
  cancelled,  \* the process is shutting down
  calls,      \* history of the event: channel -> results of the sends, in order
  remote,     \* channel -> incident -> the on-call tool's alert
  inbox       \* history of the event: channel -> member -> mails accepted

vars == <<cur, stage, gor, col, active, rows, jobs, n, age, cancelled, calls,
          remote, inbox>>

Steps == 1..Len(Script)
ev    == Script[cur]
Idle  == [at |-> "off", n |-> 0, todo |-> << >>]

SetRetryPolicy(attempts) == IF attempts < 1 THEN 1 ELSE attempts
maxRetries == SetRetryPolicy(Attempts)

orgEventTypes(type) ==
  CASE type = "down"     -> <<"monitor.down", "incident.opened">>
    [] type = "recovery" -> <<"monitor.recovery", "incident.closed">>
    [] OTHER             -> << >>
\* An empty list subscribes to every event.
Subscribes(hook, et) == hook.events = {} \/ et \in hook.events

\* What deliverOrgWebhooks goes through: each webhook, each event type.
orgWebhookJobs(type) ==
  LET types == orgEventTypes(type)
      all   == [k \in 1..(Len(Hooks) * Len(types)) |->
                 [hook |-> Hooks[1 + ((k - 1) \div Len(types))],
                  type |-> types[1 + ((k - 1) % Len(types))]]]
  IN  SelectSeq(all, LAMBDA j : Subscribes(j.hook, j.type))

NoRows  == [c \in DOMAIN Channels |-> None]
NoCalls == [c \in DOMAIN Channels |-> << >>]
NoMail  == [c \in DOMAIN Channels |-> [m \in Members |-> 0]]

Init ==
  /\ cur = 1 /\ stage = "load" /\ age = 0 /\ cancelled = FALSE /\ n = 0
  /\ gor = [c \in DOMAIN Channels |-> Idle]
  /\ col = [c \in DOMAIN Channels |-> None]
  /\ active = Members
  /\ jobs = << >>
  /\ remote = [c \in DOMAIN Channels |-> [k \in {Script[e].inc : e \in Steps} |-> "none"]]
  /\ rows = NoRows /\ calls = NoCalls /\ inbox = NoMail

outside == <<active, rows, jobs, n, age, cancelled>>

\* dispatch: a fresh recording manager, and one goroutine per enabled channel.
Dispatch ==
  /\ cur \in Steps /\ stage = "load" /\ stage' = "dispatch"
  /\ col' = [c \in DOMAIN Channels |-> None]
  /\ gor' = [c \in DOMAIN Channels |->
              IF Channels[c].enabled THEN [Idle EXCEPT !.at = "send"] ELSE Idle]
  /\ UNCHANGED <<cur, outside, calls, remote, inbox>>

\* The end of an attempt: recorded in the collector, then retry, or give up.
\* Mutant: the first outcome of a channel is kept.
FirstOutcomeKept(c, err) ==
  IF col[c] # None THEN col ELSE [col EXCEPT ![c] = [attempts |-> gor[c].n + 1, err |-> err]]
collect(c, err) == [col EXCEPT ![c] = [attempts |-> gor[c].n + 1, err |-> err]]
Attempted(c, err) ==
  LET k == gor[c].n + 1 IN
  /\ col' = collect(c, err)
  /\ calls' = [calls EXCEPT ![c] = Append(@, err)]
  /\ gor' = [gor EXCEPT ![c] = [at   |-> IF err /\ k < maxRetries THEN "backoff" ELSE "done",
                                n    |-> k, todo |-> << >>]]

Ask(c) == SendCall(Channels[c].type, Channels[c].cfg, ev)

\* The on-call tools keep one alert per alias.
Apply(c, call) ==
  remote' = IF call.act \in {"trigger", "resolve"}
            THEN [remote EXCEPT ![c][call.alias] = IF call.act = "trigger" THEN "open" ELSE "closed"]
            ELSE remote

\* One call of a provider.  On an error the receiver may have acted or not.
Send(c) ==
  /\ stage = "dispatch" /\ gor[c].at = "send" /\ ~ cancelled
  /\ Channels[c].type # "email"
  /\ \/ Ask(c) # None /\ Apply(c, Ask(c)) /\ Attempted(c, FALSE)
     \/ Ask(c) # None /\ Apply(c, Ask(c)) /\ Attempted(c, TRUE)
     \/ UNCHANGED remote /\ Attempted(c, TRUE)
  /\ UNCHANGED <<cur, stage, outside, inbox>>

\* Team email resolves the addresses, then mails them one by one.
ActiveMemberEmails(ids) ==
  LET to == ids \cap active IN
  CHOOSE s \in [1..Cardinality(to) -> to] : \A i, j \in DOMAIN s : s[i] = s[j] => i = j

Resolve(c) ==
  /\ stage = "dispatch" /\ gor[c].at = "send" /\ ~ cancelled
  /\ Channels[c].type = "email"
  /\ \/ /\ Ask(c) # None
        /\ LET to == ActiveMemberEmails(memberIDs(Channels[c].cfg)) IN
           IF to = << >> THEN Attempted(c, FALSE)
           ELSE gor' = [gor EXCEPT ![c].at = "mail", ![c].todo = to] /\ UNCHANGED <<col, calls>>
     \/ Attempted(c, TRUE)
  /\ UNCHANGED <<cur, stage, outside, remote, inbox>>

\* A mail that fails ends the attempt; the retry starts over with everybody.
\* Mutant: a mail that fails is only logged.
MailBestEffort(c) ==
  LET to == gor[c].todo IN
  /\ stage = "dispatch" /\ gor[c].at = "mail"
  /\ inbox' \in {inbox, [inbox EXCEPT ![c][Head(to)] = @ + 1]}
  /\ IF Len(to) = 1 THEN Attempted(c, FALSE)
     ELSE gor' = [gor EXCEPT ![c].todo = Tail(to)] /\ UNCHANGED <<col, calls>>
  /\ UNCHANGED <<cur, stage, outside, remote>>
MailNext(c) ==
  LET to == gor[c].todo IN
  /\ stage = "dispatch" /\ gor[c].at = "mail"
  /\ \/ /\ inbox' = [inbox EXCEPT ![c][Head(to)] = @ + 1]
        /\ IF Len(to) = 1 THEN Attempted(c, FALSE)
           ELSE gor' = [gor EXCEPT ![c].todo = Tail(to)] /\ UNCHANGED <<col, calls>>
     \/ /\ inbox' \in {inbox, [inbox EXCEPT ![c][Head(to)] = @ + 1]}
        /\ Attempted(c, TRUE)
  /\ UNCHANGED <<cur, stage, outside, remote>>

\* realSMTPSend sets no deadline on its connection and leaves ctx aside once it
\* has dialled: a server that accepts the connection and then says nothing keeps
\* the goroutine for ever, with the mail taken or not.  (The other providers
\* post with an http.Client whose timeout is 15 s.)
Hang(c) ==
  /\ stage = "dispatch"
  /\ \/ /\ gor[c].at = "send" /\ ~ cancelled
        /\ Channels[c].type = "smtp" /\ Ask(c) # None
        /\ UNCHANGED inbox
     \/ /\ gor[c].at = "mail"
        /\ inbox' \in {inbox, [inbox EXCEPT ![c][Head(gor[c].todo)] = @ + 1]}
  /\ gor' = [gor EXCEPT ![c].at = "hung"]
  /\ UNCHANGED <<cur, stage, col, outside, calls, remote>>

\* sleepCtx: the backoff ends, or the shutdown ends it.
Backoff(c) ==
  /\ stage = "dispatch" /\ gor[c].at = "backoff"
  /\ gor' = [gor EXCEPT ![c].at = IF cancelled THEN "done" ELSE "send"]
  /\ UNCHANGED <<cur, stage, col, outside, calls, remote, inbox>>

\* Before an attempt: the context is gone.  Mutant: wg.Done is not reached.
NeverDone(c) ==
  /\ stage = "dispatch" /\ gor[c].at = "send" /\ cancelled
  /\ UNCHANGED vars
NotSent(c) ==
  /\ stage = "dispatch" /\ gor[c].at = "send" /\ cancelled
  /\ gor' = [gor EXCEPT ![c].at = "done"]
  /\ UNCHANGED <<cur, stage, col, outside, calls, remote, inbox>>

\* wg.Wait, then one upsert per channel that was attempted.  An upsert that
\* fails, as all do once the context is gone, is only logged.
AllDone == \A c \in DOMAIN Channels : gor[c].at \in {"off", "done"}
RecordDeliveries ==
  /\ stage = "dispatch" /\ AllDone
  /\ \E lost \in SUBSET DOMAIN Channels :
       rows' = [c \in DOMAIN Channels |->
               IF cancelled \/ col[c] = None \/ c \in lost THEN None
               ELSE [status   |-> IF col[c].err THEN "failed" ELSE "delivered",
                     attempts |-> col[c].attempts]]
  /\ stage' = "hooks" /\ n' = 0
  /\ jobs' = orgWebhookJobs(ev.type)
  /\ UNCHANGED <<cur, gor, col, active, age, cancelled, calls, remote, inbox>>

\* deliverOne: another attempt, unless the context or the budget is gone.
WithinBudget == age <= Budget
MayPost == n < HookAttempts /\ ~ cancelled /\ WithinBudget
NextJob == jobs' = Tail(jobs) /\ n' = 0

Post ==
  /\ stage = "hooks" /\ jobs # << >> /\ MayPost
  /\ \/ NextJob
     \/ n' = n + 1 /\ UNCHANGED jobs
  /\ UNCHANGED <<cur, stage, gor, col, active, rows, age, cancelled, calls, remote, inbox>>

GiveUp ==
  /\ stage = "hooks" /\ jobs # << >> /\ ~ MayPost
  /\ NextJob
  /\ UNCHANGED <<cur, stage, gor, col, active, rows, age, cancelled, calls, remote, inbox>>

\* handle returns; the next event is taken unless the process is stopping.
Handled ==
  /\ stage = "hooks" /\ jobs = << >>
  /\ cur' = cur + 1 /\ stage' = (IF cancelled THEN "stopped" ELSE "load") /\ age' = 0
  /\ gor' = [c \in DOMAIN Channels |-> Idle] /\ col' = NoRows
  /\ rows' = NoRows /\ calls' = NoCalls /\ inbox' = NoMail
  /\ UNCHANGED <<active, jobs, n, cancelled, remote>>

Tick ==
  /\ stage = "hooks" /\ age < MaxAge /\ age' = age + 1
  /\ UNCHANGED <<cur, stage, gor, col, active, rows, jobs, n, cancelled, calls, remote, inbox>>

\* A member leaves, is suspended or deletes the account.
MemberGone(m) ==
  /\ m \in active /\ Cardinality(Members \ active) < MaxRemovals
  /\ active' = active \ {m}
  /\ UNCHANGED <<cur, stage, gor, col, rows, jobs, n, age, cancelled, calls, remote, inbox>>

Shutdown ==
  /\ ~ cancelled /\ cancelled' = TRUE
  /\ UNCHANGED <<cur, stage, gor, col, active, rows, jobs, n, age, calls, remote, inbox>>

Work ==
  \/ Dispatch \/ RecordDeliveries \/ Post \/ GiveUp \/ Handled
  \/ \E c \in DOMAIN Channels : Send(c) \/ Resolve(c) \/ MailNext(c) \/ Backoff(c) \/ NotSent(c)

Next ==
  \/ Work \/ Tick \/ Shutdown
  \/ \E c \in DOMAIN Channels : Hang(c)
  \/ \E m \in Members : MemberGone(m)
\* The process gives its goroutines time, and a call that is not held for ever
\* returns: Hang is the only way out of Work.
Spec == Init /\ [][Next]_vars /\ WF_vars(Work)

-----------------------------------------------------------------------------
(* Correctness. *)

\* What notify_deliveries says of a channel is what happened on it: the number
\* of sends the goroutine made for the event, and the outcome of the last one
\* (dispatch, collector): no goroutine is still sending when it is written.
RowsAreTrue ==
  \A c \in DOMAIN Channels : rows[c] # None =>
    LET made == calls[c] IN
      /\ rows[c].attempts = Len(made)
      /\ rows[c].status = IF made[Len(made)] THEN "failed" ELSE "delivered"

\* A Team email recorded as delivered reached every selected member that is
\* still active, and nobody got more copies than there were attempts
\* (platformEmailProvider.Send starts over after a failed address).
EmailReachesTeam ==
  \A c \in DOMAIN Channels : Channels[c].type = "email" =>
    /\ \A m \in Members : inbox[c][m] <= maxRetries
    /\ rows[c] # None /\ rows[c].status = "delivered" =>
         \A m \in memberIDs(Channels[c].cfg) \cap active : inbox[c][m] > 0

\* Once an incident's recovery went through on an on-call channel, the tool has
\* no alert of the incident open, whatever happened to the down event and its
\* retries.
RecoveryClosesAlert ==
  [][\A c \in DOMAIN Channels, e \in Steps :
       /\ Channels[c].type \in {"pagerduty", "opsgenie"}
       /\ cur = e /\ cur' = e + 1 /\ rows[c] # None /\ rows[c].status = "delivered"
       /\ Script[e].type = "recovery"
       => remote[c][Script[e].inc] = "closed"]_vars

\* What a goroutine has left to do in the attempt it is at.
Left(g) ==
  CASE g.at = "backoff" -> Cardinality(Members) + 2
    [] g.at = "send"    -> Cardinality(Members) + 1
    [] g.at = "mail"    -> Len(g.todo)
    [] OTHER            -> 0
GoesOn(g, h) ==
  \/ h.n = g.n + 1 /\ h.n <= maxRetries
  \/ h.n = g.n /\ Left(h) < Left(g)

\* No step of a handler undoes what another did, or repeats it without end:
\* the event moves to its next stage, or one goroutine goes on within its
\* attempts and its list of members, or the list of posts gets shorter or the
\* first post is tried again, within its attempts.  The goroutines' retries and
\* the members who leave meanwhile never give a goroutine new work.
HandlingAdvances ==
  [][\/ UNCHANGED <<cur, stage, gor, jobs, n>>
     \/ cur' = cur + 1
     \/ cur' = cur /\ <<stage, stage'>> \in {<<"load", "dispatch">>, <<"dispatch", "hooks">>}
     \/ /\ UNCHANGED <<cur, stage, jobs, n>>
        /\ \E c \in DOMAIN Channels :
             /\ GoesOn(gor[c], gor'[c])
             /\ \A d \in DOMAIN Channels \ {c} : gor'[d] = gor[d]
     \/ /\ UNCHANGED <<cur, stage, gor>>
        /\ \/ jobs # << >> /\ jobs' = Tail(jobs)
           \/ jobs' = jobs /\ n' = n + 1 /\ n' <= HookAttempts]_vars

\* The handling of an event always ends, through failures, retries, a shutdown
\* and webhooks that never answer, with one exception: a channel whose mail
\* server holds the connection (realSMTPSend has no deadline) keeps wg.Wait, and
\* so the notifier, from every later event.  Even then no other channel of the
\* event waits for it: each one ends with what it had to do.
Held == \E c \in DOMAIN Channels : gor[c].at = "hung"
OthersDone == \A c \in DOMAIN Channels : gor[c].at \in {"off", "done", "hung"}
HandlingEnds == <>(cur > Len(Script) \/ stage = "stopped" \/ (Held /\ OthersDone))
=============================================================================
