------------------------------- MODULE Limits -------------------------------
(***************************************************************************)
(* The fixed-window limits kept in Redis: "check now" (internal/api        *)
(* monitors.go) and the magic-link request (internal/api/maglink.go), over *)
(* the counters of internal/kv.  A counter is created by INCR and gets its *)
(* expiry by a second command, so a request holds its place between them;  *)
(* calls fail, and requests are cut off, between any two commands.         *)
(***************************************************************************)
EXTENDS Authz, Entitlements, FiniteSets

CONSTANTS
  NoCall,          \* no request, no monitor
  Orgs, Callers,
  Actors,          \* principals of check-now requests, in ActorRecord
  Monitors,        \* rows the requests name: id -> [org, enabled, regions]
  Plan,            \* the plan of every org
  Emails, Ips,     \* addresses and client addresses of link requests
  MaxPerWindow,    \* checks an org may ask for in a window: 10 to 200 in the code
  EmailLimit,      \* magicLinkPerEmailLimit, 3 in the code
  IpLimit,         \* magicLinkPerIPLimit, 10 in the code
  MaxCount,        \* bound: a counter this far over every limit stays there
  MaxFaults        \* bound: failed calls and requests cut off

Windows == Orgs \cup Emails \cup Ips
LimitOf(k) == IF k \in Orgs THEN MaxPerWindow ELSE IF k \in Emails THEN EmailLimit ELSE IpLimit

\* A request: what NewCall makes.
Stages == {"peek", "cooldown", "count", "expire", "decide", "publish"}
CallRecord ==
  [op : {"check", "link"}, pc : Stages, mon : DOMAIN Monitors \cup {NoCall},
   org : Orgs \cup {NoCall}, keys : Seq(Windows), over : BOOLEAN,
   counted : SUBSET Windows, cooled : BOOLEAN, todo : Seq(STRING)]

ASSUME LimitsAssumption ==
  /\ NoCall \notin CallRecord
  /\ IsFiniteSet(Callers) /\ MaxFaults \in Nat /\ MaxCount \in Nat
  /\ \A id \in DOMAIN Monitors :
       Monitors[id] \in [org : Orgs, enabled : BOOLEAN, regions : Seq(STRING)]
  /\ \A k \in Windows : LimitOf(k) \in Nat \ {0} /\ LimitOf(k) < MaxCount

VARIABLES
  traffic,         \* "check" or "link": the two handlers share no key, so a
                   \*   behaviour has requests of one kind
  count,           \* window -> [n, ttl]: the counter and whether it will expire
  cooling,         \* monitors whose cooldown key is there
  call,            \* client -> its request, or NoCall
  spent,           \* history: window -> requests let through since it began
  ran,             \* history: monitor -> checks let through since its cooldown began
  lost,            \* history: windows that never got an expiry, because the answer
                   \*   of their first INCR, or their EXPIRE, was lost
  faults

limitVars == <<traffic, count, cooling, call, spent, ran, lost, faults>>

NoCounter == [n |-> 0, ttl |-> FALSE]

LimitsInit ==
  /\ traffic \in {"check", "link"}
  /\ count = [k \in Windows |-> NoCounter] /\ cooling = {}
  /\ call = [c \in Callers |-> NoCall]
  /\ spent = [k \in Windows |-> 0] /\ ran = [m \in DOMAIN Monitors |-> 0] /\ lost = {} /\ faults = 0

Fault == faults < MaxFaults /\ faults' = faults + 1
Try(ok) == IF ok THEN UNCHANGED faults ELSE Fault

\* A command that fails may have been carried out (its answer is lost, or the
\* request's context is cancelled while it waits), and go-redis may send it
\* again (Open leaves its retries at their default) instead of reporting the
\* error: the request then stays where it is.

-----------------------------------------------------------------------------
(* kv *)

Incr(k) == count' = [count EXCEPT ![k].n = IF @ < MaxCount THEN @ + 1 ELSE @]
Counted(k) == IF count[k].n < MaxCount THEN count[k].n + 1 ELSE MaxCount
Expire(k) == count' = [count EXCEPT ![k].ttl = TRUE]
SetIfAbsent(m) == cooling' = cooling \cup {m}

\* A counter with an expiry goes when its time has come.  A request that was
\* counted in the window that ends is no part of the next one.
WindowEnds(k) ==
  /\ count[k].ttl
  /\ count' = [count EXCEPT ![k] = NoCounter]
  /\ spent' = [spent EXCEPT ![k] = 0]
  /\ call' = [c \in Callers |-> IF call[c] = NoCall THEN NoCall
                                ELSE [call[c] EXCEPT !.counted = @ \ {k}]]
  /\ UNCHANGED <<traffic, cooling, ran, lost, faults>>

CooldownEnds(m) ==
  /\ m \in cooling
  /\ cooling' = cooling \ {m} /\ ran' = [ran EXCEPT ![m] = 0]
  /\ call' = [c \in Callers |-> IF call[c] # NoCall /\ call[c].mon = m
                                THEN [call[c] EXCEPT !.cooled = FALSE] ELSE call[c]]
  /\ UNCHANGED <<traffic, count, spent, lost, faults>>

-----------------------------------------------------------------------------
(* A request: where its handler is, and what it has been counted in. *)

Stage(c, pc) == call[c] # NoCall /\ call[c].pc = pc
Go(c, pc) == call' = [call EXCEPT ![c].pc = pc]
Answer(c, code) == call' = [call EXCEPT ![c] = NoCall]   \* codes tell the cases apart

NewCall(op, pc, mon, org, keys, regions) ==
  [op |-> op, pc |-> pc, mon |-> mon, org |-> org, keys |-> keys, over |-> FALSE,
   counted |-> {}, cooled |-> FALSE, todo |-> regions]

\* The caller goes away or the process ends; an EXPIRE that was due is lost.
CutOff(c) ==
  /\ call[c] # NoCall /\ Fault
  /\ lost' = IF Stage(c, "expire") THEN lost \cup {call[c].keys[1]} ELSE lost
  /\ Answer(c, 500)
  /\ UNCHANGED <<traffic, count, cooling, spent, ran>>

-----------------------------------------------------------------------------
(* CheckNow *)

\* The guards of the handler, up to the rate limit.
CheckNow(c, p, id) ==
  /\ call[c] = NoCall
  /\ LET m == Monitors[id] IN
     IF ~ CanInOrg(p, "manage_monitors") \/ (p.kind = "api_key" /\ ~ APIWriteAllowed(Plan))
     THEN Answer(c, 403)
     ELSE IF m.org # p.org THEN Answer(c, 404)
     ELSE IF ~ m.enabled THEN Answer(c, 409)
     ELSE call' = [call EXCEPT ![c] = NewCall("check", "peek", id, p.org, <<p.org>>, m.regions)]
  /\ UNCHANGED <<traffic, count, cooling, spent, ran, lost, faults>>

\* The answer's Retry-After is what is left of the key's life.
checkNowRateLimited(c) == Answer(c, 429)

\* checkNowAllowed, first: a window already full denies without taking the
\* cooldown.  A failed read lets the request go on.
peekWindow(c) ==
  /\ Stage(c, "peek")
  /\ \E ok \in BOOLEAN :
       /\ Try(ok)
       /\ IF ok /\ count[call[c].org].n >= MaxPerWindow
          THEN checkNowRateLimited(c) ELSE Go(c, "cooldown")
  /\ UNCHANGED <<traffic, count, cooling, spent, ran, lost>>

\* The cooldown of the monitor; the gate fails open.  A SET NX that was carried
\* out and is sent again finds the key it set.
acquireCooldown(c) ==
  /\ Stage(c, "cooldown")
  /\ LET m == call[c].mon IN
     \/ /\ Fault
        /\ \E applied, retried \in BOOLEAN :
             /\ IF applied THEN SetIfAbsent(m) ELSE UNCHANGED cooling
             /\ IF retried THEN UNCHANGED call ELSE Go(c, "publish")
     \/ /\ m \in cooling /\ checkNowRateLimited(c)
        /\ UNCHANGED <<cooling, faults>>
     \/ /\ m \notin cooling /\ SetIfAbsent(m)
        /\ call' = [call EXCEPT ![c].pc = "count", ![c].cooled = TRUE]
        /\ UNCHANGED faults
  /\ UNCHANGED <<traffic, count, spent, ran, lost>>

\* Mutant: the count after the increment is not looked at.
trustPeek(k, n) == FALSE
\* int(n) > lim.MaxPerWindow, n > int64(limit)
overLimit(k, n) == n > LimitOf(k)

\* Mutant: the counter is taken to start at zero.
zeroBased(n) == n = 0
firstOf(n) == n = 1

\* INCR, and what follows from the number it returns.  A failed INCR denies
\* nothing; when it was carried out and was the first of its window, nobody is
\* told so, and the counter gets no expiry.
countIn(c, next) ==
  /\ Stage(c, "count")
  /\ LET k == call[c].keys[1]  n == Counted(k) IN
     \/ /\ Fault
        /\ \E applied, retried \in BOOLEAN :
             /\ IF applied THEN Incr(k) ELSE UNCHANGED count
             /\ lost' = IF applied /\ count[k].n = 0 THEN lost \cup {k} ELSE lost
             /\ IF retried THEN UNCHANGED call
                ELSE call' = [call EXCEPT ![c].pc = next, ![c].keys = Tail(@)]
     \/ /\ Incr(k) /\ UNCHANGED <<faults, lost>>
        /\ call' = [call EXCEPT ![c].over = @ \/ overLimit(k, n),
                                ![c].counted = @ \cup {k},
                                ![c].pc = IF firstOf(n) THEN "expire" ELSE next,
                                ![c].keys = IF firstOf(n) THEN @ ELSE Tail(@)]
  /\ UNCHANGED <<traffic, cooling, spent, ran>>

\* EXPIRE after the first increment; its error is dropped.
startWindow(c, next) ==
  /\ Stage(c, "expire")
  /\ LET k == call[c].keys[1] IN
     \E ok \in BOOLEAN :
       /\ Try(ok)
       /\ IF ok /\ count[k].n > 0 THEN Expire(k) /\ UNCHANGED lost
          ELSE UNCHANGED count /\ lost' = IF ok THEN lost ELSE lost \cup {k}
  /\ call' = [call EXCEPT ![c].pc = next, ![c].keys = Tail(@)]
  /\ UNCHANGED <<traffic, cooling, spent, ran>>

LetThrough(c) ==
  /\ spent' = [k \in Windows |-> IF k \in call[c].counted THEN spent[k] + 1 ELSE spent[k]]
  /\ ran' = IF call[c].cooled THEN [ran EXCEPT ![call[c].mon] = @ + 1] ELSE ran

\* The verdict.
checkNowAllowed(c) ==
  /\ Stage(c, "decide") /\ call[c].op = "check"
  /\ IF call[c].over THEN checkNowRateLimited(c) /\ UNCHANGED <<spent, ran>>
     ELSE Go(c, "publish") /\ LetThrough(c)
  /\ UNCHANGED <<traffic, count, cooling, lost, faults>>

\* One region after the other is marked scheduled and its job published; an
\* error ends the request with what was published so far.
publishChecks(c) ==
  /\ Stage(c, "publish")
  /\ IF call[c].todo = << >> THEN Answer(c, 202) /\ UNCHANGED faults
     ELSE \/ call' = [call EXCEPT ![c].todo = Tail(@)] /\ UNCHANGED faults
          \/ Fault /\ Answer(c, 500)
  /\ UNCHANGED <<traffic, count, cooling, spent, ran, lost>>

-----------------------------------------------------------------------------
(* Magic-link requests *)

\* handleEmailStart: a body that does not parse or holds no address is refused.
handleEmailStart(c, email, ip) ==
  /\ call[c] = NoCall
  /\ IF email = NoCall THEN Answer(c, 422)
     ELSE call' = [call EXCEPT ![c] = NewCall("link", "count", NoCall, NoCall, <<email, ip>>, << >>)]
  /\ UNCHANGED <<traffic, count, cooling, spent, ran, lost, faults>>

\* magicLimited counts the address and the client address, both always; under
\* both limits the intent is published, and its error dropped.
magicLimited(c) ==
  /\ Stage(c, "decide") /\ call[c].op = "link"
  /\ IF call[c].over THEN Answer(c, 429) /\ UNCHANGED <<spent, ran, faults>>
     ELSE /\ Answer(c, 200) /\ LetThrough(c)
          /\ \E ok \in BOOLEAN : Try(ok)
  /\ UNCHANGED <<traffic, count, cooling, lost>>

AfterCount(c) == IF Len(call[c].keys) > 1 THEN "count" ELSE "decide"

Serve(c) ==
  \/ peekWindow(c) \/ acquireCooldown(c)
  \/ call[c] # NoCall /\ (countIn(c, AfterCount(c)) \/ startWindow(c, AfterCount(c)))
  \/ checkNowAllowed(c) \/ magicLimited(c) \/ publishChecks(c)

Requests(c) ==
  \/ /\ traffic = "check"
     /\ \E p \in Actors, id \in DOMAIN Monitors : CheckNow(c, p, id)
  \/ /\ traffic = "link"
     /\ \E email \in Emails \cup {NoCall}, ip \in Ips : handleEmailStart(c, email, ip)

LimitsNext ==
  \/ \E c \in Callers : Requests(c) \/ Serve(c) \/ CutOff(c)
  \/ \E k \in Windows : WindowEnds(k)
  \/ \E m \in DOMAIN Monitors : CooldownEnds(m)

\* Redis expires keys, and handlers run on.
LimitsFair ==
  /\ \A c \in Callers : WF_limitVars(Serve(c))
  /\ \A k \in Windows : WF_limitVars(WindowEnds(k))

-----------------------------------------------------------------------------
(* Correctness. *)

\* No window lets through more than its limit, however many requests read the
\* counter before any of them adds to it (checkNowAllowed peeks, then counts),
\* and a monitor is checked once per cooldown.  Requests let through because
\* Redis failed are not counted.
WithinLimits ==
  /\ \A k \in Windows : spent[k] <= LimitOf(k)
  /\ \A m \in DOMAIN Monitors : ran[m] <= 1

\* A counter that counts has its expiry, or the request that began the window
\* is about to give it one, or that EXPIRE or the answer of the first INCR was
\* lost: no order of the two commands of several requests leaves a window
\* without an end (checkNowAllowed and overLimit call Expire when Incr returned
\* 1).
WindowsEnd ==
  \A k \in Windows :
    count[k].n > 0 => \/ count[k].ttl \/ k \in lost
                     \/ \E c \in Callers : Stage(c, "expire") /\ call[c].keys[1] = k

\* A full window opens again, unless the answer of its first INCR or the EXPIRE
\* that follows it was lost: then the counter stays for good, and everyone it
\* counts is refused once it is full, also when Redis is well again.
WindowReopens ==
  \A k \in Windows : (count[k].n >= LimitOf(k)) ~> (count[k].n = 0 \/ k \in lost)
=============================================================================
