--------------------------- MODULE ApiPartsProofs ---------------------------
(***************************************************************************)
(* What module ApiParts promises of its parts, for any number of callers,  *)
(* windows, requests and rows, however requests interleave: the rate       *)
(* limits hold, a session has one token that works, a sign-in link signs   *)
(* in once, and lists and incidents are answered in full.                  *)
(***************************************************************************)
EXTENDS ApiParts, FiniteSetTheorems, SequenceTheorems, WellFoundedInduction, TLAPS

-----------------------------------------------------------------------------
(* Rate limits: what a request may still spend is within what was counted. *)

\* A request has a monitor while it needs one, and a key while it counts.
WellFormed(r) ==
  r # NoCall =>
    /\ r.pc \in {"peek", "cooldown"} => r.mon \in DOMAIN Monitors /\ ~ r.cooled
    /\ r.pc \notin {"decide", "publish"} => r.keys # << >>
    /\ r.cooled => r.mon \in DOMAIN Monitors

LimitsType ==
  /\ count \in [Windows -> [n : Nat, ttl : BOOLEAN]]
  /\ call \in [Callers -> CallRecord \cup {NoCall}]
  /\ \A c \in Callers : WellFormed(call[c])
  /\ spent \in [Windows -> Nat] /\ ran \in [DOMAIN Monitors -> Nat]

\* A request that may yet be let through, counted in window k and not over a limit.
Spends(r, k) == r # NoCall /\ r.pc # "publish" /\ ~ r.over /\ k \in r.counted
Pending(k)   == {c \in Callers : Spends(call[c], k)}
\* A request that took the cooldown of monitor m and has not been let through.
Cools(r, m)  == r # NoCall /\ r.pc # "publish" /\ r.cooled /\ r.mon = m

WindowOK(k) ==
  /\ spent[k] + Cardinality(Pending(k)) <= count[k].n
  /\ spent[k] + Cardinality(Pending(k)) <= LimitOf(k)
CooldownOK(m) ==
  /\ ran[m] <= 1
  /\ \A c, d \in Callers : Cools(call[c], m) /\ Cools(call[d], m) => c = d
  /\ (\E c \in Callers : Cools(call[c], m)) => ran[m] = 0 /\ m \in cooling
  /\ ran[m] > 0 => m \in cooling

LimitsInv ==
  /\ LimitsType
  /\ \A k \in Windows : WindowOK(k)
  /\ \A m \in DOMAIN Monitors : CooldownOK(m)

LEMMA PendingFinite ==
  ASSUME NEW k
  PROVE  IsFiniteSet(Pending(k)) /\ Cardinality(Pending(k)) \in Nat
<1>1. Pending(k) \in SUBSET Callers /\ IsFiniteSet(Callers)
  BY LimitsAssumption DEF Pending
<1> QED BY <1>1, FS_Subset, FS_CardinalityType

LEMMA LimitType ==
  ASSUME NEW k \in Windows
  PROVE  LimitOf(k) \in Nat \ {0} /\ LimitOf(k) < MaxCount /\ MaxCount \in Nat
BY LimitsAssumption

\* A window in which nothing more is pending or spent, and nothing uncounted.
LEMMA WindowKept ==
  ASSUME LimitsInv, NEW k \in Windows, Pending(k)' \subseteq Pending(k),
         spent'[k] = spent[k],
         count'[k].n = count[k].n \/ (count'[k].n \in Nat /\ count'[k].n > count[k].n)
  PROVE  WindowOK(k)'
<1>1. IsFiniteSet(Pending(k)) /\ Cardinality(Pending(k)) \in Nat
  BY PendingFinite
<1>2. PICK T : T = Pending(k)'
  OBVIOUS
<1>3. T \in SUBSET Pending(k)
  BY <1>2
<1>4. IsFiniteSet(T) /\ Cardinality(T) <= Cardinality(Pending(k)) /\ Cardinality(T) \in Nat
  BY <1>1, <1>3, FS_Subset, FS_CardinalityType
<1>5. spent[k] \in Nat /\ count[k].n \in Nat /\ LimitOf(k) \in Nat
  BY LimitType DEF LimitsInv, LimitsType
<1> QED BY <1>1, <1>2, <1>4, <1>5 DEF LimitsInv, WindowOK, LimitOf

\* A step of one request, by which it has no more to spend than before and
\* holds no cooldown it did not hold; a lost answer may leave more counted, and
\* a cooldown begun, than it knows of.
LEMMA StepKeeps ==
  ASSUME LimitsInv, NEW c \in Callers, NEW r \in CallRecord \cup {NoCall}, WellFormed(r),
         call' = [call EXCEPT ![c] = r],
         \A k \in Windows : Spends(r, k) => Spends(call[c], k),
         \A m \in DOMAIN Monitors : Cools(r, m) => Cools(call[c], m),
         count' \in [Windows -> [n : Nat, ttl : BOOLEAN]],
         \A k \in Windows : count'[k].n = count[k].n \/ count'[k].n > count[k].n,
         cooling \subseteq cooling', UNCHANGED <<spent, ran>>
  PROVE  LimitsInv'
<1>1. \A d \in Callers : call'[d] = IF d = c THEN r ELSE call[d]
  BY DEF LimitsInv, LimitsType
<1>2. LimitsType'
  BY <1>1 DEF LimitsInv, LimitsType
<1>3. ASSUME NEW k \in Windows PROVE WindowOK(k)'
  <2>1. Pending(k)' \subseteq Pending(k)
    BY <1>1 DEF Pending
  <2>2. count'[k].n \in Nat
    OBVIOUS
  <2> QED BY <2>1, <2>2, WindowKept
<1>4. ASSUME NEW m \in DOMAIN Monitors PROVE CooldownOK(m)'
  <2>1. CooldownOK(m)
    BY DEF LimitsInv
  <2>2. \A d \in Callers : Cools(call'[d], m) => Cools(call[d], m)
    BY <1>1
  <2> QED BY <2>1, <2>2 DEF CooldownOK
<1> QED BY <1>2, <1>3, <1>4 DEF LimitsInv

LEMMA CallType ==
  ASSUME LimitsInv, NEW c \in Callers, call[c] # NoCall
  PROVE  call[c] \in CallRecord /\ WellFormed(call[c])
BY DEF LimitsInv, LimitsType

\* The request is answered.
LEMMA AnswerKeeps ==
  ASSUME LimitsInv, NEW c \in Callers, call' = [call EXCEPT ![c] = NoCall],
         UNCHANGED <<count, cooling, spent, ran>>
  PROVE  LimitsInv'
<1>1. \A k, m : ~ Spends(NoCall, k) /\ ~ Cools(NoCall, m)
  BY DEF Spends, Cools
<1>2. WellFormed(NoCall) /\ count' \in [Windows -> [n : Nat, ttl : BOOLEAN]]
  BY DEF WellFormed, LimitsInv, LimitsType
<1> QED BY <1>1, <1>2, StepKeeps

\* A request begins with nothing counted.
LEMMA NewCallKeeps ==
  ASSUME LimitsInv, NEW c \in Callers, NEW op \in {"check", "link"}, NEW pc \in Stages,
         NEW mon \in DOMAIN Monitors \cup {NoCall}, NEW org \in Orgs \cup {NoCall},
         NEW ks \in Seq(Windows), NEW regions \in Seq(STRING), ks # << >>,
         pc \in {"peek", "cooldown"} => mon \in DOMAIN Monitors,
         call' = [call EXCEPT ![c] = NewCall(op, pc, mon, org, ks, regions)],
         UNCHANGED <<count, cooling, spent, ran>>
  PROVE  LimitsInv'
<1> DEFINE r == NewCall(op, pc, mon, org, ks, regions)
<1>1. r \in CallRecord /\ WellFormed(r)
  BY DEF NewCall, CallRecord, WellFormed
<1>2. \A k, m : ~ Spends(r, k) /\ ~ Cools(r, m)
  BY DEF NewCall, Spends, Cools
<1>3. count' \in [Windows -> [n : Nat, ttl : BOOLEAN]]
  BY DEF LimitsInv, LimitsType
<1> HIDE DEF r
<1>4. call' = [call EXCEPT ![c] = r]
  BY DEF r
<1> QED BY <1>1, <1>2, <1>3, <1>4, StepKeeps

LEMMA RequestsKeep ==
  ASSUME LimitsInv, NEW c \in Callers, Requests(c)
  PROVE  LimitsInv'
<1>1. ASSUME NEW p \in Actors, NEW id \in DOMAIN Monitors, CheckNow(c, p, id) PROVE LimitsInv'
  <2>1. UNCHANGED <<count, cooling, spent, ran>>
    BY <1>1 DEF CheckNow
  <2>2. CASE call' = [call EXCEPT ![c] = NoCall]
    BY <2>1, <2>2, AnswerKeeps
  <2>3. CASE /\ call' = [call EXCEPT ![c] =
                   NewCall("check", "peek", id, p.org, <<p.org>>, Monitors[id].regions)]
             /\ Monitors[id].org = p.org
    <3>1. p.org \in Orgs /\ Monitors[id].regions \in Seq(STRING)
      BY <2>3, LimitsAssumption
    <3>2. <<p.org>> \in Seq(Windows) /\ <<p.org>> # << >>
      BY <3>1 DEF Windows
    <3> QED BY <2>1, <2>3, <3>1, <3>2, NewCallKeeps DEF Stages
  <2> QED BY <1>1, <2>2, <2>3 DEF CheckNow, Answer
<1>2. ASSUME NEW email \in Emails \cup {NoCall}, NEW ip \in Ips, handleEmailStart(c, email, ip)
      PROVE  LimitsInv'
  <2>1. UNCHANGED <<count, cooling, spent, ran>>
    BY <1>2 DEF handleEmailStart
  <2>2. CASE email = NoCall
    BY <1>2, <2>1, <2>2, AnswerKeeps DEF handleEmailStart, Answer
  <2>3. CASE email # NoCall
    <3>1. <<email, ip>> \in Seq(Windows) /\ <<email, ip>> # << >> /\ << >> \in Seq(STRING)
      BY <2>3 DEF Windows
    <3>2. call' = [call EXCEPT ![c] = NewCall("link", "count", NoCall, NoCall, <<email, ip>>, << >>)]
      BY <1>2, <2>3 DEF handleEmailStart
    <3>3. /\ "link" \in {"check", "link"} /\ "count" \in Stages /\ "count" \notin {"peek", "cooldown"}
          /\ NoCall \in DOMAIN Monitors \cup {NoCall} /\ NoCall \in Orgs \cup {NoCall}
      BY DEF Stages
    <3> QED BY <2>1, <3>1, <3>2, <3>3, NewCallKeeps
  <2> QED BY <2>2, <2>3
<1> QED BY <1>1, <1>2 DEF Requests

\* The request goes on to a later stage with what it has.
LEMMA GoKeeps ==
  ASSUME LimitsInv, NEW c \in Callers, call[c] # NoCall, call[c].pc # "publish",
         NEW pc \in Stages, NEW ks \in Seq(Windows),
         pc \in {"peek", "cooldown"} => call[c].pc = "peek",
         pc \notin {"decide", "publish"} => ks # << >>,
         call' = [call EXCEPT ![c] = [call[c] EXCEPT !.pc = pc, !.keys = ks]],
         count' \in [Windows -> [n : Nat, ttl : BOOLEAN]],
         \A k \in Windows : count'[k].n = count[k].n \/ count'[k].n > count[k].n,
         cooling \subseteq cooling', UNCHANGED <<spent, ran>>
  PROVE  LimitsInv'
<1> DEFINE r == [call[c] EXCEPT !.pc = pc, !.keys = ks]
<1>1. call[c] \in CallRecord /\ WellFormed(call[c])
  BY CallType
<1>2. r \in CallRecord
  BY <1>1 DEF CallRecord
<1>3. r.pc = pc /\ r.keys = ks /\ r.over = call[c].over /\ r.counted = call[c].counted
      /\ r.cooled = call[c].cooled /\ r.mon = call[c].mon
  BY <1>1 DEF CallRecord
<1> HIDE DEF r
<1>4. WellFormed(r)
  BY <1>1, <1>3 DEF WellFormed
<1>5. \A k, m : (Spends(r, k) => Spends(call[c], k)) /\ (Cools(r, m) => Cools(call[c], m))
  BY <1>3 DEF Spends, Cools
<1>6. call' = [call EXCEPT ![c] = r]
  BY DEF r
<1> QED BY <1>2, <1>4, <1>5, <1>6, StepKeeps

LEMMA GoOnlyKeeps ==
  ASSUME LimitsInv, NEW c \in Callers, call[c] # NoCall, call[c].pc # "publish",
         NEW pc \in Stages \ {"peek", "count", "expire"},
         pc = "cooldown" => call[c].pc = "peek",
         call' = [call EXCEPT ![c].pc = pc],
         cooling \subseteq cooling', UNCHANGED <<count, spent, ran>>
  PROVE  LimitsInv'
<1>1. call[c] \in CallRecord
  BY CallType
<1>2. [call[c] EXCEPT !.pc = pc] = [call[c] EXCEPT !.pc = pc, !.keys = call[c].keys]
  BY <1>1 DEF CallRecord
<1>3. call' = [call EXCEPT ![c] = [call[c] EXCEPT !.pc = pc, !.keys = call[c].keys]]
  BY <1>2
<1>4. call[c].keys \in Seq(Windows) /\ count' \in [Windows -> [n : Nat, ttl : BOOLEAN]]
  BY <1>1 DEF CallRecord, LimitsInv, LimitsType
<1>5. pc = "cooldown" => call[c].keys # << >>
  BY CallType DEF WellFormed
<1> QED BY <1>3, <1>4, <1>5, GoKeeps, ZenonT(40) DEF Stages

\* A command sent again: the request stays where it is.
LEMMA StillKeeps ==
  ASSUME LimitsInv, NEW c \in Callers, UNCHANGED call,
         count' \in [Windows -> [n : Nat, ttl : BOOLEAN]],
         \A k \in Windows : count'[k].n = count[k].n \/ count'[k].n > count[k].n,
         cooling \subseteq cooling', UNCHANGED <<spent, ran>>
  PROVE  LimitsInv'
<1>1. call[c] \in CallRecord \cup {NoCall} /\ WellFormed(call[c])
  BY DEF LimitsInv, LimitsType
<1>2. call' = [call EXCEPT ![c] = call[c]]
  BY DEF LimitsInv, LimitsType
<1> QED BY <1>1, <1>2, StepKeeps

LEMMA PeekKeeps ==
  ASSUME LimitsInv, NEW c \in Callers, peekWindow(c)
  PROVE  LimitsInv'
<1>1. call[c] # NoCall /\ call[c].pc = "peek" /\ UNCHANGED <<count, cooling, spent, ran>>
  BY DEF peekWindow, Stage
<1>2. CASE call' = [call EXCEPT ![c] = NoCall]
  BY <1>1, <1>2, AnswerKeeps
<1>3. CASE call' = [call EXCEPT ![c].pc = "cooldown"]
  BY <1>1, <1>3, GoOnlyKeeps DEF Stages
<1> QED BY <1>2, <1>3 DEF peekWindow, checkNowRateLimited, Answer, Go

\* The cooldown is taken only where no cooldown runs.
LEMMA CooldownKeeps ==
  ASSUME LimitsInv, NEW c \in Callers, acquireCooldown(c)
  PROVE  LimitsInv'
<1>1. call[c] # NoCall /\ call[c].pc = "cooldown" /\ UNCHANGED <<count, spent, ran>>
  BY DEF acquireCooldown, Stage
<1>2. CASE call' = [call EXCEPT ![c] = NoCall] /\ UNCHANGED cooling
  BY <1>1, <1>2, AnswerKeeps
<1>3. CASE cooling \subseteq cooling' /\ call' = [call EXCEPT ![c].pc = "publish"]
  BY <1>1, <1>3, GoOnlyKeeps DEF Stages
<1>5. CASE cooling \subseteq cooling' /\ UNCHANGED call
  BY <1>1, <1>5, StillKeeps DEF LimitsInv, LimitsType
<1>4. CASE /\ call[c].mon \notin cooling /\ cooling' = cooling \cup {call[c].mon}
           /\ call' = [call EXCEPT ![c].pc = "count", ![c].cooled = TRUE]
  <2> DEFINE r == [call[c] EXCEPT !.pc = "count", !.cooled = TRUE]
  <2>1. call[c] \in CallRecord /\ call[c].mon \in DOMAIN Monitors /\ ~ call[c].cooled
    BY <1>1, CallType DEF WellFormed
  <2>2. r \in CallRecord /\ r.pc = "count" /\ r.cooled /\ r.mon = call[c].mon
        /\ r.keys = call[c].keys /\ r.over = call[c].over /\ r.counted = call[c].counted
    BY <2>1 DEF CallRecord, Stages
  <2>3. \A d \in Callers : call'[d] = IF d = c THEN r ELSE call[d]
    BY <1>4 DEF LimitsInv, LimitsType
  <2> HIDE DEF r
  <2>4. WellFormed(r)
    BY <1>1, <2>1, <2>2, CallType DEF WellFormed
  <2>5. LimitsType'
    BY <1>1, <2>2, <2>3, <2>4, <1>4 DEF LimitsInv, LimitsType
  <2>6. ASSUME NEW k \in Windows PROVE WindowOK(k)'
    <3>1. Pending(k)' \subseteq Pending(k)
      BY <1>1, <2>2, <2>3 DEF Pending, Spends
    <3>2. count'[k].n \in Nat /\ count'[k].n = count[k].n
      BY <1>1 DEF LimitsInv, LimitsType
    <3> QED BY <1>1, <3>1, <3>2, WindowKept
  <2>7. ASSUME NEW m \in DOMAIN Monitors PROVE CooldownOK(m)'
    <3>1. CooldownOK(m)
      BY DEF LimitsInv
    <3>2. CASE m # call[c].mon
      <4>1. \A d \in Callers : Cools(call'[d], m) => Cools(call[d], m)
        BY <2>2, <2>3, <3>2 DEF Cools
      <4> QED BY <1>1, <1>4, <3>1, <4>1 DEF CooldownOK
    <3>3. CASE m = call[c].mon
      <4>1. ran[m] \in Nat /\ ran[m] = 0 /\ \A d \in Callers : ~ Cools(call[d], m)
        BY <1>4, <3>1, <3>3 DEF CooldownOK, LimitsInv, LimitsType
      <4>2. \A d \in Callers : Cools(call'[d], m) => d = c
        BY <2>3, <4>1
      <4>3. ran'[m] = 0 /\ m \in cooling'
        BY <1>1, <1>4, <3>3, <4>1
      <4> QED BY <4>2, <4>3 DEF CooldownOK
    <3> QED BY <3>2, <3>3
  <2> QED BY <2>5, <2>6, <2>7 DEF LimitsInv
<1> QED BY <1>2, <1>3, <1>4, <1>5 DEF acquireCooldown, checkNowRateLimited, Answer, Go, SetIfAbsent

LEMMA AfterCountOK ==
  ASSUME LimitsInv, NEW c \in Callers, call[c] # NoCall, call[c].pc \in {"count", "expire"}
  PROVE  /\ AfterCount(c) \in {"count", "decide"} /\ Tail(call[c].keys) \in Seq(Windows)
         /\ AfterCount(c) = "count" => Tail(call[c].keys) # << >>
         /\ call[c].keys \in Seq(Windows) /\ call[c].keys # << >> /\ call[c].keys[1] \in Windows
<1>1. call[c].keys \in Seq(Windows) /\ call[c].keys # << >>
  BY CallType DEF CallRecord, WellFormed
<1>2. PICK s \in Seq(Windows) : s = call[c].keys
  BY <1>1
<1>3. /\ Tail(s) \in Seq(Windows) /\ s[1] \in Windows
      /\ Len(s) > 1 => Tail(s) # << >>
  <2>1. Len(s) \in Nat /\ Tail(s) \in Seq(Windows) /\ Len(Tail(s)) = Len(s) - 1
    BY <1>1, <1>2, HeadTailProperties
  <2>2. Len(Tail(s)) # 0 => Tail(s) # << >>
    BY EmptySeq
  <2>3. s[1] \in Windows
    BY <1>1, <1>2
  <2> QED BY <2>1, <2>2, <2>3
<1>4. AfterCount(c) = IF Len(s) > 1 THEN "count" ELSE "decide"
  BY <1>2 DEF AfterCount
<1> QED BY <1>1, <1>2, <1>3, <1>4

\* A request that is counted may spend what its number allows, and no more.
LEMMA IncrKeeps ==
  ASSUME LimitsInv, NEW c \in Callers, NEW r \in CallRecord, NEW k \in Windows, NEW n \in Nat,
         call[c] # NoCall, call[c].pc = "count", WellFormed(r),
         n = Counted(k), Incr(k), call' = [call EXCEPT ![c] = r],
         r.counted = call[c].counted \cup {k}, r.over = (call[c].over \/ n > LimitOf(k)),
         r.pc # "publish", r.cooled = call[c].cooled, r.mon = call[c].mon,
         UNCHANGED <<cooling, spent, ran>>
  PROVE  LimitsInv'
<1>1. \A d \in Callers : call'[d] = IF d = c THEN r ELSE call[d]
  BY DEF LimitsInv, LimitsType
<1>2. /\ count' \in [Windows -> [n : Nat, ttl : BOOLEAN]]
      /\ \A x \in Windows \ {k} : count'[x].n = count[x].n
      /\ count'[k].n = IF count[k].n < MaxCount THEN count[k].n + 1 ELSE count[k].n
      /\ count[k].n \in Nat /\ spent[k] \in Nat
  BY DEF Incr, LimitsInv, LimitsType
<1>3. LimitsType'
  BY <1>1, <1>2 DEF LimitsInv, LimitsType
<1>4. call[c].over \in BOOLEAN
  BY CallType DEF CallRecord
<1>5. ASSUME NEW x \in Windows, x # k PROVE WindowOK(x)'
  <2>1. Pending(x)' \subseteq Pending(x)
    BY <1>1, <1>4, <1>5 DEF Pending, Spends
  <2> QED BY <1>2, <1>5, <2>1, WindowKept
<1>6. WindowOK(k)'
  <2>1. IsFiniteSet(Pending(k)) /\ Cardinality(Pending(k)) \in Nat /\ WindowOK(k)
    BY PendingFinite DEF LimitsInv
  <2>2. PICK T : T = Pending(k)'
    OBVIOUS
  <2>3. LimitOf(k) \in Nat /\ LimitOf(k) < MaxCount /\ MaxCount \in Nat
    BY LimitType
  <2>4. CASE n > LimitOf(k)
    <3>1. T \in SUBSET Pending(k)
      BY <1>1, <2>2, <2>4 DEF Pending, Spends
    <3>2. Cardinality(T) <= Cardinality(Pending(k)) /\ IsFiniteSet(T) /\ Cardinality(T) \in Nat
      BY <2>1, <3>1, FS_Subset, FS_CardinalityType
    <3> QED BY <1>2, <2>1, <2>2, <2>3, <3>2 DEF WindowOK, LimitOf
  <2>5. CASE ~ (n > LimitOf(k))
    <3>1. n = count[k].n + 1 /\ count'[k].n = n
      BY <1>2, <2>3, <2>5 DEF Counted
    <3>2. T \in SUBSET (Pending(k) \cup {c})
      BY <1>1, <2>2 DEF Pending, Spends
    <3>3. IsFiniteSet(Pending(k) \cup {c}) /\ Cardinality(Pending(k) \cup {c}) <= Cardinality(Pending(k)) + 1
          /\ Cardinality(Pending(k) \cup {c}) \in Nat
      <4>1. /\ IsFiniteSet(Pending(k) \cup {c})
            /\ Cardinality(Pending(k) \cup {c}) =
                 IF c \in Pending(k) THEN Cardinality(Pending(k)) ELSE Cardinality(Pending(k)) + 1
        BY <2>1, FS_AddElement
      <4> QED BY <2>1, <4>1
    <3>4. Cardinality(T) <= Cardinality(Pending(k) \cup {c}) /\ IsFiniteSet(T) /\ Cardinality(T) \in Nat
      BY <3>2, <3>3, FS_Subset, FS_CardinalityType
    <3>5. spent[k] + Cardinality(T) <= n /\ n <= LimitOf(k)
      BY <1>2, <2>1, <2>3, <2>5, <3>1, <3>3, <3>4 DEF WindowOK
    <3> QED BY <1>2, <2>2, <2>3, <3>1, <3>4, <3>5 DEF WindowOK, LimitOf
  <2> QED BY <2>4, <2>5
<1>7. ASSUME NEW m \in DOMAIN Monitors PROVE CooldownOK(m)'
  <2>1. \A d \in Callers : Cools(call'[d], m) => Cools(call[d], m)
    BY <1>1 DEF Cools
  <2> QED BY <2>1 DEF CooldownOK, LimitsInv
<1> QED BY <1>3, <1>5, <1>6, <1>7 DEF LimitsInv

LEMMA CountKeeps ==
  ASSUME LimitsInv, NEW c \in Callers, call[c] # NoCall, countIn(c, AfterCount(c))
  PROVE  LimitsInv'
<1> DEFINE next == AfterCount(c)
           k == call[c].keys[1]
           n == Counted(k)
<1>1. call[c].pc = "count" /\ UNCHANGED <<cooling, spent, ran>>
  BY DEF countIn, Stage
<1>2. /\ next \in {"count", "decide"} /\ Tail(call[c].keys) \in Seq(Windows)
      /\ next = "count" => Tail(call[c].keys) # << >>
      /\ call[c].keys \in Seq(Windows) /\ call[c].keys # << >> /\ k \in Windows
  BY <1>1, AfterCountOK
<1>3. call[c] \in CallRecord /\ WellFormed(call[c])
  BY CallType
<1> HIDE DEF next
<1>4. CASE /\ count' = count \/ Incr(k)
           /\ call' = call \/ call' = [call EXCEPT ![c].pc = next, ![c].keys = Tail(@)]
  <2>1. /\ count' \in [Windows -> [n : Nat, ttl : BOOLEAN]]
        /\ \A x \in Windows : count'[x].n = count[x].n \/ count'[x].n > count[x].n
    <3>1. count \in [Windows -> [n : Nat, ttl : BOOLEAN]] /\ MaxCount \in Nat
      BY <1>2, LimitType DEF LimitsInv, LimitsType
    <3>2. PICK y \in Windows : y = k
      BY <1>2
    <3>3. CASE count' = [count EXCEPT ![y].n = IF @ < MaxCount THEN @ + 1 ELSE @]
      BY <3>1, <3>3
    <3> QED BY <1>4, <3>1, <3>2, <3>3 DEF Incr
  <2>2. CASE call' = [call EXCEPT ![c].pc = next, ![c].keys = Tail(@)]
    <3>1. call' = [call EXCEPT ![c] = [call[c] EXCEPT !.pc = next, !.keys = Tail(call[c].keys)]]
      BY <1>3, <2>2 DEF LimitsInv, LimitsType, CallRecord
    <3> QED BY <1>1, <1>2, <2>1, <3>1, GoKeeps DEF Stages
  <2>3. CASE UNCHANGED call
    BY <1>1, <2>1, <2>3, StillKeeps
  <2> QED BY <1>4, <2>2, <2>3
<1>5. CASE /\ Incr(k)
           /\ call' = [call EXCEPT ![c].over = @ \/ overLimit(k, n),
                                   ![c].counted = @ \cup {k},
                                   ![c].pc = IF firstOf(n) THEN "expire" ELSE next,
                                   ![c].keys = IF firstOf(n) THEN @ ELSE Tail(@)]
  <2> DEFINE r == [call[c] EXCEPT !.over = @ \/ overLimit(k, n), !.counted = @ \cup {k},
                                  !.pc = IF firstOf(n) THEN "expire" ELSE next,
                                  !.keys = IF firstOf(n) THEN @ ELSE Tail(@)]
  <2>1. call' = [call EXCEPT ![c] = r]
    BY <1>3, <1>5 DEF LimitsInv, LimitsType, CallRecord
  <2>2. n \in Nat
    <3>1. count[k].n \in Nat /\ MaxCount \in Nat
      BY <1>2, LimitType DEF LimitsInv, LimitsType
    <3> QED BY <3>1 DEF Counted
  <2> HIDE DEF n, k
  <2>3. /\ r.over = (call[c].over \/ overLimit(k, n)) /\ r.counted = call[c].counted \cup {k}
        /\ r.pc = IF firstOf(n) THEN "expire" ELSE next
        /\ r.keys = IF firstOf(n) THEN call[c].keys ELSE Tail(call[c].keys)
        /\ r.cooled = call[c].cooled /\ r.mon = call[c].mon
    BY <1>3 DEF CallRecord
  <2>4. r \in CallRecord
    BY <1>2, <1>3 DEF CallRecord, Stages, overLimit
  <2> HIDE DEF r
  <2>5. WellFormed(r)
    BY <1>1, <1>2, <1>3, <2>3 DEF WellFormed
  <2> QED BY <1>1, <1>2, <1>5, <2>1, <2>2, <2>3, <2>4, <2>5, IncrKeeps DEF overLimit, n
<1> QED BY <1>4, <1>5 DEF countIn, next

LEMMA ExpireKeeps ==
  ASSUME LimitsInv, NEW c \in Callers, call[c] # NoCall, startWindow(c, AfterCount(c))
  PROVE  LimitsInv'
<1> DEFINE next == AfterCount(c)
<1>1. /\ call[c].pc = "expire" /\ UNCHANGED <<cooling, spent, ran>>
      /\ call' = [call EXCEPT ![c].pc = next, ![c].keys = Tail(@)]
  BY DEF startWindow, Stage
<1>2. /\ next \in {"count", "decide"} /\ Tail(call[c].keys) \in Seq(Windows)
      /\ next = "count" => Tail(call[c].keys) # << >>
  BY <1>1, AfterCountOK
<1>3. call[c] \in CallRecord
  BY CallType
<1>4. /\ count' \in [Windows -> [n : Nat, ttl : BOOLEAN]]
      /\ \A k \in Windows : count'[k].n = count[k].n
  <2>1. count \in [Windows -> [n : Nat, ttl : BOOLEAN]]
    BY DEF LimitsInv, LimitsType
  <2>2. PICK k \in Windows : k = call[c].keys[1]
    BY <1>1, AfterCountOK
  <2>3. count' = count \/ count' = [count EXCEPT ![k].ttl = TRUE]
    BY <2>2 DEF startWindow, Expire
  <2> QED BY <2>1, <2>3, ZenonT(40)
<1> HIDE DEF next
<1>5. call' = [call EXCEPT ![c] = [call[c] EXCEPT !.pc = next, !.keys = Tail(call[c].keys)]]
  BY <1>1, <1>3 DEF LimitsInv, LimitsType, CallRecord
<1> QED BY <1>1, <1>2, <1>4, <1>5, GoKeeps DEF Stages

\* A request that is let through spends what was pending.
LEMMA LetThroughKeeps ==
  ASSUME LimitsInv, NEW c \in Callers, NEW r \in CallRecord \cup {NoCall}, WellFormed(r),
         call[c] # NoCall, call[c].pc = "decide", ~ call[c].over,
         call' = [call EXCEPT ![c] = r], r = NoCall \/ r.pc = "publish",
         LetThrough(c), UNCHANGED <<count, cooling>>
  PROVE  LimitsInv'
<1>1. \A d \in Callers : call'[d] = IF d = c THEN r ELSE call[d]
  BY DEF LimitsInv, LimitsType
<1>2. call[c] \in CallRecord /\ WellFormed(call[c])
  BY CallType
<1>3. /\ \A k \in Windows : spent'[k] = IF k \in call[c].counted THEN spent[k] + 1 ELSE spent[k]
      /\ spent' \in [Windows -> Nat] /\ spent \in [Windows -> Nat]
  BY DEF LetThrough, LimitsInv, LimitsType
<1>4. /\ ran' \in [DOMAIN Monitors -> Nat] /\ ran \in [DOMAIN Monitors -> Nat]
      /\ \A m \in DOMAIN Monitors :
           ran'[m] = IF call[c].cooled /\ call[c].mon = m THEN ran[m] + 1 ELSE ran[m]
  BY <1>2 DEF LetThrough, LimitsInv, LimitsType, WellFormed
<1>5. LimitsType'
  BY <1>1, <1>3, <1>4 DEF LimitsInv, LimitsType
<1>6. ASSUME NEW k \in Windows PROVE WindowOK(k)'
  <2>1. CASE k \notin call[c].counted
    <3>1. Pending(k)' \subseteq Pending(k)
      BY <1>1 DEF Pending, Spends
    <3> QED BY <1>3, <2>1, <3>1, WindowKept
  <2>2. CASE k \in call[c].counted
    <3>1. c \in Pending(k) /\ IsFiniteSet(Pending(k)) /\ Cardinality(Pending(k)) \in Nat /\ WindowOK(k)
      BY <2>2, PendingFinite DEF Pending, Spends, LimitsInv
    <3>2. Pending(k)' = Pending(k) \ {c}
      BY <1>1 DEF Pending, Spends
    <3>3. Cardinality(Pending(k) \ {c}) = Cardinality(Pending(k)) - 1
      BY <3>1, FS_RemoveElement
    <3>4. spent'[k] + Cardinality(Pending(k)') = spent[k] + Cardinality(Pending(k))
      BY <1>3, <2>2, <3>1, <3>2, <3>3
    <3> QED BY <3>1, <3>4 DEF WindowOK, LimitOf
  <2> QED BY <2>1, <2>2
<1>7. ASSUME NEW m \in DOMAIN Monitors PROVE CooldownOK(m)'
  <2>1. \A d \in Callers : Cools(call'[d], m) => Cools(call[d], m) /\ d # c
    BY <1>1 DEF Cools
  <2>2. CooldownOK(m)
    BY DEF LimitsInv
  <2>3. CASE call[c].cooled /\ call[c].mon = m
    <3>1. Cools(call[c], m)
      BY <2>3 DEF Cools
    <3>2. ran[m] = 0 /\ m \in cooling /\ \A d \in Callers : ~ Cools(call'[d], m)
      BY <2>1, <2>2, <3>1 DEF CooldownOK
    <3>3. ran'[m] = 1
      BY <1>4, <2>3, <3>2
    <3> QED BY <3>2, <3>3 DEF CooldownOK
  <2>4. CASE ~ (call[c].cooled /\ call[c].mon = m)
    <3>1. ran'[m] = ran[m]
      BY <1>4, <2>4
    <3> QED BY <2>1, <2>2, <3>1 DEF CooldownOK
  <2> QED BY <2>3, <2>4
<1> QED BY <1>5, <1>6, <1>7 DEF LimitsInv

LEMMA VerdictKeeps ==
  ASSUME LimitsInv, NEW c \in Callers, checkNowAllowed(c) \/ magicLimited(c)
  PROVE  LimitsInv'
<1>1. call[c] # NoCall /\ call[c].pc = "decide" /\ UNCHANGED <<count, cooling>>
  BY DEF checkNowAllowed, magicLimited, Stage
<1>2. call[c] \in CallRecord /\ WellFormed(call[c])
  BY <1>1, CallType
<1>3. CASE call[c].over
  BY <1>1, <1>3, AnswerKeeps DEF checkNowAllowed, magicLimited, checkNowRateLimited, Answer
<1>4. CASE ~ call[c].over /\ checkNowAllowed(c)
  <2> DEFINE r == [call[c] EXCEPT !.pc = "publish"]
  <2>1. call' = [call EXCEPT ![c] = r] /\ LetThrough(c)
    BY <1>4 DEF checkNowAllowed, Go
  <2>2. r \in CallRecord /\ r.pc = "publish" /\ r.cooled = call[c].cooled /\ r.mon = call[c].mon
    BY <1>2 DEF CallRecord, Stages
  <2> HIDE DEF r
  <2>3. WellFormed(r)
    BY <1>1, <1>2, <2>2 DEF WellFormed
  <2> QED BY <1>1, <1>4, <2>1, <2>2, <2>3, LetThroughKeeps
<1>5. CASE ~ call[c].over /\ magicLimited(c)
  <2>1. WellFormed(NoCall)
    BY DEF WellFormed
  <2> QED BY <1>1, <1>5, <2>1, LetThroughKeeps DEF magicLimited, Answer
<1> QED BY <1>3, <1>4, <1>5

LEMMA PublishKeeps ==
  ASSUME LimitsInv, NEW c \in Callers, publishChecks(c)
  PROVE  LimitsInv'
<1>1. call[c] # NoCall /\ call[c].pc = "publish" /\ UNCHANGED <<count, cooling, spent, ran>>
  BY DEF publishChecks, Stage
<1>2. CASE call' = [call EXCEPT ![c] = NoCall]
  BY <1>1, <1>2, AnswerKeeps
<1>3. CASE call' = [call EXCEPT ![c].todo = Tail(@)] /\ call[c].todo # << >>
  <2> DEFINE r == [call[c] EXCEPT !.todo = Tail(@)]
  <2>1. call[c] \in CallRecord /\ WellFormed(call[c])
    BY <1>1, CallType
  <2>2. Tail(call[c].todo) \in Seq(STRING)
    BY <1>3, <2>1, HeadTailProperties DEF CallRecord
  <2>3. r \in CallRecord /\ r.pc = "publish" /\ r.cooled = call[c].cooled /\ r.mon = call[c].mon
    BY <1>1, <2>1, <2>2 DEF CallRecord
  <2>4. call' = [call EXCEPT ![c] = r] /\ count' \in [Windows -> [n : Nat, ttl : BOOLEAN]]
    BY <1>1, <1>3 DEF LimitsInv, LimitsType
  <2> HIDE DEF r
  <2>5. WellFormed(r) /\ \A k, m : ~ Spends(r, k) /\ ~ Cools(r, m)
    BY <1>1, <2>1, <2>3 DEF WellFormed, Spends, Cools
  <2> QED BY <1>1, <2>3, <2>4, <2>5, StepKeeps
<1> QED BY <1>2, <1>3 DEF publishChecks, Answer

\* A window that ends takes what was counted in it along.
LEMMA WindowEndsKeeps ==
  ASSUME LimitsInv, NEW k \in Windows, WindowEnds(k)
  PROVE  LimitsInv'
<1> DEFINE without(c) == IF call[c] = NoCall THEN NoCall ELSE [call[c] EXCEPT !.counted = @ \ {k}]
<1>1. /\ count' = [count EXCEPT ![k] = [n |-> 0, ttl |-> FALSE]]
      /\ spent' = [spent EXCEPT ![k] = 0] /\ UNCHANGED <<cooling, ran>>
      /\ call' = [c \in Callers |-> without(c)]
  BY DEF WindowEnds, NoCounter
<1>2. ASSUME NEW c \in Callers, call[c] # NoCall
      PROVE  /\ without(c) \in CallRecord /\ without(c).counted = call[c].counted \ {k}
             /\ without(c).pc = call[c].pc /\ without(c).over = call[c].over
             /\ without(c).cooled = call[c].cooled /\ without(c).mon = call[c].mon
             /\ without(c).keys = call[c].keys
  <2>1. call[c] \in CallRecord
    BY <1>2, CallType
  <2> QED BY <1>2, <2>1 DEF CallRecord
<1>3. \A c \in Callers : call'[c] = without(c) /\ (call[c] = NoCall => without(c) = NoCall)
  BY <1>1
<1> HIDE DEF without
<1>4. LimitsType'
  <2>1. ASSUME NEW c \in Callers PROVE WellFormed(call'[c]) /\ call'[c] \in CallRecord \cup {NoCall}
    <3>1. CASE call[c] = NoCall
      BY <1>3, <3>1 DEF WellFormed
    <3>2. CASE call[c] # NoCall
      <4>1. WellFormed(call[c])
        BY <3>2, CallType
      <4> QED BY <1>2, <1>3, <3>2, <4>1 DEF WellFormed
    <3> QED BY <3>1, <3>2
  <2> QED BY <1>1, <2>1 DEF LimitsInv, LimitsType
<1>5. ASSUME NEW x \in Windows, x # k PROVE WindowOK(x)'
  <2>1. Pending(x)' \subseteq Pending(x)
    BY <1>2, <1>3 DEF Pending, Spends
  <2>2. spent'[x] = spent[x] /\ count'[x].n = count[x].n
    BY <1>1, <1>5 DEF LimitsInv, LimitsType
  <2> QED BY <2>1, <2>2, WindowKept
<1>6. WindowOK(k)'
  <2>1. Pending(k)' = {}
    BY <1>2, <1>3 DEF Pending, Spends
  <2>2. spent'[k] = 0 /\ count'[k].n = 0
    BY <1>1 DEF LimitsInv, LimitsType
  <2>3. Cardinality(Pending(k)') = 0 /\ LimitOf(k) \in Nat
    BY <2>1, FS_EmptySet, LimitType
  <2> QED BY <2>2, <2>3 DEF WindowOK, LimitOf
<1>7. ASSUME NEW m \in DOMAIN Monitors PROVE CooldownOK(m)'
  <2>1. \A c \in Callers : Cools(call'[c], m) => Cools(call[c], m)
    BY <1>2, <1>3 DEF Cools
  <2> QED BY <1>1, <2>1 DEF CooldownOK, LimitsInv
<1> QED BY <1>4, <1>5, <1>6, <1>7 DEF LimitsInv

LEMMA CooldownEndsKeeps ==
  ASSUME LimitsInv, NEW m \in DOMAIN Monitors, CooldownEnds(m)
  PROVE  LimitsInv'
<1> DEFINE warm(c) == IF call[c] # NoCall /\ call[c].mon = m
                      THEN [call[c] EXCEPT !.cooled = FALSE] ELSE call[c]
<1>1. /\ cooling' = cooling \ {m} /\ ran' = [ran EXCEPT ![m] = 0] /\ UNCHANGED <<count, spent>>
      /\ call' = [c \in Callers |-> warm(c)]
  BY DEF CooldownEnds
<1>2. ASSUME NEW c \in Callers, call[c] # NoCall
      PROVE  /\ warm(c) \in CallRecord /\ warm(c).counted = call[c].counted
             /\ warm(c).pc = call[c].pc /\ warm(c).over = call[c].over /\ warm(c).mon = call[c].mon
             /\ warm(c).keys = call[c].keys
             /\ warm(c).cooled = (call[c].cooled /\ call[c].mon # m)
  <2>1. call[c] \in CallRecord
    BY <1>2, CallType
  <2> QED BY <1>2, <2>1 DEF CallRecord
<1>3. \A c \in Callers : call'[c] = warm(c) /\ (call[c] = NoCall => warm(c) = NoCall)
  BY <1>1
<1> HIDE DEF warm
<1>4. LimitsType'
  <2>1. ASSUME NEW c \in Callers PROVE WellFormed(call'[c]) /\ call'[c] \in CallRecord \cup {NoCall}
    <3>1. CASE call[c] = NoCall
      BY <1>3, <3>1 DEF WellFormed
    <3>2. CASE call[c] # NoCall
      <4>1. WellFormed(call[c])
        BY <3>2, CallType
      <4> QED BY <1>2, <1>3, <3>2, <4>1 DEF WellFormed
    <3> QED BY <3>1, <3>2
  <2> QED BY <1>1, <2>1 DEF LimitsInv, LimitsType
<1>5. ASSUME NEW k \in Windows PROVE WindowOK(k)'
  <2>1. Pending(k)' \subseteq Pending(k)
    BY <1>2, <1>3 DEF Pending, Spends
  <2> QED BY <1>1, <2>1, WindowKept
<1>6. ASSUME NEW x \in DOMAIN Monitors PROVE CooldownOK(x)'
  <2>1. CASE x = m
    <3>1. ASSUME NEW c \in Callers, Cools(call'[c], x) PROVE FALSE
      <4>1. call[c] # NoCall
        BY <1>3, <3>1 DEF Cools
      <4> QED BY <1>2, <1>3, <2>1, <3>1, <4>1, ZenonT(40) DEF Cools
    <3>2. ran'[x] = 0
      BY <1>1, <2>1 DEF LimitsInv, LimitsType
    <3> QED BY <3>1, <3>2 DEF CooldownOK
  <2>2. CASE x # m
    <3>1. \A c \in Callers : Cools(call'[c], x) => Cools(call[c], x)
      BY <1>2, <1>3 DEF Cools
    <3>2. ran'[x] = ran[x] /\ (x \in cooling => x \in cooling')
      BY <1>1, <2>2 DEF LimitsInv, LimitsType
    <3> QED BY <3>1, <3>2 DEF CooldownOK, LimitsInv
  <2> QED BY <2>1, <2>2
<1> QED BY <1>4, <1>5, <1>6 DEF LimitsInv

LEMMA LimitsStart == LimitsInit => LimitsInv
<1> SUFFICES ASSUME LimitsInit PROVE LimitsInv
  OBVIOUS
<1>1. \A c \in Callers : call[c] = NoCall
  BY DEF LimitsInit
<1>2. LimitsType
  BY <1>1 DEF LimitsInit, LimitsType, NoCounter, WellFormed
<1>3. ASSUME NEW k \in Windows PROVE WindowOK(k)
  <2>1. Pending(k) = {} /\ spent[k] = 0 /\ count[k].n = 0
    BY <1>1 DEF Pending, Spends, LimitsInit, NoCounter
  <2> QED BY <2>1, FS_EmptySet, LimitType DEF WindowOK
<1>4. \A m \in DOMAIN Monitors : CooldownOK(m)
  BY <1>1 DEF CooldownOK, Cools, LimitsInit
<1> QED BY <1>2, <1>3, <1>4 DEF LimitsInv

LEMMA LimitsStep ==
  ASSUME LimitsInv, LimitsNext
  PROVE  LimitsInv'
<1>1. ASSUME NEW c \in Callers, Requests(c) \/ Serve(c) \/ CutOff(c) PROVE LimitsInv'
  <2>1. CASE CutOff(c)
    BY <1>1, <2>1, AnswerKeeps DEF CutOff, Answer
  <2>2. CASE Serve(c)
    BY <1>1, <2>2, PeekKeeps, CooldownKeeps, CountKeeps, ExpireKeeps, VerdictKeeps, PublishKeeps DEF Serve
  <2> QED BY <1>1, <2>1, <2>2, RequestsKeep
<1> QED BY <1>1, WindowEndsKeeps, CooldownEndsKeeps DEF LimitsNext

LEMMA LimitsInvariance == Spec => []LimitsInv
<1>1. Init => LimitsInv
  BY LimitsStart DEF Init
<1>2. LimitsInv /\ [Next]_vars => LimitsInv'
  <2> SUFFICES ASSUME LimitsInv, [Next]_vars PROVE LimitsInv'
    OBVIOUS
  <2>1. CASE LimitsNext
    BY <2>1, LimitsStep
  <2>2. CASE UNCHANGED limitVars
    BY <2>2 DEF limitVars, LimitsInv, LimitsType, WindowOK, CooldownOK, Pending
  <2> QED BY <2>1, <2>2 DEF Next, vars
<1> QED BY <1>1, <1>2, PTL DEF Spec

\* A window lets through no more than its limit and a monitor is checked once
\* per cooldown, for any limits, callers and interleavings (checkNowAllowed,
\* magicLimited).
THEOREM LimitsHold == Spec => []WithinLimits
<1>1. LimitsInv => WithinLimits
  <2> SUFFICES ASSUME LimitsInv PROVE WithinLimits
    OBVIOUS
  <2>1. ASSUME NEW k \in Windows PROVE spent[k] <= LimitOf(k)
    <3>1. spent[k] \in Nat /\ Cardinality(Pending(k)) \in Nat /\ LimitOf(k) \in Nat /\ WindowOK(k)
      BY PendingFinite, LimitType DEF LimitsInv, LimitsType
    <3> QED BY <3>1 DEF WindowOK
  <2> QED BY <2>1 DEF WithinLimits, LimitsInv, CooldownOK
<1> QED BY <1>1, LimitsInvariance, PTL

\* The request r began window k and has yet to give it its expiry.
Begins(r, k) == r # NoCall /\ r.pc = "expire" /\ r.keys[1] = k

\* A step of one request: a window that counts was there before, and when the
\* request had begun it it still has, or the expiry is set, or lost; or the
\* request begins it now.
LEMMA EndsKept ==
  ASSUME WindowsEnd, NEW c \in Callers, \A d \in Callers \ {c} : call'[d] = call[d],
         lost \subseteq lost',
         \A k \in Windows : count'[k].n > 0 =>
           \/ Begins(call'[c], k)
           \/ k \in lost'
           \/ /\ count[k].n > 0 /\ (count[k].ttl => count'[k].ttl)
              /\ Begins(call[c], k) => count'[k].ttl
  PROVE  WindowsEnd'
<1>1. \A k \in Windows : count[k].n > 0 =>
        count[k].ttl \/ k \in lost \/ \E d \in Callers : Begins(call[d], k)
  BY DEF WindowsEnd, Stage, Begins
<1>2. \A k \in Windows : count'[k].n > 0 =>
        count'[k].ttl \/ k \in lost' \/ \E d \in Callers : Begins(call'[d], k)
  BY <1>1
<1> QED BY <1>2 DEF WindowsEnd, Stage, Begins

\* A request that has no window to begin moves, and no counter changes.
LEMMA EndsStill ==
  ASSUME WindowsEnd, NEW c \in Callers, \A d \in Callers \ {c} : call'[d] = call[d],
         ~ Stage(c, "expire"), UNCHANGED <<count, lost>>
  PROVE  WindowsEnd'
BY EndsKept DEF Begins, Stage

LEMMA EndsCounted ==
  ASSUME LimitsInv, WindowsEnd, NEW c \in Callers, call[c] # NoCall, countIn(c, AfterCount(c))
  PROVE  WindowsEnd'
<1>1. call[c].pc = "count" /\ lost \subseteq lost'
  BY DEF countIn, Stage
<1>2. PICK k \in Windows : k = call[c].keys[1]
  BY <1>1, AfterCountOK
<1>3. call[c] \in CallRecord /\ DOMAIN call = Callers
  BY CallType DEF LimitsInv, LimitsType
<1>4. \A d \in Callers \ {c} : call'[d] = call[d]
  BY <1>3 DEF countIn
<1>7. \A x \in Windows : ~ Begins(call[c], x)
  BY <1>1 DEF Begins
<1>8. Incr(k) => /\ \A x \in Windows \ {k} : count'[x] = count[x]
                 /\ count'[k].ttl = count[k].ttl
  BY DEF Incr, LimitsInv, LimitsType
<1>9. count[k].n \in Nat
  BY DEF LimitsInv, LimitsType
<1>5. CASE \/ UNCHANGED count
           \/ Incr(k) /\ (count[k].n = 0 => k \in lost')
  BY <1>1, <1>4, <1>5, <1>7, <1>8, <1>9, EndsKept
<1>6. CASE ~ (count' = count \/ (Incr(k) /\ (count[k].n = 0 => k \in lost')))
  <2>1. PICK n : n = Counted(k)
    OBVIOUS
  <2>2. Incr(k)
    BY <1>2, <1>6 DEF countIn
  <2>3. call' = [call EXCEPT ![c].over = @ \/ overLimit(k, n), ![c].counted = @ \cup {k},
                             ![c].pc = IF firstOf(n) THEN "expire" ELSE AfterCount(c),
                             ![c].keys = IF firstOf(n) THEN @ ELSE Tail(@)]
    BY <1>2, <1>6, <2>1 DEF countIn
  <2>4. firstOf(n) => Begins(call'[c], k)
    <3>1. PICK r : r = call[c]
      OBVIOUS
    <3>2. PICK over \in BOOLEAN : over = (r.over \/ overLimit(k, n))
      OBVIOUS
    <3>3. firstOf(n) => call'[c] = [r EXCEPT !.over = over, !.counted = @ \cup {k}, !.pc = "expire", !.keys = @]
      BY <1>3, <2>3, <3>1, <3>2
    <3>4. r \in CallRecord /\ r.keys[1] = k
      BY <1>2, <1>3, <3>1
    <3>5. firstOf(n) => call'[c].pc = "expire" /\ call'[c].keys = r.keys
      BY <3>3, <3>4 DEF CallRecord
    <3>6. [r EXCEPT !.over = over, !.counted = @ \cup {k}, !.pc = "expire", !.keys = @] \in CallRecord
      <4>1. r.counted \cup {k} \in SUBSET Windows /\ "expire" \in Stages
        BY <3>4 DEF CallRecord, Stages
      <4> QED BY <3>4, <4>1 DEF CallRecord
    <3>7. NoCall \notin CallRecord
      BY LimitsAssumption
    <3>8. firstOf(n) => call'[c] # NoCall
      BY <3>3, <3>6, <3>7
    <3> QED BY <3>4, <3>5, <3>8 DEF Begins
  <2>5. count[k].n \in Nat /\ MaxCount \in Nat /\ MaxCount > 1
    <3>1. LimitOf(k) \in Nat \ {0} /\ LimitOf(k) < MaxCount /\ MaxCount \in Nat
      BY LimitType
    <3>2. count[k].n \in Nat
      BY DEF LimitsInv, LimitsType
    <3> QED BY <3>1, <3>2
  <2>6. ~ firstOf(n) => count[k].n > 0
    BY <2>1, <2>5 DEF firstOf, Counted
  <2> QED BY <1>1, <1>4, <1>7, <1>8, <2>2, <2>4, <2>6, EndsKept
<1> QED BY <1>5, <1>6

LEMMA EndsStarted ==
  ASSUME LimitsInv, WindowsEnd, NEW c \in Callers, call[c] # NoCall, startWindow(c, AfterCount(c))
  PROVE  WindowsEnd'
<1>1. call[c].pc = "expire" /\ DOMAIN call = Callers /\ count \in [Windows -> [n : Nat, ttl : BOOLEAN]]
  BY DEF startWindow, Stage, LimitsInv, LimitsType
<1>2. PICK k \in Windows : k = call[c].keys[1]
  BY <1>1, AfterCountOK
<1>3. \A d \in Callers \ {c} : call'[d] = call[d]
  BY <1>1 DEF startWindow
<1>4. \A x \in Windows : Begins(call[c], x) => x = k
  BY <1>2 DEF Begins
<1>5. \/ count' = [count EXCEPT ![k].ttl = TRUE] /\ lost' = lost
      \/ count' = count /\ lost' = lost /\ count[k].n = 0
      \/ count' = count /\ lost' = lost \cup {k}
  <2>1. count[k].n \in Nat
    BY <1>1
  <2> QED BY <1>2, <2>1 DEF startWindow, Expire
<1>6. CASE count' = [count EXCEPT ![k].ttl = TRUE] /\ lost' = lost
  <2>1. /\ \A x \in Windows : count'[x].n = count[x].n /\ (count[x].ttl => count'[x].ttl)
        /\ count'[k].ttl
    BY <1>1, <1>6
  <2> QED BY <1>3, <1>4, <1>6, <2>1, EndsKept
<1>7. CASE count' = count /\ ((lost' = lost /\ count[k].n = 0) \/ lost' = lost \cup {k})
  BY <1>3, <1>4, <1>7, EndsKept
<1> QED BY <1>5, <1>6, <1>7

LEMMA EndsStep ==
  ASSUME LimitsInv, WindowsEnd, LimitsNext
  PROVE  WindowsEnd'
<1>1. DOMAIN call = Callers /\ count \in [Windows -> [n : Nat, ttl : BOOLEAN]]
  BY DEF LimitsInv, LimitsType
<1>2. ASSUME NEW c \in Callers, Requests(c) PROVE WindowsEnd'
  <2>1. ~ Stage(c, "expire") /\ UNCHANGED <<count, lost>>
    BY <1>2 DEF Requests, CheckNow, handleEmailStart, Stage
  <2>2. \A d \in Callers \ {c} : call'[d] = call[d]
    BY <1>1, <1>2 DEF Requests, CheckNow, handleEmailStart, Answer
  <2> QED BY <2>1, <2>2, EndsStill
<1>3. ASSUME NEW c \in Callers, CutOff(c) PROVE WindowsEnd'
  <2>1. \A d \in Callers \ {c} : call'[d] = call[d]
    BY <1>1, <1>3 DEF CutOff, Answer
  <2>2. lost \subseteq lost' /\ count' = count
    BY <1>3 DEF CutOff
  <2>3. \A k \in Windows : Begins(call[c], k) => k \in lost'
    BY <1>3 DEF CutOff, Begins, Stage
  <2> QED BY <2>1, <2>2, <2>3, EndsKept
<1>4. ASSUME NEW c \in Callers, Serve(c) PROVE WindowsEnd'
  <2>1. CASE peekWindow(c) \/ acquireCooldown(c) \/ checkNowAllowed(c) \/ magicLimited(c) \/ publishChecks(c)
    <3>1. ~ Stage(c, "expire") /\ UNCHANGED <<count, lost>>
      BY <2>1 DEF peekWindow, acquireCooldown, checkNowAllowed, magicLimited, publishChecks, Stage
    <3>2. \A d \in Callers \ {c} : call'[d] = call[d]
      BY <1>1, <2>1 DEF peekWindow, acquireCooldown, checkNowAllowed, magicLimited, publishChecks,
                        checkNowRateLimited, Answer, Go
    <3> QED BY <3>1, <3>2, EndsStill
  <2> QED BY <1>4, <2>1, EndsCounted, EndsStarted DEF Serve
<1>5. ASSUME NEW k \in Windows, WindowEnds(k) PROVE WindowsEnd'
  <2>1. \A d \in Callers, x \in Windows : Begins(call[d], x) => Begins(call'[d], x)
    <3> SUFFICES ASSUME NEW d \in Callers, NEW x \in Windows, Begins(call[d], x) PROVE Begins(call'[d], x)
      OBVIOUS
    <3>1. PICK r : r = call[d] /\ r \in CallRecord /\ r # NoCall
      BY CallType DEF Begins
    <3>2. call'[d] = [r EXCEPT !.counted = @ \ {k}]
      BY <1>5, <3>1 DEF WindowEnds
    <3>3. call'[d].pc = r.pc /\ call'[d].keys = r.keys
      BY <3>1, <3>2 DEF CallRecord
    <3>4. call'[d] \in CallRecord
      BY <3>1, <3>2 DEF CallRecord
    <3> QED BY <3>1, <3>3, <3>4, LimitsAssumption DEF Begins
  <2>2. \A x \in Windows : count'[x].n > 0 => x # k /\ count'[x] = count[x]
    BY <1>1, <1>5 DEF WindowEnds, NoCounter
  <2>3. lost' = lost
    BY <1>5 DEF WindowEnds
  <2>4. \A x \in Windows : count[x].n > 0 =>
          count[x].ttl \/ x \in lost \/ \E d \in Callers : Begins(call[d], x)
    BY DEF WindowsEnd, Stage, Begins
  <2>5. \A x \in Windows : count'[x].n > 0 =>
          count'[x].ttl \/ x \in lost' \/ \E d \in Callers : Begins(call'[d], x)
    BY <2>1, <2>2, <2>3, <2>4
  <2> QED BY <2>5 DEF WindowsEnd, Stage, Begins
<1>6. ASSUME NEW m \in DOMAIN Monitors, CooldownEnds(m) PROVE WindowsEnd'
  <2>1. \A d \in Callers, x \in Windows : Begins(call[d], x) => Begins(call'[d], x)
    <3> SUFFICES ASSUME NEW d \in Callers, NEW x \in Windows, Begins(call[d], x) PROVE Begins(call'[d], x)
      OBVIOUS
    <3>1. PICK r : r = call[d] /\ r \in CallRecord /\ r # NoCall
      BY CallType DEF Begins
    <3>2. call'[d] = r \/ call'[d] = [r EXCEPT !.cooled = FALSE]
      BY <1>6, <3>1 DEF CooldownEnds
    <3>3. call'[d].pc = r.pc /\ call'[d].keys = r.keys
      BY <3>1, <3>2 DEF CallRecord
    <3>4. call'[d] \in CallRecord
      BY <3>1, <3>2 DEF CallRecord
    <3> QED BY <3>1, <3>3, <3>4, LimitsAssumption DEF Begins
  <2>2. UNCHANGED <<count, lost>>
    BY <1>6 DEF CooldownEnds
  <2> QED BY <2>1, <2>2 DEF WindowsEnd, Stage, Begins
<1> QED BY <1>2, <1>3, <1>4, <1>5, <1>6 DEF LimitsNext

\* Whatever the order in which requests count, start windows, fail and are cut
\* off: a counter that counts will expire, or is about to be told to, or its
\* EXPIRE or the answer of its first INCR was lost (checkNowAllowed, overLimit).
THEOREM WindowsDoEnd == Spec => []WindowsEnd
<1>1. Init => WindowsEnd
  BY DEF Init, LimitsInit, NoCounter, WindowsEnd
<1>2. LimitsInv /\ WindowsEnd /\ [Next]_vars => WindowsEnd'
  <2> SUFFICES ASSUME LimitsInv, WindowsEnd, [Next]_vars PROVE WindowsEnd'
    OBVIOUS
  <2>1. CASE LimitsNext
    BY <2>1, EndsStep
  <2>2. CASE UNCHANGED limitVars
    BY <2>2 DEF limitVars, WindowsEnd, Stage
  <2> QED BY <2>1, <2>2 DEF Next, vars
<1> QED BY <1>1, <1>2, LimitsInvariance, PTL DEF Spec

-----------------------------------------------------------------------------
(* API keys: what lets a revoked key in is what did so before. *)

KeysFit ==
  /\ keys \in Seq([role : {"member", "admin"}, revoked : BOOLEAN])
  /\ kcache = [k \in DOMAIN kcache |-> kcache[k]] /\ DOMAIN probe = Verifiers
  /\ \A v \in Verifiers : probe[v] # Nothing => probe[v] = [key |-> probe[v].key, found |-> probe[v].found]

\* The row of a key stays, and stays revoked.
LEMMA RowsStay ==
  ASSUME KeysFit, KeyNext
  PROVE  /\ keys' \in Seq([role : {"member", "admin"}, revoked : BOOLEAN])
         /\ \A k \in DOMAIN keys : k \in DOMAIN keys' /\ (keys[k].revoked => keys'[k].revoked)
<1> DEFINE R == [role : {"member", "admin"}, revoked : BOOLEAN]
<1>1. keys \in Seq(R)
  BY DEF KeysFit
<1>2. CASE UNCHANGED keys
  BY <1>1, <1>2
<1>3. ASSUME NEW role \in {"member", "admin"}, keys' = Append(keys, [role |-> role, revoked |-> FALSE])
      PROVE  keys' \in Seq(R) /\ \A k \in DOMAIN keys : k \in DOMAIN keys' /\ (keys[k].revoked => keys'[k].revoked)
  <2>1. PICK r \in R : r = [role |-> role, revoked |-> FALSE]
    OBVIOUS
  <2> HIDE DEF R
  <2> QED BY <1>1, <1>3, <2>1, AppendProperties
<1>4. ASSUME NEW x \in DOMAIN keys, keys' = [keys EXCEPT ![x].revoked = TRUE]
      PROVE  keys' \in Seq(R) /\ \A k \in DOMAIN keys : k \in DOMAIN keys' /\ (keys[k].revoked => keys'[k].revoked)
  <2>1. PICK r : r = [keys[x] EXCEPT !.revoked = TRUE]
    OBVIOUS
  <2>2. keys[x] \in R /\ x \in 1..Len(keys)
    <3> HIDE DEF R
    <3> QED BY <1>1, <1>4, LenProperties, ElementOfSeq
  <2>3. r \in R /\ r.revoked
    BY <2>1, <2>2
  <2>4. keys' = [keys EXCEPT ![x] = r]
    BY <1>4, <2>1
  <2>5. keys' \in Seq(R)
    <3> HIDE DEF R
    <3> QED BY <1>1, <2>2, <2>3, <2>4, ExceptSeq
  <2>6. DOMAIN keys' = DOMAIN keys /\ \A k \in DOMAIN keys : keys'[k] = IF k = x THEN r ELSE keys[k]
    BY <2>4
  <2> QED BY <2>3, <2>5, <2>6
<1> QED BY <1>2, <1>3, <1>4
     DEF KeyNext, CreateAPIKey, RevokeAPIKey, InvalidateAPIKey, Verify, GetAPIKeyByHash, cacheDescriptor, KeyExpires

LEMMA KeysStep ==
  ASSUME KeysFit, KeyNext
  PROVE  KeysFit'
<1>1. kcache' = [k \in DOMAIN kcache' |-> kcache'[k]]
  BY DEF KeysFit, KeyNext, CreateAPIKey, RevokeAPIKey, InvalidateAPIKey, Verify, GetAPIKeyByHash,
         cacheDescriptor, KeyExpires
<1>2. CASE UNCHANGED probe
  BY <1>1, <1>2, RowsStay DEF KeysFit
<1>3. ASSUME NEW v \in Verifiers, NEW r, probe' = [probe EXCEPT ![v] = r],
             r # Nothing => r = [key |-> r.key, found |-> r.found]
      PROVE  KeysFit'
  <2>1. DOMAIN probe' = Verifiers /\ \A x \in Verifiers : probe'[x] = IF x = v THEN r ELSE probe[x]
    BY <1>3 DEF KeysFit
  <2> QED BY <1>1, <1>3, <2>1, RowsStay DEF KeysFit
<1>4. ASSUME NEW v \in Verifiers, NEW k, Verify(v, k), probe' # probe PROVE KeysFit'
  <2>1. PICK r : r = [key |-> k, found |-> Nothing]
    OBVIOUS
  <2> QED BY <1>3, <1>4, <2>1 DEF Verify
<1>5. ASSUME NEW v \in Verifiers, GetAPIKeyByHash(v) PROVE KeysFit'
  <2>1. PICK d : d = descriptor(probe[v].key)
    OBVIOUS
  <2>2. PICK x, f : probe[v] = [key |-> x, found |-> f]
    BY <1>5 DEF GetAPIKeyByHash, KeysFit
  <2>3. PICK r : r = [key |-> x, found |-> d]
    OBVIOUS
  <2>4. [probe[v] EXCEPT !.found = d] = r
    BY <2>2, <2>3
  <2>5. probe' = [probe EXCEPT ![v] = r]
    BY <1>5, <2>1, <2>4 DEF GetAPIKeyByHash
  <2> QED BY <1>3, <2>3, <2>5
<1>6. ASSUME NEW v \in Verifiers, cacheDescriptor(v) PROVE KeysFit'
  BY <1>3, <1>6 DEF cacheDescriptor
<1> QED BY <1>2, <1>4, <1>5, <1>6 DEF KeyNext, CreateAPIKey, RevokeAPIKey, InvalidateAPIKey, KeyExpires, Verify

\* No step lets a revoked key in that was refused.
LEMMA RefusedStays ==
  ASSUME KeysFit, KeyNext, NEW k \in DOMAIN keys, keys[k].revoked, ~ Admits(k)
  PROVE  ~ Admits(k)'
<1>1. kcache[k] # "ok"
  BY DEF Admits
<1>2. \A v \in Verifiers : ~ (probe[v] # Nothing /\ probe[v].key = k /\ probe[v].found = "ok")
  BY DEF Admits
<1>3. kcache'[k] # "ok"
  <2>1. ASSUME NEW x, NEW d, kcache' = [kcache EXCEPT ![x] = d], x = k => d # "ok"
        PROVE  kcache'[k] # "ok"
    BY <1>1, <2>1 DEF KeysFit
  <2>2. ASSUME NEW v \in Verifiers, cacheDescriptor(v) PROVE kcache'[k] # "ok"
    BY <1>1, <1>2, <2>1, <2>2 DEF cacheDescriptor
  <2> QED BY <1>1, <2>1, <2>2, KeysAssumption
       DEF KeyNext, CreateAPIKey, RevokeAPIKey, InvalidateAPIKey, Verify, GetAPIKeyByHash, KeyExpires
<1>4. ASSUME NEW v \in Verifiers
      PROVE  ~ (probe'[v] # Nothing /\ probe'[v].key = k /\ probe'[v].found = "ok")
  <2>1. CASE probe'[v] = probe[v]
    BY <1>2, <2>1
  <2>2. CASE \E x : Verify(v, x) /\ probe'[v] = [key |-> x, found |-> Nothing]
    BY <2>2, KeysAssumption
  <2>3. CASE GetAPIKeyByHash(v)
    <3>1. PICK x, f : probe[v] = [key |-> x, found |-> f]
      BY <2>3 DEF GetAPIKeyByHash, KeysFit
    <3>2. PICK d : d = descriptor(x)
      OBVIOUS
    <3>3. [probe[v] EXCEPT !.found = d] = [key |-> x, found |-> d]
      BY <3>1
    <3>4. probe' = [probe EXCEPT ![v] = [key |-> x, found |-> d]]
      BY <2>3, <3>1, <3>2, <3>3 DEF GetAPIKeyByHash
    <3>5. probe'[v] = [key |-> x, found |-> d]
      BY <3>4 DEF KeysFit
    <3>6. x = k => d # "ok"
      BY <3>2 DEF descriptor
    <3> QED BY <3>5, <3>6
  <2>4. CASE probe'[v] = Nothing
    BY <2>4
  <2>5. \/ probe'[v] = probe[v] \/ GetAPIKeyByHash(v) \/ probe'[v] = Nothing
        \/ \E x : Verify(v, x) /\ probe'[v] = [key |-> x, found |-> Nothing]
    <3>1. DOMAIN probe = Verifiers
      BY DEF KeysFit
    <3>2. CASE UNCHANGED probe
      BY <3>2
    <3>3. ASSUME NEW u \in Verifiers, NEW x, Verify(u, x)
          PROVE  probe'[v] = probe[v] \/ (u = v /\ probe'[v] = [key |-> x, found |-> Nothing])
      BY <3>1, <3>3 DEF Verify
    <3>4. ASSUME NEW u \in Verifiers, GetAPIKeyByHash(u) PROVE probe'[v] = probe[v] \/ u = v
      BY <3>1, <3>4 DEF GetAPIKeyByHash
    <3>5. ASSUME NEW u \in Verifiers, cacheDescriptor(u) PROVE probe'[v] = probe[v] \/ probe'[v] = Nothing
      BY <3>1, <3>5 DEF cacheDescriptor
    <3> QED BY <3>2, <3>3, <3>4, <3>5
          DEF KeyNext, CreateAPIKey, RevokeAPIKey, InvalidateAPIKey, KeyExpires
  <2> QED BY <2>1, <2>2, <2>3, <2>4, <2>5
<1> QED BY <1>3, <1>4 DEF Admits

\* Once a revoked key is refused no interleaving of verifications, cache
\* writes, expiries and other revocations lets it in again, for any number of
\* keys and verifications (apikey.Verifier, RevokeAPIKey).
THEOREM RevokedStaysRefused == Spec => RefusedForGood
<1> DEFINE A == \A k \in DOMAIN keys :
                  keys[k].revoked /\ ~ Admits(k) => keys'[k].revoked /\ ~ Admits(k)'
<1>1. Init => KeysFit
  BY DEF Init, KeysInit, KeysFit
<1>2. KeysFit /\ [Next]_vars => KeysFit'
  <2>1. KeysFit /\ UNCHANGED keyVars => KeysFit'
    BY DEF keyVars, KeysFit
  <2>2. [Next]_vars => KeyNext \/ UNCHANGED keyVars
    BY DEF Next, vars
  <2> QED BY <2>1, <2>2, KeysStep
<1>3. KeysFit /\ [Next]_vars => [A]_keyVars
  <2>1. [Next]_vars => KeyNext \/ UNCHANGED keyVars
    BY DEF Next, vars
  <2> QED BY <2>1, RowsStay, RefusedStays
<1> HIDE DEF A
<1>4. Spec => [][A]_keyVars
  BY <1>1, <1>2, <1>3, PTL DEF Spec
<1> QED BY <1>4 DEF A, RefusedForGood

-----------------------------------------------------------------------------
(* Sessions: what a request carries. *)

AccountOps == {"exchange", "resolveLogin", "byEmail", "link", "create", "resolveLink", "unlink", "issue"}
HolderOps  == {"select", "rotate", "reuse", "logout"}    \* requests with a refresh token
TokenOps   == HolderOps \cup {"family", "revokeAll"}

Row(U) == [user : U, family : Nat \cup {None}, replaced : Nat \cup {None}, revoked : BOOLEAN]
TokensType == \E U : tokens \in Seq(Row(U))

\* A token whose session was issued.
Issued(i) == i \in DOMAIN tokens /\ tokens[i].family # None

RequestOK(r) ==
  /\ {"op", "b", "user", "link"} \subseteq DOMAIN r
  /\ r.op \in AccountOps \cup TokenOps
  /\ r.op \in TokenOps => {"tok", "end"} \subseteq DOMAIN r
  /\ r.op \in HolderOps => Issued(r.tok) /\ r.user = tokens[r.tok].user
  /\ r.op = "family" => r.tok \in DOMAIN tokens /\ tokens[r.tok].family \in {None, r.tok}

CookiesOK(ck) ==
  /\ DOMAIN ck = {"access", "refresh", "state"}
  /\ ck.refresh # None => Issued(ck.refresh)

Shape ==
  /\ TokensType /\ DOMAIN req = Clients /\ DOMAIN jar = Browsers
  /\ \A c \in Clients : req[c] # None => RequestOK(req[c])
  /\ \A b \in Browsers : CookiesOK(jar[b])

\* A family has a first token, which is its name, and one user.
FamiliesOK ==
  /\ \A i \in DOMAIN tokens : tokens[i].family # None =>
       LET f == tokens[i].family IN
       f \in DOMAIN tokens /\ tokens[f].family = f /\ tokens[i].user = tokens[f].user
  /\ \A i \in DOMAIN tokens \cap dead : tokens[i].family = None => tokens[i].revoked
  /\ dead \subseteq DOMAIN tokens

\* A family no rotation raced has one token at most that works, none if it was
\* ended, and a rotation in progress is on the one that works.
LoneChain(f) ==
  /\ \A i, j \in Live(f) : i = j
  /\ f \in dead => Live(f) = {}
  /\ \A c, d \in Open(f) : c = d
  /\ \A c \in Open(f) : req[c].tok \in Live(f)

ChainInv == Shape /\ FamiliesOK /\ \A f \in DOMAIN tokens \ raced : LoneChain(f)

\* A request that was given the link t.
Carries(c, t) ==
  req[c] # None /\ req[c].op # "exchange" /\ req[c].link # None /\ req[c].link = t

\* A link that signed in, or is being used to, is gone.
LinkOK(t) ==
  /\ signins[t] <= 1
  /\ \A c, d \in Clients : Carries(c, t) /\ Carries(d, t) => c = d
  /\ (\E c \in Clients : Carries(c, t)) => signins[t] = 0
  /\ signins[t] > 0 \/ (\E c \in Clients : Carries(c, t)) => t \in DOMAIN links /\ links[t] = None
LinksInv ==
  /\ links \in Seq(LinkEmails \cup {None}) /\ Len(links) <= MaxLinks
  /\ signins \in [1..MaxLinks -> Nat]
  /\ \A c \in Clients : req[c] # None /\ req[c].op # "exchange" /\ req[c].link # None
                          => req[c].link \in 1..MaxLinks
  /\ \A t \in 1..MaxLinks : LinkOK(t)

-----------------------------------------------------------------------------
\* A request of a sign-in after its step: gone, unchanged, or still a sign-in
\* that carries no link it did not carry.
SignIn(r)     == {"op", "b", "user", "link"} \subseteq DOMAIN r /\ r.op \in AccountOps
SameLink(r, q) ==
  r.op = "exchange" \/ r.link = None \/ (q # None /\ q.op # "exchange" /\ r.link = q.link)
Continues(c) == req'[c] \in {None, req[c]} \/ (SignIn(req'[c]) /\ SameLink(req'[c], req[c]))

LEMMA RequestAt ==
  ASSUME Shape, NEW c \in Clients, req[c] # None
  PROVE  RequestOK(req[c]) /\ (req[c].op \in AccountOps => SignIn(req[c]))
BY DEF Shape, RequestOK, SignIn

\* A step that changes at most the request of c.
Only(c) == DOMAIN req' = Clients /\ \A d \in Clients \ {c} : req'[d] = req[d]

LEMMA HoldOnly ==
  ASSUME Shape, NEW c \in Clients, NEW r, req' = [req EXCEPT ![c] = r]
  PROVE  Only(c) /\ req'[c] = r
BY DEF Shape, Only

LEMMA GotoOnly ==
  ASSUME Shape, NEW c \in Clients, NEW op \in AccountOps \cup TokenOps, req[c] # None, Goto(c, op)
  PROVE  /\ Only(c) /\ req'[c].op = op /\ DOMAIN req'[c] = DOMAIN req[c]
         /\ \A x \in DOMAIN req[c] \ {"op"} : req'[c][x] = req[c][x]
<1>1. "op" \in DOMAIN req[c]
  BY RequestAt DEF RequestOK
<1>2. req' = [req EXCEPT ![c] = [req[c] EXCEPT !.op = op]]
  BY DEF Goto
<1>3. Only(c) /\ req'[c] = [req[c] EXCEPT !.op = op]
  BY <1>2, HoldOnly
<1> QED BY <1>1, <1>3

\* What the sign-in keeps when it goes on.
LEMMA SignInGoes ==
  ASSUME Shape, NEW c \in Clients, NEW op \in AccountOps, req[c] # None,
         req[c].op \in AccountOps \ {"exchange"}, Goto(c, op)
  PROVE  Only(c) /\ Continues(c)
<1>1. SignIn(req[c])
  BY RequestAt
<1> QED BY <1>1, GotoOnly DEF SignIn, Continues, SameLink

LEMMA CookieKept ==
  ASSUME Shape, NEW b \in Browsers, NEW x, Cookies(b, [jar[b] EXCEPT !.state = x])
  PROVE  /\ DOMAIN jar' = Browsers
         /\ \A y \in Browsers : DOMAIN jar'[y] = {"access", "refresh", "state"} /\ jar'[y].refresh = jar[y].refresh
<1>1. \A y \in Browsers : DOMAIN jar[y] = {"access", "refresh", "state"}
  BY DEF Shape, CookiesOK
<1> QED BY <1>1 DEF Cookies, Shape

JarKept == /\ DOMAIN jar' = Browsers
           /\ \A y \in Browsers : DOMAIN jar'[y] = {"access", "refresh", "state"} /\ jar'[y].refresh = jar[y].refresh

LEMMA JarSame ==
  ASSUME Shape, UNCHANGED jar
  PROVE  JarKept
BY DEF Shape, CookiesOK, JarKept

LEMMA RequestEffect ==
  ASSUME Shape, NEW c \in Clients, NEW b \in Browsers, AccountRequest(c, b),
         ~ \E t \in DOMAIN links : handleEmailVerify(c, b, t)
  PROVE  Only(c) /\ Continues(c) /\ JarKept /\ UNCHANGED links
<1>1. ASSUME UNCHANGED req PROVE Only(c) /\ Continues(c)
  BY <1>1 DEF Only, Continues, Shape
<1>2. ASSUME NEW r, req' = [req EXCEPT ![c] = r], SignIn(r), r.op = "exchange" \/ r.link = None
      PROVE  Only(c) /\ Continues(c)
  BY <1>2, HoldOnly DEF Continues, SameLink
<1>3. ASSUME NEW p, handleLogin(c, b, p) \/ handleLinkStart(c, b, p)
      PROVE  Only(c) /\ Continues(c) /\ JarKept /\ UNCHANGED links
  <2>1. UNCHANGED <<req, links>>
    BY <1>3 DEF handleLogin, handleLinkStart
  <2>2. UNCHANGED jar \/ \E x : Cookies(b, [jar[b] EXCEPT !.state = x])
    BY <1>3 DEF handleLogin, handleLinkStart, StartLogin
  <2> QED BY <1>1, <2>1, <2>2, JarSame, CookieKept DEF JarKept
<1>4. ASSUME NEW p, UnlinkMyIdentity(c, b, p)
      PROVE  Only(c) /\ Continues(c) /\ JarKept /\ UNCHANGED links
  <2>1. UNCHANGED <<jar, links>>
    BY <1>4 DEF UnlinkMyIdentity, Unchanged
  <2>2. CASE UNCHANGED req
    BY <1>1, <2>1, <2>2, JarSame
  <2>3. CASE req' = [req EXCEPT ![c] = [SignInRequest("unlink", b) EXCEPT !.user = jar[b].access, !.rec = p]]
    <3>1. PICK r : r = [SignInRequest("unlink", b) EXCEPT !.user = jar[b].access, !.rec = p]
      OBVIOUS
    <3>2. SignIn(r) /\ r.link = None
      BY <3>1 DEF SignInRequest, SignIn, AccountOps
    <3> QED BY <1>2, <2>1, <2>3, <3>1, <3>2, JarSame
  <2> QED BY <1>4, <2>2, <2>3 DEF UnlinkMyIdentity, Hold
<1>5. ASSUME NEW st, handleCallback(c, b, st)
      PROVE  Only(c) /\ Continues(c) /\ JarKept /\ UNCHANGED links
  <2>1. UNCHANGED links
    BY <1>5 DEF handleCallback
  <2>2. CASE UNCHANGED req /\ Cookies(b, [jar[b] EXCEPT !.state = None])
    BY <1>1, <2>1, <2>2, CookieKept DEF JarKept
  <2>3. CASE /\ req' = [req EXCEPT ![c] = [SignInRequest("exchange", b) EXCEPT !.rec = flows[st], !.link = st]]
             /\ UNCHANGED jar
    <3>1. PICK r : r = [SignInRequest("exchange", b) EXCEPT !.rec = flows[st], !.link = st]
      OBVIOUS
    <3>2. SignIn(r) /\ r.op = "exchange"
      BY <3>1 DEF SignInRequest, SignIn, AccountOps
    <3> QED BY <1>2, <2>1, <2>3, <3>1, <3>2, JarSame
  <2> QED BY <1>5, <2>2, <2>3 DEF handleCallback, Hold
<1>6. ASSUME NEW e, handleDevLogin(c, b, e)
      PROVE  Only(c) /\ Continues(c) /\ JarKept /\ UNCHANGED links
  <2>1. PICK r : r = [SignInRequest("byEmail", b) EXCEPT !.email = e, !.idn = [provider |-> "dev", sub |-> e]]
    OBVIOUS
  <2>2. SignIn(r) /\ r.link = None
    BY <2>1 DEF SignInRequest, SignIn, AccountOps
  <2> QED BY <1>2, <1>6, <2>1, <2>2, JarSame DEF handleDevLogin, Hold
<1> QED BY <1>3, <1>4, <1>5, <1>6 DEF AccountRequest

LEMMA StepEffect ==
  ASSUME Shape, NEW c \in Clients, AccountStep(c)
  PROVE  Only(c) /\ Continues(c) /\ JarKept /\ UNCHANGED links
<1>1. /\ req[c] # None /\ UNCHANGED <<jar, links>>
      /\ req[c].op \in AccountOps
  BY DEF AccountStep, HandleCallback, resolveLogin, byEmail, linkIdentity, createUser, resolveLink,
         unlinkIdentity, At, Unchanged, AccountOps
<1>2. SignIn(req[c])
  BY <1>1, RequestAt
<1>3. ASSUME Done(c) PROVE Only(c) /\ Continues(c)
  BY <1>3, HoldOnly DEF Done, Continues
<1>4. ASSUME NEW op \in AccountOps, NEW u, NEW r,
             r = [req[c] EXCEPT !.op = op, !.user = u], Hold(c, r), req[c].op # "exchange"
      PROVE  Only(c) /\ Continues(c)
  <2>1. SignIn(r) /\ r.link = req[c].link
    BY <1>2, <1>4 DEF SignIn
  <2> QED BY <1>1, <1>4, <2>1, HoldOnly DEF Hold, Continues, SameLink
<1>5. CASE HandleCallback(c)
  <2>1. CASE Done(c)
    BY <1>1, <1>3, <2>1, JarSame
  <2>2. CASE \E a \in ProviderAccounts :
               Hold(c, [req[c] EXCEPT !.op = IF req[c].rec.flow = "link" THEN "resolveLink" ELSE "resolveLogin",
                                      !.email = Exchange(a), !.link = None,
                                      !.idn = [provider |-> a.provider, sub |-> a.sub]])
    <3>0. PICK a \in ProviderAccounts :
            Hold(c, [req[c] EXCEPT !.op = IF req[c].rec.flow = "link" THEN "resolveLink" ELSE "resolveLogin",
                                   !.email = Exchange(a), !.link = None,
                                   !.idn = [provider |-> a.provider, sub |-> a.sub]])
      BY <2>2
    <3>1. PICK r :
            /\ r = [req[c] EXCEPT !.op = IF req[c].rec.flow = "link" THEN "resolveLink" ELSE "resolveLogin",
                                      !.email = Exchange(a), !.link = None,
                                      !.idn = [provider |-> a.provider, sub |-> a.sub]]
            /\ Hold(c, r)
      BY <3>0
    <3>2. SignIn(r) /\ r.link = None
      BY <1>2, <3>1 DEF SignIn, AccountOps
    <3> QED BY <1>1, <3>1, <3>2, HoldOnly, JarSame DEF Hold, Continues, SameLink
  <2> QED BY <1>5, <2>1, <2>2 DEF HandleCallback
<1>6. CASE resolveLogin(c)
  <2>1. req[c].op # "exchange"
    BY <1>6 DEF resolveLogin, At
  <2>2. CASE Goto(c, "byEmail")
    BY <1>1, <2>1, <2>2, SignInGoes, JarSame DEF AccountOps
  <2>3. CASE \E i : Hold(c, [req[c] EXCEPT !.op = "issue", !.user = i.user])
    BY <1>1, <1>4, <2>1, <2>3, JarSame DEF AccountOps
  <2> QED BY <1>6, <2>2, <2>3 DEF resolveLogin
<1>7. CASE byEmail(c)
  <2>1. req[c].op # "exchange"
    BY <1>7 DEF byEmail, At
  <2>2. CASE Goto(c, "create")
    BY <1>1, <2>1, <2>2, SignInGoes, JarSame DEF AccountOps
  <2>3. CASE \E u : Hold(c, [req[c] EXCEPT !.user = u,
                       !.op = IF req[c].idn = None \/ req[c].idn.provider = "dev" THEN "issue" ELSE "link"])
    <3>1. PICK u, r : /\ r = [req[c] EXCEPT !.user = u,
                           !.op = IF req[c].idn = None \/ req[c].idn.provider = "dev" THEN "issue" ELSE "link"]
                      /\ Hold(c, r)
      BY <2>3
    <3>2. SignIn(r) /\ r.link = req[c].link
      BY <1>2, <3>1 DEF SignIn, AccountOps
    <3> QED BY <1>1, <2>1, <3>1, <3>2, HoldOnly, JarSame DEF Hold, Continues, SameLink
  <2> QED BY <1>7, <2>2, <2>3 DEF byEmail
<1>8. CASE linkIdentity(c)
  <2>1. req[c].op # "exchange"
    BY <1>8 DEF linkIdentity, At
  <2>2. CASE Goto(c, "issue")
    BY <1>1, <2>1, <2>2, SignInGoes, JarSame DEF AccountOps
  <2> QED BY <1>1, <1>3, <1>8, <2>2, JarSame DEF linkIdentity
<1>9. CASE createUser(c)
  <2>1. req[c].op # "exchange"
    BY <1>9 DEF createUser, At
  <2>2. CASE Hold(c, [req[c] EXCEPT !.op = "issue", !.user = Len(users) + 1])
    BY <1>1, <1>4, <2>1, <2>2, JarSame DEF AccountOps
  <2> QED BY <1>1, <1>3, <1>9, <2>2, JarSame DEF createUser
<1>10. CASE resolveLink(c)
  <2>1. req[c].op # "exchange"
    BY <1>10 DEF resolveLink, At
  <2>2. CASE Hold(c, [req[c] EXCEPT !.op = "link", !.user = req[c].rec.user])
    BY <1>1, <1>4, <2>1, <2>2, JarSame DEF AccountOps
  <2>3. CASE Hold(c, [req[c] EXCEPT !.op = "issue", !.user = req[c].rec.user])
    BY <1>1, <1>4, <2>1, <2>3, JarSame DEF AccountOps
  <2> QED BY <1>1, <1>3, <1>10, <2>2, <2>3, JarSame DEF resolveLink
<1>11. CASE unlinkIdentity(c)
  BY <1>1, <1>3, <1>11, JarSame DEF unlinkIdentity
<1> QED BY <1>5, <1>6, <1>7, <1>8, <1>9, <1>10, <1>11 DEF AccountStep

\* The request of a link that was found, or nothing.
LEMMA VerifyEffect ==
  ASSUME Shape, NEW c \in Clients, NEW b \in Browsers, NEW t, handleEmailVerify(c, b, t)
  PROVE  /\ Only(c) /\ JarKept /\ req[c] = None
         /\ \/ UNCHANGED req
            \/ links[t] # None /\ SignIn(req'[c]) /\ req'[c].op = "byEmail" /\ req'[c].link = t
<1>1. JarKept /\ req[c] = None
  BY JarSame DEF handleEmailVerify, Request
<1>2. CASE UNCHANGED req
  BY <1>1, <1>2 DEF Only, Shape
<1>3. CASE /\ links[t] # None
           /\ Hold(c, [SignInRequest("byEmail", b) EXCEPT !.email = links[t], !.link = t])
  <2>1. PICK r : r = [SignInRequest("byEmail", b) EXCEPT !.email = links[t], !.link = t]
    OBVIOUS
  <2>2. SignIn(r) /\ r.op = "byEmail" /\ r.link = t
    BY <2>1 DEF SignInRequest, SignIn, AccountOps
  <2> QED BY <1>1, <1>3, <2>1, <2>2, HoldOnly DEF Hold
<1> QED BY <1>2, <1>3 DEF handleEmailVerify

-----------------------------------------------------------------------------
(* One sign-in per link. *)

LEMMA LinksKept ==
  ASSUME LinksInv, UNCHANGED signins,
         \A d \in Clients : req'[d] \in {None, req[d]} \/ SameLink(req'[d], req[d]),
         links' \in Seq(LinkEmails \cup {None}), Len(links') <= MaxLinks,
         \A t \in DOMAIN links : t \in DOMAIN links' /\ (links[t] = None => links'[t] = None)
  PROVE  LinksInv'
<1>1. \A d \in Clients, t \in 1..MaxLinks : Carries(d, t)' => Carries(d, t)
  BY DEF Carries, SameLink
<1>2. ASSUME NEW t \in 1..MaxLinks PROVE LinkOK(t)'
  <2>1. LinkOK(t) /\ signins[t] \in Nat
    BY DEF LinksInv
  <2> QED BY <1>1, <2>1 DEF LinkOK
<1>3. \A c \in Clients : req'[c] # None /\ req'[c].op # "exchange" /\ req'[c].link # None
                          => req'[c].link \in 1..MaxLinks
  BY DEF LinksInv, SameLink
<1> QED BY <1>2, <1>3 DEF LinksInv

LEMMA LinksType ==
  ASSUME LinksInv, UNCHANGED links
  PROVE  /\ links' \in Seq(LinkEmails \cup {None}) /\ Len(links') <= MaxLinks
         /\ \A t \in DOMAIN links : t \in DOMAIN links' /\ (links[t] = None => links'[t] = None)
BY DEF LinksInv

LEMMA LinksVerify ==
  ASSUME Shape, LinksInv, NEW c \in Clients, NEW b \in Browsers, NEW t \in DOMAIN links,
         handleEmailVerify(c, b, t), UNCHANGED signins
  PROVE  LinksInv'
<1>1. /\ Only(c) /\ req[c] = None
      /\ \/ UNCHANGED req
         \/ links[t] # None /\ SignIn(req'[c]) /\ req'[c].op = "byEmail" /\ req'[c].link = t
  BY VerifyEffect
<1>2. /\ links' \in Seq(LinkEmails \cup {None}) /\ Len(links') = Len(links) /\ DOMAIN links' = DOMAIN links
      /\ \A x \in DOMAIN links : links'[x] = IF x = t THEN None ELSE links[x]
  BY DEF handleEmailVerify, GetDelCache, LinksInv
<1>3. Len(links) <= MaxLinks /\ MaxLinks \in Nat /\ t \in 1..MaxLinks /\ Len(links) \in Nat
      /\ DOMAIN links = 1..Len(links)
  BY AccountsAssumption DEF LinksInv
<1>4. CASE UNCHANGED req
  BY <1>2, <1>3, <1>4, LinksKept
<1>5. CASE links[t] # None /\ SignIn(req'[c]) /\ req'[c].op = "byEmail" /\ req'[c].link = t
  <2>1. ASSUME NEW x \in 1..MaxLinks PROVE LinkOK(x)'
    <3>1. LinkOK(x) /\ signins[x] \in Nat
      BY DEF LinksInv
    <3>2. CASE x = t
      <4>1. signins[x] = 0 /\ \A d \in Clients : ~ Carries(d, x)
        BY <1>5, <3>1, <3>2 DEF LinkOK
      <4>2. \A d \in Clients : Carries(d, x)' => d = c
        BY <1>1, <4>1 DEF Only, Carries
      <4>3. signins'[x] = 0 /\ x \in DOMAIN links' /\ links'[x] = None
        BY <1>2, <3>2, <4>1
      <4> QED BY <4>2, <4>3 DEF LinkOK
    <3>3. CASE x # t
      <4>1. \A d \in Clients : Carries(d, x)' => Carries(d, x)
        BY <1>1, <1>5, <3>3 DEF Only, Carries
      <4> QED BY <1>2, <3>1, <3>3, <4>1 DEF LinkOK
    <3> QED BY <3>2, <3>3
  <2>2. \A d \in Clients : req'[d] # None /\ req'[d].op # "exchange" /\ req'[d].link # None
                          => req'[d].link \in 1..MaxLinks
    BY <1>1, <1>3, <1>5 DEF LinksInv, Only
  <2> QED BY <1>2, <1>3, <2>1, <2>2 DEF LinksInv
<1> QED BY <1>1, <1>4, <1>5

\* A session is issued for the link of the request, which ends with it.
LEMMA LinksIssue ==
  ASSUME Shape, LinksInv, NEW c \in Clients, issueSession(c)
  PROVE  LinksInv'
<1>1. /\ req[c] # None /\ req[c].op = "family" /\ UNCHANGED links
      /\ Only(c) /\ req'[c] = None
      /\ signins' = IF req[c].link = None THEN signins ELSE [signins EXCEPT ![req[c].link] = @ + 1]
  BY HoldOnly DEF issueSession, At, Done
<1>2. CASE req[c].link = None
  BY <1>1, <1>2, LinksKept, LinksType DEF Only
<1>3. CASE req[c].link # None
  <2>1. PICK t \in 1..MaxLinks : t = req[c].link /\ Carries(c, t)
    BY <1>1, <1>3 DEF LinksInv, Carries
  <2>2. /\ signins' \in [1..MaxLinks -> Nat]
        /\ \A x \in 1..MaxLinks : signins'[x] = IF x = t THEN signins[x] + 1 ELSE signins[x]
    BY <1>1, <1>3, <2>1 DEF LinksInv
  <2>3. \A d \in Clients, x \in 1..MaxLinks : Carries(d, x)' => Carries(d, x) /\ d # c
    BY <1>1 DEF Only, Carries
  <2>4. ASSUME NEW x \in 1..MaxLinks PROVE LinkOK(x)'
    <3>1. LinkOK(x) /\ signins[x] \in Nat
      BY DEF LinksInv
    <3>2. CASE x = t
      <4>1. signins'[x] = 1 /\ \A d \in Clients : ~ Carries(d, x)'
        BY <2>1, <2>2, <2>3, <3>1, <3>2 DEF LinkOK
      <4>2. x \in DOMAIN links' /\ links'[x] = None
        BY <1>1, <2>1, <3>1, <3>2 DEF LinkOK
      <4> QED BY <4>1, <4>2 DEF LinkOK
    <3>3. CASE x # t
      <4>1. signins'[x] = signins[x]
        BY <2>2, <3>3
      <4> QED BY <1>1, <2>3, <3>1, <4>1 DEF LinkOK
    <3> QED BY <3>2, <3>3
  <2>5. \A d \in Clients : req'[d] # None /\ req'[d].op # "exchange" /\ req'[d].link # None
                          => req'[d].link \in 1..MaxLinks
    BY <1>1 DEF LinksInv, Only
  <2> QED BY <1>1, <2>2, <2>4, <2>5 DEF LinksInv
<1> QED BY <1>2, <1>3

-----------------------------------------------------------------------------
(* One token that works. *)

LEMMA ChainKept ==
  ASSUME ChainInv, UNCHANGED <<tokens, dead, raced>>, DOMAIN req' = Clients, DOMAIN jar' = Browsers,
         \A d \in Clients : req'[d] \in {None, req[d]} \/ (RequestOK(req'[d]) /\ req'[d].op # "rotate"),
         \A b \in Browsers : CookiesOK(jar'[b])
  PROVE  ChainInv'
<1>1. Shape'
  <2>1. \A d \in Clients : req'[d] # None => RequestOK(req'[d])
    BY DEF ChainInv, Shape
  <2>2. (\A d \in Clients : req[d] # None => RequestOK(req[d]))'
    BY <2>1 DEF RequestOK, Issued
  <2>3. (\A b \in Browsers : CookiesOK(jar[b]))'
    BY DEF CookiesOK, Issued
  <2>4. TokensType'
    BY DEF ChainInv, Shape, TokensType
  <2> QED BY <2>2, <2>3, <2>4 DEF Shape
<1>2. FamiliesOK'
  BY DEF ChainInv, FamiliesOK
<1>3. ASSUME NEW f \in DOMAIN tokens \ raced PROVE LoneChain(f)'
  <2>1. LoneChain(f) /\ Live(f)' = Live(f)
    BY DEF ChainInv, Live
  <2>2. \A c \in Open(f)' : c \in Open(f) /\ req'[c] = req[c]
    BY DEF Open, FamilyOf
  <2> QED BY <2>1, <2>2 DEF LoneChain
<1> QED BY <1>1, <1>2, <1>3 DEF ChainInv

LEMMA JarOK ==
  ASSUME Shape, JarKept
  PROVE  DOMAIN jar' = Browsers /\ \A b \in Browsers : CookiesOK(jar'[b])
BY DEF Shape, JarKept, CookiesOK

\* A sign-in step: the tokens are not touched.
LEMMA ChainAccount ==
  ASSUME ChainInv, UNCHANGED <<tokens, dead, raced>>, NEW c \in Clients, Only(c), JarKept,
         req'[c] \in {None, req[c]} \/ SignIn(req'[c])
  PROVE  ChainInv'
<1>1. SignIn(req'[c]) => RequestOK(req'[c]) /\ req'[c].op # "rotate"
  BY DEF SignIn, RequestOK, AccountOps, TokenOps, HolderOps
<1>2. DOMAIN jar' = Browsers /\ \A b \in Browsers : CookiesOK(jar'[b])
  BY JarOK DEF ChainInv
<1> QED BY <1>1, <1>2, ChainKept DEF Only

LEMMA TokenRequestOK ==
  ASSUME NEW op \in HolderOps, NEW b, NEW i, NEW end, Issued(i), NEW r, r = TokenRequest(op, b, i, end)
  PROVE  RequestOK(r) /\ r.op = op /\ r.link = None
BY DEF TokenRequest, RequestOK, HolderOps, TokenOps

\* The cookies of a session that ends.
LEMMA ClearOK ==
  ASSUME Shape, NEW b \in Browsers, ClearSession(b)
  PROVE  DOMAIN jar' = Browsers /\ \A x \in Browsers : CookiesOK(jar'[x])
<1>1. DOMAIN jar[b] = {"access", "refresh", "state"} /\ \A x \in Browsers : CookiesOK(jar[x])
  BY DEF Shape, CookiesOK
<1>2. PICK ck : ck = [jar[b] EXCEPT !.access = None, !.refresh = None]
  OBVIOUS
<1>3. CookiesOK(ck)
  BY <1>1, <1>2 DEF CookiesOK
<1>4. DOMAIN jar' = Browsers /\ \A x \in Browsers : jar'[x] = IF x = b THEN ck ELSE jar[x]
  BY <1>2 DEF ClearSession, Cookies, Shape
<1> QED BY <1>1, <1>3, <1>4

LEMMA SameJarOK ==
  ASSUME Shape, UNCHANGED jar
  PROVE  DOMAIN jar' = Browsers /\ \A x \in Browsers : CookiesOK(jar'[x])
BY DEF Shape

\* The request with a refresh token holds it, or is refused.
LEMMA RotateEffect ==
  ASSUME ChainInv, NEW c \in Clients, NEW b \in Browsers, NEW end, Rotate(c, b, end),
         UNCHANGED <<tokens, dead, raced>>
  PROVE  ChainInv' /\ Only(c) /\ (req'[c] \in {None, req[c]} \/ req'[c].link = None)
<1> DEFINE i == jar[b].refresh
<1>1. Shape /\ (i # None => Issued(i))
  BY DEF ChainInv, Shape, CookiesOK
<1>2. CASE UNCHANGED <<req, jar>>
  BY <1>1, <1>2, ChainKept, SameJarOK DEF Shape, Only
<1>3. CASE UNCHANGED req /\ Refused(b, end)
  <2>1. DOMAIN jar' = Browsers /\ \A x \in Browsers : CookiesOK(jar'[x])
    BY <1>1, <1>3, ClearOK, SameJarOK DEF Refused
  <2> QED BY <1>1, <1>3, <2>1, ChainKept DEF Shape, Only
<1>4. ASSUME NEW op \in {"reuse", "select"}, i # None, Hold(c, TokenRequest(op, b, i, end)), UNCHANGED jar
      PROVE  ChainInv' /\ Only(c) /\ (req'[c] \in {None, req[c]} \/ req'[c].link = None)
  <2>1. PICK r : r = TokenRequest(op, b, i, end)
    OBVIOUS
  <2>2. RequestOK(r) /\ r.op = op /\ r.link = None
    BY <1>1, <1>4, <2>1, TokenRequestOK DEF HolderOps
  <2>3. Only(c) /\ req'[c] = r
    BY <1>1, <1>4, <2>1, HoldOnly DEF Hold
  <2>4. ChainInv'
    BY <1>1, <1>4, <2>2, <2>3, ChainKept, SameJarOK DEF Only
  <2> QED BY <2>2, <2>3, <2>4
<1> QED BY <1>2, <1>3, <1>4 DEF Rotate

LEMMA SessionRequests ==
  ASSUME ChainInv, NEW c \in Clients, NEW b \in Browsers,
         handleRefresh(c, b) \/ handleLogout(c, b) \/ handleLogoutAll(c, b) \/ LogoutAll(c, b)
  PROVE  /\ ChainInv' /\ Only(c) /\ UNCHANGED <<links, signins>>
         /\ req'[c] \in {None, req[c]} \/ req'[c].link = None
<1>1. UNCHANGED <<tokens, dead, raced, links, signins>> /\ Shape
  BY DEF handleRefresh, handleLogout, handleLogoutAll, LogoutAll, tokenVars, ChainInv
<1>2. ASSUME NEW end, Rotate(c, b, end)
      PROVE  ChainInv' /\ Only(c) /\ (req'[c] \in {None, req[c]} \/ req'[c].link = None)
  BY <1>1, <1>2, RotateEffect
<1>3. ASSUME NEW r, RequestOK(r), r.op # "rotate", r.link = None, Hold(c, r), UNCHANGED jar
      PROVE  ChainInv' /\ Only(c) /\ (req'[c] \in {None, req[c]} \/ req'[c].link = None)
  <2>1. Only(c) /\ req'[c] = r
    BY <1>1, <1>3, HoldOnly DEF Hold
  <2> QED BY <1>1, <1>3, <2>1, ChainKept, SameJarOK DEF Only
<1>4. ASSUME NEW end, NEW r,
             r = [op |-> "revokeAll", b |-> b, tok |-> None, user |-> jar[b].access, link |-> None, end |-> end]
      PROVE  RequestOK(r) /\ r.op # "rotate" /\ r.link = None
  BY <1>4 DEF RequestOK, AccountOps, HolderOps, TokenOps
<1>5. CASE handleLogout(c, b)
  <2>1. CASE jar[b].refresh = None
    <3>1. UNCHANGED req /\ ClearSession(b)
      BY <1>5, <2>1 DEF handleLogout
    <3> QED BY <1>1, <3>1, ClearOK, ChainKept DEF Shape, Only
  <2>2. CASE jar[b].refresh # None
    <3>1. PICK r : r = TokenRequest("logout", b, jar[b].refresh, "logout")
      OBVIOUS
    <3>2. RequestOK(r) /\ r.op = "logout" /\ r.link = None
      BY <1>1, <2>2, <3>1, TokenRequestOK DEF HolderOps, Shape, CookiesOK
    <3> QED BY <1>1, <1>3, <1>5, <2>2, <3>1, <3>2 DEF handleLogout
  <2> QED BY <2>1, <2>2
<1>6. CASE handleRefresh(c, b)
  BY <1>1, <1>2, <1>6 DEF handleRefresh
<1>7. CASE handleLogoutAll(c, b)
  BY <1>1, <1>2, <1>3, <1>4, <1>7 DEF handleLogoutAll
<1>8. CASE LogoutAll(c, b)
  BY <1>1, <1>3, <1>4, <1>8 DEF LogoutAll
<1> QED BY <1>5, <1>6, <1>7, <1>8

\* Time and failures.
LEMMA QuietSessions ==
  ASSUME ChainInv,
         \/ \E b \in Browsers : AccessExpires(b)
         \/ \E f : FamilyExpires(f)
         \/ \E c \in Clients : Abort(c)
  PROVE  /\ ChainInv' /\ UNCHANGED <<links, signins>>
         /\ \A d \in Clients : req'[d] \in {None, req[d]}
<1>1. UNCHANGED <<tokens, dead, raced, links, signins>> /\ Shape
  BY DEF AccessExpires, FamilyExpires, Abort, tokenVars, accountVars, ChainInv
<1>2. DOMAIN req' = Clients /\ \A d \in Clients : req'[d] \in {None, req[d]}
  BY <1>1 DEF AccessExpires, FamilyExpires, Abort, Done, accountVars, Shape
<1>3. DOMAIN jar' = Browsers /\ \A b \in Browsers : CookiesOK(jar'[b])
  <2>1. CASE UNCHANGED jar
    BY <1>1, <2>1, SameJarOK
  <2>2. ASSUME NEW b \in Browsers, AccessExpires(b)
        PROVE  DOMAIN jar' = Browsers /\ \A x \in Browsers : CookiesOK(jar'[x])
    <3>1. PICK ck : ck = [jar[b] EXCEPT !.access = None]
      OBVIOUS
    <3>2. CookiesOK(ck)
      BY <1>1, <3>1 DEF Shape, CookiesOK
    <3>3. DOMAIN jar' = Browsers /\ \A x \in Browsers : jar'[x] = IF x = b THEN ck ELSE jar[x]
      BY <1>1, <2>2, <3>1 DEF AccessExpires, Cookies, Shape
    <3> QED BY <1>1, <3>2, <3>3 DEF Shape
  <2> QED BY <2>1, <2>2 DEF FamilyExpires, Abort, accountVars
<1> QED BY <1>1, <1>2, <1>3, ChainKept

\* The family a rotation is on.
LEMMA OpenFamily ==
  ASSUME ChainInv, NEW d \in Clients, req[d] # None, req[d].op = "rotate"
  PROVE  /\ Issued(req[d].tok) /\ FamilyOf(req[d].tok) = tokens[req[d].tok].family
         /\ FamilyOf(req[d].tok) \in DOMAIN tokens
<1>1. Issued(req[d].tok)
  BY DEF ChainInv, Shape, RequestOK, HolderOps
<1> QED BY <1>1 DEF ChainInv, FamiliesOK, Issued, FamilyOf

\* A new row has no family yet, and nobody has it but its request.
LEMMA InsertKeeps ==
  ASSUME ChainInv, NEW c \in Clients, insertToken(c)
  PROVE  /\ ChainInv' /\ UNCHANGED <<links, signins>> /\ Only(c)
         /\ req[c] # None /\ req[c].op # "exchange" /\ req'[c].link = req[c].link
<1> DEFINE new == Len(tokens) + 1
           row == [user |-> req[c].user, family |-> None, replaced |-> None, revoked |-> FALSE]
<1>1. /\ req[c] # None /\ req[c].op = "issue" /\ tokens' = Append(tokens, row)
      /\ UNCHANGED <<links, signins, dead, raced, jar>> /\ Shape
  BY DEF insertToken, At, ChainInv
<1>2. PICK U : tokens \in Seq(Row(U))
  BY <1>1 DEF Shape, TokensType
<1>3. PICK V : V = U \cup {req[c].user}
  OBVIOUS
<1>4. tokens \in Seq(Row(V)) /\ row \in Row(V)
  <2>1. \A x \in Row(U) : x \in Row(V)
    BY <1>3 DEF Row
  <2>2. row \in Row(V)
    BY <1>3 DEF Row
  <2> HIDE DEF row
  <2> QED BY <1>2, <2>1, <2>2, SeqMonotonic
<1> HIDE DEF row
<1>5. /\ tokens' \in Seq(Row(V)) /\ Len(tokens') = new /\ DOMAIN tokens = 1..Len(tokens)
      /\ DOMAIN tokens' = 1..new /\ tokens'[new] = row /\ Len(tokens) \in Nat
      /\ \A i \in DOMAIN tokens : tokens'[i] = tokens[i]
  BY <1>1, <1>4
<1>6. row.family = None /\ row.revoked = FALSE /\ new \notin DOMAIN tokens /\ new \in Nat
      /\ DOMAIN tokens' = DOMAIN tokens \cup {new}
  BY <1>5 DEF row
<1> HIDE DEF new
<1>7. PICK r : /\ r = [op |-> "family", b |-> req[c].b, tok |-> new, user |-> req[c].user,
                       link |-> req[c].link, end |-> "session"]
               /\ Only(c) /\ req'[c] = r
  BY <1>1, HoldOnly DEF insertToken, Hold, new
<1>8. Shape'
  <2>1. \A q : RequestOK(q) => RequestOK(q)'
    BY <1>5, <1>6 DEF RequestOK, Issued
  <2>2. RequestOK(r)'
    <3>1. r.op = "family" /\ r.tok = new /\ DOMAIN r = {"op", "b", "tok", "user", "link", "end"}
      BY <1>7
    <3>2. new \in DOMAIN tokens' /\ tokens'[new].family = None
      BY <1>5, <1>6
    <3> QED BY <3>1, <3>2 DEF RequestOK, AccountOps, HolderOps, TokenOps
  <2>3. \A d \in Clients : (req[d] # None => RequestOK(req[d]))'
    BY <1>1, <1>7, <2>1, <2>2 DEF Only, Shape
  <2>4. \A b \in Browsers : CookiesOK(jar[b])'
    BY <1>1, <1>5, <1>6 DEF Shape, CookiesOK, Issued
  <2> QED BY <1>1, <1>5, <1>7, <2>3, <2>4 DEF Shape, Only, TokensType
<1>9. FamiliesOK'
  BY <1>1, <1>5, <1>6 DEF ChainInv, FamiliesOK
<1>10. ASSUME NEW f \in DOMAIN tokens' \ raced PROVE LoneChain(f)'
  <2>1. f # None
    BY <1>5, <1>6, <1>10, AccountsAssumption
  <2>2. Live(f)' = Live(f)
    BY <1>5, <1>6, <2>1 DEF Live
  <2>3. \A d \in Open(f)' : d \in Open(f) /\ req'[d] = req[d] /\ f \in DOMAIN tokens
    <3> SUFFICES ASSUME NEW d \in Open(f)' PROVE d \in Open(f) /\ req'[d] = req[d] /\ f \in DOMAIN tokens
      OBVIOUS
    <3>1. d \in Clients /\ req'[d] # None /\ req'[d].op = "rotate" /\ FamilyOf(req[d].tok)' = f
      BY DEF Open
    <3>2. req'[d] = req[d]
      BY <1>7, <3>1 DEF Only
    <3>3. Issued(req[d].tok) /\ FamilyOf(req[d].tok) \in DOMAIN tokens
      BY <3>1, <3>2, OpenFamily
    <3>4. FamilyOf(req[d].tok) = f
      BY <1>5, <3>1, <3>2, <3>3 DEF FamilyOf, Issued
    <3> QED BY <3>1, <3>2, <3>3, <3>4 DEF Open
  <2>4. CASE f \in DOMAIN tokens
    BY <1>1, <2>2, <2>3, <2>4 DEF ChainInv, LoneChain
  <2>5. CASE f \notin DOMAIN tokens
    <3>1. Live(f) = {}
      BY <2>1, <2>5 DEF Live, ChainInv, FamiliesOK
    <3> QED BY <2>2, <2>3, <2>5, <3>1 DEF LoneChain
  <2> QED BY <2>4, <2>5
<1> QED BY <1>1, <1>7, <1>8, <1>9, <1>10 DEF ChainInv

\* The cookies after a step: every refresh cookie is an old one of its browser
\* or one of S.
JarFrom(S) ==
  /\ DOMAIN jar' = Browsers
  /\ \A x \in Browsers : /\ DOMAIN jar'[x] = {"access", "refresh", "state"}
                         /\ jar'[x].refresh \in S \cup {jar[x].refresh}

LEMMA SetFrom ==
  ASSUME Shape, NEW b, NEW u, NEW i, SetSession(b, u, i)
  PROVE  JarFrom({i})
<1>1. DOMAIN jar = Browsers /\ \A x \in Browsers : DOMAIN jar[x] = {"access", "refresh", "state"}
  BY DEF Shape, CookiesOK
<1>2. PICK ck : ck = [jar[b] EXCEPT !.access = u, !.refresh = i, !.state = None]
  OBVIOUS
<1>3. b \in Browsers => DOMAIN ck = {"access", "refresh", "state"} /\ ck.refresh = i
  BY <1>1, <1>2
<1>4. DOMAIN jar' = Browsers /\ \A x \in Browsers : jar'[x] = IF x = b THEN ck ELSE jar[x]
  BY <1>1, <1>2 DEF SetSession, Cookies
<1> QED BY <1>1, <1>3, <1>4 DEF JarFrom

LEMMA ClearFrom ==
  ASSUME Shape, NEW b, ClearSession(b)
  PROVE  JarFrom({None})
<1>1. DOMAIN jar = Browsers /\ \A x \in Browsers : DOMAIN jar[x] = {"access", "refresh", "state"}
  BY DEF Shape, CookiesOK
<1>2. PICK ck : ck = [jar[b] EXCEPT !.access = None, !.refresh = None]
  OBVIOUS
<1>3. b \in Browsers => DOMAIN ck = {"access", "refresh", "state"} /\ ck.refresh = None
  BY <1>1, <1>2
<1>4. DOMAIN jar' = Browsers /\ \A x \in Browsers : jar'[x] = IF x = b THEN ck ELSE jar[x]
  BY <1>1, <1>2 DEF ClearSession, Cookies
<1> QED BY <1>1, <1>3, <1>4 DEF JarFrom

LEMMA SameFrom ==
  ASSUME Shape, UNCHANGED jar
  PROVE  JarFrom({None})
BY DEF Shape, CookiesOK, JarFrom

\* A row keeps its user and, once it has one, its family.
RowsKept ==
  \A j \in DOMAIN tokens :
    /\ j \in DOMAIN tokens' /\ tokens'[j].user = tokens[j].user
    /\ tokens'[j].family \in {tokens[j].family} \cup (IF tokens[j].family = None THEN {j} ELSE {})

LEMMA ShapeKept ==
  ASSUME Shape, TokensType', RowsKept, DOMAIN req' = Clients,
         \A d \in Clients : req'[d] \in {None, req[d]} \/ RequestOK(req[d])',
         NEW S, JarFrom(S), \A x \in S : x # None => Issued(x)'
  PROVE  Shape'
<1>1. \A j : Issued(j) => j \in DOMAIN tokens' /\ tokens'[j].family = tokens[j].family
                          /\ tokens'[j].user = tokens[j].user /\ Issued(j)'
  BY DEF Issued, RowsKept
<1>2. ASSUME NEW d \in Clients, req'[d] # None PROVE RequestOK(req[d])'
  <2>1. CASE req'[d] = req[d]
    <3>1. RequestOK(req[d])
      BY <1>2, <2>1 DEF Shape
    <3>2. req[d].op = "family" => req[d].tok \in DOMAIN tokens' /\ tokens'[req[d].tok].family \in {None, req[d].tok}
      BY <3>1 DEF RequestOK, RowsKept
    <3>3. req[d].op \in HolderOps => req[d].tok \in DOMAIN tokens' /\ tokens'[req[d].tok].family # None
                                     /\ req[d].user = tokens'[req[d].tok].user
      BY <1>1, <3>1 DEF RequestOK, Issued
    <3> QED BY <2>1, <3>1, <3>2, <3>3 DEF RequestOK, Issued
  <2> QED BY <1>2, <2>1
<1>3. ASSUME NEW b \in Browsers PROVE CookiesOK(jar[b])'
  <2>1. jar'[b].refresh # None => jar'[b].refresh \in DOMAIN tokens' /\ tokens'[jar'[b].refresh].family # None
    BY <1>1 DEF JarFrom, Issued, Shape, CookiesOK
  <2> QED BY <2>1 DEF JarFrom, CookiesOK, Issued
<1> QED BY <1>2, <1>3 DEF Shape, JarFrom

\* A step after which no request is in a rotation it was not in before.
LEMMA OpenKept ==
  ASSUME ChainInv, RowsKept, NEW f,
         \A d \in Clients : req'[d] \in {None, req[d]} \/ req'[d].op # "rotate"
  PROVE  \A d \in Open(f)' : d \in Open(f) /\ req'[d] = req[d]
<1> SUFFICES ASSUME NEW d \in Open(f)' PROVE d \in Open(f) /\ req'[d] = req[d]
  OBVIOUS
<1>1. d \in Clients /\ req'[d] # None /\ req'[d].op = "rotate" /\ FamilyOf(req[d].tok)' = f
  BY DEF Open
<1>2. req'[d] = req[d]
  BY <1>1
<1>3. Issued(req[d].tok)
  BY <1>1, <1>2, OpenFamily
<1>4. FamilyOf(req[d].tok) = f
  BY <1>1, <1>2, <1>3 DEF FamilyOf, Issued, RowsKept
<1> QED BY <1>1, <1>2, <1>4 DEF Open

\* The row becomes the first of its family; its cookie is set.
LEMMA IssueKeeps ==
  ASSUME ChainInv, NEW c \in Clients, issueSession(c)
  PROVE  ChainInv'
<1>1. PICK i : i = req[c].tok
  OBVIOUS
<1>2. /\ req[c] # None /\ req[c].op = "family" /\ tokens' = [tokens EXCEPT ![i].family = i]
      /\ SetSession(req[c].b, req[c].user, i) /\ Only(c) /\ req'[c] = None
      /\ UNCHANGED <<dead, raced>> /\ Shape
  BY <1>1, HoldOnly DEF issueSession, At, Done, ChainInv
<1>3. i \in DOMAIN tokens /\ tokens[i].family \in {None, i}
  BY <1>1, <1>2, RequestAt DEF RequestOK
<1>4. PICK U : tokens \in Seq(Row(U))
  BY <1>2 DEF Shape, TokensType
<1>5. i \in Nat /\ i # None /\ tokens[i] \in Row(U)
  BY <1>3, <1>4, AccountsAssumption
<1>6. PICK r : r = [tokens[i] EXCEPT !.family = i]
  OBVIOUS
<1>7. /\ r \in Row(U) /\ r.family = i /\ r.user = tokens[i].user
      /\ r.replaced = tokens[i].replaced /\ r.revoked = tokens[i].revoked
  BY <1>5, <1>6 DEF Row
<1>8. tokens' = [tokens EXCEPT ![i] = r]
  BY <1>2, <1>6
<1>9. /\ tokens' \in Seq(Row(U)) /\ DOMAIN tokens' = DOMAIN tokens
      /\ \A j \in DOMAIN tokens : tokens'[j] = IF j = i THEN r ELSE tokens[j]
  BY <1>3, <1>4, <1>7, <1>8
<1>10. RowsKept
  BY <1>3, <1>7, <1>9 DEF RowsKept
<1>11. Shape'
  <2>1. Issued(i)'
    BY <1>3, <1>5, <1>7, <1>9 DEF Issued
  <2>2. JarFrom({i})
    BY <1>2, SetFrom
  <2>3. TokensType'
    BY <1>9 DEF TokensType
  <2> QED BY <1>2, <1>10, <2>1, <2>2, <2>3, ShapeKept DEF Only
<1>12. FamiliesOK'
  BY <1>2, <1>3, <1>5, <1>7, <1>9 DEF ChainInv, FamiliesOK
<1>13. ASSUME NEW f \in DOMAIN tokens' \ raced' PROVE LoneChain(f)'
  <2>1. LoneChain(f) /\ f \in DOMAIN tokens
    BY <1>2, <1>9, <1>13 DEF ChainInv
  <2>2. \A d \in Open(f)' : d \in Open(f) /\ req'[d] = req[d]
    BY <1>2, <1>10, OpenKept DEF Only
  <2>3. CASE tokens[i].family = i \/ f # i
    <3>1. Live(f)' = Live(f)
      <4>1. f # None
        BY <1>4, <2>1, AccountsAssumption
      <4> QED BY <1>3, <1>7, <1>9, <2>3, <4>1 DEF Live
    <3> QED BY <1>2, <2>1, <2>2, <3>1 DEF LoneChain
  <2>4. CASE tokens[i].family = None /\ f = i
    <3>1. \A j \in DOMAIN tokens : tokens[j].family # i
      BY <1>3, <1>5, <2>4 DEF ChainInv, FamiliesOK
    <3>2. Live(f)' = IF tokens[i].replaced = None /\ ~ tokens[i].revoked THEN {i} ELSE {}
      BY <1>3, <1>5, <1>7, <1>9, <2>4, <3>1 DEF Live
    <3>3. Open(f) = {}
      <4> SUFFICES ASSUME NEW d \in Open(f) PROVE FALSE
        OBVIOUS
      <4>1. FamilyOf(req[d].tok) = i /\ Issued(req[d].tok) /\ FamilyOf(req[d].tok) = tokens[req[d].tok].family
        BY <2>4, OpenFamily DEF Open
      <4> QED BY <3>1, <4>1 DEF Issued
    <3>4. i \in dead => tokens[i].revoked
      BY <1>3, <2>4 DEF ChainInv, FamiliesOK
    <3>5. i \in dead => Live(f)' = {}
      BY <3>2, <3>4
    <3> QED BY <1>2, <2>2, <2>4, <3>2, <3>3, <3>5 DEF LoneChain
  <2> QED BY <1>3, <2>3, <2>4
<1> QED BY <1>11, <1>12, <1>13 DEF ChainInv

\* The first statement of a rotation finds the one token that works.
LEMMA SelectKeeps ==
  ASSUME ChainInv, NEW c \in Clients, selectToken(c)
  PROVE  ChainInv' /\ UNCHANGED <<links, signins>> /\ Only(c) /\ req[c] # None
         /\ req[c].op # "exchange" /\ req'[c].link = req[c].link
<1>1. /\ req[c] # None /\ req[c].op = "select" /\ UNCHANGED <<tokens, dead, jar, links, signins>> /\ Shape
  BY DEF selectToken, At, ChainInv
<1>2. PICK i, f : i = req[c].tok /\ f = FamilyOf(i)
  OBVIOUS
<1>3. RequestOK(req[c]) /\ Issued(i) /\ req[c].user = tokens[i].user
  BY <1>1, <1>2, RequestAt DEF RequestOK, HolderOps
<1>4. f = tokens[i].family
  BY <1>2, <1>3 DEF Issued, FamilyOf
<1>5. ASSUME NEW op \in {"rotate", "reuse"}, Goto(c, op)
      PROVE  /\ Only(c) /\ RequestOK(req'[c]) /\ req'[c].op = op
             /\ req'[c].tok = i /\ req'[c].link = req[c].link
  <2>1. op \in AccountOps \cup TokenOps /\ op \in HolderOps
    BY <1>5 DEF TokenOps, HolderOps
  <2>2. /\ Only(c) /\ req'[c].op = op /\ DOMAIN req'[c] = DOMAIN req[c]
        /\ \A x \in DOMAIN req[c] \ {"op"} : req'[c][x] = req[c][x]
    BY <1>1, <1>5, <2>1, GotoOnly
  <2>3. {"op", "b", "user", "link", "tok", "end"} \subseteq DOMAIN req[c]
    BY <1>1, <1>3 DEF RequestOK, TokenOps, HolderOps
  <2>4. req'[c].tok = i /\ req'[c].link = req[c].link /\ req'[c].user = tokens[i].user
    BY <1>2, <1>3, <2>2, <2>3
  <2> QED BY <1>3, <1>5, <2>1, <2>2, <2>3, <2>4 DEF RequestOK
<1>6. CASE Goto(c, "reuse") /\ UNCHANGED raced
  <2>1. DOMAIN jar' = Browsers /\ \A x \in Browsers : CookiesOK(jar'[x])
    BY <1>1, SameJarOK
  <2> QED BY <1>1, <1>5, <1>6, <2>1, ChainKept DEF Only
<1>7. CASE /\ stillCurrent(tokens[i]) /\ Goto(c, "rotate")
           /\ raced' = IF Open(f) = {} THEN raced ELSE raced \cup {f}
  <2>1. /\ Only(c) /\ RequestOK(req'[c]) /\ req'[c].op = "rotate"
        /\ req'[c].tok = i /\ req'[c].link = req[c].link
    BY <1>5, <1>7
  <2>2. Shape'
    <3>1. RequestOK(req[c])'
      BY <1>1, <2>1 DEF RequestOK, Issued
    <3>2. \A d \in Clients : req'[d] # None => RequestOK(req[d])'
      BY <1>1, <2>1, <3>1 DEF Only, Shape, RequestOK, Issued
    <3>3. \A b \in Browsers : CookiesOK(jar[b])'
      BY <1>1 DEF Shape, CookiesOK, Issued
    <3>4. TokensType'
      BY <1>1 DEF Shape, TokensType
    <3> QED BY <1>1, <2>1, <3>2, <3>3, <3>4 DEF Only, Shape
  <2>3. FamiliesOK'
    BY <1>1 DEF ChainInv, FamiliesOK
  <2>4. ASSUME NEW g \in DOMAIN tokens' \ raced' PROVE LoneChain(g)'
    <3>1. LoneChain(g) /\ g \in DOMAIN tokens /\ Live(g)' = Live(g) /\ (g = f => Open(g) = {})
      BY <1>1, <1>7, <2>4 DEF ChainInv, Live
    <3>2. \A d \in Open(g)' : d = c \/ (d \in Open(g) /\ req'[d] = req[d])
      BY <1>1, <2>1 DEF Open, FamilyOf, Only
    <3>3. CASE g = f
      <4>1. i \in Live(f)
        BY <1>3, <1>4, <1>7 DEF Live, Issued, stillCurrent
      <4>2. \A d \in Open(g)' : d = c
        BY <3>1, <3>2, <3>3
      <4> QED BY <1>1, <2>1, <3>1, <3>3, <4>1, <4>2 DEF LoneChain
    <3>4. CASE g # f
      <4>1. c \notin Open(g)'
        <5>1. FamilyOf(req[c].tok)' = f
          BY <1>1, <1>2, <2>1 DEF FamilyOf
        <5> QED BY <3>4, <5>1 DEF Open
      <4> QED BY <1>1, <3>1, <3>2, <4>1 DEF LoneChain
    <3> QED BY <3>3, <3>4
  <2> QED BY <1>1, <2>1, <2>2, <2>3, <2>4 DEF ChainInv
<1> QED BY <1>2, <1>6, <1>7 DEF selectToken

\* A revocation ends whole families.
LEMMA RevokeKeeps ==
  ASSUME ChainInv, NEW ids \in SUBSET DOMAIN tokens, RevokeWhere(ids),
         \A i \in ids, j \in DOMAIN tokens :
            tokens[i].family # None /\ tokens[j].family = tokens[i].family => j \in ids,
         DOMAIN req' = Clients, \A d \in Clients : req'[d] \in {None, req[d]}, JarFrom({None})
  PROVE  ChainInv'
<1>1. PICK U : tokens \in Seq(Row(U))
  BY DEF ChainInv, Shape, TokensType
<1>2. ASSUME NEW j \in DOMAIN tokens, NEW r,
             r = IF j \in ids THEN [tokens[j] EXCEPT !.revoked = TRUE] ELSE tokens[j]
      PROVE  /\ r \in Row(U) /\ r.user = tokens[j].user /\ r.family = tokens[j].family
             /\ r.replaced = tokens[j].replaced /\ (r.revoked <=> j \in ids \/ tokens[j].revoked)
  <2>1. tokens[j] \in Row(U)
    BY <1>1, <1>2
  <2> QED BY <1>2, <2>1 DEF Row
<1>3. /\ DOMAIN tokens' = DOMAIN tokens
      /\ \A j \in DOMAIN tokens :
           /\ tokens'[j] \in Row(U) /\ tokens'[j].user = tokens[j].user
           /\ tokens'[j].family = tokens[j].family /\ tokens'[j].replaced = tokens[j].replaced
           /\ (tokens'[j].revoked <=> j \in ids \/ tokens[j].revoked)
  <2>1. /\ DOMAIN tokens' = DOMAIN tokens
        /\ \A j \in DOMAIN tokens :
             tokens'[j] = IF j \in ids THEN [tokens[j] EXCEPT !.revoked = TRUE] ELSE tokens[j]
    BY DEF RevokeWhere
  <2> QED BY <1>2, <2>1
<1>4. tokens' \in Seq(Row(U))
  <2>1. PICK n \in Nat : DOMAIN tokens = 1..n
    BY <1>1
  <2>2. tokens' = [j \in 1..n |-> tokens'[j]]
    BY <2>1 DEF RevokeWhere
  <2> QED BY <1>3, <2>1, <2>2, IsASeq
<1>5. RowsKept
  BY <1>3 DEF RowsKept
<1>6. Shape'
  BY <1>4, <1>5, ShapeKept DEF ChainInv, TokensType
<1>7. /\ dead' = dead \cup {FamilyOf(i) : i \in ids}
      /\ raced' = raced \cup {f \in {FamilyOf(i) : i \in ids} : Open(f) # {}}
  BY DEF RevokeWhere
<1>8. \A i \in ids : \/ tokens[i].family = None /\ FamilyOf(i) = i
                     \/ tokens[i].family # None /\ FamilyOf(i) = tokens[i].family
  BY DEF FamilyOf
<1>9. FamiliesOK'
  <2>1. dead' \subseteq DOMAIN tokens'
    BY <1>3, <1>7, <1>8 DEF ChainInv, FamiliesOK
  <2>2. ASSUME NEW i \in DOMAIN tokens' \cap dead', tokens'[i].family = None PROVE tokens'[i].revoked
    <3>1. CASE i \in dead
      BY <1>3, <2>2, <3>1 DEF ChainInv, FamiliesOK
    <3>2. CASE i \notin dead
      <4>1. PICK j \in ids : i = FamilyOf(j)
        BY <1>7, <2>2, <3>2
      <4>2. j = i
        BY <1>3, <1>8, <2>2, <4>1 DEF ChainInv, FamiliesOK
      <4> QED BY <1>3, <4>2
    <3> QED BY <3>1, <3>2
  <2>3. \A i \in DOMAIN tokens' : tokens'[i].family # None =>
          LET f == tokens'[i].family IN
          f \in DOMAIN tokens' /\ tokens'[f].family = f /\ tokens'[i].user = tokens'[f].user
    BY <1>3 DEF ChainInv, FamiliesOK
  <2> QED BY <2>1, <2>2, <2>3 DEF FamiliesOK
<1>10. ASSUME NEW g \in DOMAIN tokens' \ raced' PROVE LoneChain(g)'
  <2>1. LoneChain(g) /\ g \in DOMAIN tokens /\ g # None
    BY <1>1, <1>3, <1>7, <1>10, AccountsAssumption DEF ChainInv
  <2>2. Live(g)' = Live(g) \ ids
    BY <1>3 DEF Live
  <2>3. \A d \in Open(g)' : d \in Open(g) /\ req'[d] = req[d]
    BY <1>5, OpenKept
  <2>4. CASE g \in {FamilyOf(i) : i \in ids}
    <3>1. PICK i \in ids : g = FamilyOf(i)
      BY <2>4
    <3>2. Live(g)' = {}
      <4>1. CASE tokens[i].family # None
        BY <1>8, <2>2, <3>1, <4>1 DEF Live
      <4>2. CASE tokens[i].family = None
        <5>1. Live(g) = {}
          BY <1>8, <2>1, <3>1, <4>2 DEF Live, ChainInv, FamiliesOK
        <5> QED BY <2>2, <5>1
      <4> QED BY <4>1, <4>2
    <3>3. Open(g) = {}
      BY <1>7, <1>10, <2>4
    <3> QED BY <2>3, <3>2, <3>3 DEF LoneChain
  <2>5. CASE g \notin {FamilyOf(i) : i \in ids}
    <3>1. Live(g)' = Live(g)
      <4>1. \A i \in Live(g) : FamilyOf(i) = g
        BY <2>1 DEF Live, FamilyOf
      <4> QED BY <2>2, <2>5, <4>1
    <3>2. g \in dead' => g \in dead
      BY <1>7, <2>5
    <3> QED BY <2>1, <2>3, <3>1, <3>2 DEF LoneChain
  <2> QED BY <2>4, <2>5
<1> QED BY <1>6, <1>9, <1>10 DEF ChainInv

LEMMA RevokesKeep ==
  ASSUME ChainInv, NEW c \in Clients, reuseDetected(c) \/ RevokeFamily(c) \/ RevokeAll(c)
  PROVE  ChainInv' /\ UNCHANGED <<links, signins>> /\ Only(c) /\ req'[c] = None
<1>1. /\ Shape /\ UNCHANGED <<links, signins>> /\ Only(c) /\ req'[c] = None /\ req[c] # None
      /\ req[c].op \in {"reuse", "logout", "revokeAll"}
  BY HoldOnly DEF ChainInv, reuseDetected, RevokeFamily, RevokeAll, Done, At
<1>2. JarFrom({None})
  BY <1>1, ClearFrom, SameFrom DEF reuseDetected, RevokeFamily, RevokeAll, Refused
<1>3. DOMAIN req' = Clients /\ \A d \in Clients : req'[d] \in {None, req[d]}
  BY <1>1 DEF Only
<1>4. ASSUME NEW f, RevokeRefreshTokenFamily(f) PROVE ChainInv'
  <2>1. PICK ids \in SUBSET DOMAIN tokens : ids = {i \in DOMAIN tokens : tokens[i].family = f}
    OBVIOUS
  <2>2. RevokeWhere(ids)
    BY <1>4, <2>1 DEF RevokeRefreshTokenFamily
  <2> QED BY <1>2, <1>3, <2>1, <2>2, RevokeKeeps
<1>5. ASSUME NEW u, RevokeAllForUser(u) PROVE ChainInv'
  <2>1. PICK ids \in SUBSET DOMAIN tokens : ids = {i \in DOMAIN tokens : tokens[i].user = u}
    OBVIOUS
  <2>2. RevokeWhere(ids)
    BY <1>5, <2>1 DEF RevokeAllForUser
  <2>3. \A i \in ids, j \in DOMAIN tokens :
            tokens[i].family # None /\ tokens[j].family = tokens[i].family => j \in ids
    BY <2>1 DEF ChainInv, FamiliesOK
  <2> QED BY <1>2, <1>3, <2>2, <2>3, RevokeKeeps
<1> QED BY <1>1, <1>4, <1>5 DEF reuseDetected, RevokeFamily, RevokeAll

\* The commit of a rotation: the token that works is replaced by the new one.
LEMMA RotateKeeps ==
  ASSUME ChainInv, NEW c \in Clients, RotateRefreshToken(c)
  PROVE  ChainInv' /\ UNCHANGED <<links, signins>> /\ Only(c) /\ req[c] # None
         /\ req[c].op # "exchange" /\ (req'[c] = None \/ req'[c].link = req[c].link)
<1>1. /\ req[c] # None /\ req[c].op = "rotate" /\ UNCHANGED <<dead, raced, links, signins>> /\ Shape
  BY DEF RotateRefreshToken, At, ChainInv
<1>2. PICK i, f, new : i = req[c].tok /\ f = tokens[i].family /\ new = Len(tokens) + 1
  OBVIOUS
<1>3. RequestOK(req[c]) /\ Issued(i) /\ req[c].user = tokens[i].user /\ FamilyOf(i) = f /\ c \in Open(f)
  <2>1. RequestOK(req[c]) /\ Issued(i) /\ req[c].user = tokens[i].user
    BY <1>1, <1>2, RequestAt DEF RequestOK, HolderOps
  <2> QED BY <1>1, <1>2, <2>1 DEF Issued, FamilyOf, Open
<1>4. f \in DOMAIN tokens /\ tokens[f].family = f /\ tokens[i].user = tokens[f].user /\ f # None
  BY <1>2, <1>3 DEF Issued, ChainInv, FamiliesOK
<1>5. PICK U : tokens \in Seq(Row(U))
  BY <1>1 DEF Shape, TokensType
<1>6. /\ i \in DOMAIN tokens /\ tokens[i] \in Row(U) /\ new \in Nat /\ new # None
      /\ DOMAIN tokens = 1..Len(tokens) /\ Len(tokens) \in Nat /\ new \notin DOMAIN tokens
  BY <1>2, <1>3, <1>5, AccountsAssumption DEF Issued
<1>7. PICK old : old = [tokens[i] EXCEPT !.replaced = new]
  OBVIOUS
<1>8. old \in Row(U) /\ old.replaced = new /\ old.family = f /\ old.user = tokens[i].user
  BY <1>2, <1>6, <1>7 DEF Row
<1>9. PICK row : row = [user |-> req[c].user, family |-> f, replaced |-> None, revoked |-> FALSE]
  OBVIOUS
<1>10. row \in Row(U) /\ row.user = tokens[i].user /\ row.family = f /\ row.replaced = None /\ row.revoked = FALSE
  <2>1. f \in Nat /\ tokens[i].user \in U
    BY <1>4, <1>6 DEF Row
  <2> QED BY <1>3, <1>9, <2>1 DEF Row
<1>11. PICK base : base = [tokens EXCEPT ![i] = old]
  OBVIOUS
<1>12. /\ base \in Seq(Row(U)) /\ Len(base) = Len(tokens)
       /\ \A j \in DOMAIN tokens : base[j] = IF j = i THEN old ELSE tokens[j]
  BY <1>5, <1>6, <1>8, <1>11
<1>13. tokens' = Append(base, row)
  BY <1>2, <1>7, <1>9, <1>11 DEF RotateRefreshToken
<1>14. /\ tokens' \in Seq(Row(U)) /\ DOMAIN tokens' = DOMAIN tokens \cup {new}
       /\ tokens'[new] = row
       /\ \A j \in DOMAIN tokens : tokens'[j] = IF j = i THEN old ELSE tokens[j]
  <2>1. /\ tokens' \in Seq(Row(U)) /\ Len(tokens') = new /\ tokens'[new] = row
        /\ \A j \in 1..Len(tokens) : tokens'[j] = base[j]
    BY <1>2, <1>10, <1>12, <1>13
  <2>2. DOMAIN tokens' = DOMAIN tokens \cup {new}
    BY <1>2, <1>6, <2>1
  <2> QED BY <1>6, <1>12, <2>1, <2>2
<1>15. RowsKept
  BY <1>2, <1>8, <1>14 DEF RowsKept
<1>16. /\ Only(c) /\ JarFrom({None, new}) /\ (req'[c] = None \/ req'[c].link = req[c].link)
       /\ req'[c] = None \/ (req'[c].op = "revokeAll" /\ {"op", "b", "user", "link", "tok", "end"} \subseteq DOMAIN req'[c])
  <2>1. CASE SetSession(req[c].b, req[c].user, new) /\ Done(c)
    <3>1. JarFrom({new})
      BY <1>1, <2>1, SetFrom
    <3> QED BY <1>1, <2>1, <3>1, HoldOnly DEF Done, JarFrom
  <2>2. CASE Goto(c, "revokeAll") /\ UNCHANGED jar
    <3>1. {"op", "b", "user", "link", "tok", "end"} \subseteq DOMAIN req[c]
      BY <1>1, <1>3 DEF RequestOK, TokenOps, HolderOps
    <3>2. /\ Only(c) /\ req'[c].op = "revokeAll" /\ DOMAIN req'[c] = DOMAIN req[c]
          /\ \A x \in DOMAIN req[c] \ {"op"} : req'[c][x] = req[c][x]
      BY <1>1, <2>2, GotoOnly DEF TokenOps
    <3>3. JarFrom({None})
      BY <1>1, <2>2, SameFrom
    <3> QED BY <3>1, <3>2, <3>3 DEF JarFrom
  <2> QED BY <1>2, <2>1, <2>2 DEF RotateRefreshToken
<1>17. Shape'
  <2>1. Issued(new)'
    BY <1>4, <1>10, <1>14 DEF Issued
  <2>2. \A d \in Clients : req'[d] \in {None, req[d]} \/ RequestOK(req[d])'
    BY <1>16 DEF Only, RequestOK, AccountOps, TokenOps, HolderOps
  <2>3. TokensType'
    BY <1>14 DEF TokensType
  <2> QED BY <1>1, <1>15, <1>16, <2>1, <2>2, <2>3, ShapeKept DEF Only
<1>18. FamiliesOK'
  <2>1. \A j \in DOMAIN tokens' : tokens'[j].family # None =>
          LET g == tokens'[j].family IN
          g \in DOMAIN tokens' /\ tokens'[g].family = g /\ tokens'[j].user = tokens'[g].user
    <3>1. \A j \in DOMAIN tokens : tokens'[j].family = tokens[j].family /\ tokens'[j].user = tokens[j].user
      BY <1>2, <1>8, <1>14
    <3> QED BY <1>4, <1>10, <1>14, <3>1 DEF ChainInv, FamiliesOK
  <2>2. \A j \in DOMAIN tokens' \cap dead' : tokens'[j].family = None => tokens'[j].revoked
    BY <1>1, <1>2, <1>4, <1>8, <1>10, <1>14 DEF ChainInv, FamiliesOK
  <2>3. dead' \subseteq DOMAIN tokens'
    BY <1>1, <1>14 DEF ChainInv, FamiliesOK
  <2> QED BY <2>1, <2>2, <2>3 DEF FamiliesOK
<1>19. ASSUME NEW g \in DOMAIN tokens' \ raced' PROVE LoneChain(g)'
  <2>1. \A d \in Open(g)' : d \in Open(g) /\ req'[d] = req[d] /\ d # c
    <3>1. \A d \in Clients : req'[d] \in {None, req[d]} \/ req'[d].op # "rotate"
      BY <1>16 DEF Only
    <3>2. c \notin Open(g)'
      BY <1>16 DEF Open
    <3> QED BY <1>15, <3>1, <3>2, OpenKept
  <2>2. CASE g = f
    <3>1. LoneChain(f)
      BY <1>1, <1>4, <1>19, <2>2 DEF ChainInv
    <3>2. i \in Live(f) /\ f \notin dead
      BY <1>2, <1>3, <3>1 DEF LoneChain
    <3>3. Live(f) = {i} /\ Open(f) = {c}
      BY <1>3, <3>1, <3>2 DEF LoneChain
    <3>4. ASSUME NEW j \in Live(f)' PROVE j = new
      <4>1. j \in DOMAIN tokens' /\ tokens'[j].family = f /\ tokens'[j].replaced = None /\ ~ tokens'[j].revoked
        BY DEF Live
      <4>2. CASE j = i
        BY <1>6, <1>8, <1>14, <4>1, <4>2
      <4>3. CASE j \in DOMAIN tokens /\ j # i
        BY <1>14, <3>3, <4>1, <4>3 DEF Live
      <4> QED BY <1>14, <4>1, <4>2, <4>3
    <3>5. Open(f)' = {}
      BY <2>1, <2>2, <3>3
    <3> QED BY <1>1, <2>2, <3>2, <3>4, <3>5 DEF LoneChain
  <2>3. CASE g # f /\ g \in DOMAIN tokens
    <3>1. LoneChain(g)
      BY <1>1, <1>19, <2>3 DEF ChainInv
    <3>2. Live(g)' = Live(g)
      BY <1>2, <1>8, <1>10, <1>14, <2>3 DEF Live
    <3> QED BY <1>1, <2>1, <3>1, <3>2 DEF LoneChain
  <2>4. CASE g \notin DOMAIN tokens
    <3>1. g = new /\ g # f
      BY <1>4, <1>14, <1>19, <2>4
    <3>2. Live(g)' = {}
      <4>1. \A j \in DOMAIN tokens : tokens'[j].family # g
        BY <1>2, <1>6, <1>8, <1>14, <2>4, <3>1 DEF ChainInv, FamiliesOK
      <4> QED BY <1>10, <1>14, <3>1, <4>1 DEF Live
    <3>3. Open(g)' = {}
      <4>1. \A d \in Open(g) : g \in DOMAIN tokens
        BY OpenFamily DEF Open
      <4> QED BY <2>1, <2>4, <4>1
    <3>4. g \notin dead'
      BY <1>1, <2>4 DEF ChainInv, FamiliesOK
    <3> QED BY <3>2, <3>3, <3>4 DEF LoneChain
  <2> QED BY <2>2, <2>3, <2>4
<1> QED BY <1>1, <1>16, <1>17, <1>18, <1>19 DEF ChainInv

-----------------------------------------------------------------------------
(* The sessions as a whole. *)

LEMMA SessionsStart == SessionsInit => ChainInv /\ LinksInv
<1> SUFFICES ASSUME SessionsInit PROVE ChainInv /\ LinksInv
  OBVIOUS
<1>1. PICK row : row = [user |-> 1, family |-> 1, replaced |-> None, revoked |-> FALSE] /\ tokens = <<row>>
  BY DEF SessionsInit
<1>2. /\ row \in Row({1}) /\ row.family = 1 /\ row.user = 1 /\ 1 # None
  BY <1>1, AccountsAssumption DEF Row
<1>3. tokens \in Seq(Row({1})) /\ DOMAIN tokens = {1} /\ tokens[1] = row
  BY <1>1, <1>2
<1>4. DOMAIN req = Clients /\ (\A c \in Clients : req[c] = None) /\ dead = {} /\ raced = {} /\ links = << >>
      /\ signins = [t \in 1..MaxLinks |-> 0]
  BY DEF SessionsInit
<1>5. DOMAIN jar = Browsers /\ \A b \in Browsers : CookiesOK(jar[b])
  <2>1. PICK b0 : jar = [x \in Browsers |-> IF x = b0 THEN [access |-> 1, refresh |-> 1, state |-> None]
                                             ELSE NoCookies]
    BY DEF SessionsInit
  <2> QED BY <1>2, <1>3, <2>1 DEF CookiesOK, Issued, NoCookies
<1>6. ChainInv
  <2>1. Shape
    BY <1>3, <1>4, <1>5 DEF Shape, TokensType
  <2>2. FamiliesOK
    BY <1>2, <1>3, <1>4 DEF FamiliesOK
  <2>3. \A f \in DOMAIN tokens : LoneChain(f)
    BY <1>3, <1>4 DEF LoneChain, Live, Open
  <2> QED BY <2>1, <2>2, <2>3 DEF ChainInv
<1>7. LinksInv
  <2>1. links \in Seq(LinkEmails \cup {None}) /\ Len(links) = 0 /\ MaxLinks \in Nat
    BY <1>4, AccountsAssumption
  <2>2. \A t \in 1..MaxLinks : LinkOK(t)
    BY <1>4 DEF LinkOK, Carries
  <2> QED BY <1>4, <2>1, <2>2 DEF LinksInv
<1> QED BY <1>6, <1>7

LEMMA LinksTime ==
  ASSUME ChainInv, LinksInv, UNCHANGED tokenVars,
         (\E e \in LinkEmails : Mint(e)) \/ (\E t \in DOMAIN links : LinkExpires(t))
  PROVE  ChainInv' /\ LinksInv'
<1>1. UNCHANGED <<req, jar, tokens, dead, raced, signins>> /\ Shape
  BY DEF Mint, LinkExpires, tokenVars, ChainInv
<1>2. ChainInv'
  BY <1>1, SameJarOK, ChainKept DEF Shape
<1>3. links \in Seq(LinkEmails \cup {None}) /\ Len(links) <= MaxLinks /\ MaxLinks \in Nat
  BY AccountsAssumption DEF LinksInv
<1>4. CASE \E e \in LinkEmails : Mint(e)
  <2>1. PICK e \in LinkEmails : Len(links) < MaxLinks /\ links' = Append(links, e)
    BY <1>4 DEF Mint
  <2>2. /\ links' \in Seq(LinkEmails \cup {None}) /\ Len(links') <= MaxLinks
        /\ \A t \in DOMAIN links : t \in DOMAIN links' /\ links'[t] = links[t]
    BY <1>3, <2>1
  <2> QED BY <1>1, <1>2, <2>2, LinksKept
<1>5. CASE \E t \in DOMAIN links : LinkExpires(t)
  <2>1. PICK t \in DOMAIN links : links' = [links EXCEPT ![t] = None]
    BY <1>5 DEF LinkExpires
  <2>2. /\ links' \in Seq(LinkEmails \cup {None}) /\ Len(links') <= MaxLinks
        /\ \A x \in DOMAIN links : x \in DOMAIN links' /\ (links[x] = None => links'[x] = None)
    BY <1>3, <2>1
  <2> QED BY <1>1, <1>2, <2>2, LinksKept
<1> QED BY <1>4, <1>5

LEMMA PeopleStep ==
  ASSUME ChainInv, LinksInv, PeopleNext
  PROVE  ChainInv' /\ LinksInv'
<1>1. Shape
  BY DEF ChainInv
\* A step of one request that carries on with its link, or with none.
<1>2. ASSUME NEW c \in Clients, Only(c), UNCHANGED <<links, signins>>,
             req'[c] \in {None, req[c]} \/ SameLink(req'[c], req[c])
      PROVE  LinksInv'
  BY <1>2, LinksKept, LinksType DEF Only
<1>3. ASSUME NEW c \in Clients, NEW b \in Browsers, AccountRequest(c, b), UNCHANGED tokenVars
      PROVE  ChainInv' /\ LinksInv'
  <2>1. UNCHANGED <<tokens, dead, raced, signins>>
    BY <1>3 DEF tokenVars
  <2>2. CASE \E t \in DOMAIN links : handleEmailVerify(c, b, t)
    <3>1. PICK t \in DOMAIN links : handleEmailVerify(c, b, t)
      BY <2>2
    <3>2. LinksInv'
      BY <1>1, <2>1, <3>1, LinksVerify
    <3>3. Only(c) /\ JarKept /\ (req'[c] = req[c] \/ SignIn(req'[c]))
      BY <1>1, <3>1, VerifyEffect
    <3> QED BY <2>1, <3>2, <3>3, ChainAccount
  <2>3. CASE ~ \E t \in DOMAIN links : handleEmailVerify(c, b, t)
    <3>1. Only(c) /\ Continues(c) /\ JarKept /\ UNCHANGED links
      BY <1>1, <1>3, <2>3, RequestEffect
    <3> QED BY <1>2, <2>1, <3>1, ChainAccount DEF Continues
  <2> QED BY <2>2, <2>3
<1>4. ASSUME NEW c \in Clients, AccountStep(c), UNCHANGED tokenVars
      PROVE  ChainInv' /\ LinksInv'
  <2>1. UNCHANGED <<tokens, dead, raced, signins>>
    BY <1>4 DEF tokenVars
  <2>2. Only(c) /\ Continues(c) /\ JarKept /\ UNCHANGED links
    BY <1>1, <1>4, StepEffect
  <2> QED BY <1>2, <2>1, <2>2, ChainAccount DEF Continues
<1>5. ASSUME NEW c \in Clients, NEW b \in Browsers,
             handleRefresh(c, b) \/ handleLogout(c, b) \/ handleLogoutAll(c, b) \/ LogoutAll(c, b)
      PROVE  ChainInv' /\ LinksInv'
  <2>1. /\ ChainInv' /\ Only(c) /\ UNCHANGED <<links, signins>>
        /\ req'[c] \in {None, req[c]} \/ req'[c].link = None
    BY <1>5, SessionRequests
  <2> QED BY <1>2, <2>1 DEF SameLink
<1>6. ASSUME NEW c \in Clients,
             insertToken(c) \/ selectToken(c) \/ RotateRefreshToken(c) \/ reuseDetected(c)
               \/ RevokeFamily(c) \/ RevokeAll(c)
      PROVE  ChainInv' /\ LinksInv'
  <2>1. /\ ChainInv' /\ Only(c) /\ UNCHANGED <<links, signins>>
        /\ req'[c] = None \/ (req[c] # None /\ req[c].op # "exchange" /\ req'[c].link = req[c].link)
    BY <1>6, InsertKeeps, SelectKeeps, RotateKeeps, RevokesKeep
  <2> QED BY <1>2, <2>1 DEF SameLink
<1>7. ASSUME NEW c \in Clients, issueSession(c) PROVE ChainInv' /\ LinksInv'
  BY <1>1, <1>7, IssueKeeps, LinksIssue
<1>8. ASSUME \/ \E b \in Browsers : AccessExpires(b)
             \/ \E f : FamilyExpires(f)
             \/ \E c \in Clients : Abort(c)
      PROVE  ChainInv' /\ LinksInv'
  <2>1. /\ ChainInv' /\ UNCHANGED <<links, signins>>
        /\ \A d \in Clients : req'[d] \in {None, req[d]}
    BY <1>8, QuietSessions
  <2> QED BY <2>1, LinksKept, LinksType
<1> QED BY <1>3, <1>4, <1>5, <1>6, <1>7, <1>8, LinksTime DEF PeopleNext

SessionsInv == ChainInv /\ LinksInv

\* A step of the process, of its sessions or of another part.
LEMMA SessionsHold == Spec => []SessionsInv
<1>1. Init => SessionsInv
  BY SessionsStart DEF Init, SessionsInv
<1>2. SessionsInv /\ [Next]_vars => SessionsInv'
  <2> SUFFICES ASSUME SessionsInv, [Next]_vars PROVE SessionsInv'
    OBVIOUS
  <2>1. CASE PeopleNext
    BY <2>1, PeopleStep DEF SessionsInv
  <2>2. CASE UNCHANGED <<accountVars, tokenVars>>
    <3>1. UNCHANGED <<req, jar, tokens, dead, raced, signins, links>> /\ Shape
      BY <2>2 DEF accountVars, tokenVars, SessionsInv, ChainInv
    <3>2. ChainInv'
      BY <3>1, SameJarOK, ChainKept DEF Shape, SessionsInv
    <3> QED BY <3>1, <3>2, LinksKept, LinksType DEF SessionsInv
  <2> QED BY <2>1, <2>2 DEF Next, vars
<1> QED BY <1>1, <1>2, PTL DEF Spec

\* ChainIntact holds for every number of requests, browsers, users and tokens:
\* whatever refreshes, reuses, sign-ins and logouts come in which order, a login
\* that no rotation raced has one refresh token at most that works, and none
\* once it was ended.
THEOREM OneTokenWorks == Spec => []ChainIntact
<1>1. SessionsInv => ChainIntact
  <2> SUFFICES ASSUME ChainInv, NEW f \in {FamilyOf(i) : i \in DOMAIN tokens} \ raced
               PROVE  Cardinality(Live(f)) <= 1 /\ (f \in dead => Live(f) = {})
    BY DEF SessionsInv, ChainIntact
  <2>1. f \in DOMAIN tokens
    BY DEF FamilyOf, ChainInv, FamiliesOK
  <2>2. LoneChain(f)
    BY <2>1 DEF ChainInv
  <2>3. CASE Live(f) = {}
    BY <2>3, FS_EmptySet
  <2>4. ASSUME NEW i \in Live(f) PROVE Cardinality(Live(f)) <= 1
    <3>1. Live(f) = {i}
      BY <2>2 DEF LoneChain
    <3>2. Cardinality({i}) = 1
      BY FS_Singleton
    <3> QED BY <3>1, <3>2
  <2> QED BY <2>2, <2>3, <2>4 DEF LoneChain
<1> QED BY <1>1, SessionsHold, PTL

\* OneSignInPerLink holds for every number of requests and links: of the
\* requests that carry a mailed link at once, GETDEL gives it to one.
THEOREM LinksSignInOnce == Spec => []OneSignInPerLink
<1>1. SessionsInv => OneSignInPerLink
  BY DEF SessionsInv, LinksInv, LinkOK, OneSignInPerLink
<1> QED BY <1>1, SessionsHold, PTL

-----------------------------------------------------------------------------
(* The history: rows are added, incidents end, nothing else changes a row. *)

ResultRow == [mon : Sites, region : CheckRegions, at : Nat]
Authors   == {userOf(p) : p \in Staff} \cup {Null}
IncRow    == [mon : Sites, at : Nat, ended : Nat \cup {Null}, reason : {Null, "recovered", "manual"},
              by : Authors]
NoteRow   == [inc : Nat, by : Authors]

TablesFit ==
  /\ now \in Nat /\ results \in Seq(ResultRow) /\ incs \in Seq(IncRow) /\ notes \in Seq(NoteRow)

\* What a request on one incident has read is still so.
DeskRow(a) == a = [inc |-> a.inc, row |-> a.row, known |-> a.known, shown |-> a.shown]
DeskFits(a) ==
  /\ DeskRow(a) /\ a.inc \in DOMAIN incs
  /\ a.row.ended # Null => incs[a.inc] = a.row
  /\ a.known \subseteq {k \in DOMAIN notes : notes[k].inc = a.inc}
  /\ a.shown # Null /\ incs[a.inc].mon \notin gone => a.known \subseteq a.shown
DesksFit == desk = [d \in Desks |-> desk[d]] /\ \A d \in Desks : desk[d] # Null => DeskFits(desk[d])

\* What a step may do to the rows there are.
Ages ==
  /\ now' \in Nat /\ now <= now' /\ gone \subseteq gone'
  /\ DOMAIN results \subseteq DOMAIN results' /\ \A i \in DOMAIN results : results'[i] = results[i]
  /\ DOMAIN notes \subseteq DOMAIN notes' /\ \A i \in DOMAIN notes : notes'[i] = notes[i]
  /\ DOMAIN incs \subseteq DOMAIN incs'
  /\ \A i \in DOMAIN incs : /\ incs'[i].mon = incs[i].mon /\ incs'[i].at = incs[i].at
                            /\ incs[i].ended # Null => incs'[i] = incs[i]

LEMMA SeqGrows ==
  ASSUME NEW S, NEW s \in Seq(S), NEW e \in S, NEW t, t = Append(s, e)
  PROVE  /\ t \in Seq(S) /\ DOMAIN s \subseteq DOMAIN t /\ \A i \in DOMAIN s : t[i] = s[i]
<1>1. t \in Seq(S) /\ Len(t) = Len(s) + 1 /\ \A i \in 1..Len(s) : t[i] = s[i]
  BY AppendProperties
<1>2. DOMAIN s = 1..Len(s) /\ DOMAIN t = 1..Len(t) /\ Len(s) \in Nat
  BY <1>1, LenProperties
<1> QED BY <1>1, <1>2

LEMMA NoNumbers == Null \notin Nat /\ Garbled \notin Nat /\ End \notin Nat
BY HistoryAssumption

LEMMA DeskAges ==
  ASSUME TablesFit, Ages, NEW a, DeskFits(a)
  PROVE  DeskFits(a)'
BY DEF DeskFits, Ages, DeskRow

LEMMA DesksAge ==
  ASSUME TablesFit, Ages, DesksFit, UNCHANGED desk
  PROVE  DesksFit'
<1>1. \A d \in Desks : desk[d] # Null => DeskFits(desk[d])'
  <2> SUFFICES ASSUME NEW d \in Desks, desk[d] # Null PROVE DeskFits(desk[d])'
    OBVIOUS
  <2>1. PICK a : a = desk[d]
    OBVIOUS
  <2>2. DeskFits(a)'
    BY <2>1, DeskAges DEF DesksFit
  <2> QED BY <2>1, <2>2
<1> QED BY <1>1 DEF DesksFit

LEMMA DeskSet ==
  ASSUME TablesFit, Ages, DesksFit, NEW d \in Desks, NEW a, desk' = [desk EXCEPT ![d] = a],
         a # Null => DeskFits(a)'
  PROVE  DesksFit'
<1>1. desk = [x \in Desks |-> desk[x]]
  BY DEF DesksFit
<1>2. desk' = [x \in Desks |-> desk'[x]] /\ \A x \in Desks : desk'[x] = IF x = d THEN a ELSE desk[x]
  BY <1>1
<1>3. \A x \in Desks : desk'[x] # Null => DeskFits(desk[x])'
  <2> SUFFICES ASSUME NEW x \in Desks, desk'[x] # Null PROVE DeskFits(desk[x])'
    OBVIOUS
  <2>1. PICK b : b = desk'[x]
    OBVIOUS
  <2>2. CASE x = d
    BY <2>1, <2>2, <1>2
  <2>3. CASE x # d
    <3>1. DeskFits(b) /\ b = desk[x]
      BY <2>1, <2>3, <1>2 DEF DesksFit
    <3>2. DeskFits(b)'
      BY <3>1, DeskAges
    <3> QED BY <2>1, <3>2
  <2> QED BY <2>2, <2>3
<1> QED BY <1>2, <1>3 DEF DesksFit

LEMMA TablesStill ==
  ASSUME TablesFit, UNCHANGED <<now, tables>>
  PROVE  TablesFit' /\ Ages
BY DEF TablesFit, tables, Ages

\* An incident ends in place.
LEMMA IncEnds ==
  ASSUME TablesFit, NEW i \in DOMAIN incs, incs[i].ended = Null, NEW row \in IncRow,
         row.mon = incs[i].mon, row.at = incs[i].at, incs' = [incs EXCEPT ![i] = row],
         UNCHANGED <<now, results, notes, gone>>
  PROVE  TablesFit' /\ Ages
<1>1. incs \in Seq(IncRow) /\ DOMAIN incs = 1..Len(incs)
  BY LenProperties DEF TablesFit
<1>2. incs' \in Seq(IncRow) /\ DOMAIN incs' = DOMAIN incs /\ incs'[i] = row
      /\ \A j \in DOMAIN incs : j # i => incs'[j] = incs[j]
  <2> HIDE DEF IncRow
  <2> QED BY <1>1, ExceptSeq
<1> QED BY <1>2 DEF TablesFit, Ages

LEMMA TableSteps ==
  ASSUME TablesFit,
         \/ Tick \/ Deletes \/ Alerts
         \/ \E m \in Sites, region \in CheckRegions, at \in 0..MaxClock : UpsertCheckResult(m, region, at)
  PROVE  TablesFit' /\ Ages /\ UNCHANGED <<walk, desk>>
<1>1. CASE Tick
  BY <1>1 DEF Tick, TablesFit, tables, Ages
<1>2. CASE Deletes
  BY <1>2 DEF Deletes, DeleteMonitor, TablesFit, Ages
<1>3. ASSUME NEW m \in Sites, NEW at \in 0..MaxClock, ApplyAlertDecision(m, at)
      PROVE  TablesFit' /\ Ages /\ UNCHANGED <<walk, desk>>
  <2>1. at \in Nat /\ UNCHANGED <<now, results, notes, gone, walk, desk>>
    BY <1>3, HistoryAssumption DEF ApplyAlertDecision
  <2>2. CASE incs' = Append(incs, [mon |-> m, at |-> at, ended |-> Null, reason |-> Null, by |-> Null])
    <3>1. PICK row : row = [mon |-> m, at |-> at, ended |-> Null, reason |-> Null, by |-> Null]
      OBVIOUS
    <3>2. row \in IncRow
      BY <2>1, <3>1 DEF IncRow, Authors
    <3>3. incs \in Seq(IncRow) /\ incs' = Append(incs, row)
      BY <2>2, <3>1 DEF TablesFit
    <3>4. incs' \in Seq(IncRow) /\ DOMAIN incs \subseteq DOMAIN incs' /\ \A i \in DOMAIN incs : incs'[i] = incs[i]
      BY <3>2, <3>3, SeqGrows
    <3> QED BY <2>1, <3>4 DEF TablesFit, Ages
  <2>3. ASSUME NEW i \in OpenOf(m), incs' = [incs EXCEPT ![i].ended = at, ![i].reason = "recovered"]
        PROVE  TablesFit' /\ Ages
    <3>1. i \in DOMAIN incs /\ incs[i].ended = Null /\ incs[i] \in IncRow
      BY ElementOfSeq, LenProperties DEF OpenOf, TablesFit
    <3>2. PICK r \in IncRow : r = incs[i]
      BY <3>1
    <3>3. PICK q : q = [r EXCEPT !.ended = at]
      OBVIOUS
    <3>4. PICK row : row = [q EXCEPT !.reason = "recovered"]
      OBVIOUS
    <3>5. q \in IncRow /\ q.mon = r.mon /\ q.at = r.at
      BY <2>1, <3>3 DEF IncRow
    <3>6. row \in IncRow /\ row.mon = r.mon /\ row.at = r.at
      BY <3>4, <3>5 DEF IncRow
    <3>7. incs' = [incs EXCEPT ![i] = row]
      <4>1. PICK g : g = [incs EXCEPT ![i].ended = at]
        OBVIOUS
      <4>2. g = [incs EXCEPT ![i] = q] /\ g[i] = q
        BY <3>1, <3>2, <3>3, <4>1
      <4>3. incs' = [g EXCEPT ![i].reason = "recovered"]
        BY <2>3, <4>1
      <4>4. incs' = [g EXCEPT ![i] = row]
        BY <3>4, <4>2, <4>3
      <4> QED BY <4>2, <4>4
    <3> QED BY <2>1, <3>1, <3>2, <3>6, <3>7, IncEnds
  <2> QED BY <1>3, <2>1, <2>2, <2>3 DEF ApplyAlertDecision
<1>4. ASSUME NEW m \in Sites, NEW region \in CheckRegions, NEW at \in 0..MaxClock, UpsertCheckResult(m, region, at)
      PROVE  TablesFit' /\ Ages /\ UNCHANGED <<walk, desk>>
  <2>1. at \in Nat /\ UNCHANGED <<now, incs, notes, gone, walk, desk>>
    BY <1>4, HistoryAssumption DEF UpsertCheckResult
  <2>2. PICK row : row = [mon |-> m, region |-> region, at |-> at]
    OBVIOUS
  <2>3. row \in ResultRow
    BY <2>1, <2>2 DEF ResultRow
  <2>4. results \in Seq(ResultRow) /\ results' = Append(results, row)
    BY <1>4, <2>2 DEF TablesFit, UpsertCheckResult
  <2>5. /\ results' \in Seq(ResultRow) /\ DOMAIN results \subseteq DOMAIN results'
        /\ \A i \in DOMAIN results : results'[i] = results[i]
    BY <2>3, <2>4, SeqGrows
  <2> QED BY <2>1, <2>5 DEF TablesFit, Ages
<1> QED BY <1>1, <1>2, <1>3, <1>4 DEF Alerts

LEMMA DeskSteps ==
  ASSUME TablesFit, DesksFit,
         \/ \E p \in Staff, i \in DOMAIN incs :
              \/ \E note \in {"text", "blank", "long"} : AddIncidentAnnotation(p, i, note)
              \/ \E d \in Desks : GetIncident(d, p, i) \/ CloseIncident(d, p, i)
         \/ \E d \in Desks : ListIncidentAnnotations(d) \/ DetailFails(d)
  PROVE  TablesFit' /\ Ages /\ DesksFit' /\ UNCHANGED walk
<1>1. ASSUME NEW p \in Staff, NEW i \in DOMAIN incs, NEW note, AddIncidentAnnotation(p, i, note)
      PROVE  TablesFit' /\ Ages /\ DesksFit' /\ UNCHANGED walk
  <2>1. UNCHANGED <<now, results, incs, gone, walk, desk>>
    BY <1>1 DEF AddIncidentAnnotation
  <2>2. PICK row : row = [inc |-> i, by |-> userOf(p)]
    OBVIOUS
  <2>3. row \in NoteRow
    BY <2>2, LenProperties DEF NoteRow, Authors, TablesFit
  <2>4. notes \in Seq(NoteRow) /\ notes' = Append(notes, row)
    BY <1>1, <2>2 DEF TablesFit, AddIncidentAnnotation
  <2>5. /\ notes' \in Seq(NoteRow) /\ DOMAIN notes \subseteq DOMAIN notes'
        /\ \A k \in DOMAIN notes : notes'[k] = notes[k]
    BY <2>3, <2>4, SeqGrows
  <2>6. TablesFit' /\ Ages
    BY <2>1, <2>5 DEF TablesFit, Ages
  <2> QED BY <2>1, <2>6, DesksAge
<1>2. ASSUME NEW p \in Staff, NEW i \in DOMAIN incs, NEW d \in Desks, GetIncident(d, p, i)
      PROVE  TablesFit' /\ Ages /\ DesksFit' /\ UNCHANGED walk
  <2>1. UNCHANGED <<now, tables, walk>>
    BY <1>2 DEF GetIncident
  <2>2. TablesFit' /\ Ages
    BY <2>1, TablesStill
  <2>3. PICK a : a = [inc |-> i, row |-> incs[i], known |-> NotesOf(i), shown |-> Null]
    OBVIOUS
  <2>4. a.inc = i /\ a.row = incs[i] /\ a.known = NotesOf(i) /\ a.shown = Null /\ DeskRow(a)
    BY <2>3 DEF DeskRow
  <2>5. DeskFits(a)'
    BY <2>1, <2>4 DEF DeskFits, DeskRow, NotesOf, tables
  <2>6. desk' = [desk EXCEPT ![d] = a]
    BY <1>2, <2>3 DEF GetIncident, HaveRow
  <2> QED BY <2>1, <2>2, <2>5, <2>6, DeskSet
<1>3. ASSUME NEW p \in Staff, NEW i \in DOMAIN incs, NEW d \in Desks, CloseIncident(d, p, i)
      PROVE  TablesFit' /\ Ages /\ DesksFit' /\ UNCHANGED walk
  <2>1. UNCHANGED <<now, results, notes, gone, walk>> /\ incs[i].ended = Null
    BY <1>3 DEF CloseIncident, closable
  <2>2. PICK row : row = Ended(i, p)
    OBVIOUS
  <2>3. row \in IncRow /\ row.mon = incs[i].mon /\ row.at = incs[i].at
    <3>1. PICK r \in IncRow : r = incs[i]
      BY ElementOfSeq, LenProperties DEF TablesFit
    <3>2. now \in Nat /\ userOf(p) \in Authors
      BY DEF TablesFit, Authors
    <3>3. row = [r EXCEPT !.ended = now, !.reason = "manual", !.by = userOf(p)]
      BY <2>2, <3>1 DEF Ended
    <3> QED BY <3>1, <3>2, <3>3 DEF IncRow
  <2>4. incs' = [incs EXCEPT ![i] = row]
    BY <1>3, <2>1, <2>2 DEF CloseIncident
  <2>5. TablesFit' /\ Ages
    BY <2>1, <2>3, <2>4, IncEnds
  <2>6. PICK a : a = [inc |-> i, row |-> row, known |-> NotesOf(i), shown |-> Null]
    OBVIOUS
  <2>7. a.inc = i /\ a.row = row /\ a.known = NotesOf(i) /\ a.shown = Null /\ DeskRow(a)
    BY <2>6 DEF DeskRow
  <2>8. i \in DOMAIN incs' /\ incs'[i] = row
    BY <2>4
  <2>9. DeskFits(a)'
    BY <2>1, <2>7, <2>8 DEF DeskFits, DeskRow, NotesOf
  <2>10. desk' = [desk EXCEPT ![d] = a]
    BY <1>3, <2>2, <2>6 DEF CloseIncident, HaveRow
  <2> QED BY <2>1, <2>5, <2>9, <2>10, DeskSet
<1>4. ASSUME NEW d \in Desks, ListIncidentAnnotations(d)
      PROVE  TablesFit' /\ Ages /\ DesksFit' /\ UNCHANGED walk
  <2>1. UNCHANGED <<now, tables, walk>>
    BY <1>4 DEF ListIncidentAnnotations
  <2>2. TablesFit' /\ Ages
    BY <2>1, TablesStill
  <2>3. PICK b : b = desk[d]
    OBVIOUS
  <2>4. DeskFits(b) /\ DeskRow(b)
    BY <1>4, <2>3 DEF ListIncidentAnnotations, DesksFit, DeskFits
  <2>5. PICK a : a = [b EXCEPT !.shown = NotesOf(b.inc)]
    OBVIOUS
  <2>6. a.inc = b.inc /\ a.row = b.row /\ a.known = b.known /\ a.shown = NotesOf(b.inc) /\ DeskRow(a)
    BY <2>4, <2>5 DEF DeskRow
  <2>7. DeskFits(a)'
    BY <2>1, <2>4, <2>6 DEF DeskFits, DeskRow, NotesOf, tables
  <2>8. desk' = [desk EXCEPT ![d] = a]
    BY <1>4, <2>3, <2>5 DEF ListIncidentAnnotations
  <2> QED BY <2>1, <2>2, <2>7, <2>8, DeskSet
<1>5. ASSUME NEW d \in Desks, DetailFails(d)
      PROVE  TablesFit' /\ Ages /\ DesksFit' /\ UNCHANGED walk
  <2>1. UNCHANGED <<now, tables, walk>> /\ desk' = [desk EXCEPT ![d] = Null]
    BY <1>5 DEF DetailFails
  <2>2. TablesFit' /\ Ages
    BY <2>1, TablesStill
  <2> QED BY <2>1, <2>2, DeskSet
<1> QED BY <1>1, <1>2, <1>3, <1>4, <1>5

-----------------------------------------------------------------------------
(* Lists read page by page. *)

WalkRow(w) ==
  w = [org |-> w.org, list |-> w.list, mon |-> w.mon, region |-> w.region, range |-> w.range,
       open |-> w.open, cursor |-> w.cursor, pages |-> w.pages, owed |-> w.owed]

TimeOf(w, i) == Table(w.list)[i].at

\* Below the cursor, or no page was read yet.
Ahead(w, i) == parseTimeCursor(w.cursor) = Null \/ TimeOf(w, i) < parseTimeCursor(w.cursor)
Shown(w)    == UNION {w.pages[k] : k \in DOMAIN w.pages}

\* A walk that may go on, or begin.  What is owed was shown, is below the cursor,
\* ties with it, or does not match any more.
Ready(w) ==
  /\ WalkRow(w) /\ w.list \in {"results", "monitor", "org"} /\ w.range \in Nat
  /\ w.pages \in Seq(SUBSET DOMAIN Table(w.list)) /\ w.owed \subseteq DOMAIN Table(w.list)
  /\ \A k, l \in DOMAIN w.pages : k # l => w.pages[k] \cap w.pages[l] = {}
  /\ \/ parseTimeCursor(w.cursor) = Null /\ w.pages = << >>
     \/ parseTimeCursor(w.cursor) \in Nat /\ \A i \in Shown(w) : ~ Ahead(w, i)
     \/ w.cursor = End
  /\ \A i \in w.owed :
       i \in Shown(w) \/ i \in Tied(w) \/ i \notin Matching(w) \/ (w.cursor # End /\ Ahead(w, i))

WalksFit == walk = [r \in Pages |-> walk[r]] /\ \A r \in Pages : walk[r] # Null => Ready(walk[r])

\* The least time of a page.
LEMMA OldestOf ==
  ASSUME NEW rows, NEW page, page # {}, \A i \in page : rows[i].at \in Nat
  PROVE  \E t \in Nat : /\ t = CHOOSE x \in {rows[i].at : i \in page} : \A i \in page : x <= rows[i].at
                        /\ \E i \in page : rows[i].at = t
                        /\ \A i \in page : t <= rows[i].at
<1> DEFINE T == {rows[i].at : i \in page}
<1>1. T \subseteq Nat /\ T # {}
  OBVIOUS
<1>2. PICK R : R = {ss \in Nat \X Nat : ss[1] < ss[2]}
  OBVIOUS
<1>3. IsWellFoundedOn(R, Nat)
  <2>1. IsWellFoundedOn({ss \in Nat \X Nat : ss[1] < ss[2]}, Nat)
    BY NatLessThanWellFounded, Zenon DEF OpToRel
  <2> QED BY <1>2, <2>1
<1>4. PICK x \in T : \A y \in T : ~ (<<y, x>> \in R)
  <2> HIDE DEF T
  <2> QED BY <1>1, <1>3, WFMin
<1>5. \A y \in T : x <= y
  <2> SUFFICES ASSUME NEW y \in T PROVE x <= y
    OBVIOUS
  <2>1. x \in Nat /\ y \in Nat /\ ~ (<<y, x>> \in R)
    BY <1>1, <1>4
  <2> HIDE DEF T
  <2>2. <<y, x>> \in Nat \X Nat
    BY <2>1
  <2>3. y < x => <<y, x>> \in R
    BY <2>2, <1>2
  <2> QED BY <2>1, <2>3
<1>6. \A i \in page : x <= rows[i].at
  BY <1>5
<1>7. PICK t : t = CHOOSE z \in T : \A i \in page : z <= rows[i].at
  OBVIOUS
<1>8. t \in T /\ \A i \in page : t <= rows[i].at
  BY <1>6, <1>7
<1> QED BY <1>1, <1>7, <1>8

LEMMA RowsKnown ==
  ASSUME TablesFit, NEW list
  PROVE  /\ IsFiniteSet(DOMAIN Table(list)) /\ \A i \in DOMAIN Table(list) : Table(list)[i].at \in Nat
         /\ Table(list) \in {results, incs}
<1>1. ASSUME NEW s, NEW S, s \in Seq(S), \A x \in S : x.at \in Nat
      PROVE  IsFiniteSet(DOMAIN s) /\ \A i \in DOMAIN s : s[i].at \in Nat
  <2>1. Len(s) \in Nat /\ DOMAIN s = 1..Len(s)
    BY <1>1, LenProperties
  <2>2. IsFiniteSet(1..Len(s))
    BY <2>1, FS_Interval
  <2> QED BY <1>1, <2>1, <2>2, ElementOfSeq
<1>2. (\A x \in ResultRow : x.at \in Nat) /\ (\A x \in IncRow : x.at \in Nat)
  BY DEF ResultRow, IncRow
<1>3. Table(list) \in {results, incs}
  BY DEF Table
<1> QED BY <1>1, <1>2, <1>3 DEF TablesFit

\* What a walk becomes with one more page.
Longer(w, page, v) ==
  /\ WalkRow(v)
  /\ v.org = w.org /\ v.list = w.list /\ v.mon = w.mon /\ v.region = w.region /\ v.range = w.range
  /\ v.open = w.open /\ v.owed = w.owed
  /\ v.pages = Append(w.pages, page) /\ v.cursor = NextCursor(w.list, page)

LEMMA LongerIs ==
  ASSUME NEW w, WalkRow(w), NEW page, NEW v,
         v = [w EXCEPT !.pages = Append(@, page), !.cursor = NextCursor(w.list, page)]
  PROVE  Longer(w, page, v)
<1>1. PICK c : c = NextCursor(w.list, page)
  OBVIOUS
<1>2. PICK ps : ps = Append(w.pages, page)
  OBVIOUS
<1>3. v = [w EXCEPT !.pages = ps, !.cursor = c]
  BY <1>1, <1>2
<1> QED BY <1>1, <1>2, <1>3 DEF WalkRow, Longer

\* The page just read.
LEMMA PageRead ==
  ASSUME TablesFit, NEW w, Ready(w), w.cursor # End, NEW page \in Limited(w)
  PROVE  /\ \A i \in page : i \in DOMAIN Table(w.list) /\ Ahead(w, i) /\ TimeOf(w, i) \in Nat
         /\ \A i \in Matching(w) \ page : Ahead(w, i) => \A j \in page : TimeOf(w, i) <= TimeOf(w, j)
         /\ Cardinality(page) # PageSize => \A i \in Matching(w) : Ahead(w, i) => i \in page
         /\ Cardinality(page) = PageSize => page # {}
<1>1. \A i \in DOMAIN Table(w.list) : TimeOf(w, i) \in Nat
  BY RowsKnown DEF TimeOf
<1>2. Before(w) = {i \in Matching(w) : Ahead(w, i)} /\ Matching(w) \subseteq DOMAIN Table(w.list)
  BY DEF Before, Ahead, TimeOf, Matching
<1>3. page \subseteq Before(w)
  BY DEF Limited
<1>4. IsFiniteSet(Before(w)) /\ IsFiniteSet(page)
  BY <1>2, <1>3, RowsKnown, FS_Subset
<1>5. Cardinality(Before(w)) \in Nat /\ Cardinality(page) \in Nat /\ PageSize \in Nat /\ PageSize # 0
  BY <1>4, FS_CardinalityType, HistoryAssumption
<1>6. Cardinality(page) # PageSize => page = Before(w)
  <2>1. Cardinality(page) # PageSize => Cardinality(page) = Cardinality(Before(w))
    BY <1>5 DEF Limited
  <2> QED BY <2>1, <1>3, <1>4, FS_Subset
<1>7. Cardinality(page) = PageSize => page # {}
  BY <1>5, FS_EmptySet
<1>8. ASSUME NEW i \in Matching(w) \ page, Ahead(w, i), NEW j \in page
      PROVE  TimeOf(w, i) <= TimeOf(w, j)
  <2>1. Newer(w.list, j, i)
    BY <1>2, <1>8 DEF Limited
  <2>2. TimeOf(w, i) \in Nat /\ TimeOf(w, j) \in Nat
    BY <1>1, <1>2, <1>3
  <2> QED BY <2>1, <2>2 DEF Newer, TimeOf
<1> QED BY <1>1, <1>2, <1>3, <1>6, <1>7, <1>8

LEMMA PageAdded ==
  ASSUME TablesFit, NEW w, Ready(w), w.cursor # End, NEW page \in Limited(w), NEW v, Longer(w, page, v)
  PROVE  /\ v.pages \in Seq(SUBSET DOMAIN Table(v.list)) /\ Shown(v) = Shown(w) \cup page
         /\ Matching(v) = Matching(w) /\ Tied(w) \subseteq Tied(v)
         /\ Cardinality(page) = PageSize =>
              \A i \in w.owed : TimeOf(w, i) = Oldest(w.list, page) => i \in Tied(v)
         /\ \A k, l \in DOMAIN v.pages : k # l => v.pages[k] \cap v.pages[l] = {}
<1>1. PICK S : S = SUBSET DOMAIN Table(w.list)
  OBVIOUS
<1>2. w.pages \in Seq(S) /\ page \in S
  BY <1>1, PageRead DEF Ready
<1>3. PICK n \in Nat : n = Len(w.pages)
  BY <1>2, LenProperties
<1>4. /\ v.pages \in Seq(S) /\ DOMAIN w.pages = 1..n /\ DOMAIN v.pages = 1..(n + 1)
      /\ v.pages[n + 1] = page /\ \A k \in 1..n : v.pages[k] = w.pages[k]
  BY <1>2, <1>3, AppendProperties, LenProperties DEF Longer
<1>5. v.list = w.list /\ v.owed = w.owed
  BY DEF Longer
<1>6. Shown(v) = Shown(w) \cup page
  <2>1. \A k \in DOMAIN v.pages : k \in 1..n \/ k = n + 1
    BY <1>4
  <2>2. \A k \in 1..n : k \in DOMAIN v.pages
    BY <1>4
  <2>3. n + 1 \in DOMAIN v.pages
    BY <1>4
  <2>4. Shown(v) \subseteq Shown(w) \cup page
    BY <1>4, <2>1 DEF Shown
  <2>5. Shown(w) \cup page \subseteq Shown(v)
    BY <1>4, <2>2, <2>3 DEF Shown
  <2> QED BY <2>4, <2>5
<1>7. Matching(v) = Matching(w)
  BY DEF Longer, Matching
<1>8. Tied(w) \subseteq Tied(v)
  BY <1>4, <1>5 DEF Tied
<1>9. ASSUME Cardinality(page) = PageSize, NEW i \in w.owed, TimeOf(w, i) = Oldest(w.list, page)
      PROVE  i \in Tied(v)
  <2>1. n + 1 \in DOMAIN v.pages /\ Cardinality(v.pages[n + 1]) = PageSize
    BY <1>4, <1>9
  <2> QED BY <1>4, <1>5, <1>9, <2>1 DEF Tied, TimeOf
<1>10. \A k \in 1..n : w.pages[k] \cap page = {}
  <2> SUFFICES ASSUME NEW k \in 1..n, NEW i \in w.pages[k], i \in page PROVE FALSE
    OBVIOUS
  <2>1. i \in Shown(w) /\ DOMAIN w.pages # {}
    BY <1>4 DEF Shown
  <2>2. Ahead(w, i)
    BY PageRead
  <2>3. w.pages # << >>
    BY <1>4
  <2> QED BY <2>1, <2>2, <2>3 DEF Ready
<1>11. \A k, l \in DOMAIN v.pages : k # l => v.pages[k] \cap v.pages[l] = {}
  <2> SUFFICES ASSUME NEW k \in 1..(n + 1), NEW l \in 1..(n + 1), k # l
               PROVE  v.pages[k] \cap v.pages[l] = {}
    BY <1>4
  <2>1. CASE k \in 1..n /\ l \in 1..n
    BY <2>1, <1>4 DEF Ready
  <2>2. CASE k \in 1..n /\ l = n + 1
    BY <2>2, <1>4, <1>10
  <2>3. CASE k = n + 1 /\ l \in 1..n
    BY <2>3, <1>4, <1>10
  <2> QED BY <2>1, <2>2, <2>3
<1> QED BY <1>1, <1>4, <1>5, <1>6, <1>7, <1>8, <1>9, <1>11

LEMMA PageStep ==
  ASSUME TablesFit, NEW w, Ready(w), w.cursor # End, NEW page \in Limited(w), NEW v, Longer(w, page, v)
  PROVE  Ready(v)
<1>1. WalkRow(v) /\ v.list = w.list /\ v.range = w.range /\ v.owed = w.owed /\ v.cursor = NextCursor(w.list, page)
  BY DEF Longer
<1>2. /\ WalkRow(v) /\ v.list \in {"results", "monitor", "org"} /\ v.range \in Nat
      /\ v.pages \in Seq(SUBSET DOMAIN Table(v.list)) /\ v.owed \subseteq DOMAIN Table(v.list)
      /\ \A k, l \in DOMAIN v.pages : k # l => v.pages[k] \cap v.pages[l] = {}
  BY <1>1, PageAdded DEF Ready
<1>3. Shown(v) = Shown(w) \cup page /\ Matching(v) = Matching(w) /\ Tied(w) \subseteq Tied(v)
  BY PageAdded
<1>4. CASE Cardinality(page) # PageSize
  <2>1. v.cursor = End
    BY <1>1, <1>4 DEF NextCursor
  <2>2. \A i \in v.owed : i \in Shown(v) \/ i \in Tied(v) \/ i \notin Matching(v)
    BY <1>1, <1>3, <1>4, PageRead DEF Ready
  <2> QED BY <1>2, <2>1, <2>2 DEF Ready
<1>5. CASE Cardinality(page) = PageSize
  <2>1. PICK t \in Nat : /\ t = Oldest(w.list, page)
                         /\ \E j \in page : TimeOf(w, j) = t
                         /\ \A j \in page : t <= TimeOf(w, j)
    <3>1. page # {} /\ \A j \in page : Table(w.list)[j].at \in Nat
      BY <1>5, PageRead DEF TimeOf
    <3>2. PICK rows : rows = Table(w.list)
      OBVIOUS
    <3> QED BY <3>1, <3>2, OldestOf DEF Oldest, TimeOf
  <2>2. v.cursor = t
    BY <1>1, <1>5, <2>1 DEF NextCursor, nextTimeCursor
  <2>3. parseTimeCursor(v.cursor) = t /\ t # Null /\ v.cursor # End
    BY <2>2, NoNumbers DEF parseTimeCursor
  <2>4. ASSUME NEW i PROVE Ahead(v, i) <=> TimeOf(w, i) < t
    <3>1. TimeOf(v, i) = TimeOf(w, i)
      BY <1>1 DEF TimeOf
    <3> QED BY <2>3, <3>1 DEF Ahead
  <2>5. \A i \in Shown(v) : ~ Ahead(v, i)
    <3> SUFFICES ASSUME NEW i \in Shown(v) PROVE ~ (TimeOf(w, i) < t)
      BY <2>4
    <3>1. CASE i \in page
      BY <3>1, <2>1, PageRead
    <3>2. CASE i \in Shown(w)
      <4>1. w.pages # << >>
        BY <3>2 DEF Shown
      <4>2. parseTimeCursor(w.cursor) \in Nat /\ ~ Ahead(w, i)
        BY <3>2, <4>1 DEF Ready
      <4>3. PICK j \in page : TimeOf(w, j) = t
        BY <2>1
      <4>4. t < parseTimeCursor(w.cursor)
        BY <4>2, <4>3, NoNumbers, PageRead DEF Ahead
      <4>5. i \in DOMAIN Table(w.list)
        BY <3>2, ElementOfSeq, LenProperties DEF Shown, Ready
      <4>6. TimeOf(w, i) \in Nat
        BY <4>5, RowsKnown DEF TimeOf
      <4> QED BY <4>2, <4>4, <4>6 DEF Ahead
    <3> QED BY <1>3, <3>1, <3>2
  <2>6. \A i \in v.owed :
          i \in Shown(v) \/ i \in Tied(v) \/ i \notin Matching(v) \/ (v.cursor # End /\ Ahead(v, i))
    <3> SUFFICES ASSUME NEW i \in w.owed, i \notin page, i \in Matching(w), Ahead(w, i)
                 PROVE  i \in Tied(v) \/ TimeOf(w, i) < t
      BY <1>1, <1>3, <2>3, <2>4 DEF Ready
    <3>1. PICK j \in page : TimeOf(w, j) = t
      BY <2>1
    <3>2. TimeOf(w, i) <= t
      BY <3>1, PageRead
    <3>3. TimeOf(w, i) \in Nat
      BY RowsKnown DEF TimeOf, Ready
    <3>4. TimeOf(w, i) = t => i \in Tied(v)
      BY <1>5, <2>1, PageAdded
    <3> QED BY <3>2, <3>3, <3>4
  <2> QED BY <1>2, <2>3, <2>5, <2>6 DEF Ready
<1> QED BY <1>4, <1>5

LEMMA SeqWidens ==
  ASSUME NEW S, NEW T, S \subseteq T, NEW s \in Seq(S)
  PROVE  s \in Seq(T)
<1>1. Len(s) \in Nat /\ s \in [1..Len(s) -> S]
  BY LenProperties
<1>2. s \in [1..Len(s) -> T]
  BY <1>1
<1> QED BY <1>1, <1>2

\* Rows keep their times, and what does not match any more never will.
LEMMA RowsAge ==
  ASSUME TablesFit, Ages, NEW w, Ready(w)
  PROVE  /\ DOMAIN Table(w.list) \subseteq DOMAIN Table(w.list)'
         /\ \A i \in DOMAIN Table(w.list) : Table(w.list)'[i].at = Table(w.list)[i].at
         /\ \A i \in DOMAIN Table(w.list) : i \in Matching(w)' => i \in Matching(w)
<1>1. CASE w.list = "results"
  <2>1. Table(w.list) = results /\ Table(w.list)' = results'
    BY <1>1 DEF Table
  <2>2. ASSUME NEW i \in DOMAIN results, i \in Matching(w)' PROVE i \in Matching(w)
    <3>1. results'[i] = results[i] /\ results[i].at \in Nat /\ w.range \in Nat /\ now \in Nat /\ now' \in Nat
          /\ now <= now' /\ gone \subseteq gone'
      BY <2>1, RowsKnown DEF Ages, Ready, TablesFit
    <3>2. results[i].at >= now' - w.range
      BY <2>1, <2>2, <3>1, <1>1 DEF Matching, rangeSince
    <3>3. results[i].at >= now - w.range
      BY <3>1, <3>2
    <3> QED BY <1>1, <2>1, <2>2, <3>1, <3>3 DEF Matching, rangeSince
  <2> QED BY <2>1, <2>2 DEF Ages
<1>2. CASE w.list # "results"
  <2>1. Table(w.list) = incs /\ Table(w.list)' = incs'
    BY <1>2 DEF Table
  <2>2. ASSUME NEW i \in DOMAIN incs, i \in Matching(w)' PROVE i \in Matching(w)
    <3>1. incs'[i].mon = incs[i].mon /\ (incs'[i].ended = Null => incs[i].ended = Null) /\ gone \subseteq gone'
      BY DEF Ages
    <3> QED BY <1>2, <2>1, <2>2, <3>1 DEF Matching
  <2> QED BY <2>1, <2>2 DEF Ages
<1> QED BY <1>1, <1>2

LEMMA OldestAges ==
  ASSUME TablesFit, Ages, NEW w, Ready(w), NEW page, page # {}, page \subseteq DOMAIN Table(w.list)
  PROVE  Oldest(w.list, page)' = Oldest(w.list, page)
<1>1. PICK rows : rows = Table(w.list)
  OBVIOUS
<1>2. PICK later : later = Table(w.list)'
  OBVIOUS
<1>3. \A i \in page : later[i].at = rows[i].at /\ rows[i].at \in Nat
  BY <1>1, <1>2, RowsAge, RowsKnown
<1>4. PICK t \in Nat : /\ t = CHOOSE x \in {rows[i].at : i \in page} : \A i \in page : x <= rows[i].at
                       /\ \E i \in page : rows[i].at = t
                       /\ \A i \in page : t <= rows[i].at
  BY <1>3, OldestOf
<1>5. PICK u \in Nat : /\ u = CHOOSE x \in {later[i].at : i \in page} : \A i \in page : x <= later[i].at
                       /\ \E i \in page : later[i].at = u
                       /\ \A i \in page : u <= later[i].at
  BY <1>3, OldestOf
<1>6. t = u
  BY <1>3, <1>4, <1>5
<1>7. Oldest(w.list, page) = t
  BY <1>1, <1>4 DEF Oldest
<1>8. Oldest(w.list, page)' = u
  BY <1>2, <1>5 DEF Oldest
<1> QED BY <1>6, <1>7, <1>8

LEMMA WalkAges ==
  ASSUME TablesFit, Ages, NEW w, Ready(w)
  PROVE  Ready(w)'
<1>1. DOMAIN Table(w.list) \subseteq DOMAIN Table(w.list)'
  BY RowsAge
<1>2. \A i \in DOMAIN Table(w.list) : TimeOf(w, i)' = TimeOf(w, i) /\ (Ahead(w, i)' <=> Ahead(w, i))
  BY RowsAge DEF TimeOf, Ahead
<1>3. w.pages \in Seq(SUBSET DOMAIN Table(w.list)')
  <2>1. SUBSET DOMAIN Table(w.list) \subseteq SUBSET DOMAIN Table(w.list)'
    BY <1>1
  <2> QED BY <2>1, SeqWidens DEF Ready
<1>4. w.owed \subseteq DOMAIN Table(w.list) /\ \A k \in DOMAIN w.pages : w.pages[k] \subseteq DOMAIN Table(w.list)
  BY ElementOfSeq, LenProperties DEF Ready
<1>5. Shown(w)' = Shown(w) /\ Shown(w) \subseteq DOMAIN Table(w.list)
  BY <1>4 DEF Shown
<1>6. Tied(w) \subseteq Tied(w)'
  <2> SUFFICES ASSUME NEW i \in Tied(w) PROVE i \in Tied(w)'
    OBVIOUS
  <2>1. PICK k \in DOMAIN w.pages : /\ Cardinality(w.pages[k]) = PageSize
                                    /\ Table(w.list)[i].at = Oldest(w.list, w.pages[k])
    BY DEF Tied
  <2>2. PICK page : page = w.pages[k]
    OBVIOUS
  <2>3. page # {} /\ page \subseteq DOMAIN Table(w.list)
    BY <2>1, <2>2, <1>4, FS_EmptySet, HistoryAssumption
  <2>4. Oldest(w.list, page)' = Oldest(w.list, page)
    BY <2>3, OldestAges
  <2>5. i \in w.owed /\ i \in DOMAIN Table(w.list)
    BY <1>4 DEF Tied
  <2>6. Table(w.list)'[i].at = Oldest(w.list, page)'
    BY <2>1, <2>2, <2>4, <2>5, RowsAge
  <2> QED BY <2>1, <2>2, <2>5, <2>6 DEF Tied
<1>7. \A i \in w.owed :
        i \in Shown(w)' \/ i \in Tied(w)' \/ i \notin Matching(w)' \/ (w.cursor # End /\ Ahead(w, i)')
  BY <1>2, <1>4, <1>5, <1>6, RowsAge DEF Ready
<1>8. \/ parseTimeCursor(w.cursor) = Null /\ w.pages = << >>
      \/ parseTimeCursor(w.cursor) \in Nat /\ \A i \in Shown(w)' : ~ Ahead(w, i)'
      \/ w.cursor = End
  BY <1>2, <1>5 DEF Ready
<1> QED BY <1>1, <1>3, <1>4, <1>7, <1>8 DEF Ready, WalkRow, parseTimeCursor

LEMMA WalksAge ==
  ASSUME TablesFit, Ages, WalksFit, UNCHANGED walk
  PROVE  WalksFit'
<1>1. ASSUME NEW r \in Pages, walk[r] # Null PROVE Ready(walk[r])'
  <2>1. PICK w : w = walk[r]
    OBVIOUS
  <2>2. Ready(w)'
    BY <1>1, <2>1, WalkAges DEF WalksFit
  <2> QED BY <2>1, <2>2
<1> QED BY <1>1 DEF WalksFit

LEMMA NewWalkReady ==
  ASSUME TablesFit, NEW p, NEW list \in {"results", "monitor", "org"}, NEW m, NEW region,
         NEW range \in Nat, NEW open, NEW c \in {Null, Garbled}, NEW w,
         w = NewWalk(p, list, m, region, range, open, c)
  PROVE  Ready(w) /\ w.cursor # End
<1>1. PICK x : x = [org |-> p.org, list |-> list, mon |-> m, region |-> region, range |-> range,
                    open |-> open, cursor |-> c, pages |-> << >>, owed |-> {}]
  OBVIOUS
<1>2. w = [x EXCEPT !.owed = Matching(x)]
  BY <1>1 DEF NewWalk
<1>3. PICK owed : owed = Matching(x)
  OBVIOUS
<1>4. w = [org |-> p.org, list |-> list, mon |-> m, region |-> region, range |-> range,
           open |-> open, cursor |-> c, pages |-> << >>, owed |-> owed]
  BY <1>1, <1>2, <1>3
<1>5. WalkRow(w) /\ w.list = list /\ w.range = range /\ w.cursor = c /\ w.pages = << >> /\ w.owed = owed
  BY <1>4 DEF WalkRow
<1>6. owed \subseteq DOMAIN Table(list)
  BY <1>1, <1>3 DEF Matching
<1>7. parseTimeCursor(w.cursor) = Null
  BY <1>5 DEF parseTimeCursor
<1>8. << >> \in Seq(SUBSET DOMAIN Table(list)) /\ DOMAIN << >> = {}
  OBVIOUS
<1>9. w.cursor # End
  BY <1>5, HistoryAssumption
<1>10. \A i \in w.owed : w.cursor # End /\ Ahead(w, i)
  BY <1>7, <1>9 DEF Ahead
<1>11. w.pages \in Seq(SUBSET DOMAIN Table(w.list)) /\ w.owed \subseteq DOMAIN Table(w.list)
  BY <1>5, <1>6, <1>8
<1>12. \A k, l \in DOMAIN w.pages : k # l => w.pages[k] \cap w.pages[l] = {}
  BY <1>5, <1>8
<1> QED BY <1>5, <1>7, <1>9, <1>10, <1>11, <1>12 DEF Ready

LEMMA WalkSet ==
  ASSUME TablesFit, WalksFit, UNCHANGED <<now, tables>>, NEW r \in Pages, NEW v,
         walk' = [walk EXCEPT ![r] = v], Ready(v)
  PROVE  WalksFit'
<1>1. Ages
  BY TablesStill
<1>2. walk = [x \in Pages |-> walk[x]]
  BY DEF WalksFit
<1>3. walk' = [x \in Pages |-> walk'[x]] /\ \A x \in Pages : walk'[x] = IF x = r THEN v ELSE walk[x]
  BY <1>2
<1>4. ASSUME NEW x \in Pages, walk'[x] # Null PROVE Ready(walk[x])'
  <2>1. PICK w : w = walk'[x]
    OBVIOUS
  <2>2. Ready(w)
    BY <1>3, <1>4, <2>1 DEF WalksFit
  <2>3. Ready(w)'
    BY <1>1, <2>2, WalkAges
  <2> QED BY <2>1, <2>3
<1> QED BY <1>3, <1>4 DEF WalksFit

LEMMA GetPageKeeps ==
  ASSUME TablesFit, WalksFit, NEW r \in Pages, NEW p, NEW w, Ready(w), w.cursor # End, GetPage(r, p, w)
  PROVE  TablesFit' /\ Ages /\ WalksFit' /\ UNCHANGED desk
<1>1. UNCHANGED <<now, tables>> /\ UNCHANGED desk
  BY DEF GetPage
<1>2. PICK page \in Limited(w) :
        walk' = [walk EXCEPT ![r] = [w EXCEPT !.pages = Append(@, page), !.cursor = NextCursor(w.list, page)]]
  BY DEF GetPage
<1>3. PICK v : v = [w EXCEPT !.pages = Append(@, page), !.cursor = NextCursor(w.list, page)]
  OBVIOUS
<1>4. Longer(w, page, v)
  BY <1>3, LongerIs DEF Ready
<1>5. Ready(v)
  BY <1>4, PageStep
<1>6. walk' = [walk EXCEPT ![r] = v]
  BY <1>2, <1>3
<1>7. WalksFit'
  BY <1>1, <1>5, <1>6, WalkSet
<1> QED BY <1>1, <1>7, TablesStill

LEMMA WalkSteps ==
  ASSUME TablesFit, WalksFit, NEW r \in Pages,
         \/ \E p \in Staff : NextPage(r, p)
         \/ \E p \in Staff, c \in {Null, Garbled}, m \in Sites,
              region \in CheckRegions \cup {Null}, range \in Ranges : ListResults(r, p, m, region, range, c)
         \/ \E p \in Staff, c \in {Null, Garbled} :
              \/ \E m \in Sites : ListMonitorIncidents(r, p, m, c)
              \/ \E open \in BOOLEAN : ListIncidents(r, p, open, c)
  PROVE  TablesFit' /\ Ages /\ WalksFit' /\ UNCHANGED desk
<1>1. ASSUME NEW p \in Staff, NextPage(r, p)
      PROVE  TablesFit' /\ Ages /\ WalksFit' /\ UNCHANGED desk
  <2>1. Ready(walk[r]) /\ walk[r].cursor # End /\ GetPage(r, p, walk[r])
    BY <1>1 DEF NextPage, WalksFit
  <2> QED BY <2>1, GetPageKeeps
<1>2. ASSUME NEW p, NEW list \in {"results", "monitor", "org"}, NEW m, NEW region, NEW range \in Nat,
             NEW open, NEW c \in {Null, Garbled}, GetPage(r, p, NewWalk(p, list, m, region, range, open, c))
      PROVE  TablesFit' /\ Ages /\ WalksFit' /\ UNCHANGED desk
  <2>1. PICK w : w = NewWalk(p, list, m, region, range, open, c)
    OBVIOUS
  <2>2. Ready(w) /\ w.cursor # End
    BY <2>1, NewWalkReady
  <2>3. GetPage(r, p, w)
    BY <1>2, <2>1
  <2> QED BY <2>2, <2>3, GetPageKeeps
<1>3. ASSUME NEW p \in Staff, NEW c \in {Null, Garbled}, NEW m \in Sites, NEW region, NEW range \in Ranges,
             ListResults(r, p, m, region, range, c)
      PROVE  TablesFit' /\ Ages /\ WalksFit' /\ UNCHANGED desk
  <2>1. range \in Nat /\ GetPage(r, p, NewWalk(p, "results", m, region, range, FALSE, c))
    BY <1>3, HistoryAssumption DEF ListResults
  <2> QED BY <2>1, <1>2
<1>4. ASSUME NEW p \in Staff, NEW c \in {Null, Garbled}, NEW m \in Sites, ListMonitorIncidents(r, p, m, c)
      PROVE  TablesFit' /\ Ages /\ WalksFit' /\ UNCHANGED desk
  <2>1. GetPage(r, p, NewWalk(p, "monitor", m, Null, 0, FALSE, c))
    BY <1>4 DEF ListMonitorIncidents
  <2> QED BY <2>1, <1>2
<1>5. ASSUME NEW p \in Staff, NEW c \in {Null, Garbled}, NEW open \in BOOLEAN, ListIncidents(r, p, open, c)
      PROVE  TablesFit' /\ Ages /\ WalksFit' /\ UNCHANGED desk
  <2>1. GetPage(r, p, NewWalk(p, "org", Null, Null, 0, open, c))
    BY <1>5 DEF ListIncidents
  <2> QED BY <2>1, <1>2
<1> QED BY <1>1, <1>3, <1>4, <1>5

-----------------------------------------------------------------------------
(* Both kinds of request together. *)

HistoryInv == TablesFit /\ DesksFit /\ WalksFit

LEMMA HistoryStarts == HistoryInit => HistoryInv
<1> SUFFICES ASSUME HistoryInit PROVE HistoryInv
  OBVIOUS
<1>1. TablesFit
  BY DEF HistoryInit, TablesFit
<1>2. DesksFit
  BY DEF HistoryInit, DesksFit
<1>3. WalksFit
  BY DEF HistoryInit, WalksFit
<1> QED BY <1>1, <1>2, <1>3 DEF HistoryInv

LEMMA HistorySteps ==
  ASSUME HistoryInv, ResultsNext \/ IncidentsNext \/ DeskNext \/ UNCHANGED histVars
  PROVE  HistoryInv'
<1> USE DEF HistoryInv
<1>1. ASSUME TablesFit', Ages, UNCHANGED <<walk, desk>> PROVE HistoryInv'
  BY <1>1, DesksAge, WalksAge
<1>2. CASE \/ Tick \/ Deletes \/ Alerts
           \/ \E m \in Sites, region \in CheckRegions, at \in 0..MaxClock : UpsertCheckResult(m, region, at)
  BY <1>1, <1>2, TableSteps
<1>3. ASSUME TablesFit', Ages, WalksFit', UNCHANGED desk PROVE HistoryInv'
  BY <1>3, DesksAge
<1>4. ASSUME NEW r \in Pages,
             \/ \E p \in Staff : NextPage(r, p)
             \/ \E p \in Staff, c \in {Null, Garbled}, m \in Sites,
                  region \in CheckRegions \cup {Null}, range \in Ranges : ListResults(r, p, m, region, range, c)
             \/ \E p \in Staff, c \in {Null, Garbled} :
                  \/ \E m \in Sites : ListMonitorIncidents(r, p, m, c)
                  \/ \E open \in BOOLEAN : ListIncidents(r, p, open, c)
      PROVE  HistoryInv'
  BY <1>3, <1>4, WalkSteps
<1>5. CASE \/ \E p \in Staff, i \in DOMAIN incs :
                \/ \E note \in {"text", "blank", "long"} : AddIncidentAnnotation(p, i, note)
                \/ \E d \in Desks : GetIncident(d, p, i) \/ CloseIncident(d, p, i)
           \/ \E d \in Desks : ListIncidentAnnotations(d) \/ DetailFails(d)
  <2>1. TablesFit' /\ Ages /\ DesksFit' /\ UNCHANGED walk
    BY <1>5, DeskSteps
  <2> QED BY <2>1, WalksAge
<1>6. CASE UNCHANGED histVars
  <2>1. UNCHANGED <<now, tables>> /\ UNCHANGED <<walk, desk>>
    BY <1>6 DEF histVars
  <2>2. TablesFit' /\ Ages
    BY <2>1, TablesStill
  <2> QED BY <1>1, <2>1, <2>2
<1>7. CASE ResultsNext
  BY <1>7, <1>2, <1>4 DEF ResultsNext
<1>8. CASE IncidentsNext
  BY <1>8, <1>2, <1>4 DEF IncidentsNext
<1>9. CASE DeskNext
  BY <1>9, <1>2, <1>5 DEF DeskNext
<1> QED BY <1>6, <1>7, <1>8, <1>9

LEMMA HistoryInvariance == Spec => []HistoryInv
<1>1. Init => HistoryInv
  BY HistoryStarts DEF Init
<1>2. HistoryInv /\ [Next]_vars => HistoryInv'
  <2> SUFFICES ASSUME HistoryInv, [Next]_vars PROVE HistoryInv'
    OBVIOUS
  <2>1. ResultsNext \/ IncidentsNext \/ DeskNext \/ UNCHANGED histVars
    BY DEF Next, vars
  <2> QED BY <2>1, HistorySteps
<1> QED BY <1>1, <1>2, PTL DEF Spec

\* Whoever follows the cursors of a list to its end has been shown every row
\* once that was there at the first page, but for those that stopped matching and
\* the ties with the last row of a full page (incidents.go, monitors.go), for
\* every page size, every clock and any number of rows that arrive late.
THEOREM PagesComplete == Spec => []ListedOnce
<1>1. HistoryInv => ListedOnce
  <2> SUFFICES ASSUME WalksFit, NEW r \in Pages, walk[r] # Null
               PROVE  LET w == walk[r] IN
                      /\ \A k, l \in DOMAIN w.pages : k # l => w.pages[k] \cap w.pages[l] = {}
                      /\ w.cursor = End =>
                           w.owed \ UNION {w.pages[k] : k \in DOMAIN w.pages}
                             \subseteq Tied(w) \cup (DOMAIN Table(w.list) \ Matching(w))
    BY DEF HistoryInv, ListedOnce
  <2>1. PICK w : w = walk[r]
    OBVIOUS
  <2>2. Ready(w)
    BY <2>1 DEF WalksFit
  <2> QED BY <2>1, <2>2 DEF Ready, Shown
<1> QED BY <1>1, HistoryInvariance, PTL

\* What a request on one incident answered stays true: the close it reports is
\* the one stored, an end shown is final, and no note known at the start is
\* missing, however closes, recoveries, notes and deletes interleave with its
\* two transactions (CloseIncident, GetIncident, incidentDetailDTO).
THEOREM DeskAnswersHold == Spec => []AnswersHold
<1>1. HistoryInv => AnswersHold
  BY DEF HistoryInv, DesksFit, DeskFits, AnswersHold
<1> QED BY <1>1, HistoryInvariance, PTL
=============================================================================
