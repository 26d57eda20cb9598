--------------------------- MODULE RuntimeProofs ----------------------------
(***************************************************************************)
(* Two specifications of what runs around the database, side by side.      *)
(*                                                                         *)
(* Services: the shutdown of the two http services, for any environment,   *)
(* any number of requests at once and any faults.  A request finds its     *)
(* connections open until it is done or the ten seconds are over.  It      *)
(* rests on the order in which main opens things: the server's closer is   *)
(* added behind those of the connections, so as long as it has not         *)
(* returned they are open, and when it has no request is left (Drained).   *)
(*                                                                         *)
(* Checks: the check pipeline, for any monitors, regions, rows and network *)
(* behaviour.  What a worker holds is a row the table held (ChecksInv),    *)
(* and the verdict of a check on such a row is right (RowsVerdict).        *)
(***************************************************************************)
EXTENDS Services, Checks, SequenceTheorems, FiniteSetTheorems, WellFoundedInduction, TLAPS

-----------------------------------------------------------------------------
(* Shutdown. *)

\* The connections main opens before its server.
Before(s) == IF s = "api" THEN 3 ELSE 1
Clients == {"postgres", "redis", "producer"}
ClosersNamed == Clients \cup {"http", "traces", "logs"}

Kept(s) == "postgres" \in open[s] /\ (s = "api" => "producer" \in open[s])

\* The closers lie in the order of main.
InOrder(s) ==
  /\ closers[s] \in Seq(ClosersNamed)
  /\ \A i \in DOMAIN closers[s] :
       /\ i <= Before(s) => closers[s][i] \in Clients
       /\ i = Before(s) + 1 => closers[s][i] = "http"
       /\ i > Before(s) + 1 => closers[s][i] \in {"traces", "logs"}

Booting(s) ==
  /\ step[s] \in 0..(Before(s) + 2)
  /\ Len(closers[s]) = IF step[s] <= Before(s) THEN step[s] ELSE step[s] - 1
  /\ step[s] >= 1 => "postgres" \in open[s]
  /\ s = "api" /\ step[s] >= 3 => "producer" \in open[s]
  /\ step[s] < Before(s) + 2 => "http" \notin open[s] /\ threads[s] = NoWork(s)

\* Until the server's closer has returned the connections are open; then there
\* is no request left, or no time.
Draining(s) ==
  IF Len(closers[s]) > Before(s) THEN Kept(s)
  ELSE "http" \notin open[s] /\ (late[s] \/ threads[s] = NoWork(s))

Drained(s) ==
  /\ InOrder(s)
  /\ threads[s] \in [Threads(s) -> {"idle", "io", "tx", "out"}]
  /\ phase[s] \in {"down", "boot", "serving", "closing"}
  /\ phase[s] = "down" => /\ open[s] = {} /\ closers[s] = << >>
                          /\ threads[s] = NoWork(s) /\ step[s] = 0
  /\ phase[s] = "boot" => Booting(s)
  /\ phase[s] = "serving" => Len(closers[s]) > Before(s) /\ Kept(s)
  /\ phase[s] = "closing" => Draining(s)

Table(f) == DOMAIN f = ServiceNames
Tables ==
  /\ Table(phase) /\ Table(step) /\ Table(closers) /\ Table(open)
  /\ Table(cipher) /\ Table(threads) /\ Table(late)

Inv ==
  /\ running \subseteq ServiceNames /\ Tables
  /\ \A s \in HttpServices : Drained(s)
  /\ DrainedBeforeClosed

-----------------------------------------------------------------------------
\* What the two mains open, in order.
LEMMA MainFacts ==
  ASSUME NEW s \in HttpServices
  PROVE  /\ Before(s) \in {1, 3} /\ Len(main[s]) = Before(s) + 2 /\ s \in ServiceNames
         /\ main[s][1] = "postgres" /\ (s = "api" => Before(s) = 3 /\ main[s][3] = "producer")
         /\ \A j \in 1..Before(s) : main[s][j] \in Clients
         /\ main[s][Before(s) + 1] \in {"build", "provider"}
         /\ main[s][Before(s) + 2] = "http"
<1>1. CASE s = "api"
  <2>1. main[s] = <<"postgres", "redis", "producer", "build", "http">> /\ Before(s) = 3
    BY <1>1 DEF main, apiMain, Before
  <2>2. \A j \in 1..3 : j = 1 \/ j = 2 \/ j = 3
    OBVIOUS
  <2> QED BY <1>1, <2>1, <2>2 DEF Clients, ServiceNames, serviceNeeds
<1>2. CASE s = "billing"
  <2>1. main[s] = <<"postgres", "provider", "http">> /\ Before(s) = 1
    BY <1>2 DEF main, billingMain, Before
  <2>2. \A j \in 1..1 : j = 1
    OBVIOUS
  <2> QED BY <1>2, <2>1, <2>2 DEF Clients, ServiceNames, serviceNeeds
<1> QED BY <1>1, <1>2 DEF HttpServices

LEMMA InitDrained == ServicesInit => Inv
<1> SUFFICES ASSUME ServicesInit PROVE Inv
  OBVIOUS
<1>1. running \subseteq ServiceNames /\ Tables /\ DrainedBeforeClosed
  BY ServicesAssumption DEF ServicesInit, Tables, Table, DrainedBeforeClosed
<1>2. ASSUME NEW s \in HttpServices PROVE Drained(s)
  <2>1. /\ s \in ServiceNames /\ phase[s] = "down" /\ step[s] = 0 /\ closers[s] = << >>
        /\ open[s] = {} /\ threads[s] = NoWork(s)
    BY MainFacts DEF ServicesInit
  <2> QED BY <2>1 DEF Drained, InOrder, NoWork
<1> QED BY <1>1, <1>2 DEF Inv

\* A step of another service.
LEMMA Elsewhere ==
  ASSUME NEW s, Drained(s),
         /\ phase'[s] = phase[s] /\ step'[s] = step[s] /\ closers'[s] = closers[s]
         /\ open'[s] = open[s] /\ threads'[s] = threads[s] /\ late'[s] = late[s]
  PROVE  Drained(s)'
BY DEF Drained, InOrder, Booting, Draining, Kept, NoWork

LEMMA ExitDrained ==
  ASSUME Inv, NEW s \in ServiceNames, Exit(s)
  PROVE  Tables' /\ \A x \in HttpServices : Drained(x)'
<1>1. Tables'
  BY DEF Inv, Exit, Tables, Table
<1>2. ASSUME NEW x \in HttpServices PROVE Drained(x)'
  <2>1. CASE x = s
    <3>1. /\ phase'[x] = "down" /\ step'[x] = 0 /\ closers'[x] = << >> /\ open'[x] = {} /\ threads'[x] = NoWork(x)
      BY <2>1 DEF Inv, Exit, Tables, Table
    <3> QED BY <3>1 DEF Drained, InOrder, NoWork
  <2>2. CASE x # s
    BY <2>2, Elsewhere, MainFacts DEF Inv, Exit, Tables, Table
  <2> QED BY <2>1, <2>2
<1> QED BY <1>1, <1>2

\* An action writes its own service's rows only.
OnlyAt(s) ==
  /\ Tables'
  /\ \A x \in ServiceNames \ {s} :
       /\ phase'[x] = phase[x] /\ step'[x] = step[x] /\ closers'[x] = closers[x]
       /\ open'[x] = open[x] /\ threads'[x] = threads[x] /\ late'[x] = late[x]

LEMMA OnlyItsOwn ==
  ASSUME Inv, NEW s \in ServiceNames,
         \/ Lifecycle(s) \/ Shutdown(s) \/ TenSeconds(s) \/ Signal(s) \/ HealthFails(s) \/ Crash(s)
         \/ \E t \in Threads(s) : Take(s, t) \/ Begin(s, t) \/ Commit(s, t) \/ Finish(s, t)
  PROVE  OnlyAt(s)
<1>1. CASE Exit(s)
  BY <1>1 DEF Inv, Exit, Tables, Table, OnlyAt
<1>2. CASE Setup(s) \/ Run(s) \/ CallCloser(s) \/ CloserReturns(s) \/ TenSeconds(s) \/ HealthFails(s)
  BY <1>2 DEF Inv, Tables, Table, OnlyAt, Setup, Run, CallCloser, CloserReturns, TenSeconds, HealthFails
<1>3. CASE Boot(s)
  BY <1>1, <1>3 DEF Inv, Tables, Table, OnlyAt, Boot
<1>4. CASE Stopped(s) \/ Signal(s) \/ Crash(s)
  BY <1>1, <1>4 DEF Inv, Tables, Table, OnlyAt, Stopped, Signal, Crash
<1>5. CASE \E t \in Threads(s) : Take(s, t) \/ Begin(s, t) \/ Commit(s, t) \/ Finish(s, t)
  BY <1>5 DEF Inv, Tables, Table, OnlyAt, Take, Begin, Commit, Finish, Put, Torn, procRest
<1> QED BY <1>2, <1>3, <1>4, <1>5 DEF Lifecycle, Shutdown

LEMMA BootDrained ==
  ASSUME Inv, NEW s \in HttpServices, Setup(s) \/ Boot(s) \/ Run(s)
  PROVE  Drained(s)'
<1>1. /\ Drained(s) /\ Tables /\ s \in ServiceNames
  BY MainFacts DEF Inv
<1>2. PICK b : b = Before(s) /\ b \in {1, 3} /\ b \in Nat
  BY MainFacts
<1>3. CASE Setup(s)
  <2>1. /\ phase'[s] = "boot" /\ step'[s] = 0 /\ closers'[s] = << >> /\ open'[s] = {}
        /\ threads'[s] = NoWork(s)
    BY <1>1, <1>3 DEF Setup, Drained, Tables, Table
  <2> QED BY <1>2, <2>1 DEF Drained, InOrder, Booting, NoWork
<1>4. CASE Run(s)
  <2>1. PICK cs : cs = closers[s]
    OBVIOUS
  <2>2. /\ phase[s] = "boot" /\ step[s] = b + 2 /\ phase'[s] = "serving"
        /\ closers'[s] = Append(Append(cs, "traces"), "logs")
        /\ open'[s] = open[s] /\ threads'[s] = threads[s]
    BY <1>1, <1>2, <1>4, <2>1, MainFacts DEF Run, Tables, Table
  <2>3. Len(cs) = b + 1 /\ cs \in Seq(ClosersNamed)
    BY <1>1, <1>2, <2>1, <2>2 DEF Drained, Booting, InOrder
  <2>4. /\ Kept(s)'
    BY <1>1, <1>2, <2>2, MainFacts DEF Drained, Booting, Kept
  <2>5. InOrder(s)'
    <3>1. PICK ds : ds = Append(Append(cs, "traces"), "logs")
      OBVIOUS
    <3>2. /\ ds \in Seq(ClosersNamed) /\ Len(ds) = b + 3
          /\ \A i \in 1..(b + 1) : ds[i] = cs[i]
          /\ ds[b + 2] = "traces" /\ ds[b + 3] = "logs"
      BY <1>2, <2>3, <3>1 DEF ClosersNamed
    <3>3. ASSUME NEW i \in DOMAIN ds
          PROVE  /\ i <= b => ds[i] \in Clients
                 /\ i = b + 1 => ds[i] = "http"
                 /\ i > b + 1 => ds[i] \in {"traces", "logs"}
      <4>1. i \in 1..(b + 3)
        BY <3>2
      <4>2. CASE i \in 1..(b + 1)
        BY <1>1, <1>2, <2>1, <2>3, <3>2, <4>2 DEF Drained, InOrder
      <4>3. CASE i = b + 2 \/ i = b + 3
        BY <1>2, <3>2, <4>3
      <4> QED BY <1>2, <4>1, <4>2, <4>3
    <3> QED BY <1>2, <2>2, <3>1, <3>2, <3>3 DEF InOrder
  <2>6. Len(closers'[s]) > Before(s)
    BY <1>2, <2>2, <2>3
  <2> QED BY <1>1, <2>2, <2>4, <2>5, <2>6 DEF Drained, NoWork
<1>5. CASE Boot(s) /\ Exit(s)
  BY <1>1, <1>5, ExitDrained
<1>6. CASE Boot(s) /\ ~ Exit(s)
  <2>1. PICK cs, n : cs = closers[s] /\ n = step[s]
    OBVIOUS
  <2>2. PICK c : c = main[s][n + 1]
    OBVIOUS
  <2>3. /\ phase[s] = "boot" /\ n < b + 2 /\ phase'[s] = "boot" /\ step'[s] = n + 1
        /\ closers'[s] = AddCloser(cs, c) /\ open'[s] = open[s] \cup Holds(c) /\ threads'[s] = threads[s]
    BY <1>1, <1>2, <1>6, <2>1, <2>2, MainFacts DEF Boot, Tables, Table
  <2>4. /\ n \in 0..(b + 1) /\ Len(cs) = (IF n <= b THEN n ELSE n - 1)
        /\ n >= 1 => "postgres" \in open[s]
        /\ s = "api" /\ n >= 3 => "producer" \in open[s]
        /\ "http" \notin open[s] /\ threads[s] = NoWork(s)
        /\ cs \in Seq(ClosersNamed)
        /\ \A i \in DOMAIN cs : i <= b => cs[i] \in Clients
    BY <1>1, <1>2, <2>1, <2>3 DEF Drained, Booting, InOrder
  <2>5. CASE n = b
    <3>1. c \in {"build", "provider"}
      BY <1>2, <2>2, <2>5, MainFacts
    <3>2. closers'[s] = cs /\ open'[s] = open[s]
      BY <2>3, <3>1 DEF AddCloser, Holds
    <3>3. Booting(s)'
      BY <1>2, <2>3, <2>4, <2>5, <3>2 DEF Booting, NoWork
    <3> QED BY <1>1, <2>1, <2>3, <3>2, <3>3 DEF Drained, InOrder, NoWork
  <2>6. CASE n # b
    <3>1. /\ n < b => c \in Clients /\ (n = 0 => c = "postgres") /\ (s = "api" /\ n = 2 => c = "producer")
          /\ n = b + 1 => c = "http"
      <4>1. n < b => n + 1 \in 1..b
        BY <1>2, <2>4
      <4>2. n < b => c \in Clients
        BY <1>2, <2>2, <4>1, MainFacts
      <4>3. (n = 0 => c = "postgres") /\ (s = "api" /\ n = 2 => c = "producer") /\ (n = b + 1 => c = "http")
        <5>1. n = 0 => n + 1 = 1
          OBVIOUS
        <5>2. n = 2 => n + 1 = 3
          OBVIOUS
        <5>3. n = b + 1 => n + 1 = b + 2
          BY <1>2
        <5> QED BY <1>2, <2>2, <5>1, <5>2, <5>3, MainFacts
      <4> QED BY <4>2, <4>3
    <3>2. n < b \/ n = b + 1
      BY <1>2, <2>4, <2>6
    <3>3. closers'[s] = Append(cs, c) /\ open'[s] = open[s] \cup {c}
      BY <2>3, <3>1, <3>2 DEF AddCloser, Holds, Clients
    <3>4. PICK ds : ds = Append(cs, c) /\ ds = closers'[s]
      BY <3>3
    <3>5. /\ ds \in Seq(ClosersNamed) /\ Len(ds) = Len(cs) + 1
          /\ \A i \in DOMAIN cs : ds[i] = cs[i]
          /\ ds[Len(cs) + 1] = c /\ DOMAIN ds = DOMAIN cs \cup {Len(cs) + 1}
      <4>1. c \in ClosersNamed
        BY <3>1, <3>2 DEF ClosersNamed
      <4>3. cs \in Seq(ClosersNamed) /\ Len(cs) \in Nat /\ DOMAIN cs = 1..Len(cs)
        BY <2>4
      <4>0. ds = Append(cs, c)
        BY <3>4
      <4>2. /\ ds \in Seq(ClosersNamed) /\ Len(ds) = Len(cs) + 1
            /\ \A i \in 1..Len(cs) : ds[i] = cs[i]
            /\ ds[Len(cs) + 1] = c
        BY <4>0, <4>1, <4>3, AppendProperties
      <4>4. PICK l \in Nat : l = Len(cs)
        BY <4>3
      <4>5. DOMAIN ds = 1..(l + 1) /\ DOMAIN cs = 1..l /\ 1..(l + 1) = (1..l) \cup {l + 1}
        BY <4>2, <4>3, <4>4
      <4> QED BY <4>2, <4>4, <4>5
    <3>6. InOrder(s)'
      <4>1. Len(cs) \in Nat /\ DOMAIN cs = 1..Len(cs) /\ Len(cs) <= b
        BY <1>2, <2>4
      <4>2. \A i \in DOMAIN cs : i <= b /\ ds[i] \in Clients
        BY <1>2, <2>4, <3>5, <4>1
      <4>3. (Len(cs) + 1 <= b => c \in Clients) /\ (Len(cs) + 1 = b + 1 => c = "http") /\ Len(cs) + 1 <= b + 1
        BY <1>2, <2>4, <3>1, <3>2
      <4>4. \A i \in DOMAIN ds : /\ i <= b => ds[i] \in Clients
                                 /\ i = b + 1 => ds[i] = "http"
                                 /\ i > b + 1 => ds[i] \in {"traces", "logs"}
        BY <1>2, <3>5, <4>1, <4>2, <4>3
      <4> QED BY <1>2, <3>4, <3>5, <4>4 DEF InOrder
    <3>7. Booting(s)'
      <4>1. Len(closers'[s]) = IF n + 1 <= b THEN n + 1 ELSE n
        BY <1>2, <2>4, <2>6, <3>4, <3>5
      <4>2. "postgres" \in open'[s] /\ (s = "api" /\ n + 1 >= 3 => "producer" \in open'[s])
        BY <1>2, <2>4, <3>1, <3>2, <3>3, MainFacts
      <4>3. n + 1 < b + 2 => "http" \notin open'[s]
        BY <1>2, <2>4, <3>1, <3>2, <3>3 DEF Clients
      <4> QED BY <1>2, <2>3, <2>4, <4>1, <4>2, <4>3 DEF Booting, NoWork
    <3> QED BY <1>1, <2>3, <3>6, <3>7 DEF Drained, NoWork
  <2> QED BY <2>5, <2>6
<1> QED BY <1>3, <1>4, <1>5, <1>6

\* The closers undo main from the end: the connections are closed when the
\* server's closer has returned.
LEMMA CloseDrained ==
  ASSUME Inv, NEW s \in HttpServices,
         CallCloser(s) \/ CloserReturns(s) \/ TenSeconds(s) \/ HealthFails(s) \/ Signal(s)
  PROVE  Drained(s)'
<1>1. Drained(s) /\ Tables /\ s \in ServiceNames
  BY MainFacts DEF Inv
<1>2. PICK b : b = Before(s) /\ b \in Nat
  BY MainFacts
<1>3. PICK cs : cs = closers[s]
  OBVIOUS
<1>4. /\ cs \in Seq(ClosersNamed) /\ Len(cs) \in Nat /\ DOMAIN cs = 1..Len(cs)
      /\ \A i \in DOMAIN cs : /\ i <= b => cs[i] \in Clients
                              /\ i = b + 1 => cs[i] = "http"
                              /\ i > b + 1 => cs[i] \in {"traces", "logs"}
  BY <1>1, <1>2, <1>3 DEF Drained, InOrder
<1>5. cs # << >> => Len(cs) > 0
  BY <1>4
<1>6. CASE CallCloser(s)
  <2>1. PICK c : c = nextCloser(cs)
    OBVIOUS
  <2>2. /\ phase[s] = "closing" /\ cs # << >> /\ open'[s] = open[s] \ {c}
        /\ phase'[s] = phase[s] /\ closers'[s] = cs /\ threads'[s] = threads[s] /\ late'[s] = late[s]
    BY <1>1, <1>3, <1>6, <2>1 DEF CallCloser, Tables, Table
  <2>3. Draining(s)
    BY <1>1, <2>2 DEF Drained
  <2>4. Draining(s)'
    <3>1. CASE Len(cs) > b
      <4>1. c = cs[Len(cs)] /\ c \notin Clients
        BY <1>2, <1>4, <1>5, <2>1, <2>2, <3>1 DEF nextCloser, Clients
      <4> QED BY <1>2, <1>3, <2>2, <2>3, <3>1, <4>1 DEF Draining, Kept, Clients
    <3>2. CASE ~ (Len(cs) > b)
      BY <1>2, <1>3, <2>2, <2>3, <3>2 DEF Draining, NoWork
    <3> QED BY <3>1, <3>2
  <2> QED BY <1>1, <1>3, <2>2, <2>4 DEF Drained, InOrder
<1>7. CASE CloserReturns(s)
  <2>1. PICK ds : ds = SubSeq(cs, 1, Len(cs) - 1)
    OBVIOUS
  <2>2. /\ phase[s] = "closing" /\ cs # << >> /\ open'[s] = open[s]
        /\ phase'[s] = phase[s] /\ closers'[s] = ds /\ threads'[s] = threads[s] /\ late'[s] = late[s]
    BY <1>1, <1>3, <1>7, <2>1 DEF CloserReturns, Tables, Table
  <2>3. nextCloser(cs) = "http" => "http" \notin open[s] /\ (late[s] \/ threads[s] = NoWork(s))
    BY <1>3, <1>7 DEF CloserReturns, graceOver
  <2>4. /\ ds \in Seq(ClosersNamed) /\ Len(ds) = Len(cs) - 1 /\ DOMAIN ds = 1..(Len(cs) - 1)
        /\ \A i \in 1..(Len(cs) - 1) : ds[i] = cs[i]
    BY <1>4, <1>5, <2>1, <2>2
  <2>5. InOrder(s)'
    <3>1. \A i \in DOMAIN ds : i \in DOMAIN cs /\ ds[i] = cs[i]
      BY <1>4, <2>4
    <3> QED BY <1>2, <1>4, <2>2, <2>4, <3>1 DEF InOrder
  <2>6. Draining(s)'
    <3>0. Draining(s)
      BY <1>1, <2>2 DEF Drained
    <3>1. CASE Len(cs) > b + 1
      <4>1. Len(cs) > b /\ Len(ds) > b
        BY <1>2, <1>4, <2>4, <3>1
      <4> QED BY <1>2, <1>3, <2>2, <3>0, <4>1 DEF Draining, Kept
    <3>2. CASE Len(cs) = b + 1
      <4>1. nextCloser(cs) = "http" /\ ~ (Len(ds) > b)
        BY <1>2, <1>4, <1>5, <2>2, <2>4, <3>2 DEF nextCloser
      <4> QED BY <1>2, <2>2, <2>3, <4>1 DEF Draining, NoWork
    <3>3. CASE Len(cs) < b + 1
      <4>1. ~ (Len(cs) > b) /\ ~ (Len(ds) > b)
        BY <1>2, <1>4, <2>4, <3>3
      <4> QED BY <1>2, <1>3, <2>2, <3>0, <4>1 DEF Draining, NoWork
    <3> QED BY <1>2, <1>4, <3>1, <3>2, <3>3
  <2> QED BY <1>1, <2>2, <2>5, <2>6 DEF Drained
<1>8. CASE TenSeconds(s)
  <2>1. /\ phase[s] = "closing" /\ open'[s] = open[s] /\ late'[s]
        /\ phase'[s] = phase[s] /\ closers'[s] = closers[s] /\ threads'[s] = threads[s]
    BY <1>1, <1>8 DEF TenSeconds, Tables, Table
  <2> QED BY <1>1, <2>1 DEF Drained, InOrder, Draining, Kept, NoWork
<1>9. CASE Signal(s) /\ Exit(s)
  BY <1>1, <1>9, ExitDrained
<1>10. CASE HealthFails(s) \/ (Signal(s) /\ ~ Exit(s))
  <2>1. /\ phase[s] = "serving" /\ phase'[s] = "closing" /\ open'[s] = open[s]
        /\ closers'[s] = closers[s] /\ threads'[s] = threads[s]
    BY <1>1, <1>10 DEF HealthFails, Signal, Tables, Table
  <2> QED BY <1>1, <2>1 DEF Drained, InOrder, Draining, Kept, NoWork
<1> QED BY <1>6, <1>7, <1>8, <1>9, <1>10

\* A request in hand has its connections, or no time left.
LEMMA InHand ==
  ASSUME Inv, NEW s \in HttpServices, NEW t \in Threads(s), threads[s][t] # "idle"
  PROVE  Kept(s) \/ late[s]
<1>1. Drained(s) /\ threads[s] # NoWork(s)
  BY DEF Inv, NoWork
<1>2. CASE phase[s] = "boot"
  <2>1. step[s] = Before(s) + 2
    BY <1>1, <1>2, MainFacts DEF Drained, Booting
  <2> QED BY <1>1, <1>2, <2>1, MainFacts DEF Drained, Booting, Kept
<1> QED BY <1>1, <1>2 DEF Drained, Draining

LEMMA WorkDrained ==
  ASSUME Inv, NEW s \in HttpServices, NEW t \in Threads(s),
         Take(s, t) \/ Begin(s, t) \/ Commit(s, t) \/ Finish(s, t)
  PROVE  Drained(s)' /\ DrainedBeforeClosed'
<1>1. Drained(s) /\ Tables /\ s \in ServiceNames /\ DrainedBeforeClosed
  BY MainFacts DEF Inv
<1>2. PICK w \in {"idle", "io", "tx", "out"} : threads' = [threads EXCEPT ![s][t] = w]
  BY DEF Take, Begin, Commit, Finish, Put, Torn
<1>3. /\ threads'[s] = [threads[s] EXCEPT ![t] = w]
      /\ phase' = phase /\ step' = step /\ closers' = closers /\ open' = open /\ late' = late
  BY <1>1, <1>2 DEF Tables, Table, Take, Begin, Commit, Finish, procRest
<1>4. threads'[s] \in [Threads(s) -> {"idle", "io", "tx", "out"}]
  BY <1>1, <1>3 DEF Drained
<1>5. CASE Take(s, t)
  <2>1. "http" \in open[s] /\ UNCHANGED torn
    BY <1>5 DEF Take, dataVars
  <2>2. phase[s] = "boot" => ~ (step[s] < Before(s) + 2)
    BY <1>1, <2>1 DEF Drained, Booting
  <2>3. phase[s] # "down" /\ (phase[s] = "closing" => Len(closers[s]) > Before(s))
    BY <1>1, <2>1 DEF Drained, Draining
  <2>4. Drained(s)'
    BY <1>1, <1>3, <1>4, <2>2, <2>3 DEF Drained, InOrder, Booting, Draining, Kept
  <2> QED BY <1>1, <2>1, <2>4 DEF DrainedBeforeClosed
<1>6. CASE ~ Take(s, t)
  <2>1. threads[s][t] # "idle"
    BY <1>6 DEF Begin, Commit, Finish
  <2>2. Kept(s) \/ late[s]
    BY <2>1, InHand
  <2>3. threads[s] # NoWork(s)
    BY <2>1 DEF NoWork
  <2>4. Drained(s)'
    BY <1>1, <1>3, <1>4, <2>3 DEF Drained, InOrder, Booting, Draining, Kept
  <2>5. torn' = torn
    BY <1>6, <2>2 DEF Begin, Commit, Finish, Torn, Kept, graceOver, HttpServices, Produces
  <2> QED BY <1>1, <2>4, <2>5 DEF DrainedBeforeClosed
<1> QED BY <1>5, <1>6

LEMMA NextDrained == Inv /\ [ServicesNext]_servicesVars => Inv'
<1> SUFFICES ASSUME Inv, [ServicesNext]_servicesVars PROVE Inv'
  OBVIOUS
<1>1. CASE \E s \in running :
             \/ Lifecycle(s) \/ Shutdown(s) \/ TenSeconds(s) \/ Signal(s) \/ HealthFails(s) \/ Crash(s)
             \/ \E t \in Threads(s) : Take(s, t) \/ Begin(s, t) \/ Commit(s, t) \/ Finish(s, t)
  <2>1. PICK s \in running :
             \/ Lifecycle(s) \/ Shutdown(s) \/ TenSeconds(s) \/ Signal(s) \/ HealthFails(s) \/ Crash(s)
             \/ \E t \in Threads(s) : Take(s, t) \/ Begin(s, t) \/ Commit(s, t) \/ Finish(s, t)
    BY <1>1
  <2>2. s \in ServiceNames
    BY DEF Inv
  <2>3. OnlyAt(s)
    BY <2>1, <2>2, OnlyItsOwn
  <2>4. \A x \in HttpServices \ {s} : Drained(x)'
    BY <2>3, Elsewhere, MainFacts DEF Inv, OnlyAt
  <2>5. CASE \E t \in Threads(s) : Take(s, t) \/ Begin(s, t) \/ Commit(s, t) \/ Finish(s, t)
    <3>1. PICK t \in Threads(s) : Take(s, t) \/ Begin(s, t) \/ Commit(s, t) \/ Finish(s, t)
      BY <2>5
    <3>2. running' = running
      BY <3>1 DEF Take, Begin, Commit, Finish, envVars
    <3>3. CASE s \in HttpServices
      BY <2>3, <2>4, <3>1, <3>2, <3>3, WorkDrained DEF Inv, OnlyAt
    <3>4. CASE s \notin HttpServices
      <4>1. torn' = torn \/ torn' = torn \cup {s}
        BY <3>1 DEF Take, Begin, Commit, Finish, Torn, dataVars
      <4> QED BY <2>3, <2>4, <3>2, <3>4, <4>1 DEF Inv, OnlyAt, DrainedBeforeClosed
    <3> QED BY <3>3, <3>4
  <2>6. CASE Lifecycle(s) \/ Shutdown(s) \/ TenSeconds(s) \/ Signal(s) \/ HealthFails(s) \/ Crash(s)
    <3>1. running' = running /\ torn' = torn
      BY <2>6 DEF Lifecycle, Shutdown, Setup, Boot, Run, CallCloser, CloserReturns, Stopped, TenSeconds,
                  Signal, HealthFails, Crash, envVars, dataVars
    <3>2. s \in HttpServices => Drained(s)'
      <4>1. Stopped(s) \/ Crash(s) => Exit(s)
        BY DEF Stopped, Crash
      <4> QED BY <2>2, <2>6, <4>1, BootDrained, CloseDrained, ExitDrained DEF Lifecycle, Shutdown
    <3> QED BY <2>3, <2>4, <3>1, <3>2 DEF Inv, OnlyAt, DrainedBeforeClosed
  <2> QED BY <2>1, <2>5, <2>6
<1>2. CASE (\E i \in Infra : InfraDown(i) \/ InfraUp(i)) \/ UNCHANGED servicesVars
  <2>1. UNCHANGED <<running, procVars, torn>>
    BY <1>2 DEF InfraDown, InfraUp, servicesVars, envVars, dataVars
  <2>2. \A x \in HttpServices : Drained(x)'
    BY <2>1, Elsewhere DEF Inv, procVars
  <2> QED BY <2>1, <2>2 DEF Inv, Tables, Table, procVars, DrainedBeforeClosed
<1> QED BY <1>1, <1>2 DEF ServicesNext

\* Whatever the deployment, the environment, the requests in flight and the
\* faults: no request of the api or of billing meets a connection the shutdown
\* has closed, unless the ten seconds ran out (runtime.Service.Run, AddCloser).
THEOREM RequestsDrain == ServicesSpec => []DrainedBeforeClosed
<1>1. Inv => DrainedBeforeClosed
  BY DEF Inv
<1> QED BY <1>1, InitDrained, NextDrained, PTL DEF ServicesSpec

-----------------------------------------------------------------------------
(* The checks.  What a worker checks is a row the table held when the       *)
(* scheduler read it, and the verdict on such a row is right.               *)

Stored == {Configs[i] : i \in 1..Len(Configs)}
Jobs   == [id : Monitors, m : Stored]
Rows   == [id : Monitors, m : Stored, age : Nat \cup {None}]
Waits  == {n \in Nat : \E c \in Stored : n <= c.interval} \cup {None}

SchedFits ==
  /\ sched = [pc |-> sched.pc, list |-> sched.list, todo |-> sched.todo]
  /\ sched.pc \in {"idle", "scan", "dispatch", "mark"} /\ sched.list \in Seq(Rows)
  /\ sched.pc \in {"dispatch", "mark"} => sched.list # << >>

WorkFits(r) ==
  /\ work[r] = [pc |-> work[r].pc, job |-> work[r].job]
  /\ work[r].pc \in {"poll", "check", "emit", "ack"}
  /\ work[r].pc # "poll" => work[r].job \in Jobs

\* The scheduler's list, the streams and the workers carry rows the table
\* held; a stream is within its bound and a wait within an interval.
ChecksInv ==
  /\ conf \in [Monitors -> Stored]
  /\ age \in [Monitors -> Nat \cup {None}] /\ pending \in [Monitors -> Nat \cup {None}]
  /\ nextRun \in [Monitors -> Waits]
  /\ SchedFits
  /\ stream \in [Regions -> Seq(Jobs)] /\ \A r \in Regions : Len(stream[r]) <= MaxStream
  /\ DOMAIN work = Regions /\ \A r \in Regions : WorkFits(r)

\* How many of the dials are made: the greatest allowed prefix.
LEMMA MadeOf ==
  ASSUME NEW D, D \in Seq({"public", "loopback", "link-local", "private"})
  PROVE  LET ok == {n \in 0..Len(D) : \A i \in 1..n : dialControl(D[i])}
             n  == CHOOSE n \in ok : \A k \in ok : k <= n
         IN n \in ok /\ \A k \in ok : k <= n
<1> DEFINE ok  == {n \in 0..Len(D) : \A i \in 1..n : dialControl(D[i])}
           ups == {n \in Nat : \A k \in ok : k <= n}
<1>1. Len(D) \in Nat /\ ok \subseteq Nat /\ 0 \in ok
  BY LenProperties
<1>2. ups \subseteq Nat /\ Len(D) \in ups
  BY <1>1
<1>3. PICK R : R = {ss \in Nat \X Nat : ss[1] < ss[2]}
  OBVIOUS
<1>4. IsWellFoundedOn(R, Nat)
  <2>1. IsWellFoundedOn({ss \in Nat \X Nat : ss[1] < ss[2]}, Nat)
    BY NatLessThanWellFounded, Zenon DEF OpToRel
  <2> QED BY <1>3, <2>1
<1>5. PICK x \in ups : \A y \in ups : ~ (<<y, x>> \in R)
  <2> HIDE DEF ups
  <2> QED BY <1>2, <1>4, WFMin
<1>6. x \in Nat /\ \A k \in ok : k <= x
  BY <1>5
<1>7. x \in ok
  <2>1. CASE x = 0
    BY <1>1, <2>1
  <2>2. CASE x > 0
    <3>1. x - 1 \in Nat /\ x - 1 < x
      BY <1>6, <2>2
    <3>2. x - 1 \notin ups
      <4>1. <<x - 1, x>> \in R
        BY <1>3, <1>6, <3>1
      <4> HIDE DEF ups
      <4> QED BY <1>5, <4>1
    <3>3. PICK k \in ok : ~ (k <= x - 1)
      BY <3>1, <3>2
    <3>4. k = x
      BY <1>1, <1>6, <3>1, <3>3
    <3> QED BY <3>3, <3>4
  <2> QED BY <1>6, <2>1, <2>2
<1>8. \E n \in ok : \A k \in ok : k <= n
  BY <1>6, <1>7
<1> HIDE DEF ok
<1> QED BY <1>8 DEF ok

\* With blocking on, every connection made is to an allowed address, and one is
\* refused exactly when some dial is to a blocked one.
LEMMA BlockedDials ==
  ASSUME NEW w, World(w)
  PROVE  /\ \A i \in 1..Len(Connections(w, TRUE)) : ~ isBlockedIP(Connections(w, TRUE)[i])
         /\ resolveAndCheck(w) = None =>
              (DialRefused(w, TRUE) <=> \E i \in 1..Len(w.dials) : isBlockedIP(w.dials[i]))
<1>1. PICK D : D = w.dials
  OBVIOUS
<1>2. D \in Seq({"public", "loopback", "link-local", "private"})
  BY <1>1 DEF World
<1> DEFINE ok == {n \in 0..Len(D) : \A i \in 1..n : dialControl(D[i])}
<1>3. PICK n : n = CHOOSE x \in ok : \A k \in ok : k <= x
  OBVIOUS
<1>4. n \in ok /\ \A k \in ok : k <= n
  BY <1>2, <1>3, MadeOf
<1>5. n \in 0..Len(D) /\ Len(D) \in Nat /\ \A i \in 1..n : ~ isBlockedIP(D[i])
  BY <1>2, <1>4, LenProperties DEF dialControl
<1>6. Connections(w, TRUE) = IF resolveAndCheck(w) # None THEN << >> ELSE SubSeq(D, 1, n)
  BY <1>1, <1>3 DEF Connections
<1>7. PICK C : C = SubSeq(D, 1, n)
  OBVIOUS
<1>8. Len(C) = n /\ \A i \in 1..n : C[i] = D[i]
  BY <1>2, <1>5, <1>7, SubSeqProperties
<1>9. C = D <=> n = Len(D)
  <2>1. n = Len(D) => C = D
    BY <1>2, <1>7, SubSeqFull
  <2> QED BY <1>8, <2>1
<1>10. n = Len(D) <=> \A i \in 1..Len(D) : ~ isBlockedIP(D[i])
  <2>1. (\A i \in 1..Len(D) : ~ isBlockedIP(D[i])) => Len(D) \in ok
    BY <1>5 DEF dialControl
  <2> QED BY <1>4, <1>5, <2>1
<1>11. PICK E : E = Connections(w, TRUE)
  OBVIOUS
<1>12. \A i \in 1..Len(E) : ~ isBlockedIP(E[i])
  <2>1. CASE resolveAndCheck(w) # None
    <3>1. E = << >>
      BY <1>6, <1>11, <2>1
    <3>2. Len(E) = 0
      BY <3>1
    <3> QED BY <3>2
  <2>2. CASE resolveAndCheck(w) = None
    BY <1>5, <1>6, <1>7, <1>8, <1>11, <2>2
  <2> QED BY <2>1, <2>2
<1> QED BY <1>1, <1>6, <1>7, <1>9, <1>10, <1>11, <1>12 DEF DialRefused

\* With blocking off no dial is refused.
LEMMA FreeDials ==
  ASSUME NEW w, World(w)
  PROVE  ~ DialRefused(w, FALSE)
<1>1. PICK D : D = w.dials
  OBVIOUS
<1>2. D \in Seq({"public", "loopback", "link-local", "private"}) /\ Len(D) \in Nat
  BY <1>1, LenProperties DEF World
<1>3. {n \in 0..Len(D) : \A i \in 1..n : FALSE => dialControl(D[i])} = 0..Len(D)
  OBVIOUS
<1>4. PICK n : n = CHOOSE x \in 0..Len(D) : \A k \in 0..Len(D) : k <= x
  OBVIOUS
<1>5. n = Len(D)
  <2>1. \E x \in 0..Len(D) : \A k \in 0..Len(D) : k <= x
    <3>1. Len(D) \in 0..Len(D) /\ \A k \in 0..Len(D) : k <= Len(D)
      BY <1>2
    <3> QED BY <3>1
  <2>2. n \in 0..Len(D) /\ \A k \in 0..Len(D) : k <= n
    BY <1>4, <2>1
  <2> QED BY <1>2, <2>2
<1>6. Connections(w, FALSE) = SubSeq(D, 1, n)
  BY <1>1, <1>3, <1>4 DEF Connections
<1> QED BY <1>1, <1>2, <1>5, <1>6, SubSeqFull DEF DialRefused

\* A list of codes accepts exactly the codes it stands for.
LEMMA CodesMatch ==
  ASSUME NEW m, MonitorRow(m), NEW code \in Nat, m.expected # << >>
  PROVE  ParseStatusCodes(m.expected) /\ Matches(m.expected, code)
           <=> Valid(m) /\ code \in Codes(m.expected)
<1>1. PICK s : s = m.expected
  OBVIOUS
<1>2. s # << >> /\ \A i \in 1..Len(s) : StatusEntry(s[i])
  BY <1>1 DEF MonitorRow
<1>3. ParseStatusCodes(s) <=> \A i \in 1..Len(s) : s[i].kind # "junk"
  BY <1>2 DEF ParseStatusCodes, StatusEntry
<1>4. ASSUME \A i \in 1..Len(s) : s[i].kind # "junk"
      PROVE  Matches(s, code) <=> code \in Codes(s)
  <2>1. \A i \in 1..Len(s) :
          (s[i].kind = "code"  /\ s[i].n = code) \/ (s[i].kind = "range" /\ s[i].n = code \div 100)
            <=> code \in IF s[i].kind = "range" THEN (100 * s[i].n)..(100 * s[i].n + 99) ELSE {s[i].n}
    <3> SUFFICES ASSUME NEW i \in 1..Len(s)
        PROVE (s[i].kind = "code"  /\ s[i].n = code) \/ (s[i].kind = "range" /\ s[i].n = code \div 100)
            <=> code \in IF s[i].kind = "range" THEN (100 * s[i].n)..(100 * s[i].n + 99) ELSE {s[i].n}
      OBVIOUS
    <3>1. s[i].kind = "code" \/ (s[i].kind = "range" /\ s[i].n \in 1..5)
      BY <1>2, <1>4 DEF StatusEntry
    <3>2. ASSUME NEW n \in Nat
          PROVE  n = code \div 100 <=> code \in (100 * n)..(100 * n + 99)
      OBVIOUS
    <3> QED BY <3>1, <3>2
  <2> QED BY <2>1 DEF Matches, Codes
<1> QED BY <1>1, <1>3, <1>4 DEF Valid

LEMMA Reasons ==
  /\ None \notin FailureReasons /\ None \notin Nat
  /\ \A e : failed(e) \in FailureReasons
<1>1. None \notin Nat \cup FailureReasons
  BY ChecksAssumption
<1> QED BY <1>1 DEF failed, FailureReasons

\* The lookup finds the target, at allowed addresses only.
LEMMA LookedUp ==
  ASSUME NEW w
  PROVE  resolveAndCheck(w) = None <=> w.lookup # {} /\ \A ip \in w.lookup : ~ isBlockedIP(ip)
BY Reasons DEF resolveAndCheck, FailureReasons

\* The target is reached over allowed addresses only.
Reached(w) ==
  /\ Block => w.lookup # {}
  /\ \A ip \in w.lookup \cup {w.dials[i] : i \in 1..Len(w.dials)} : Block => ~ isBlockedIP(ip)
  /\ w.answer = "reply"

LEMMA ReachedIff ==
  ASSUME NEW w, World(w)
  PROVE  Reached(w) <=> /\ ~ (Block /\ resolveAndCheck(w) # None)
                        /\ ~ DialRefused(w, Block) /\ w.answer = "reply"
<1>1. Block \in BOOLEAN
  BY ChecksAssumption
<1>2. CASE Block = TRUE
  BY <1>2, BlockedDials, LookedUp DEF Reached
<1>3. CASE Block = FALSE
  BY <1>3, FreeDials DEF Reached
<1> QED BY <1>1, <1>2, <1>3

\* An http check is healthy exactly when the target was reached and every
\* assertion holds.
LEMMA HttpVerdict ==
  ASSUME NEW m, MonitorRow(m), NEW w, World(w)
  PROVE  LET res == checkHTTP(m, w, Block, TRUE) IN
         /\ res.healthy <=> /\ Reached(w) /\ (m.contains => w.read = "ok" /\ w.has)
                            /\ m.expected # << >> => Valid(m) /\ w.status \in Codes(m.expected)
                            /\ m.latency # None => w.ms <= m.latency
         /\ (res.reason = None) <=> res.healthy
<1>1. w.status \in Nat /\ w.ms \in Nat /\ w.has \in BOOLEAN
  BY DEF World
<1>2. m.contains \in BOOLEAN /\ m.latency \in Nat \cup {None}
  BY DEF MonitorRow
<1>3. PICK okCodes : okCodes = (m.expected # << >> => Valid(m) /\ w.status \in Codes(m.expected))
  OBVIOUS
<1>4. PICK okTime : okTime = (m.latency # None => w.ms <= m.latency)
  OBVIOUS
<1>5. PICK okBody : okBody = (m.contains => w.has)
  OBVIOUS
<1>6. responseReason(m, w) = None <=> okCodes /\ okTime /\ okBody
  <2>1. (m.expected # << >> /\ ~ (ParseStatusCodes(m.expected) /\ Matches(m.expected, w.status))) <=> ~ okCodes
    BY <1>1, <1>3, CodesMatch
  <2>2. (m.latency # None /\ w.ms > m.latency) <=> ~ okTime
    <3>1. m.latency # None => (w.ms > m.latency <=> ~ (w.ms <= m.latency))
      BY <1>1, <1>2
    <3> QED BY <1>4, <3>1, Zenon
  <2>3. (m.contains /\ ~ w.has) <=> ~ okBody
    BY <1>5
  <2> QED BY <2>1, <2>2, <2>3, Reasons DEF responseReason, FailureReasons
<1>7. PICK fail : fail = responseReason(m, w)
  OBVIOUS
<1>8. PICK res : res = checkHTTP(m, w, Block, TRUE)
  OBVIOUS
<1>9. PICK pre : pre = resolveAndCheck(w)
  OBVIOUS
<1>10. CASE Block /\ pre # None
  <2>1. res = withReason(pre)
    BY <1>8, <1>9, <1>10 DEF checkHTTP
  <2>2. res.healthy = FALSE /\ res.reason = pre
    BY <2>1 DEF withReason, Result
  <2> QED BY <1>8, <1>9, <1>10, <2>2, ReachedIff
<1>11. CASE ~ (Block /\ pre # None) /\ (DialRefused(w, Block) \/ w.answer # "reply")
  <2>1. PICK e : e \in {"connection_error", failed(w.answer)} /\ res = withReason(e)
    BY <1>8, <1>9, <1>11 DEF checkHTTP
  <2>2. res.healthy = FALSE /\ res.reason # None
    BY <2>1, Reasons DEF withReason, Result, FailureReasons
  <2> QED BY <1>8, <1>11, <2>2, ReachedIff
<1>12. CASE ~ (Block /\ pre # None) /\ ~ DialRefused(w, Block) /\ w.answer = "reply" /\ m.contains /\ w.read # "ok"
  <2>1. res = Result(FALSE, failed(w.read), w.status, FALSE, FALSE)
    BY <1>8, <1>9, <1>12 DEF checkHTTP
  <2>2. res.healthy = FALSE /\ res.reason # None
    BY <2>1, Reasons DEF Result
  <2> QED BY <1>8, <1>12, <2>2
<1>13. CASE ~ (Block /\ pre # None) /\ ~ DialRefused(w, Block) /\ w.answer = "reply" /\ ~ (m.contains /\ w.read # "ok")
  <2>1. res = Result(fail = None, fail, w.status, fail # None /\ TRUE, FALSE)
    BY <1>7, <1>8, <1>9, <1>13 DEF checkHTTP
  <2>2. res.healthy = (fail = None) /\ res.reason = fail
    BY <2>1 DEF Result
  <2>3. Reached(w)
    BY <1>9, <1>13, ReachedIff
  <2> QED BY <1>3, <1>4, <1>5, <1>6, <1>7, <1>8, <1>13, <2>2, <2>3
<1> QED BY <1>10, <1>11, <1>12, <1>13

\* An ssl check is healthy exactly when the target was reached and shows a good
\* certificate that has more than a week, or expires this instant.
LEMMA SslVerdict ==
  ASSUME NEW m, NEW w, World(w)
  PROVE  LET res == checkSSL(m, w, Block) IN
         /\ res.healthy <=> Reached(w) /\ w.cert = "ok" /\ (w.days > 7 \/ w.days = 0)
         /\ (res.reason = None) <=> res.healthy
<1>1. w.cert \in {"none", "ok", "expired", "invalid"} /\ w.days \in Int /\ (w.cert = "ok" => w.days >= 0)
  BY DEF World
<1>2. PICK res : res = checkSSL(m, w, Block)
  OBVIOUS
<1>3. PICK pre : pre = resolveAndCheck(w)
  OBVIOUS
<1>4. PICK fail : fail = CASE w.cert = "expired" -> "cert_expired"
                           [] w.cert = "invalid" -> "cert_invalid"
                           [] expiringSoon(w)    -> "cert_expiring_soon"
                           [] OTHER              -> None
  OBVIOUS
<1>5. CASE Block /\ pre # None
  <2>1. res = withReason(pre)
    BY <1>2, <1>3, <1>5 DEF checkSSL
  <2>2. res.healthy = FALSE /\ res.reason = pre
    BY <2>1 DEF withReason, Result
  <2> QED BY <1>2, <1>3, <1>5, <2>2, ReachedIff
<1>6. CASE ~ (Block /\ pre # None) /\ (DialRefused(w, Block) \/ w.answer # "reply" \/ w.cert = "none")
  <2>1. PICK e : e \in {"connection_error", failed(w.answer)} /\ res = withReason(e)
    BY <1>2, <1>3, <1>6 DEF checkSSL
  <2>2. res.healthy = FALSE /\ res.reason # None
    BY <2>1, Reasons DEF withReason, Result, FailureReasons
  <2> QED BY <1>2, <1>6, <2>2, ReachedIff
<1>7. CASE ~ (Block /\ pre # None) /\ ~ DialRefused(w, Block) /\ w.answer = "reply" /\ w.cert # "none"
  <2>1. res = Result(fail = None, fail, None, FALSE, TRUE)
    BY <1>2, <1>3, <1>4, <1>7 DEF checkSSL
  <2>2. res.healthy = (fail = None) /\ res.reason = fail
    BY <2>1 DEF Result
  <2>3. Reached(w)
    BY <1>3, <1>7, ReachedIff
  <2>4. fail = None <=> w.cert = "ok" /\ (w.days > 7 \/ w.days = 0)
    <3>1. w.cert = "ok" => (expiringSoon(w) <=> ~ (w.days > 7 \/ w.days = 0))
      BY <1>1 DEF expiringSoon
    <3> QED BY <1>1, <1>4, <1>7, <3>1, Reasons DEF FailureReasons
  <2> QED BY <1>2, <2>2, <2>3, <2>4
<1> QED BY <1>5, <1>6, <1>7

\* The verdict on a row, whatever the network does.
Passes(m, w) ==
  IF m.type = "ssl" THEN w.cert = "ok" /\ (w.days > 7 \/ w.days = 0)
  ELSE /\ m.contains => w.read = "ok" /\ w.has
       /\ m.expected # << >> => Valid(m) /\ w.status \in Codes(m.expected)
       /\ m.latency # None => w.ms <= m.latency
Right(m, w) ==
  /\ Check(m, w, Block, TRUE).healthy <=> Reached(w) /\ Passes(m, w)
  /\ (Check(m, w, Block, TRUE).reason = None) <=> Check(m, w, Block, TRUE).healthy
  /\ Block => \A i \in 1..Len(Connections(w, Block)) : ~ isBlockedIP(Connections(w, Block)[i])

LEMMA RowsVerdict ==
  ASSUME NEW m, MonitorRow(m), NEW w, World(w)
  PROVE  Right(m, w)
<1>1. Block \in BOOLEAN
  BY ChecksAssumption
<1>2. Block => \A i \in 1..Len(Connections(w, Block)) : ~ isBlockedIP(Connections(w, Block)[i])
  <2>1. Block => Block = TRUE
    BY <1>1
  <2> QED BY <2>1, BlockedDials
<1>3. CASE m.type = "ssl"
  <2>1. PICK res : res = checkSSL(m, w, Block)
    OBVIOUS
  <2>2. Check(m, w, Block, TRUE) = res
    BY <1>3, <2>1 DEF Check
  <2>3. /\ res.healthy <=> Reached(w) /\ w.cert = "ok" /\ (w.days > 7 \/ w.days = 0)
        /\ (res.reason = None) <=> res.healthy
    BY <2>1, SslVerdict
  <2> QED BY <1>2, <1>3, <2>2, <2>3 DEF Right, Passes
<1>4. CASE m.type # "ssl"
  <2>1. PICK res : res = checkHTTP(m, w, Block, TRUE)
    OBVIOUS
  <2>2. Check(m, w, Block, TRUE) = res
    BY <1>4, <2>1 DEF Check
  <2>3. /\ res.healthy <=> /\ Reached(w) /\ (m.contains => w.read = "ok" /\ w.has)
                           /\ m.expected # << >> => Valid(m) /\ w.status \in Codes(m.expected)
                           /\ m.latency # None => w.ms <= m.latency
        /\ (res.reason = None) <=> res.healthy
    BY <2>1, HttpVerdict
  <2> QED BY <1>2, <1>4, <2>2, <2>3 DEF Right, Passes
<1> QED BY <1>3, <1>4

LEMMA JobsVerdict == ChecksInv => VerdictIsRight
<1> SUFFICES ASSUME ChecksInv PROVE VerdictIsRight
  OBVIOUS
<1>1. ASSUME NEW r \in Regions, work[r].pc = "check", NEW w \in Worlds
      PROVE  Right(work[r].job.m, w)
  <2>1. PICK m : m = work[r].job.m
    OBVIOUS
  <2>2. m \in Stored
    BY <1>1, <2>1 DEF ChecksInv, WorkFits, Jobs
  <2>3. MonitorRow(m)
    BY <2>2, ChecksAssumption DEF Stored
  <2>4. World(w)
    BY ChecksAssumption
  <2> QED BY <2>1, <2>3, <2>4, RowsVerdict
<1> QED BY <1>1, Zenon DEF VerdictIsRight, Right, Reached, Passes

\* The first row is a stored one.
LEMMA StoredFacts ==
  /\ Configs[1] \in Stored /\ \A c \in Stored : c.interval \in Nat \ {0}
  /\ \A c \in Stored : 0 \in Waits /\ c.interval \in Waits
  /\ None \notin Nat /\ None \in Waits
  /\ \A n \in Waits : n = None \/ n \in Nat
<1>1. Len(Configs) \in Nat \ {0}
  BY ChecksAssumption
<1>2. Configs[1] \in Stored
  BY <1>1 DEF Stored
<1>3. \A i \in 1..Len(Configs) : MonitorRow(Configs[i])
  BY ChecksAssumption
<1>4. \A c \in Stored : c.interval \in Nat \ {0}
  BY <1>3, Zenon DEF Stored, MonitorRow
<1>5. \A c \in Stored : 0 \in Waits /\ c.interval \in Waits
  BY <1>4 DEF Waits
<1> QED BY <1>2, <1>4, <1>5, Reasons DEF Waits

LEMMA InitChecks == Init => ChecksInv
<1> SUFFICES ASSUME Init PROVE ChecksInv
  OBVIOUS
<1>1. SchedFits
  BY DEF Init, Idle, SchedFits
<1>2. stream \in [Regions -> Seq(Jobs)] /\ \A r \in Regions : Len(stream[r]) <= MaxStream
  <2>1. Len(<< >>) = 0 /\ << >> \in Seq(Jobs) /\ MaxStream \in Nat
    BY ChecksAssumption
  <2> QED BY <2>1 DEF Init
<1>3. DOMAIN work = Regions /\ \A r \in Regions : WorkFits(r)
  BY DEF Init, Free, WorkFits
<1> QED BY <1>1, <1>2, <1>3, StoredFacts DEF Init, ChecksInv

\* Waiting one tick less, and growing one tick older.
LEMMA OlderSooner ==
  /\ \A a \in Nat \cup {None} : Older(a) \in Nat \cup {None}
  /\ \A n \in Waits : Sooner(n) \in Waits
<1>1. \A a \in Nat \cup {None} : Older(a) \in Nat \cup {None}
  BY StoredFacts DEF Older
<1>2. ASSUME NEW n \in Waits PROVE Sooner(n) \in Waits
  <2>1. CASE n = None
    BY <2>1, StoredFacts DEF Sooner
  <2>2. CASE n # None
    <3>1. n \in Nat
      BY <2>2, StoredFacts
    <3>2. PICK c \in Stored : n <= c.interval
      BY <2>2 DEF Waits
    <3>3. c.interval \in Nat
      BY StoredFacts
    <3>4. CASE n > 0
      <4>1. n - 1 \in Nat /\ n - 1 <= c.interval
        BY <3>1, <3>2, <3>3, <3>4
      <4> QED BY <2>2, <3>4, <4>1 DEF Sooner, Waits
    <3>5. CASE ~ (n > 0)
      BY <2>2, <3>5 DEF Sooner
    <3> QED BY <3>4, <3>5
  <2> QED BY <2>1, <2>2
<1> QED BY <1>1, <1>2

\* The scheduler lists stored rows.
LEMMA ListedRows ==
  ASSUME ChecksInv
  PROVE  ListEnabledMonitorsWithLastCheck \in Seq(Rows)
<1> DEFINE S == {id \in Monitors : conf[id].enabled}
<1>1. IsFiniteSet(S)
  <2>1. IsFiniteSet(Monitors) /\ S \subseteq Monitors
    BY ChecksAssumption
  <2> QED BY <2>1, FS_Subset
<1>2. PICK T : T = S
  OBVIOUS
<1>3. PICK f : f = Seqs!SetToSeq(T)
  OBVIOUS
<1>4. f \in Seq(T)
  <2>1. PICK n : n = Cardinality(T)
    OBVIOUS
  <2>2. n \in Nat /\ ExistsBijection(1..n, T)
    BY <1>1, <1>2, <2>1, FS_CardinalityType
  <2>3. PICK g \in Bijection(1..n, T) : TRUE
    BY <2>2 DEF ExistsBijection
  <2>4. g \in [1..n -> T] /\ Seqs!IsInjective(g)
    BY <2>3 DEF Bijection, Injection, IsInjective, Seqs!IsInjective
  <2>5. f \in [1..n -> T]
    BY <1>3, <2>1, <2>4 DEF Seqs!SetToSeq, Seqs!Cardinality, Cardinality
  <2> QED BY <2>2, <2>5
<1>5. Len(f) \in Nat /\ DOMAIN f = 1..Len(f) /\ \A i \in 1..Len(f) : f[i] \in Monitors
  BY <1>2, <1>4
<1>6. ListEnabledMonitorsWithLastCheck = [i \in 1..Len(f) |-> [id |-> f[i], m |-> conf[f[i]], age |-> age[f[i]]]]
  BY <1>2, <1>3, <1>5 DEF ListEnabledMonitorsWithLastCheck
<1>7. \A i \in 1..Len(f) : [id |-> f[i], m |-> conf[f[i]], age |-> age[f[i]]] \in Rows
  BY <1>5 DEF ChecksInv, Rows
<1> QED BY <1>5, <1>6, <1>7

\* A tick: the scheduler reads the monitors.
LEMMA SchedulerReads ==
  ASSUME ChecksInv, Tick
  PROVE  ChecksInv'
<1>1. /\ age' \in [Monitors -> Nat \cup {None}] /\ pending' \in [Monitors -> Nat \cup {None}]
      /\ nextRun' \in [Monitors -> Waits]
  BY OlderSooner DEF ChecksInv, Tick
<1>2. SchedFits'
  <2>1. \/ sched' = sched
        \/ sched' = [Idle EXCEPT !.pc = "scan", !.list = ListEnabledMonitorsWithLastCheck]
    BY DEF Tick
  <2>2. CASE sched' = sched
    BY <2>2 DEF ChecksInv, SchedFits
  <2>3. CASE sched' = [Idle EXCEPT !.pc = "scan", !.list = ListEnabledMonitorsWithLastCheck]
    <3>1. PICK l : l = ListEnabledMonitorsWithLastCheck
      OBVIOUS
    <3>2. sched' = [pc |-> "scan", list |-> l, todo |-> << >>]
      BY <2>3, <3>1 DEF Idle
    <3> QED BY <3>1, <3>2, ListedRows DEF SchedFits
  <2> QED BY <2>1, <2>2, <2>3
<1>3. UNCHANGED <<conf, stream, work>>
  BY DEF Tick, busVars
<1> QED BY <1>1, <1>2, <1>3 DEF ChecksInv, WorkFits

\* The wait of a monitor of the list: at most its interval.
LEMMA DueWaits ==
  ASSUME ChecksInv, NEW row \in Rows
  PROVE  dueIn(row) \in Nat /\ dueIn(row) \in Waits
<1>1. row.id \in Monitors /\ row.m \in Stored /\ row.age \in Nat \cup {None}
  BY DEF Rows
<1>2. nextRun[row.id] \in Waits
  BY <1>1 DEF ChecksInv
<1>3. row.m.interval \in Nat /\ 0 \in Waits /\ None \notin Nat
  BY <1>1, StoredFacts
<1>4. CASE nextRun[row.id] # None
  BY <1>2, <1>4, StoredFacts DEF dueIn
<1>5. CASE nextRun[row.id] = None /\ (row.age = None \/ row.age >= row.m.interval)
  BY <1>3, <1>5 DEF dueIn
<1>6. CASE nextRun[row.id] = None /\ ~ (row.age = None \/ row.age >= row.m.interval)
  <2>1. dueIn(row) = row.m.interval - row.age
    BY <1>6 DEF dueIn
  <2>2. dueIn(row) \in Nat /\ dueIn(row) <= row.m.interval
    BY <1>1, <1>3, <1>6, <2>1
  <2> QED BY <1>1, <2>2 DEF Waits
<1> QED BY <1>4, <1>5, <1>6

\* The scheduler works through its list.
LEMMA SchedulerWalks ==
  ASSUME ChecksInv, dispatchDue \/ dispatched
  PROVE  ChecksInv'
<1>1. PICK p, l, d : sched = [pc |-> p, list |-> l, todo |-> d]
  BY DEF ChecksInv, SchedFits
<1>2. l \in Seq(Rows) /\ (p \in {"dispatch", "mark"} => l # << >>)
  BY <1>1 DEF ChecksInv, SchedFits
<1>3. UNCHANGED <<conf, age, pending, stream, work>>
  BY DEF dispatchDue, dispatched, busVars
<1>4. l # << >> => Head(l) \in Rows /\ Tail(l) \in Seq(Rows)
  BY <1>2
<1>5. nextRun' \in [Monitors -> Waits] /\ SchedFits'
  <2>1. CASE dispatchDue /\ l = << >>
    <3>1. sched' = [pc |-> "idle", list |-> << >>, todo |-> << >>] /\ nextRun' = nextRun
      BY <1>1, <2>1 DEF dispatchDue, Idle
    <3> QED BY <3>1 DEF ChecksInv, SchedFits
  <2>2. CASE dispatchDue /\ l # << >>
    <3>1. PICK row : row = Head(l)
      OBVIOUS
    <3>2. row \in Rows /\ p = "scan"
      BY <1>1, <1>4, <2>2, <3>1 DEF dispatchDue
    <3>3. CASE dueIn(row) > 0
      <4>1. nextRun' = [nextRun EXCEPT ![row.id] = dueIn(row)]
        BY <1>1, <2>2, <3>1, <3>3 DEF dispatchDue
      <4>2. sched' = [sched EXCEPT !.list = Tail(@)]
        BY <1>1, <2>2, <3>1, <3>3 DEF dispatchDue
      <4>3. sched' = [pc |-> "scan", list |-> Tail(l), todo |-> d]
        BY <1>1, <3>2, <4>2
      <4>4. nextRun' \in [Monitors -> Waits]
        BY <3>2, <4>1, DueWaits DEF ChecksInv
      <4> QED BY <1>4, <2>2, <4>3, <4>4 DEF SchedFits
    <3>4. CASE ~ (dueIn(row) > 0)
      <4>1. PICK t : t = dispatchRegions(row.m)
        OBVIOUS
      <4>2. sched' = [sched EXCEPT !.pc = "dispatch", !.todo = t]
        BY <1>1, <2>2, <3>1, <3>4, <4>1 DEF dispatchDue
      <4>3. nextRun' = nextRun
        BY <1>1, <2>2, <3>1, <3>4 DEF dispatchDue
      <4>4. sched' = [pc |-> "dispatch", list |-> l, todo |-> t]
        BY <1>1, <4>2
      <4> QED BY <1>2, <2>2, <4>3, <4>4 DEF SchedFits, ChecksInv
    <3> QED BY <3>3, <3>4
  <2>3. CASE dispatched
    <3>1. l # << >> /\ Head(sched.list) = Head(l)
      BY <1>1, <1>2, <2>3 DEF dispatched
    <3>2. Head(l).m \in Stored
      BY <1>4, <3>1 DEF Rows
    <3>3. nextRun' \in [Monitors -> Waits]
      BY <2>3, <3>1, <3>2, StoredFacts DEF dispatched, setNextRun, ChecksInv
    <3>4. sched' = [sched EXCEPT !.pc = "scan", !.list = Tail(@)]
      BY <2>3 DEF dispatched
    <3>5. sched' = [pc |-> "scan", list |-> Tail(l), todo |-> d]
      BY <1>1, <3>4
    <3> QED BY <1>4, <3>1, <3>3, <3>5 DEF SchedFits
  <2> QED BY <2>1, <2>2, <2>3
<1> QED BY <1>3, <1>5 DEF ChecksInv, WorkFits

\* A job that is produced is the row that was read, and the stream is trimmed.
LEMMA SchedulerDispatches ==
  ASSUME ChecksInv, dispatch \/ markScheduled
  PROVE  ChecksInv'
<1>1. PICK p, l, d : sched = [pc |-> p, list |-> l, todo |-> d]
  BY DEF ChecksInv, SchedFits
<1>2. l \in Seq(Rows) /\ l # << >> /\ p \in {"dispatch", "mark"}
  BY <1>1 DEF ChecksInv, SchedFits, dispatch, markScheduled
<1>3. UNCHANGED <<conf, age, pending, nextRun, work>>
  BY DEF dispatch, markScheduled
<1>4. SchedFits'
  <2>1. \/ sched' = [sched EXCEPT !.pc = "mark"]
        \/ sched' = [sched EXCEPT !.todo = Tail(@)]
        \/ sched' = [sched EXCEPT !.pc = "dispatch", !.todo = Tail(@)]
    BY DEF dispatch, markScheduled
  <2>2. \/ sched' = [pc |-> "mark", list |-> l, todo |-> d]
        \/ sched' = [pc |-> p, list |-> l, todo |-> Tail(d)]
        \/ sched' = [pc |-> "dispatch", list |-> l, todo |-> Tail(d)]
    BY <1>1, <2>1
  <2> QED BY <1>2, <2>2 DEF SchedFits
<1>5. stream' \in [Regions -> Seq(Jobs)] /\ \A r \in Regions : Len(stream'[r]) <= MaxStream
  <2>1. CASE stream' = stream
    BY <2>1 DEF ChecksInv
  <2>2. CASE stream' # stream
    <3>1. PICK x, j : j = [id |-> Head(l).id, m |-> Head(l).m] /\ Produce(x, j)
      <4>1. dispatch
        BY <2>2 DEF markScheduled
      <4> QED BY <1>1, <2>2, <4>1 DEF dispatch
    <3>2. j \in Jobs
      <4>1. Head(l) \in Rows
        BY <1>2
      <4> QED BY <3>1, <4>1 DEF Rows, Jobs
    <3>3. PICK s : s = IF Len(Append(stream[x], j)) > MaxStream THEN Tail(Append(stream[x], j)) ELSE Append(stream[x], j)
      OBVIOUS
    <3>4. stream' = [stream EXCEPT ![x] = s]
      BY <3>1, <3>3 DEF Produce
    <3>5. x \in Regions => s \in Seq(Jobs) /\ Len(s) <= MaxStream
      <4> SUFFICES ASSUME x \in Regions PROVE s \in Seq(Jobs) /\ Len(s) <= MaxStream
        OBVIOUS
      <4>1. PICK q : q = stream[x]
        OBVIOUS
      <4>2. q \in Seq(Jobs) /\ Len(q) \in Nat /\ Len(q) <= MaxStream /\ MaxStream \in Nat
        BY <4>1, ChecksAssumption, LenProperties DEF ChecksInv
      <4>3. PICK a : a = Append(q, j)
        OBVIOUS
      <4>4. a \in Seq(Jobs) /\ Len(a) = Len(q) + 1 /\ a # << >>
        BY <3>2, <4>2, <4>3
      <4>5. Tail(a) \in Seq(Jobs) /\ Len(Tail(a)) = Len(q)
        BY <4>2, <4>4
      <4> QED BY <3>3, <4>1, <4>2, <4>3, <4>4, <4>5
    <3> QED BY <3>4, <3>5 DEF ChecksInv
  <2> QED BY <2>1, <2>2
<1> QED BY <1>3, <1>4, <1>5 DEF ChecksInv, WorkFits

\* A worker's record after a step of it: what the rest of the step must show.
LEMMA WorkerMoves ==
  ASSUME ChecksInv, NEW r \in Regions, NEW p, NEW j, work' = [work EXCEPT ![r] = [pc |-> p, job |-> j]],
         p \in {"poll", "check", "emit", "ack"}, p # "poll" => j \in Jobs,
         UNCHANGED <<conf, age, nextRun, sched>>, pending' \in [Monitors -> Nat \cup {None}],
         stream' \in [Regions -> Seq(Jobs)], \A x \in Regions : Len(stream'[x]) <= MaxStream
  PROVE  ChecksInv'
<1>1. DOMAIN work = Regions /\ \A x \in Regions : WorkFits(x)
  BY DEF ChecksInv
<1>2. DOMAIN work' = Regions
  BY <1>1
<1>3. ASSUME NEW x \in Regions PROVE WorkFits(x)'
  <2>1. CASE x = r
    <3>1. work'[x] = [pc |-> p, job |-> j]
      BY <1>1, <2>1
    <3> QED BY <3>1 DEF WorkFits
  <2>2. CASE x # r
    <3>1. work'[x] = work[x]
      BY <1>1, <2>2
    <3> QED BY <1>1, <3>1 DEF WorkFits
  <2> QED BY <2>1, <2>2
<1> QED BY <1>2, <1>3 DEF ChecksInv, SchedFits

LEMMA WorkerChecks ==
  ASSUME ChecksInv, NEW r \in Regions, Worker(r) \/ crashWorker(r)
  PROVE  ChecksInv'
<1>1. UNCHANGED <<conf, age, nextRun, sched>>
  BY DEF Worker, handle, runCheck, emit, ack, crashWorker, Work
<1>2. WorkFits(r) /\ DOMAIN work = Regions /\ stream[r] \in Seq(Jobs) /\ Len(stream[r]) <= MaxStream
  BY DEF ChecksInv
<1>3. PICK p, j : work[r] = [pc |-> p, job |-> j] /\ p \in {"poll", "check", "emit", "ack"} /\ (p # "poll" => j \in Jobs)
  BY <1>2 DEF WorkFits
<1>4. CASE handle(r)
  <2>1. PICK h : h = Head(stream[r])
    OBVIOUS
  <2>2. h \in Jobs
    BY <1>2, <1>4, <2>1 DEF handle
  <2>3. work' = [work EXCEPT ![r] = [pc |-> "check", job |-> h]] /\ UNCHANGED <<pending, stream>>
    BY <1>4, <2>1 DEF handle
  <2> QED BY <1>1, <2>2, <2>3, WorkerMoves DEF ChecksInv
<1>5. CASE runCheck(r)
  <2>1. work' = [work EXCEPT ![r].pc = "emit"] /\ UNCHANGED <<pending, stream>> /\ p = "check"
    BY <1>3, <1>5 DEF runCheck, Work
  <2>2. [work[r] EXCEPT !.pc = "emit"] = [pc |-> "emit", job |-> j]
    BY <1>3
  <2>3. work' = [work EXCEPT ![r] = [pc |-> "emit", job |-> j]]
    BY <2>1, <2>2
  <2> QED BY <1>1, <1>3, <2>1, <2>3, WorkerMoves DEF ChecksInv
<1>6. CASE emit(r)
  <2>1. p = "emit" /\ stream' = stream
    BY <1>3, <1>6 DEF emit, Work
  <2>2. CASE work' = [work EXCEPT ![r] = Free] /\ UNCHANGED pending
    <3>1. work' = [work EXCEPT ![r] = [pc |-> "poll", job |-> None]]
      BY <2>2 DEF Free
    <3> QED BY <1>1, <2>1, <2>2, <3>1, WorkerMoves DEF ChecksInv
  <2>3. CASE pending' = [pending EXCEPT ![work[r].job.id] = 0] /\ work' = [work EXCEPT ![r].pc = "ack"]
    <3>1. [work[r] EXCEPT !.pc = "ack"] = [pc |-> "ack", job |-> j]
      BY <1>3
    <3>2. work' = [work EXCEPT ![r] = [pc |-> "ack", job |-> j]]
      BY <2>3, <3>1
    <3>3. pending' \in [Monitors -> Nat \cup {None}]
      BY <2>3 DEF ChecksInv
    <3>4. j \in Jobs
      BY <1>3, <2>1
    <3>5. stream' \in [Regions -> Seq(Jobs)] /\ \A x \in Regions : Len(stream'[x]) <= MaxStream
      BY <2>1 DEF ChecksInv
    <3> QED BY <1>1, <3>2, <3>3, <3>4, <3>5, WorkerMoves
  <2> QED BY <1>6, <2>2, <2>3 DEF emit
<1>7. CASE ack(r)
  <2>1. PICK q : q = Acked(r)
    OBVIOUS
  <2>2. q \in Seq(Jobs) /\ Len(q) <= MaxStream
    <3>1. PICK s : s = stream[r]
      OBVIOUS
    <3>2. s \in Seq(Jobs) /\ Len(s) \in Nat /\ Len(s) <= MaxStream /\ MaxStream \in Nat
      BY <1>2, <3>1, ChecksAssumption, LenProperties
    <3>3. s # << >> => Tail(s) \in Seq(Jobs) /\ Len(Tail(s)) = Len(s) - 1
      BY <3>2
    <3> QED BY <2>1, <3>1, <3>2, <3>3 DEF Acked
  <2>3. stream' = [stream EXCEPT ![r] = q] /\ pending' = pending
    BY <1>7, <2>1 DEF ack
  <2>4. work' = [work EXCEPT ![r] = [pc |-> "poll", job |-> None]]
    BY <1>7 DEF ack, Free
  <2>5. stream' \in [Regions -> Seq(Jobs)] /\ \A x \in Regions : Len(stream'[x]) <= MaxStream
    BY <2>2, <2>3 DEF ChecksInv
  <2> QED BY <1>1, <2>3, <2>4, <2>5, WorkerMoves DEF ChecksInv
<1>8. CASE crashWorker(r)
  <2>1. work' = [work EXCEPT ![r] = [pc |-> "poll", job |-> None]] /\ UNCHANGED <<pending, stream>>
    BY <1>8 DEF crashWorker, Free
  <2> QED BY <1>1, <2>1, WorkerMoves DEF ChecksInv
<1> QED BY <1>4, <1>5, <1>6, <1>7, <1>8 DEF Worker

LEMMA NextChecks == ChecksInv /\ [Next]_vars => ChecksInv'
<1> SUFFICES ASSUME ChecksInv, [Next]_vars PROVE ChecksInv'
  OBVIOUS
<1>1. CASE Scheduler
  BY <1>1, SchedulerReads, SchedulerWalks, SchedulerDispatches DEF Scheduler
<1>2. CASE restartScheduler
  <2>1. SchedFits'
    BY <1>2 DEF restartScheduler, Idle, SchedFits
  <2>2. nextRun' \in [Monitors -> Waits]
    BY <1>2, StoredFacts DEF restartScheduler
  <2> QED BY <1>2, <2>1, <2>2 DEF restartScheduler, ChecksInv, WorkFits, busVars
<1>3. CASE \E r \in Regions : Worker(r) \/ crashWorker(r)
  BY <1>3, WorkerChecks
<1>4. ASSUME NEW id \in Monitors, Persist(id) \/ Edit(id) PROVE ChecksInv'
  <2>1. UNCHANGED <<nextRun, sched, stream, work>>
    BY <1>4 DEF Persist, Edit, busVars
  <2>2. age' \in [Monitors -> Nat \cup {None}] /\ pending' \in [Monitors -> Nat \cup {None}]
    BY <1>4 DEF Persist, Edit, ChecksInv
  <2>3. conf' \in [Monitors -> Stored]
    BY <1>4 DEF Persist, Edit, ChecksInv, Stored
  <2> QED BY <2>1, <2>2, <2>3 DEF ChecksInv, SchedFits, WorkFits
<1>5. CASE UNCHANGED vars
  BY <1>5 DEF vars, ChecksInv, SchedFits, WorkFits
<1> QED BY <1>1, <1>2, <1>3, <1>4, <1>5 DEF Next

\* What the scheduler has listed, what waits in the streams and what a worker
\* holds are rows the table held, whatever was edited, trimmed, crashed or
\* restarted meanwhile; no stream outgrows its bound and no monitor waits for
\* longer than an interval (Dispatcher.dispatchDue, redisstream.Produce).
THEOREM JobsAreStored == Spec => []ChecksInv
<1> QED BY InitChecks, NextChecks, PTL DEF Spec

\* Whatever the rows, the network and the faults: the verdict of every check
\* is right, and with blocking on no connection is made to a blocked address
\* (checker.Check, safeTransport, ParseStatusCodes).
THEOREM VerdictsAreRight == Spec => []VerdictIsRight
<1> QED BY JobsAreStored, JobsVerdict, PTL
=============================================================================
