------------------------------ MODULE Services ------------------------------
(***************************************************************************)
(* The processes the system is deployed as: cmd/*/main.go over             *)
(* internal/runtime and internal/config.  A process loads its settings,    *)
(* opens its connections one after the other, starts its loop or its http  *)
(* server and waits for a signal; then the closers run, last added first,  *)
(* within ten seconds.  Work goes on in other goroutines meanwhile.        *)
(***************************************************************************)
EXTENDS Naturals, Sequences, FiniteSets

CONSTANTS
  NoHeader,
  Deployments,     \* sets of services to start together
  Envs,            \* environments they may be given
  Requests,        \* requests an http server handles at once
  MaxMishaps       \* bound: signals, crashes, outages, ports taken

HttpServices == {"api", "billing"}
Infra        == {"postgres", "redis", "kafka", "google"}

\* An environment: the settings that are set and readable, and the two that choose.
Settings == {"region", "booleans", "postgres", "redis", "brokers", "secret", "jwt",
             "devLogin", "googleID", "googleSecret", "githubID", "githubSecret",
             "paddleKey", "webhookSecret"}

-----------------------------------------------------------------------------
(* internal/config *)

serviceNeeds ==
  [api       |-> {"postgres", "redis", "kafka", "secret"},
   scheduler |-> {"postgres", "redis", "kafka"},
   worker    |-> {"postgres", "redis", "kafka"},
   alerting  |-> {"postgres", "redis", "kafka"},
   notifier  |-> {"postgres", "redis", "kafka", "secret"},
   billing   |-> {"postgres"}]
ServiceNames == DOMAIN serviceNeeds

ASSUME ServicesAssumption ==
  /\ Deployments \subseteq SUBSET ServiceNames
  /\ \A e \in Envs : e.given \subseteq Settings
  /\ MaxMishaps \in Nat

loadIdentity(e) ==
  "jwt" \in e.given /\ e.given \cap {"devLogin", "googleID", "githubID"} # {}
knownProvider(e) == e.provider \in {"stub", "paddle"}
loadBilling(e)  == knownProvider(e) /\ "webhookSecret" \in e.given

\* Load fails on the first setting that is missing or cannot be read.
Load(s, e) ==
  /\ {"region", "booleans"} \cup (serviceNeeds[s] \ {"kafka"}) \subseteq e.given
  /\ e.bus \in {"kafka", "redis"}
  /\ "kafka" \in serviceNeeds[s] => (IF e.bus = "kafka" THEN "brokers" ELSE "redis") \in e.given
  /\ s = "api" => loadIdentity(e) /\ knownProvider(e)
  /\ s = "billing" => loadBilling(e)

-----------------------------------------------------------------------------
(* The mains: what each opens and starts, in order. *)

apiMain       == <<"postgres", "redis", "producer", "build", "http">>
schedulerMain == <<"postgres", "redis", "producer", "loop">>
workerMain    == <<"postgres", "redis", "producer", "consumer", "loop">>
alertingMain  == <<"postgres", "redis", "producer", "consumer", "loop">>
\* The notifier's loops are cancelled by a defer of main, not by a closer.
notifierMain  == <<"postgres", "cipher", "redis", "consumer", "emailConsumer", "loops">>
billingMain   == <<"postgres", "provider", "http">>

main == [api |-> apiMain, scheduler |-> schedulerMain, worker |-> workerMain,
         alerting |-> alertingMain, notifier |-> notifierMain, billing |-> billingMain]

Threads(s) == CASE s \in HttpServices -> Requests
                [] s = "notifier"     -> {"alerts", "emails"}
                [] OTHER              -> {"loop"}

\* What a thread reads its work from; the scheduler has its ticker.
Reads(s, t) == CASE s \in {"worker", "alerting"} \/ t = "alerts" -> {"consumer"}
                 [] t = "emails" -> {"emailConsumer"}
                 [] OTHER        -> {}
Produces(s) == s \in {"api", "scheduler", "worker", "alerting"}

VARIABLES
  running,         \* the services of this deployment
  env,             \* its environment
  phase,           \* service -> "down", "boot", "serving" or "closing"
  step,            \* service -> steps of its main that are done
  closers,         \* service -> the closers added so far
  open,            \* service -> what it holds open and has not closed
  cipher,          \* service -> its store has a cipher (SetCipher)
  threads,         \* service -> thread -> "idle", or where its handler is
  late,            \* service -> the ten seconds are over
  torn,            \* history: services whose work met a closed connection in time
  up,              \* the stores and providers that answer
  header,          \* the stored value of a monitor's secret header
  jobs,            \* history: header values the published jobs carry
  mishaps

procVars     == <<phase, step, closers, open, cipher, threads, late>>
envVars      == <<running, env, up, mishaps>>
dataVars     == <<torn, header, jobs>>
servicesVars == <<procVars, envVars, dataVars>>

NoWork(s) == [t \in Threads(s) |-> "idle"]

ServicesInit ==
  /\ running \in Deployments /\ env \in Envs /\ up = Infra /\ mishaps = 0
  /\ phase = [s \in ServiceNames |-> "down"] /\ step = [s \in ServiceNames |-> 0]
  /\ closers = [s \in ServiceNames |-> << >>] /\ open = [s \in ServiceNames |-> {}]
  /\ cipher = [s \in ServiceNames |-> FALSE] /\ late = [s \in ServiceNames |-> FALSE]
  /\ threads = [s \in ServiceNames |-> NoWork(s)]
  /\ torn = {} /\ header = NoHeader /\ jobs = {}

Mishap == mishaps < MaxMishaps /\ mishaps' = mishaps + 1

\* The process is gone, with its goroutines and connections.
Exit(s) ==
  /\ phase' = [phase EXCEPT ![s] = "down"] /\ step' = [step EXCEPT ![s] = 0]
  /\ closers' = [closers EXCEPT ![s] = << >>] /\ open' = [open EXCEPT ![s] = {}]
  /\ cipher' = [cipher EXCEPT ![s] = FALSE] /\ late' = [late EXCEPT ![s] = FALSE]
  /\ threads' = [threads EXCEPT ![s] = NoWork(s)]

-----------------------------------------------------------------------------
(* Start *)

\* Setup, when the supervisor starts the process; settings Load refuses end it.
Setup(s) ==
  /\ phase[s] = "down" /\ Load(s, env)
  /\ phase' = [phase EXCEPT ![s] = "boot"]
  /\ UNCHANGED <<step, closers, open, cipher, threads, late, envVars, dataVars>>

ConnectPostgres == "postgres" \in up
ConnectRedis    == "redis" \in up
\* Clients of the bus connect when they are first used, but a consumer on
\* Redis creates its group at once.
ConnectBusProducer == TRUE
ConnectBusConsumer == env.bus = "redis" => "redis" \in up

hasGoogle(e) == {"googleID", "googleSecret"} \subseteq e.given
hasGitHub(e) == {"githubID", "githubSecret"} \subseteq e.given
\* Google's provider is built from its discovery document.
buildProviders == hasGoogle(env) => "google" \in up
canSignIn(e)   == hasGoogle(e) \/ hasGitHub(e) \/ "devLogin" \in e.given
\* The price catalog is read once, at the start.
billingProvider(e) == e.provider = "paddle" => "paddleKey" \in e.given
ListPlanPrices     == env.provider = "paddle" => "postgres" \in up

Build == buildProviders /\ canSignIn(env) /\ ListPlanPrices /\ billingProvider(env)

Succeeds(c) ==
  CASE c = "postgres" -> ConnectPostgres    [] c = "redis"    -> ConnectRedis
    [] c = "producer" -> ConnectBusProducer
    [] c \in {"consumer", "emailConsumer"} -> ConnectBusConsumer
    [] c = "build"    -> Build
    [] c = "provider" -> ListPlanPrices /\ billingProvider(env)
    [] OTHER          -> TRUE

\* What a step leaves for the shutdown.
AddCloser(cs, c) == IF c \in {"build", "provider", "cipher", "loops"} THEN cs ELSE Append(cs, c)
Holds(c) == IF c = "loops" THEN {"loop"} ELSE {c} \ {"build", "provider", "cipher"}

Boot(s) ==
  /\ phase[s] = "boot" /\ step[s] < Len(main[s])
  /\ LET c == main[s][step[s] + 1] IN
     IF ~ Succeeds(c) THEN Exit(s)
     ELSE /\ step' = [step EXCEPT ![s] = @ + 1]
          /\ closers' = [closers EXCEPT ![s] = AddCloser(@, c)]
          /\ open' = [open EXCEPT ![s] = @ \cup Holds(c)]
          /\ cipher' = [cipher EXCEPT ![s] = @ \/ c \in {"build", "cipher"}]
          /\ UNCHANGED <<phase, threads, late>>
  /\ UNCHANGED <<envVars, dataVars>>

\* Run: the exporters, the health server, and the wait for a signal.
Run(s) ==
  /\ phase[s] = "boot" /\ step[s] = Len(main[s])
  /\ phase' = [phase EXCEPT ![s] = "serving"]
  /\ closers' = [closers EXCEPT ![s] = Append(Append(@, "traces"), "logs")]
  /\ UNCHANGED <<step, open, cipher, threads, late, envVars, dataVars>>

\* /readyz asks every connection.
Answers(c) == CASE c = "postgres" -> "postgres" \in up
                [] c = "redis"    -> "redis" \in up
                [] c \in {"producer", "consumer", "emailConsumer"} -> env.bus \in up
                [] OTHER -> TRUE
handleReady(s) == \A c \in open[s] : Answers(c)

-----------------------------------------------------------------------------
(* Shutdown *)

\* A signal before Run ends the process at once.
Signal(s) ==
  /\ phase[s] \in {"boot", "serving"} /\ Mishap
  /\ IF phase[s] = "boot" THEN Exit(s)
     ELSE /\ phase' = [phase EXCEPT ![s] = "closing"]
          /\ UNCHANGED <<step, closers, open, cipher, threads, late>>
  /\ UNCHANGED <<running, env, up, dataVars>>

\* The health server cannot listen: the same way out.
HealthFails(s) ==
  /\ phase[s] = "serving" /\ Mishap
  /\ phase' = [phase EXCEPT ![s] = "closing"]
  /\ UNCHANGED <<step, closers, open, cipher, threads, late, running, env, up, dataVars>>

\* The server of the api or of billing cannot listen (os.Exit), or a crash.
Crash(s) ==
  /\ phase[s] # "down" /\ Mishap
  /\ Exit(s)
  /\ UNCHANGED <<running, env, up, dataVars>>

\* Mutant: the first closer added runs first.
firstAdded(cs) == Head(cs)
nextCloser(cs) == cs[Len(cs)]

\* A closer is called: the server stops accepting, the loop's context is
\* cancelled, the pool hands out no more connections, the client is closed.
CallCloser(s) ==
  /\ phase[s] = "closing" /\ closers[s] # << >>
  /\ nextCloser(closers[s]) \in open[s]
  /\ open' = [open EXCEPT ![s] = @ \ {nextCloser(closers[s])}]
  /\ UNCHANGED <<phase, step, closers, cipher, threads, late, envVars, dataVars>>

\* Mutant: Shutdown is called without a deadline.
noDeadline(s) == FALSE
graceOver(s) == late[s]

\* http.Server.Shutdown returns when no request is left or its context has
\* ended; the pool's Close when no connection is in use.
CloserReturns(s) ==
  /\ phase[s] = "closing" /\ closers[s] # << >>
  /\ LET c == nextCloser(closers[s]) IN
     /\ c \notin open[s]
     /\ c = "http" => graceOver(s) \/ threads[s] = NoWork(s)
     /\ c = "postgres" => \A t \in Threads(s) : threads[s][t] # "tx"
     /\ closers' = [closers EXCEPT ![s] = SubSeq(@, 1, Len(@) - 1)]
  /\ UNCHANGED <<phase, step, open, cipher, threads, late, envVars, dataVars>>

TenSeconds(s) ==
  /\ phase[s] = "closing" /\ ~ late[s]
  /\ late' = [late EXCEPT ![s] = TRUE]
  /\ UNCHANGED <<phase, step, closers, open, cipher, threads, envVars, dataVars>>

\* main returns.
Stopped(s) ==
  /\ phase[s] = "closing" /\ closers[s] = << >>
  /\ Exit(s)
  /\ UNCHANGED <<envVars, dataVars>>

-----------------------------------------------------------------------------
(* Work: a request, a record of a consumer, or a tick of the scheduler. *)

Put(s, t, w) == threads' = [threads EXCEPT ![s][t] = w]
procRest     == <<phase, step, closers, open, cipher, late>>

\* The http server accepts; a loop goes on until its context is cancelled,
\* and reads while its consumer is open.
Take(s, t) ==
  /\ threads[s][t] = "idle"
  /\ IF s \in HttpServices THEN "http" \in open[s]
     ELSE {"loop"} \cup Reads(s, t) \subseteq open[s]
  /\ Put(s, t, "io")
  /\ UNCHANGED <<procRest, envVars, dataVars>>

\* A call on a connection that was closed fails the work in hand.
Torn(s, t) ==
  /\ Put(s, t, "idle")
  /\ torn' = IF graceOver(s) THEN torn ELSE torn \cup {s}

\* A transaction begins, holding a connection of the pool.
Begin(s, t) ==
  /\ threads[s][t] = "io"
  /\ IF "postgres" \in open[s] THEN Put(s, t, "tx") /\ UNCHANGED torn ELSE Torn(s, t)
  /\ UNCHANGED <<procRest, envVars, header, jobs>>

encodeHeaders(s)    == IF cipher[s] THEN "sealed" ELSE "plain"
decodeHeaders(s, h) == IF cipher[s] THEN "plain" ELSE h

\* It ends; an api request may have written the monitor.
Commit(s, t) ==
  /\ threads[s][t] = "tx"
  /\ Put(s, t, "out")
  /\ header' \in IF s = "api" THEN {header, encodeHeaders(s)} ELSE {header}
  /\ UNCHANGED <<procRest, envVars, torn, jobs>>

\* After the transaction: the event or the job is produced, the mail sent, the
\* answer written.  The scheduler's tick and the api's check now carry the
\* monitor as their store read it.
Finish(s, t) ==
  /\ threads[s][t] = "out"
  /\ IF Produces(s) /\ "producer" \notin open[s]
     THEN Torn(s, t) /\ UNCHANGED jobs
     ELSE /\ Put(s, t, "idle") /\ UNCHANGED torn
          /\ jobs' \in IF s \in {"api", "scheduler"} /\ header # NoHeader
                       THEN {jobs, jobs \cup {decodeHeaders(s, header)}} ELSE {jobs}
  /\ UNCHANGED <<procRest, envVars, header>>

-----------------------------------------------------------------------------
InfraDown(i) ==
  /\ i \in up /\ Mishap /\ up' = up \ {i}
  /\ UNCHANGED <<running, env, procVars, dataVars>>
InfraUp(i) ==
  /\ i \notin up /\ up' = up \cup {i}
  /\ UNCHANGED <<running, env, mishaps, procVars, dataVars>>

Lifecycle(s) == Setup(s) \/ Boot(s) \/ Run(s)
Shutdown(s)  == CallCloser(s) \/ CloserReturns(s) \/ Stopped(s)

ServicesNext ==
  \/ \E s \in running :
       \/ Lifecycle(s) \/ Shutdown(s) \/ TenSeconds(s)
       \/ Signal(s) \/ HealthFails(s) \/ Crash(s)
       \/ \E t \in Threads(s) : Take(s, t) \/ Begin(s, t) \/ Commit(s, t) \/ Finish(s, t)
  \/ \E i \in Infra : InfraDown(i) \/ InfraUp(i)

\* The supervisor starts what is down, main and the timer run on, Postgres
\* answers, outages end.  A request may hang in Finish for good: its client
\* need not read.
ServicesSpec ==
  /\ ServicesInit /\ [][ServicesNext]_servicesVars
  /\ \A s \in ServiceNames :
       /\ WF_servicesVars(s \in running /\ Lifecycle(s)) /\ WF_servicesVars(s \in running /\ Shutdown(s))
       /\ WF_servicesVars(s \in running /\ TenSeconds(s))
       /\ \A t \in Threads(s) : WF_servicesVars(s \in running /\ Commit(s, t))
  /\ \A i \in Infra : WF_servicesVars(InfraUp(i))

-----------------------------------------------------------------------------
(* Correctness. *)

\* A request of the api or of billing that was accepted finds its connections
\* open until it is done, unless the ten seconds ran out: the closers undo
\* main in reverse, and the server waits for its requests before the clients
\* they use are closed (Service.Run, AddCloser).
DrainedBeforeClosed == torn \cap HttpServices = {}

\* Settings Load accepts and Build can use.
Sound(s, e) ==
  /\ Load(s, e)
  /\ s = "api" => canSignIn(e) /\ billingProvider(e)
  /\ s = "billing" => billingProvider(e)

\* After the last fault a service with sound settings serves, and is ready:
\* neither a request that hangs nor work in hand keeps the old process from
\* ending, and a start that met an outage is tried again.
ComesBack ==
  \A s \in ServiceNames :
    s \in running /\ Sound(s, env) => <>[](phase[s] = "serving" /\ handleReady(s))

-----------------------------------------------------------------------------
(* What the documents promise and the code does not keep. *)

\* RFC-002 4.3: on check.jobs "secret header values are present and decrypted
\* here because the worker must send them".
HeadersDecrypted == "sealed" \notin jobs
=============================================================================
