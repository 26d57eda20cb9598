--------------------------- MODULE NotifierProofs ---------------------------
(***************************************************************************)
(* The safety of the notifier, for every bus, any number of consumers,     *)
(* channels, webhooks, events, evictions and faults.                       *)
(*                                                                         *)
(* DeliveredOnce is not inductive: a send is the first one because the     *)
(* event was claimed before, by nobody else.  Inv adds that (GateHolds),   *)
(* that nothing was sent of an event nobody claimed (FreshUntouched), and  *)
(* how far each fan-out has got (ProgressOK).                              *)
(***************************************************************************)
EXTENDS Notifier, ConsumerGroupProofs, TLAPS

Outcomes == {None, "sending", "delivered", "failed"}

NotifierType ==
  /\ GroupTypeOK(Record, Steps)
  /\ claimed \in SUBSET Keys
  /\ out \in [Consumers -> [Channels -> Outcomes]]
  /\ tries \in [Keys -> [Channels -> Nat]]
  /\ accepted \in [Keys -> [Channels -> Nat]]
  /\ posted \in [Keys -> [HookPosts -> Nat]]
  /\ hooksLeft \in [Consumers -> SUBSET Hooks]
  /\ edits \in Nat

\* Past the gate an event is claimed, and a consumer alone with it.
GateHolds ==
  /\ \A c \in Consumers : FanningOut(c) => key(c) \in claimed
  /\ SoleDispatcher

Untouched(k) ==
  /\ \A ch \in Channels : tries[k][ch] = 0 /\ accepted[k][ch] = 0
  /\ \A p \in HookPosts : posted[k][p] = 0

FreshUntouched == \A k \in Keys \ claimed : Untouched(k)

\* What the fan-out of c still has to do has not been done before.
Progress(c) ==
  /\ pc[c] = "channels" => Untouched(key(c))
  /\ pc[c] = "send" => \A ch \in Channels : out[c][ch] = "sending" =>
       accepted[key(c)][ch] = 0 /\ tries[key(c)][ch] < maxRetries
  /\ pc[c] \in {"send", "record"} => \A p \in HookPosts : posted[key(c)][p] = 0
  /\ pc[c] = "hooks" => \A p \in HookPosts : p[1] \in hooksLeft[c] => posted[key(c)][p] = 0

ProgressOK == \A c \in Consumers : Progress(c)

Safe == GateHolds /\ FreshUntouched /\ ProgressOK /\ DeliveredOnce

Inv == NotifierType /\ Safe

-----------------------------------------------------------------------------
(* The record a consumer works on. *)

\* A consumer inside the handler is on a record of the stream.
LEMMA OnRecord ==
  ASSUME NotifierType, NEW c \in Consumers, pc[c] # "idle" \/ HasRecord(c)
  PROVE  /\ pos[c] \in DOMAIN stream /\ pos[c] <= fetched[c]
         /\ record(c) \in Record /\ key(c) \in Keys
<1>1. pos[c] \in Nat \ {0} /\ pos[c] <= fetched[c] /\ fetched[c] <= Len(stream) /\ fetched[c] \in Nat
  BY DEF NotifierType, GroupTypeOK, HasRecord
<1>2. stream \in Seq(Record)
  BY DEF NotifierType, GroupTypeOK
<1>3. pos[c] \in DOMAIN stream
  BY <1>1, <1>2
<1>4. stream[pos[c]] \in Record
  BY <1>2, <1>3
<1> QED BY <1>1, <1>3, <1>4 DEF record, key, Record

\* A step that sends nothing, claims perhaps, and leaves the other fan-outs
\* where they are keeps the notifier safe.
Stays(d) == pc'[d] = pc[d] /\ pos'[d] = pos[d] /\ out'[d] = out[d] /\ hooksLeft'[d] = hooksLeft[d]
StreamGrows == \A n \in DOMAIN stream : n \in DOMAIN stream' /\ stream'[n] = stream[n]

LEMMA QuietStep ==
  ASSUME Inv, NotifierType', StreamGrows, claimed \subseteq claimed',
         UNCHANGED <<tries, accepted, posted>>,
         \A d \in Consumers : Stays(d) \/ ~ FanningOut(d)'
  PROVE  Safe'
<1>1. ASSUME NEW d \in Consumers, FanningOut(d)'
      PROVE  Stays(d) /\ FanningOut(d) /\ key(d)' = key(d)
  <2>1. Stays(d) /\ FanningOut(d)
    BY <1>1 DEF Stays, FanningOut
  <2>2. pos[d] \in DOMAIN stream
    BY <2>1, OnRecord DEF Inv, FanningOut
  <2> QED BY <2>1, <2>2 DEF Stays, StreamGrows, key, record
<1>2. GateHolds'
  BY <1>1 DEF Inv, Safe, GateHolds, SoleDispatcher
<1>3. FreshUntouched'
  BY DEF Inv, Safe, FreshUntouched, Untouched
<1>4. ASSUME NEW d \in Consumers PROVE Progress(d)'
  <2>1. CASE ~ FanningOut(d)'
    BY <2>1 DEF Progress, FanningOut
  <2>2. CASE FanningOut(d)'
    <3>1. Progress(d) /\ Stays(d) /\ key(d)' = key(d)
      BY <1>1, <2>2 DEF Inv, Safe, ProgressOK
    <3> QED BY <3>1 DEF Progress, Stays, Untouched
  <2> QED BY <2>1, <2>2
<1>5. DeliveredOnce'
  BY DEF Inv, Safe, DeliveredOnce
<1> QED BY <1>2, <1>3, <1>4, <1>5 DEF Safe, ProgressOK

-----------------------------------------------------------------------------
(* Steps that send nothing. *)

\* What the tables of the gate and the send histories may do in such a step.
NothingSent ==
  /\ claimed \subseteq claimed' /\ claimed' \subseteq Keys
  /\ UNCHANGED <<tries, accepted, posted>>
  /\ edits' \in Nat /\ faults' \in Nat

\* handle returns, with or without an error (HandleOK, HandleErr).
LEMMA EndsHandling ==
  ASSUME Inv, NEW c \in Consumers, pc[c] # "idle" \/ HasRecord(c),
         HandleOK(c) \/ HandleErr(c), NothingSent
  PROVE  Inv'
<1>1. Forget(c) /\ (ReturnOK(c) \/ ReturnErr(c)) /\ pos[c] <= fetched[c] /\ faults' \in Nat
  BY OnRecord DEF HandleOK, HandleErr, Inv, NothingSent
<1>2. GroupTypeOK(Record, Steps)'
  BY <1>1, ReturnOKType, ReturnErrType DEF Inv, NotifierType
<1>3. NotifierType'
  BY <1>1, <1>2 DEF Inv, NotifierType, Forget, NothingSent, Outcomes
<1>4. /\ pc' \in [Consumers -> Steps \cup {"idle", "ack"}] /\ pc'[c] \in {"idle", "ack"}
      /\ StreamGrows
      /\ \A d \in Consumers \ {c} : pc'[d] = pc[d] /\ pos'[d] = pos[d]
  BY <1>1, <1>2 DEF ReturnOK, ReturnErr, StreamGrows, Inv, NotifierType, GroupTypeOK
<1>5. \A d \in Consumers \ {c} : out'[d] = out[d] /\ hooksLeft'[d] = hooksLeft[d]
  BY <1>1 DEF Forget, Inv, NotifierType
<1>6. \A d \in Consumers : Stays(d) \/ ~ FanningOut(d)'
  BY <1>4, <1>5 DEF Stays, FanningOut
<1> QED BY <1>3, <1>4, <1>6, QuietStep DEF NothingSent, Inv

\* handle goes on towards the gate (Receive, dedup).
LEMMA GoesOnToGate ==
  ASSUME Inv, NEW c \in Consumers, pc[c] # "idle" \/ HasRecord(c),
         NEW step \in {"setnx", "claim"}, Goto(c, step), UNCHANGED fan, NothingSent
  PROVE  Inv'
<1>1. pos[c] <= fetched[c] /\ faults' \in Nat /\ step \in Steps
  BY OnRecord DEF Inv, NothingSent, Steps
<1>2. GroupTypeOK(Record, Steps)'
  BY <1>1, GotoType DEF Inv, NotifierType
<1>3. NotifierType'
  BY <1>2 DEF Inv, NotifierType, NothingSent, fan
<1>4. /\ pc' = [pc EXCEPT ![c] = step] /\ pos' = pos /\ StreamGrows
      /\ out' = out /\ hooksLeft' = hooksLeft
  BY DEF Goto, StreamGrows, fan
<1>5. \A d \in Consumers : Stays(d) \/ ~ FanningOut(d)'
  BY <1>4 DEF Stays, FanningOut, Inv, NotifierType, GroupTypeOK
<1> QED BY <1>3, <1>4, <1>5, QuietStep DEF NothingSent, Inv

\* The poll loop, a rebalance and a crash leave every running fan-out alone.
LEMMA LoopSteps ==
  ASSUME Inv, NEW c \in Consumers, PollLoop(c) \/ PollFault(c) \/ Crash(c)
  PROVE  Inv'
<1>1. GroupTypeOK(Record, Steps)'
  BY LoopType, LoopFaultType, RestartType DEF Inv, NotifierType, PollLoop, PollFault, Crash
<1>2. NotifierType'
  BY <1>1 DEF Inv, NotifierType, PollLoop, PollFault, Crash, Forget, Outcomes, gate, fan, history, env
<1>3. /\ pc'[c] \in {"idle", "ack"} \/ (pc' = pc /\ pos' = pos)
      /\ \A d \in Consumers \ {c} : pc'[d] = pc[d] /\ pos'[d] = pos[d]
      /\ StreamGrows
  <2>1. CASE Loop(c)
    BY <2>1 DEF Loop, Poll, AutoCommit, Ack, StreamGrows, Inv, NotifierType, GroupTypeOK
  <2>2. CASE LoopFault(c)
    BY <2>2 DEF LoopFault, AckFail, ReturnErr, Rebalance, StreamGrows, Inv, NotifierType, GroupTypeOK
  <2>3. CASE Restart(c)
    BY <2>3 DEF Restart, StreamGrows, Inv, NotifierType, GroupTypeOK
  <2> QED BY <2>1, <2>2, <2>3 DEF PollLoop, PollFault, Crash
<1>4. \/ UNCHANGED <<out, hooksLeft>>
      \/ pc'[c] = "idle" /\ \A d \in Consumers \ {c} : out'[d] = out[d] /\ hooksLeft'[d] = hooksLeft[d]
  <2>1. CASE Crash(c)
    BY <2>1 DEF Crash, Restart, Forget, Inv, NotifierType, GroupTypeOK
  <2> QED BY <2>1 DEF PollLoop, PollFault, fan
<1>5. \A d \in Consumers : Stays(d) \/ ~ FanningOut(d)'
  BY <1>3, <1>4 DEF Stays, FanningOut
<1>6. claimed' = claimed /\ UNCHANGED <<tries, accepted, posted>>
  BY DEF PollLoop, PollFault, Crash, gate, history
<1> QED BY <1>2, <1>3, <1>5, <1>6, QuietStep DEF Inv

\* New events, evictions and edits of the channel list.
LEMMA OutsideSteps ==
  ASSUME Inv, \/ Publish
              \/ \E k \in Keys : Evict(k)
              \/ \E S \in SUBSET Channels : SetChannels(S)
  PROVE  Inv'
<1>1. GroupTypeOK(Record, Steps)' /\ StreamGrows /\ UNCHANGED <<pos, pc>>
  <2>1. CASE Publish
    <3>1. PICK r \in Record : Produce(r)
      BY <2>1 DEF Publish
    <3> QED BY <3>1, ProduceType DEF Inv, NotifierType, GroupTypeOK, Produce, StreamGrows
  <2>2. CASE UNCHANGED groupVars
    BY <2>2 DEF groupVars, StreamGrows, Inv, NotifierType, GroupTypeOK
  <2> QED BY <2>1, <2>2 DEF Evict, SetChannels
<1>2. UNCHANGED <<claimed, out, hooksLeft, tries, accepted, posted>> /\ edits' \in Nat
  BY DEF Publish, Evict, SetChannels, gate, fan, history, env, Inv, NotifierType
<1>3. NotifierType'
  BY <1>1, <1>2 DEF Inv, NotifierType
<1>4. \A d \in Consumers : Stays(d)
  BY <1>1, <1>2 DEF Stays
<1> QED BY <1>1, <1>2, <1>3, <1>4, QuietStep DEF Inv

-----------------------------------------------------------------------------
(* Steps past the gate. *)

\* The counts of one event are within the limits.
WithinOnce(k) ==
  /\ \A ch \in Channels : accepted[k][ch] <= 1 /\ tries[k][ch] <= maxRetries
  /\ \A p \in HookPosts : posted[k][p] <= 1

\* A step of c's fan-out that touches no event but its own disturbs nobody:
\* the other fan-outs are about other events.
LEMMA FanStep ==
  ASSUME Inv, NotifierType', NEW c \in Consumers, FanningOut(c), FanningOut(c)',
         UNCHANGED <<stream, pos, claimed>>,
         \A d \in Consumers \ {c} : Stays(d),
         \A k \in Keys \ {key(c)} :
           tries'[k] = tries[k] /\ accepted'[k] = accepted[k] /\ posted'[k] = posted[k],
         Progress(c)', WithinOnce(key(c))'
  PROVE  Inv'
<1>1. \A d \in Consumers : key(d)' = key(d) /\ (FanningOut(d)' <=> FanningOut(d))
  BY DEF key, record, FanningOut, Stays
<1>2. GateHolds'
  BY <1>1 DEF Inv, Safe, GateHolds, SoleDispatcher
<1>3. key(c) \in claimed
  BY DEF Inv, Safe, GateHolds
<1>4. FreshUntouched'
  BY <1>3 DEF Inv, Safe, FreshUntouched, Untouched
<1>5. ASSUME NEW d \in Consumers PROVE Progress(d)'
  <2>1. CASE d # c /\ FanningOut(d)
    <3>1. key(d) \in Keys \ {key(c)}
      BY <2>1, OnRecord DEF Inv, Safe, GateHolds, SoleDispatcher, FanningOut
    <3>2. Progress(d) /\ Stays(d) /\ key(d)' = key(d)
      BY <1>1, <2>1 DEF Inv, Safe, ProgressOK
    <3> QED BY <3>1, <3>2 DEF Progress, Stays, Untouched
  <2>2. CASE ~ FanningOut(d)
    BY <1>1, <2>2 DEF Progress, FanningOut
  <2> QED BY <2>1, <2>2
<1>6. ASSUME NEW k \in Keys PROVE WithinOnce(k)'
  <2>1. WithinOnce(k)
    BY DEF Inv, Safe, DeliveredOnce, WithinOnce
  <2>2. CASE k = key(c)
    BY <2>2, <1>1 DEF WithinOnce
  <2>3. CASE k # key(c)
    BY <2>1, <2>3 DEF WithinOnce
  <2> QED BY <2>2, <2>3
<1>7. DeliveredOnce'
  BY <1>6 DEF DeliveredOnce, WithinOnce
<1> QED BY <1>2, <1>4, <1>5, <1>7 DEF Inv, Safe, ProgressOK

\* A claim that meets no row opens the gate for c alone (ClaimNotifyDedup).
LEMMA ClaimStep ==
  ASSUME Inv, NEW c \in Consumers, ClaimNotifyDedup(c), ~ Conflict(c)
  PROVE  Inv'
<1>1. /\ pc[c] = "claim" /\ key(c) \notin claimed /\ claimed' = claimed \cup {key(c)}
      /\ Goto(c, "channels") /\ UNCHANGED <<out, hooksLeft, tries, accepted, posted, edits, faults>>
  BY DEF ClaimNotifyDedup, Conflict, fan, history, env
<1>2. key(c) \in Keys /\ pos[c] <= fetched[c]
  BY <1>1, OnRecord DEF Inv
<1>3. GroupTypeOK(Record, Steps)'
  BY <1>1, <1>2, GotoType DEF Inv, NotifierType, GroupTypeOK, Steps
<1>4. NotifierType'
  BY <1>1, <1>2, <1>3 DEF Inv, NotifierType
<1>5. pc' = [pc EXCEPT ![c] = "channels"] /\ UNCHANGED <<stream, pos>>
  BY <1>1 DEF Goto
<1>6. pc \in [Consumers -> Steps \cup {"idle", "ack"}]
  BY DEF Inv, NotifierType, GroupTypeOK
<1>7. /\ \A d \in Consumers : key(d)' = key(d)
      /\ \A d \in Consumers \ {c} : pc'[d] = pc[d] /\ (FanningOut(d)' <=> FanningOut(d))
      /\ pc'[c] = "channels"
  BY <1>5, <1>6 DEF key, record, FanningOut
<1>8. GateHolds'
  BY <1>1, <1>7 DEF Inv, Safe, GateHolds, SoleDispatcher, FanningOut
<1>9. FreshUntouched'
  BY <1>1 DEF Inv, Safe, FreshUntouched, Untouched
<1>10. ASSUME NEW d \in Consumers PROVE Progress(d)'
  <2>1. CASE d = c
    <3>1. Untouched(key(c))
      BY <1>1, <1>2 DEF Inv, Safe, FreshUntouched
    <3> QED BY <1>1, <1>7, <2>1, <3>1 DEF Progress, Untouched
  <2>2. CASE d # c
    <3>1. Progress(d)
      BY DEF Inv, Safe, ProgressOK
    <3> QED BY <1>1, <1>7, <2>2, <3>1 DEF Progress, Untouched
  <2> QED BY <2>1, <2>2
<1>11. DeliveredOnce'
  BY <1>1 DEF Inv, Safe, DeliveredOnce
<1> QED BY <1>4, <1>8, <1>9, <1>10, <1>11 DEF Inv, Safe, ProgressOK

\* A step of the fan-out that moves pc[c] on and sends nothing.
LEMMA FanGoto ==
  ASSUME Inv, NEW c \in Consumers, FanningOut(c),
         NEW step \in {"send", "record", "hooks"}, Goto(c, step),
         UNCHANGED <<claimed, tries, accepted, posted, edits, faults>>,
         out' \in [Consumers -> [Channels -> Outcomes]],
         hooksLeft' \in [Consumers -> SUBSET Hooks],
         \A d \in Consumers \ {c} : out'[d] = out[d] /\ hooksLeft'[d] = hooksLeft[d],
         Progress(c)'
  PROVE  Inv'
<1>1. key(c) \in Keys /\ pos[c] <= fetched[c] /\ step \in Steps /\ faults' \in Nat
  BY OnRecord DEF Inv, FanningOut, Steps, NotifierType, GroupTypeOK
<1>2. GroupTypeOK(Record, Steps)'
  BY <1>1, GotoType DEF Inv, NotifierType
<1>3. NotifierType'
  BY <1>2 DEF Inv, NotifierType
<1>4. pc' = [pc EXCEPT ![c] = step] /\ UNCHANGED <<stream, pos>>
  BY DEF Goto
<1>5. pc \in [Consumers -> Steps \cup {"idle", "ack"}]
  BY DEF Inv, NotifierType, GroupTypeOK
<1>6. FanningOut(c)' /\ \A d \in Consumers \ {c} : Stays(d)
  BY <1>4, <1>5 DEF FanningOut, Stays
<1>7. WithinOnce(key(c))'
  BY <1>1, <1>4 DEF Inv, Safe, DeliveredOnce, WithinOnce, key, record
<1> QED BY <1>3, <1>4, <1>6, <1>7, FanStep

\* The channels are loaded and the goroutines start, or there are none
\* (GetChannelsForMonitor).
LEMMA LoadStep ==
  ASSUME Inv, NEW c \in Consumers, GetChannelsForMonitor(c)
  PROVE  Inv'
<1> DEFINE step == IF attached = {} THEN "hooks" ELSE "send"
<1>1. /\ pc[c] = "channels" /\ Goto(c, step) /\ step \in {"send", "record", "hooks"}
      /\ UNCHANGED <<claimed, tries, accepted, posted, edits, faults>>
      /\ out' = [out EXCEPT ![c] = [ch \in Channels |-> IF ch \in attached THEN "sending" ELSE None]]
      /\ hooksLeft' = [hooksLeft EXCEPT ![c] = Hooks]
  BY DEF GetChannelsForMonitor, gate, history, env
<1>2. /\ out' \in [Consumers -> [Channels -> Outcomes]]
      /\ hooksLeft' \in [Consumers -> SUBSET Hooks]
      /\ \A d \in Consumers \ {c} : out'[d] = out[d] /\ hooksLeft'[d] = hooksLeft[d]
  BY <1>1 DEF Inv, NotifierType, Outcomes
<1>3. Untouched(key(c)) /\ key(c)' = key(c) /\ key(c) \in Keys
  BY <1>1, OnRecord DEF Inv, Safe, ProgressOK, Progress, key, record, Goto
<1>4. pc'[c] = step
  BY <1>1 DEF Goto, Inv, NotifierType, GroupTypeOK
<1>5. Progress(c)'
  BY <1>1, <1>3, <1>4, NotifierAssumption DEF Progress, Untouched
<1>6. FanningOut(c)
  BY <1>1 DEF FanningOut
<1> HIDE DEF step
<1> QED BY <1>1, <1>2, <1>5, <1>6, FanGoto

\* One attempt of one channel's goroutine, accepted or not (sendWithRetry).
LEMMA SendStep ==
  ASSUME Inv, NEW c \in Consumers, NEW ch \in Channels, Send(c, ch) \/ SendFail(c, ch)
  PROVE  Inv'
<1> DEFINE k == key(c)
<1>1. /\ pc[c] = "send" /\ out[c][ch] = "sending"
      /\ tries' = [tries EXCEPT ![k][ch] = @ + 1]
      /\ UNCHANGED <<stream, committed, owner, pos, fetched, pc, claimed, hooksLeft, posted, edits, faults>>
  BY DEF Send, SendFail, Tried, group, gate, env
<1>2. \/ /\ accepted' = [accepted EXCEPT ![k][ch] = @ + 1]
         /\ out' = [out EXCEPT ![c][ch] = "delivered"]
      \/ /\ accepted' = accepted
         /\ out' = [out EXCEPT ![c][ch] = IF MayRetry(tries'[k][ch]) THEN "sending" ELSE "failed"]
  BY DEF Send, SendFail
<1>3. k \in Keys /\ FanningOut(c)
  BY <1>1, OnRecord DEF Inv, FanningOut
<1>4. /\ accepted[k][ch] = 0 /\ tries[k][ch] < maxRetries
      /\ \A p \in HookPosts : posted[k][p] = 0
  BY <1>1 DEF Inv, Safe, ProgressOK, Progress
<1>5. /\ tries \in [Keys -> [Channels -> Nat]] /\ accepted \in [Keys -> [Channels -> Nat]]
      /\ out \in [Consumers -> [Channels -> Outcomes]] /\ maxRetries \in Nat \ {0}
  BY NotifierAssumption DEF Inv, NotifierType
<1> HIDE DEF k
<1>6. /\ tries' \in [Keys -> [Channels -> Nat]] /\ tries'[k][ch] = tries[k][ch] + 1
      /\ \A q \in Keys \ {k} : tries'[q] = tries[q]
      /\ \A x \in Channels \ {ch} : tries'[k][x] = tries[k][x]
  BY <1>1, <1>3, <1>5
<1>7. /\ accepted' \in [Keys -> [Channels -> Nat]] /\ accepted'[k][ch] \in {0, 1}
      /\ \A q \in Keys \ {k} : accepted'[q] = accepted[q]
      /\ \A x \in Channels \ {ch} : accepted'[k][x] = accepted[k][x]
      /\ accepted'[k][ch] = 1 => out'[c][ch] = "delivered"
  <2>1. CASE accepted' = accepted
    BY <1>4, <2>1, <1>5
  <2>2. CASE accepted' = [accepted EXCEPT ![k][ch] = @ + 1] /\ out' = [out EXCEPT ![c][ch] = "delivered"]
    <3>1. accepted' \in [Keys -> [Channels -> Nat]] /\ accepted'[k][ch] = accepted[k][ch] + 1
      BY <2>2, <1>3, <1>5
    <3>2. out'[c][ch] = "delivered"
      BY <2>2, <1>5
    <3> QED BY <2>2, <1>3, <1>4, <1>5, <3>1, <3>2
  <2> QED BY <1>2, <2>1, <2>2
<1>8. /\ out' \in [Consumers -> [Channels -> Outcomes]]
      /\ \A d \in Consumers \ {c} : out'[d] = out[d]
      /\ \A x \in Channels \ {ch} : out'[c][x] = out[c][x]
      /\ out'[c][ch] = "sending" => MayRetry(tries'[k][ch])
  <2>1. CASE out' = [out EXCEPT ![c][ch] = "delivered"]
    BY <2>1, <1>5 DEF Outcomes
  <2>2. CASE out' = [out EXCEPT ![c][ch] = IF MayRetry(tries'[k][ch]) THEN "sending" ELSE "failed"]
    BY <2>2, <1>5 DEF Outcomes
  <2> QED BY <1>2, <2>1, <2>2
<1>9. NotifierType'
  BY <1>1, <1>6, <1>7, <1>8 DEF Inv, NotifierType, GroupTypeOK
<1>10. FanningOut(c)' /\ key(c)' = k /\ \A d \in Consumers \ {c} : Stays(d)
  BY <1>1, <1>8 DEF FanningOut, key, record, Stays, k
<1>11. Progress(c)'
  <2>1. ASSUME NEW x \in Channels, out'[c][x] = "sending"
        PROVE  accepted'[k][x] = 0 /\ tries'[k][x] < maxRetries
    <3>1. CASE x = ch
      BY <1>7, <1>8, <2>1, <3>1 DEF MayRetry
    <3>2. CASE x # ch
      <4>1. out[c][x] = "sending"
        BY <1>8, <2>1, <3>2
      <4> QED BY <1>1, <1>6, <1>7, <3>2, <4>1 DEF Inv, Safe, ProgressOK, Progress, k
    <3> QED BY <3>1, <3>2
  <2> QED BY <1>1, <1>4, <1>10, <2>1 DEF Progress
<1>12. WithinOnce(key(c))'
  <2>1. ASSUME NEW x \in Channels PROVE accepted'[k][x] <= 1 /\ tries'[k][x] <= maxRetries
    <3>1. CASE x = ch
      BY <1>4, <1>5, <1>6, <1>7, <1>3, <3>1
    <3>2. CASE x # ch
      BY <1>3, <1>6, <1>7, <3>2 DEF Inv, Safe, DeliveredOnce
    <3> QED BY <3>1, <3>2
  <2>2. \A p \in HookPosts : posted'[k][p] <= 1
    BY <1>1, <1>4
  <2> QED BY <1>10, <2>1, <2>2 DEF WithinOnce
<1> QED BY <1>1, <1>3, <1>6, <1>7, <1>9, <1>10, <1>11, <1>12, FanStep DEF k

\* The goroutines are done, or their outcomes recorded (Dispatch, RecordDelivery).
LEMMA DoneSteps ==
  ASSUME Inv, NEW c \in Consumers, Dispatched(c) \/ Recorded(c)
  PROVE  Inv'
<1>1. CASE Dispatched(c)
  <2>1. pc[c] = "send" /\ Goto(c, "record") /\ UNCHANGED <<claimed, out, hooksLeft, tries, accepted, posted, edits, faults>>
    BY <1>1 DEF Dispatched, gate, fan, history, env
  <2>2. pc'[c] = "record" /\ key(c)' = key(c)
    BY <2>1 DEF Goto, Inv, NotifierType, GroupTypeOK, key, record
  <2>3. Progress(c)'
    BY <2>1, <2>2 DEF Inv, Safe, ProgressOK, Progress
  <2>4. FanningOut(c) /\ out' \in [Consumers -> [Channels -> Outcomes]] /\ hooksLeft' \in [Consumers -> SUBSET Hooks]
    BY <2>1 DEF FanningOut, Inv, NotifierType
  <2> QED BY <2>1, <2>3, <2>4, FanGoto
<1>2. CASE Recorded(c)
  <2>1. pc[c] = "record" /\ Goto(c, "hooks") /\ UNCHANGED <<claimed, out, hooksLeft, tries, accepted, posted, edits, faults>>
    BY <1>2 DEF Recorded, gate, fan, history, env
  <2>2. pc'[c] = "hooks" /\ key(c)' = key(c)
    BY <2>1 DEF Goto, Inv, NotifierType, GroupTypeOK, key, record
  <2>3. Progress(c)'
    BY <2>1, <2>2 DEF Inv, Safe, ProgressOK, Progress
  <2>4. FanningOut(c) /\ out' \in [Consumers -> [Channels -> Outcomes]] /\ hooksLeft' \in [Consumers -> SUBSET Hooks]
    BY <2>1 DEF FanningOut, Inv, NotifierType
  <2> QED BY <2>1, <2>3, <2>4, FanGoto
<1> QED BY <1>1, <1>2

\* Recording an outcome, or failing to (RecordDelivery).
LEMMA RecordStep ==
  ASSUME Inv, NEW c \in Consumers, NEW ch \in Channels, RecordDelivery(c, ch) \/ RecordFail(c, ch)
  PROVE  Inv'
<1>1. /\ pc[c] = "record" /\ out' = [out EXCEPT ![c][ch] = None]
      /\ UNCHANGED <<stream, committed, owner, pos, fetched, pc, claimed, hooksLeft, tries, accepted, posted, edits>>
      /\ faults' \in Nat
  BY DEF RecordDelivery, RecordFail, GoesWrong, group, gate, history, env, Inv, NotifierType, GroupTypeOK
<1>2. /\ out' \in [Consumers -> [Channels -> Outcomes]]
      /\ \A d \in Consumers \ {c} : out'[d] = out[d]
  BY <1>1 DEF Inv, NotifierType, Outcomes
<1>3. NotifierType'
  BY <1>1, <1>2 DEF Inv, NotifierType, GroupTypeOK
<1>4. FanningOut(c) /\ FanningOut(c)' /\ key(c)' = key(c) /\ key(c) \in Keys /\ \A d \in Consumers \ {c} : Stays(d)
  BY <1>1, <1>2, OnRecord DEF Inv, FanningOut, key, record, Stays
<1>5. Progress(c)' /\ WithinOnce(key(c))'
  BY <1>1, <1>4 DEF Inv, Safe, ProgressOK, Progress, DeliveredOnce, WithinOnce
<1> QED BY <1>1, <1>3, <1>4, <1>5, FanStep

\* One webhook is posted to, once for each event type (DeliverWebhook).
LEMMA HookStep ==
  ASSUME Inv, NEW c \in Consumers, NEW h \in Hooks, DeliverWebhook(c, h)
  PROVE  Inv'
<1> DEFINE k == key(c)
<1>1. /\ pc[c] = "hooks" /\ h \in hooksLeft[c] /\ hooksLeft' = [hooksLeft EXCEPT ![c] = @ \ {h}]
      /\ UNCHANGED <<stream, committed, owner, pos, fetched, pc, claimed, out, tries, accepted, edits, faults>>
  BY DEF DeliverWebhook, group, gate, env
<1>2. PICK sent : posted' = [posted EXCEPT ![k] =
                    [p \in HookPosts |-> IF p[1] = h /\ p[2] \in sent THEN @[p] + 1 ELSE @[p]]]
  BY DEF DeliverWebhook
<1>3. k \in Keys /\ FanningOut(c)
  BY <1>1, OnRecord DEF Inv, FanningOut
<1>4. /\ posted \in [Keys -> [HookPosts -> Nat]] /\ hooksLeft \in [Consumers -> SUBSET Hooks]
      /\ \A p \in HookPosts : posted[k][p] <= 1 /\ (p[1] \in hooksLeft[c] => posted[k][p] = 0)
  BY <1>1, <1>3 DEF Inv, NotifierType, Safe, ProgressOK, Progress, DeliveredOnce
<1> HIDE DEF k
<1>5. /\ posted' \in [Keys -> [HookPosts -> Nat]]
      /\ \A q \in Keys \ {k} : posted'[q] = posted[q]
      /\ \A p \in HookPosts : posted'[k][p] = IF p[1] = h /\ p[2] \in sent THEN posted[k][p] + 1 ELSE posted[k][p]
  BY <1>2, <1>3, <1>4
<1>6. /\ hooksLeft' \in [Consumers -> SUBSET Hooks] /\ hooksLeft'[c] = hooksLeft[c] \ {h}
      /\ \A d \in Consumers \ {c} : hooksLeft'[d] = hooksLeft[d]
  BY <1>1, <1>4
<1>7. NotifierType'
  BY <1>1, <1>5, <1>6 DEF Inv, NotifierType, GroupTypeOK
<1>8. FanningOut(c)' /\ key(c)' = k /\ \A d \in Consumers \ {c} : Stays(d)
  BY <1>1, <1>6 DEF FanningOut, key, record, Stays, k
<1>9. ASSUME NEW p \in HookPosts
      PROVE  posted'[k][p] <= 1 /\ (p[1] \in hooksLeft'[c] => posted'[k][p] = 0)
  BY <1>1, <1>4, <1>5, <1>6
<1>10. Progress(c)'
  BY <1>1, <1>8, <1>9 DEF Progress
<1>11. WithinOnce(key(c))'
  BY <1>1, <1>3, <1>8, <1>9 DEF Inv, Safe, DeliveredOnce, WithinOnce
<1> QED BY <1>1, <1>3, <1>5, <1>7, <1>8, <1>10, <1>11, FanStep DEF k

-----------------------------------------------------------------------------
(* The invariance theorem. *)

\* Nothing is claimed, tried or running at the start.
LEMMA InitInv == Init => Inv
<1> SUFFICES ASSUME Init PROVE Inv
  OBVIOUS
<1>1. GroupTypeOK(Record, Steps)
  BY GroupInitType DEF Init
<1>2. NotifierType
  BY <1>1 DEF Init, NotifierType, Outcomes
<1>3. \A c \in Consumers : pc[c] = "idle"
  BY DEF Init, GroupInit
<1>4. GateHolds /\ ProgressOK
  BY <1>3 DEF GateHolds, SoleDispatcher, FanningOut, ProgressOK, Progress
<1>5. FreshUntouched /\ DeliveredOnce
  BY NotifierAssumption DEF Init, FreshUntouched, Untouched, DeliveredOnce
<1> QED BY <1>2, <1>4, <1>5 DEF Inv, Safe

\* Every step of every consumer and of the world around them keeps Inv.
LEMMA NextInv == Inv /\ [Next]_vars => Inv'
<1> SUFFICES ASSUME Inv, [Next]_vars PROVE Inv'
  OBVIOUS
<1> USE DEF NothingSent, gate, history, env
<1>1. faults \in Nat /\ edits \in Nat /\ claimed \subseteq Keys
  BY DEF Inv, NotifierType, GroupTypeOK
<1>2. ASSUME NEW c \in Consumers, Work(c) PROVE Inv'
  <2>1. CASE PollLoop(c)
    BY <2>1, LoopSteps
  <2>2. CASE Receive(c)
    BY <1>1, <2>2, GoesOnToGate DEF Receive, fan
  <2>3. CASE DropMalformed(c)
    BY <1>1, <2>3, EndsHandling DEF DropMalformed
  <2>4. CASE SetIfAbsent(c)
    <3>1. pc[c] = "setnx"
      BY <2>4 DEF SetIfAbsent
    <3> QED BY <1>1, <2>4, <3>1, EndsHandling, GoesOnToGate DEF SetIfAbsent, fan
  <2>5. CASE ClaimNotifyDedup(c)
    <3>1. CASE Conflict(c)
      BY <1>1, <2>5, <3>1, EndsHandling DEF ClaimNotifyDedup
    <3> QED BY <2>5, <3>1, ClaimStep
  <2>6. CASE GetChannelsForMonitor(c)
    BY <2>6, LoadStep
  <2>7. CASE Deliver(c)
    BY <2>7, SendStep, RecordStep, HookStep DEF Deliver
  <2>8. CASE Dispatched(c) \/ Recorded(c)
    BY <2>8, DoneSteps
  <2>9. CASE Handled(c)
    BY <1>1, <2>9, EndsHandling DEF Handled
  <2> QED BY <1>2, <2>1, <2>2, <2>3, <2>4, <2>5, <2>6, <2>7, <2>8, <2>9 DEF Work
<1>3. ASSUME NEW c \in Consumers, Fault(c) PROVE Inv'
  <2>1. CASE PollFault(c) \/ Crash(c)
    BY <2>1, LoopSteps
  <2>2. CASE RedisFail(c)
    BY <1>1, <2>2, GoesOnToGate DEF RedisFail, GoesWrong, fan
  <2>3. CASE ClaimFail(c)
    <3>1. key(c) \in Keys
      BY <2>3, OnRecord DEF ClaimFail, Inv
    <3> QED BY <1>1, <2>3, <3>1, EndsHandling DEF ClaimFail, GoesWrong
  <2>4. CASE LoadFail(c)
    BY <1>1, <2>4, EndsHandling DEF LoadFail, GoesWrong
  <2>5. CASE HooksFail(c)
    BY <1>1, <2>5, EndsHandling DEF HooksFail, GoesWrong
  <2>6. CASE \E ch \in Channels : RecordFail(c, ch)
    BY <2>6, RecordStep
  <2> QED BY <1>3, <2>1, <2>2, <2>3, <2>4, <2>5, <2>6 DEF Fault
<1>4. CASE \/ Publish
           \/ \E k \in Keys : Evict(k)
           \/ \E S \in SUBSET Channels : SetChannels(S)
  BY <1>4, OutsideSteps
<1>5. CASE UNCHANGED vars
  <2>1. NotifierType' /\ StreamGrows /\ (\A d \in Consumers : Stays(d)) /\ UNCHANGED <<claimed, tries, accepted, posted>>
    BY <1>5 DEF vars, Inv, NotifierType, GroupTypeOK, StreamGrows, Stays
  <2> QED BY <2>1, QuietStep DEF Inv
<1> QED BY <1>2, <1>3, <1>4, <1>5 DEF Next

\* The inductive invariant of the notifier.
THEOREM NotifierInvariance == Spec => []Inv
<1>1. Init => Inv
  BY InitInv
<1>2. Inv /\ [Next]_vars => Inv'
  BY NextInv
<1> QED BY <1>1, <1>2, PTL DEF Spec

\* A channel and a webhook get one event at most once, and no channel is tried
\* more than maxRetries times for it (dedup, sendWithRetry).
THEOREM NothingDeliveredTwice == Spec => []DeliveredOnce
<1>1. Inv => DeliveredOnce
  BY DEF Inv, Safe
<1> QED BY <1>1, NotifierInvariance, PTL

\* No two consumers ever fan out the same event (ClaimNotifyDedup).
THEOREM OneDispatcher == Spec => []SoleDispatcher
<1>1. Inv => SoleDispatcher
  BY DEF Inv, Safe, GateHolds
<1> QED BY <1>1, NotifierInvariance, PTL

-----------------------------------------------------------------------------
(* Nothing is suppressed but duplicates. *)

AllTried(k) == \A ch \in Channels : tries[k][ch] > 0

Calm == faults = 0 /\ edits = 0

OffDuty(c) == pc[c] = "idle" /\ pos[c] > fetched[c]

\* The gate may hold the event the owner of the partition is at work on.
AtWork(k, steps) == pc[owner] \in steps /\ key(owner) = k

\* As long as nothing failed and no channel was edited, the owner works through
\* the stream alone: what is behind it was tried, and so was what the gate
\* knows, but for the event in hand.
OwnerAlone ==
  /\ attached = Channels
  /\ \A c \in Consumers \ {owner} : OffDuty(c)
  /\ committed < pos[owner]
BehindTried ==
  /\ \A n \in 1..(pos[owner] - 1) : stream[n].ok => AllTried(stream[n].key)
  /\ pc[owner] = "ack" => (record(owner).ok => AllTried(key(owner)))
GateTried ==
  /\ \A k \in redis : AllTried(k) \/ AtWork(k, {"claim", "channels", "send"})
  /\ \A k \in claimed : AllTried(k) \/ AtWork(k, {"channels", "send"})
InHandTried ==
  /\ pc[owner] = "send" =>
       \A ch \in Channels : out[owner][ch] # "sending" => tries[key(owner)][ch] > 0
  /\ pc[owner] \in {"record", "hooks"} => AllTried(key(owner))

CalmOK == OwnerAlone /\ BehindTried /\ GateTried /\ InHandTried
CalmInv == redis \subseteq Keys /\ (Calm => CalmOK)

\* The handler returns nil for an event that was tried, or could not be read.
LEMMA CalmReturn ==
  ASSUME Inv, CalmOK, HandleOK(owner), pc[owner] # "idle" \/ HasRecord(owner),
         record(owner).ok => AllTried(key(owner)),
         \A k \in redis \cup claimed : AllTried(k),
         UNCHANGED <<redis, claimed, tries, attached>>
  PROVE  CalmOK'
<1> DEFINE c == owner
<1>1. ReturnOK(c) /\ c \in Consumers /\ pos[c] \in DOMAIN stream
  BY OnRecord DEF HandleOK, Inv, NotifierType, GroupTypeOK
<1>2. /\ UNCHANGED <<stream, committed, owner, fetched>> /\ pc'[c] \in {"idle", "ack"}
      /\ \/ pos'[c] = pos[c] + 1 /\ pc'[c] = "idle"
         \/ pos'[c] = pos[c] /\ pc'[c] = "ack"
      /\ \A d \in Consumers \ {c} : pc'[d] = pc[d] /\ pos'[d] = pos[d]
  BY <1>1 DEF ReturnOK, Inv, NotifierType, GroupTypeOK
<1>3. pos[c] \in Nat /\ committed \in Nat /\ stream \in Seq(Record)
  BY <1>1 DEF Inv, NotifierType, GroupTypeOK
<1>4. OwnerAlone'
  BY <1>1, <1>2, <1>3 DEF CalmOK, OwnerAlone, OffDuty
<1>5. \A k \in Keys : AllTried(k) => AllTried(k)'
  BY DEF AllTried
<1>6. ASSUME NEW n \in 1..(pos'[c] - 1), stream[n].ok PROVE AllTried(stream[n].key)
  <2>1. CASE n = pos[c]
    BY <1>6, <2>1 DEF record, key
  <2>2. CASE n # pos[c]
    <3>1. n \in 1..(pos[c] - 1)
      BY <1>2, <1>3, <2>2
    <3> QED BY <1>6, <3>1 DEF CalmOK, BehindTried
  <2> QED BY <2>1, <2>2
<1>7. BehindTried'
  <2>1. ASSUME NEW n \in 1..(pos'[owner'] - 1), stream'[n].ok PROVE \A ch \in Channels : tries'[stream'[n].key][ch] > 0
    BY <1>2, <1>6, <2>1 DEF AllTried
  <2>2. ASSUME pc'[owner'] = "ack", stream'[pos'[owner']].ok
        PROVE  \A ch \in Channels : tries'[stream'[pos'[owner']].key][ch] > 0
    <3>1. stream'[pos'[owner']] = record(owner)
      BY <1>2, <2>2 DEF record
    <3> QED BY <2>2, <3>1 DEF key, AllTried
  <2> QED BY <2>1, <2>2 DEF BehindTried, AllTried, record, key
<1>8. GateTried' /\ InHandTried'
  BY <1>2 DEF GateTried, InHandTried, AllTried
<1> QED BY <1>4, <1>7, <1>8 DEF CalmOK

\* The handler goes on; what the owner has behind it stays.
LEMMA CalmGoto ==
  ASSUME Inv, CalmOK, NEW step \in Steps, Goto(owner, step), UNCHANGED <<tries, attached>>,
         GateTried', InHandTried'
  PROVE  CalmOK'
<1>1. owner \in Consumers /\ pc \in [Consumers -> Steps \cup {"idle", "ack"}]
  BY DEF Inv, NotifierType, GroupTypeOK
<1>2. /\ UNCHANGED <<stream, committed, owner, fetched, pos>> /\ pc'[owner] = step
      /\ \A d \in Consumers \ {owner} : pc'[d] = pc[d]
  BY <1>1 DEF Goto
<1>3. OwnerAlone'
  BY <1>2 DEF CalmOK, OwnerAlone, OffDuty
<1>4. BehindTried'
  BY <1>2 DEF CalmOK, BehindTried, AllTried, Steps
<1> QED BY <1>3, <1>4 DEF CalmOK

\* Only the owner of the partition works.
LEMMA CalmOwner ==
  ASSUME Inv, CalmOK, NEW c \in Consumers, Work(c)
  PROVE  c = owner
<1> SUFFICES ASSUME c # owner PROVE FALSE
  OBVIOUS
<1>1. pc[c] = "idle" /\ pos[c] > fetched[c] /\ pos[c] \in Nat /\ fetched[c] \in Nat
  BY DEF CalmOK, OwnerAlone, OffDuty, Inv, NotifierType, GroupTypeOK
<1>2. ~ HasRecord(c) /\ ~ Loop(c)
  BY <1>1 DEF HasRecord, Loop, Poll, AutoCommit, Ack
<1> QED BY <1>1, <1>2 DEF Work, PollLoop, Receive, DropMalformed, SetIfAbsent, ClaimNotifyDedup,
             GetChannelsForMonitor, Deliver, Send, SendFail, RecordDelivery, DeliverWebhook,
             Dispatched, Recorded, Handled

\* poll, autocommit and ack: what is committed is behind the owner.
LEMMA CalmLoop ==
  ASSUME Inv, CalmOK, PollLoop(owner)
  PROVE  CalmOK'
<1>1. /\ owner \in Consumers /\ committed \in Nat /\ stream \in Seq(Record)
      /\ pos \in [Consumers -> Nat \ {0}] /\ fetched \in [Consumers -> Nat]
      /\ pc \in [Consumers -> Steps \cup {"idle", "ack"}]
  BY DEF Inv, NotifierType, GroupTypeOK
<1>2. UNCHANGED <<stream, owner, redis, claimed, tries, attached, out>>
  BY DEF PollLoop, Loop, Poll, AutoCommit, Ack, gate, fan, history, env
<1>3. CASE Poll(owner)
  <2>1. /\ UNCHANGED <<committed, pos, pc>>
        /\ \A d \in Consumers \ {owner} : fetched'[d] = fetched[d]
    BY <1>1, <1>3 DEF Poll
  <2>2. OwnerAlone'
    BY <1>2, <2>1 DEF CalmOK, OwnerAlone, OffDuty
  <2>3. BehindTried' /\ GateTried' /\ InHandTried'
    BY <1>2, <2>1 DEF CalmOK, BehindTried, GateTried, InHandTried, AtWork, AllTried, key, record
  <2> QED BY <2>2, <2>3 DEF CalmOK
<1>4. CASE AutoCommit(owner)
  <2>1. UNCHANGED <<pos, fetched, pc>> /\ committed' = pos[owner] - 1
    BY <1>4 DEF AutoCommit, DoneBefore
  <2>2. OwnerAlone'
    BY <1>1, <1>2, <2>1 DEF CalmOK, OwnerAlone, OffDuty
  <2>3. BehindTried' /\ GateTried' /\ InHandTried'
    BY <1>2, <2>1 DEF CalmOK, BehindTried, GateTried, InHandTried, AtWork, AllTried, key, record
  <2> QED BY <2>2, <2>3 DEF CalmOK
<1>5. CASE Ack(owner)
  <2>1. /\ pc[owner] = "ack" /\ pc'[owner] = "idle" /\ UNCHANGED fetched
        /\ pos'[owner] = pos[owner] + 1 /\ committed' = pos[owner]
        /\ \A d \in Consumers \ {owner} : pc'[d] = pc[d] /\ pos'[d] = pos[d]
    BY <1>1, <1>5 DEF Ack
  <2>2. OwnerAlone'
    BY <1>1, <1>2, <2>1 DEF CalmOK, OwnerAlone, OffDuty
  <2>3. ASSUME NEW n \in 1..(pos'[owner] - 1), stream[n].ok PROVE AllTried(stream[n].key)
    <3>1. CASE n = pos[owner]
      BY <2>1, <2>3, <3>1 DEF CalmOK, BehindTried, record, key
    <3>2. CASE n # pos[owner]
      <4>1. n \in 1..(pos[owner] - 1)
        BY <1>1, <2>1, <3>2
      <4> QED BY <2>3, <4>1 DEF CalmOK, BehindTried
    <3> QED BY <3>1, <3>2
  <2>4. BehindTried'
    <3>1. ASSUME NEW n \in 1..(pos'[owner'] - 1), stream'[n].ok PROVE \A ch \in Channels : tries'[stream'[n].key][ch] > 0
      BY <1>2, <2>3, <3>1 DEF AllTried
    <3> QED BY <1>2, <2>1, <3>1 DEF BehindTried, AllTried
  <2>5. GateTried' /\ InHandTried'
    BY <1>2, <2>1 DEF CalmOK, GateTried, InHandTried, AtWork, AllTried
  <2> QED BY <2>2, <2>4, <2>5 DEF CalmOK
<1> QED BY <1>3, <1>4, <1>5 DEF PollLoop, Loop

\* The handler up to its fan-out.
LEMMA CalmGate ==
  ASSUME Inv, CalmOK, redis \subseteq Keys,
         Receive(owner) \/ DropMalformed(owner) \/ SetIfAbsent(owner) \/ ClaimNotifyDedup(owner)
  PROVE  CalmOK'
<1>1. /\ owner \in Consumers /\ pc \in [Consumers -> Steps \cup {"idle", "ack"}]
      /\ claimed \subseteq Keys
  BY DEF Inv, NotifierType, GroupTypeOK
<1>2. UNCHANGED <<tries, attached>>
  BY DEF Receive, DropMalformed, SetIfAbsent, ClaimNotifyDedup, history, env
<1>3. \A k \in redis : AllTried(k) \/ AtWork(k, {"claim", "channels", "send"})
  BY DEF CalmOK, GateTried
<1>4. \A k \in claimed : AllTried(k) \/ AtWork(k, {"channels", "send"})
  BY DEF CalmOK, GateTried
<1>5. CASE Receive(owner)
  <2>1. Goto(owner, "setnx") /\ pc[owner] = "idle" /\ UNCHANGED <<redis, claimed, out>>
    BY <1>5 DEF Receive, HasRecord, gate, fan
  <2>2. pc'[owner'] = "setnx"
    BY <1>1, <2>1 DEF Goto
  <2>3. GateTried' /\ InHandTried'
    BY <1>2, <1>3, <1>4, <2>1, <2>2 DEF GateTried, InHandTried, AtWork, AllTried
  <2> QED BY <1>2, <2>1, <2>3, CalmGoto DEF Steps
<1>6. CASE DropMalformed(owner)
  <2>1. \A k \in redis \cup claimed : AllTried(k)
    BY <1>3, <1>4, <1>6 DEF DropMalformed, HasRecord, AtWork
  <2> QED BY <1>2, <1>6, <2>1, CalmReturn DEF DropMalformed, gate
<1>7. CASE SetIfAbsent(owner)
  <2>1. \A k \in redis \cup claimed : AllTried(k)
    BY <1>3, <1>4, <1>7 DEF SetIfAbsent, AtWork
  <2>2. CASE key(owner) \in redis
    BY <1>2, <1>7, <2>1, <2>2, CalmReturn DEF SetIfAbsent
  <2>3. CASE key(owner) \notin redis
    <3>1. Goto(owner, "claim") /\ redis' = redis \cup {key(owner)} /\ UNCHANGED <<claimed, out>>
      BY <1>7, <2>3 DEF SetIfAbsent, fan
    <3>2. pc'[owner'] = "claim" /\ key(owner)' = key(owner)
      BY <1>1, <3>1 DEF Goto, key, record
    <3>3. GateTried' /\ InHandTried'
      BY <1>2, <2>1, <3>1, <3>2 DEF GateTried, InHandTried, AtWork, AllTried
    <3> QED BY <1>2, <3>1, <3>3, CalmGoto DEF Steps
  <2> QED BY <2>2, <2>3
<1>8. CASE ClaimNotifyDedup(owner)
  <2>1. \A k \in claimed : AllTried(k)
    BY <1>4, <1>8 DEF ClaimNotifyDedup, AtWork
  <2>2. CASE key(owner) \in claimed
    <3>1. AllTried(key(owner)) /\ \A k \in redis : AllTried(k)
      BY <1>3, <2>1, <2>2 DEF AtWork
    <3> QED BY <1>2, <1>8, <2>1, <2>2, <3>1, CalmReturn DEF ClaimNotifyDedup, Conflict
  <2>3. CASE key(owner) \notin claimed
    <3>1. Goto(owner, "channels") /\ claimed' = claimed \cup {key(owner)} /\ UNCHANGED <<redis, out>>
      BY <1>8, <2>3 DEF ClaimNotifyDedup, Conflict, fan
    <3>2. pc'[owner'] = "channels" /\ key(owner)' = key(owner)
      BY <1>1, <3>1 DEF Goto, key, record
    <3>3. GateTried' /\ InHandTried'
      BY <1>2, <1>3, <2>1, <3>1, <3>2 DEF GateTried, InHandTried, AtWork, AllTried
    <3> QED BY <1>2, <3>1, <3>3, CalmGoto DEF Steps
  <2> QED BY <2>2, <2>3
<1> QED BY <1>5, <1>6, <1>7, <1>8

\* The fan-out: it ends with every channel tried.
LEMMA CalmFan ==
  ASSUME Inv, CalmOK, redis \subseteq Keys,
         \/ GetChannelsForMonitor(owner) \/ Deliver(owner) \/ Dispatched(owner)
         \/ Recorded(owner) \/ Handled(owner)
  PROVE  CalmOK'
<1>1. /\ owner \in Consumers /\ pc \in [Consumers -> Steps \cup {"idle", "ack"}]
      /\ claimed \subseteq Keys /\ tries \in [Keys -> [Channels -> Nat]]
      /\ out \in [Consumers -> [Channels -> Outcomes]]
  BY DEF Inv, NotifierType, GroupTypeOK
<1>2. \A k \in redis : AllTried(k) \/ AtWork(k, {"claim", "channels", "send"})
  BY DEF CalmOK, GateTried
<1>3. \A k \in claimed : AllTried(k) \/ AtWork(k, {"channels", "send"})
  BY DEF CalmOK, GateTried
<1>4. CASE GetChannelsForMonitor(owner)
  <2> DEFINE step == IF attached = {} THEN "hooks" ELSE "send"
  <2>1. /\ pc[owner] = "channels" /\ Goto(owner, step) /\ UNCHANGED <<redis, claimed, tries, attached>>
        /\ attached = Channels /\ \A ch \in Channels : out'[owner][ch] = "sending"
    BY <1>1, <1>4 DEF GetChannelsForMonitor, gate, history, env, CalmOK, OwnerAlone
  <2>2. pc'[owner'] = step /\ owner' = owner /\ key(owner)' = key(owner)
    BY <1>1, <2>1 DEF Goto, key, record
  <2>3. CASE Channels = {}
    BY <2>1, <2>2, <2>3, CalmGoto DEF GateTried, InHandTried, AllTried, Steps
  <2>4. CASE Channels # {}
    <3>1. step = "send"
      BY <2>1, <2>4
    <3>2. GateTried'
      BY <1>2, <1>3, <2>1, <2>2, <3>1 DEF GateTried, AtWork, AllTried
    <3>3. InHandTried'
      BY <2>1, <2>2, <3>1 DEF InHandTried
    <3> QED BY <2>1, <3>1, <3>2, <3>3, CalmGoto DEF Steps
  <2> QED BY <2>3, <2>4
<1>5. ASSUME NEW ch \in Channels, Send(owner, ch) \/ SendFail(owner, ch) PROVE CalmOK'
  <2>1. /\ pc[owner] = "send" /\ UNCHANGED <<group, redis, claimed, attached>>
        /\ tries' = [tries EXCEPT ![key(owner)][ch] = @ + 1]
        /\ \A x \in Channels \ {ch} : out'[owner][x] = out[owner][x]
    BY <1>1, <1>5 DEF Send, SendFail, Tried, gate, env
  <2>2. key(owner) \in Keys
    BY <1>1, <2>1, OnRecord DEF Inv
  <2>3. /\ \A k \in Keys, x \in Channels : tries'[k][x] >= tries[k][x]
        /\ tries'[key(owner)][ch] > 0 /\ tries' \in [Keys -> [Channels -> Nat]]
    BY <1>1, <2>1, <2>2
  <2>4. \A k \in Keys : AllTried(k) => AllTried(k)'
    BY <1>1, <2>3 DEF AllTried
  <2>5. UNCHANGED <<stream, committed, owner, pos, fetched, pc>> /\ stream \in Seq(Record)
    BY <2>1 DEF group, Inv, NotifierType, GroupTypeOK
  <2>6. OwnerAlone'
    BY <2>1, <2>5 DEF CalmOK, OwnerAlone, OffDuty
  <2>7. BehindTried'
    <3>1. pos[owner] \in Nat /\ pos[owner] - 1 <= Len(stream)
      BY <1>1 DEF Inv, NotifierType, GroupTypeOK
    <3>2. ASSUME NEW n \in 1..(pos[owner] - 1), stream[n].ok
          PROVE  \A x \in Channels : tries'[stream[n].key][x] > 0
      <4>1. n \in DOMAIN stream /\ Len(stream) \in Nat
        BY <2>5, <3>1
      <4>2. stream[n] \in Record
        BY <2>5, <4>1
      <4>3. PICK k \in Keys : k = stream[n].key
        BY <4>2 DEF Record
      <4>4. AllTried(k)
        BY <3>2, <4>3 DEF CalmOK, BehindTried
      <4> QED BY <2>4, <4>3, <4>4 DEF AllTried
    <3>3. pc'[owner'] # "ack"
      BY <2>1, <2>5
    <3>4. ASSUME NEW n \in 1..(pos'[owner'] - 1), stream'[n].ok PROVE \A x \in Channels : tries'[stream'[n].key][x] > 0
      BY <2>5, <3>2, <3>4
    <3> QED BY <3>3, <3>4 DEF BehindTried, AllTried
  <2>8. GateTried'
    BY <1>1, <1>2, <1>3, <2>1, <2>4, <2>5 DEF GateTried, AtWork, key, record
  <2>9. InHandTried'
    <3>1. \A x \in Channels : out'[owner][x] # "sending" => tries'[key(owner)][x] > 0
      BY <1>1, <2>1, <2>2, <2>3 DEF CalmOK, InHandTried
    <3> QED BY <2>1, <2>5, <3>1 DEF InHandTried, key, record
  <2> QED BY <2>6, <2>7, <2>8, <2>9 DEF CalmOK
<1>6. CASE \/ \E ch \in Channels : RecordDelivery(owner, ch)
           \/ \E h \in Hooks : DeliverWebhook(owner, h)
  <2>1. /\ UNCHANGED <<stream, committed, owner, pos, fetched, pc, redis, claimed, tries, attached>>
        /\ pc[owner] # "send"
    BY <1>6 DEF RecordDelivery, DeliverWebhook, group, gate, env
  <2> QED BY <2>1 DEF CalmOK, OwnerAlone, OffDuty, BehindTried, GateTried, InHandTried, AtWork, AllTried, key, record
<1>7. CASE Deliver(owner)
  BY <1>5, <1>6, <1>7 DEF Deliver
<1>8. CASE Dispatched(owner)
  <2>1. pc[owner] = "send" /\ Goto(owner, "record") /\ UNCHANGED <<redis, claimed, tries, attached>>
    BY <1>8 DEF Dispatched, gate, history, env
  <2>2. AllTried(key(owner))
    BY <1>8 DEF Dispatched, CalmOK, InHandTried, AllTried
  <2>3. pc'[owner'] = "record" /\ key(owner)' = key(owner)
    BY <1>1, <2>1 DEF Goto, key, record
  <2>4. GateTried' /\ InHandTried'
    BY <1>2, <1>3, <2>1, <2>2, <2>3 DEF GateTried, InHandTried, AtWork, AllTried
  <2> QED BY <2>1, <2>4, CalmGoto DEF Steps
<1>9. CASE Recorded(owner)
  <2>1. pc[owner] = "record" /\ Goto(owner, "hooks") /\ UNCHANGED <<redis, claimed, tries, attached>>
    BY <1>9 DEF Recorded, gate, history, env
  <2>2. AllTried(key(owner))
    BY <2>1 DEF CalmOK, InHandTried
  <2>3. pc'[owner'] = "hooks" /\ key(owner)' = key(owner)
    BY <1>1, <2>1 DEF Goto, key, record
  <2>4. GateTried' /\ InHandTried'
    BY <1>2, <1>3, <2>1, <2>2, <2>3 DEF GateTried, InHandTried, AtWork, AllTried
  <2> QED BY <2>1, <2>4, CalmGoto DEF Steps
<1>10. CASE Handled(owner)
  <2>1. pc[owner] = "hooks" /\ HandleOK(owner) /\ UNCHANGED <<redis, claimed, tries, attached>>
    BY <1>10 DEF Handled, gate, history, env
  <2>2. AllTried(key(owner)) /\ \A k \in redis \cup claimed : AllTried(k)
    BY <1>2, <1>3, <2>1 DEF CalmOK, InHandTried, AtWork
  <2> QED BY <2>1, <2>2, CalmReturn
<1> QED BY <1>4, <1>7, <1>8, <1>9, <1>10

\* Where the calm holds, it lasts; what breaks it is counted.
LEMMA CalmBefore ==
  ASSUME Inv, Next \/ UNCHANGED vars, Calm'
  PROVE  Calm /\ ~ (\E c \in Consumers : Fault(c)) /\ ~ (\E S \in SUBSET Channels : SetChannels(S))
<1>1. faults \in Nat /\ edits \in Nat
  BY DEF Inv, NotifierType, GroupTypeOK
<1>2. ASSUME NEW c \in Consumers, Fault(c) PROVE faults' = faults + 1
  BY <1>2 DEF Fault, PollFault, LoopFault, AckFail, Rebalance, Crash, Restart, RedisFail, ClaimFail,
     LoadFail, HooksFail, RecordFail, GoesWrong
<1>3. ASSUME NEW S \in SUBSET Channels, SetChannels(S) PROVE edits' = edits + 1
  BY <1>3 DEF SetChannels
<1>4. ASSUME NEW c \in Consumers, Work(c) PROVE UNCHANGED <<faults, edits>>
  BY <1>4 DEF Work, PollLoop, Loop, Poll, AutoCommit, Ack, Receive, DropMalformed, SetIfAbsent,
     ClaimNotifyDedup, GetChannelsForMonitor, Deliver, Send, SendFail, RecordDelivery, DeliverWebhook,
     Dispatched, Recorded, Handled, env
<1>5. ASSUME Publish \/ \E k \in Keys : Evict(k) PROVE UNCHANGED <<faults, edits>>
  BY <1>5 DEF Publish, Produce, Evict, groupVars, env
<1> QED BY <1>1, <1>2, <1>3, <1>4, <1>5 DEF Next, vars, Calm

\* Redis holds keys of events.
LEMMA RedisType ==
  ASSUME Inv, redis \subseteq Keys, Next \/ UNCHANGED vars
  PROVE  redis' \subseteq Keys
<1>1. ASSUME NEW c \in Consumers, SetIfAbsent(c) \/ RedisFail(c) PROVE redis' \subseteq Keys
  <2>1. key(c) \in Keys
    BY <1>1, OnRecord DEF Inv, SetIfAbsent, RedisFail
  <2> QED BY <1>1, <2>1 DEF SetIfAbsent, RedisFail
<1>2. ASSUME NEW c \in Consumers, Work(c), ~ SetIfAbsent(c) PROVE UNCHANGED redis
  BY <1>2 DEF Work, PollLoop, Receive, DropMalformed, ClaimNotifyDedup, GetChannelsForMonitor,
     Deliver, Send, SendFail, RecordDelivery, DeliverWebhook, Dispatched, Recorded, Handled, gate
<1>3. ASSUME NEW c \in Consumers, Fault(c), ~ RedisFail(c) PROVE UNCHANGED redis
  BY <1>3 DEF Fault, PollFault, Crash, ClaimFail, LoadFail, HooksFail, RecordFail, gate
<1>4. ASSUME \/ Publish \/ (\E k \in Keys : Evict(k))
             \/ \E S \in SUBSET Channels : SetChannels(S)
      PROVE  redis' \subseteq redis
  BY <1>4 DEF Publish, Evict, SetChannels, gate
<1> QED BY <1>1, <1>2, <1>3, <1>4 DEF Next, vars

LEMMA CalmOutside ==
  ASSUME Inv, CalmOK, Publish \/ (\E k \in Keys : Evict(k)) \/ UNCHANGED vars
  PROVE  CalmOK'
<1>1. /\ UNCHANGED <<committed, owner, pos, fetched, pc, claimed, out, tries, attached>>
      /\ redis' \subseteq redis
  BY DEF Publish, Produce, Evict, vars, groupVars, gate, fan, history, env
<1>2. /\ stream \in Seq(Record) /\ owner \in Consumers /\ pos[owner] \in Nat \ {0}
      /\ pos[owner] - 1 <= Len(stream) /\ Len(stream) \in Nat
  BY DEF Inv, NotifierType, GroupTypeOK
<1>3. \A n \in 1..Len(stream) : stream'[n] = stream[n]
  BY <1>2 DEF Publish, Produce, Evict, groupVars, vars
<1>4. \A n \in 1..(pos[owner] - 1) : stream'[n] = stream[n]
  BY <1>2, <1>3
<1>5. pc[owner] # "idle" => record(owner)' = record(owner)
  <2> SUFFICES ASSUME pc[owner] # "idle" PROVE record(owner)' = record(owner)
    OBVIOUS
  <2>1. pos[owner] \in 1..Len(stream)
    BY <1>2, OnRecord DEF Inv
  <2> QED BY <1>1, <1>3, <2>1 DEF record
<1>6. OwnerAlone'
  BY <1>1 DEF CalmOK, OwnerAlone, OffDuty
<1>7. BehindTried'
  BY <1>1, <1>4, <1>5 DEF CalmOK, BehindTried, AllTried, key
<1>8. GateTried' /\ InHandTried'
  BY <1>1, <1>5 DEF CalmOK, GateTried, InHandTried, AtWork, AllTried, key
<1> QED BY <1>6, <1>7, <1>8 DEF CalmOK

LEMMA CalmNext ==
  ASSUME Inv, CalmInv, Next \/ UNCHANGED vars
  PROVE  CalmInv'
<1>1. redis' \subseteq Keys
  BY RedisType DEF CalmInv
<1>2. ASSUME Calm' PROVE CalmOK'
  <2>1. /\ CalmOK /\ redis \subseteq Keys /\ ~ (\E c \in Consumers : Fault(c))
        /\ ~ (\E S \in SUBSET Channels : SetChannels(S))
    BY <1>2, CalmBefore DEF CalmInv
  <2>2. ASSUME NEW c \in Consumers, Work(c) PROVE CalmOK'
    <3>1. Work(owner)
      BY <2>1, <2>2, CalmOwner
    <3> QED BY <2>1, <3>1, CalmLoop, CalmGate, CalmFan DEF Work
  <2> QED BY <2>1, <2>2, CalmOutside DEF Next
<1> QED BY <1>1, <1>2 DEF CalmInv

LEMMA CalmInit == Init => CalmInv
<1> SUFFICES ASSUME Init PROVE CalmInv
  OBVIOUS
<1>1. owner \in Consumers /\ committed < pos[owner] /\ pos[owner] = 1
  BY DEF Init, GroupInit
<1>2. OwnerAlone
  BY <1>1 DEF Init, GroupInit, OwnerAlone, OffDuty
<1>3. BehindTried /\ GateTried /\ InHandTried
  BY <1>1 DEF Init, GroupInit, BehindTried, GateTried, InHandTried
<1> QED BY <1>2, <1>3 DEF CalmInv, CalmOK, Init

\* The gate suppresses duplicates only: as long as nothing but receivers failed
\* and the channels stayed, every event the group is done with has been tried on
\* every channel (Runner.handle, dedup).
THEOREM NothingSuppressed == Spec => []EveryAlertTried
<1>1. Init => Inv /\ CalmInv
  BY InitInv, CalmInit
<1>2. Inv /\ CalmInv /\ [Next]_vars => (Inv /\ CalmInv)'
  BY NextInv, CalmNext
<1>3. Inv /\ CalmInv => EveryAlertTried
  <2> SUFFICES ASSUME Inv, CalmInv, Settled, faults = 0, edits = 0,
                      NEW n \in DOMAIN stream, stream[n].ok
               PROVE  AllTried(stream[n].key)
    BY DEF EveryAlertTried, AllTried
  <2>1. committed = Len(stream) /\ committed < pos[owner] /\ BehindTried
    BY DEF CalmInv, Calm, CalmOK, OwnerAlone, Settled
  <2>2. stream \in Seq(Record) /\ pos[owner] \in Nat
    BY DEF Inv, NotifierType, GroupTypeOK
  <2>3. n \in 1..(pos[owner] - 1)
    BY <2>1, <2>2
  <2> QED BY <2>1, <2>3 DEF BehindTried
<1> QED BY <1>1, <1>2, <1>3, PTL DEF Spec
=============================================================================
