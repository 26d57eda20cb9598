------------------------ MODULE ConsumerGroupProofs ------------------------
(***************************************************************************)
(* What every operator of ConsumerGroup preserves: one lemma per operator, *)
(* cited by the proofs about the services that use it.                     *)
(***************************************************************************)
EXTENDS ConsumerGroup, TLAPS

\* The group starts well typed (newRedisConsumer, newKafkaConsumer).
LEMMA GroupInitType ==
  ASSUME NEW CONSTANT Record, NEW CONSTANT Steps, GroupInit
  PROVE  GroupTypeOK(Record, Steps)
  BY DEF GroupInit, GroupTypeOK

\* Producing appends one record and moves no consumer (Producer.Produce).
LEMMA ProduceType ==
  ASSUME NEW CONSTANT Record, NEW CONSTANT Steps, GroupTypeOK(Record, Steps),
         NEW r \in Record, Produce(r)
  PROVE  GroupTypeOK(Record, Steps)'
<1>1. stream' \in Seq(Record) /\ Len(stream') = Len(stream) + 1
  BY DEF GroupTypeOK, Produce
<1> QED BY <1>1 DEF GroupTypeOK, Produce

\* A step inside the handler keeps the consumer on its record.
LEMMA GotoType ==
  ASSUME NEW CONSTANT Record, NEW CONSTANT Steps, GroupTypeOK(Record, Steps),
         NEW c \in Consumers, NEW step \in Steps, pos[c] <= fetched[c],
         Goto(c, step), faults' \in Nat
  PROVE  GroupTypeOK(Record, Steps)'
  BY DEF GroupTypeOK, Goto

\* A handler that returns nil leaves the consumer on or just behind its record.
LEMMA ReturnOKType ==
  ASSUME NEW CONSTANT Record, NEW CONSTANT Steps, GroupTypeOK(Record, Steps),
         NEW c \in Consumers, pos[c] <= fetched[c],
         ReturnOK(c), faults' \in Nat
  PROVE  GroupTypeOK(Record, Steps)'
<1>1. CASE Bus = "kafka"
  <2>1. /\ pos' = [pos EXCEPT ![c] = pos[c] + 1]
        /\ pc' = [pc EXCEPT ![c] = "idle"]
        /\ UNCHANGED <<stream, committed, owner, fetched>>
    BY <1>1 DEF ReturnOK
  <2>2. pos[c] + 1 \in Nat \ {0} /\ pos[c] + 1 <= fetched[c] + 1
    BY DEF GroupTypeOK
  <2>3. pos' \in [Consumers -> Nat \ {0}] /\ pc' \in [Consumers -> Steps \cup {"idle", "ack"}]
    BY <2>1, <2>2 DEF GroupTypeOK
  <2>4. ASSUME NEW d \in Consumers
        PROVE  /\ pos'[d] <= fetched'[d] + 1 /\ fetched'[d] <= Len(stream')
               /\ pc'[d] # "idle" => pos'[d] <= fetched'[d]
    BY <2>1, <2>2 DEF GroupTypeOK
  <2> QED BY <2>1, <2>3, <2>4 DEF GroupTypeOK
<1>2. CASE Bus # "kafka"
  BY <1>2 DEF GroupTypeOK, ReturnOK
<1> QED BY <1>1, <1>2

\* A handler error ends the batch: behind it on Kafka, at its record on Redis.
LEMMA ReturnErrType ==
  ASSUME NEW CONSTANT Record, NEW CONSTANT Steps, GroupTypeOK(Record, Steps),
         NEW c \in Consumers, pos[c] <= fetched[c],
         ReturnErr(c), faults' \in Nat
  PROVE  GroupTypeOK(Record, Steps)'
<1>0. pc' = [pc EXCEPT ![c] = "idle"] /\ UNCHANGED <<stream, committed, owner>>
  BY DEF ReturnErr
<1>1. CASE Bus = "kafka"
  <2>1. pos' = [pos EXCEPT ![c] = fetched[c] + 1] /\ fetched' = fetched
    BY <1>1 DEF ReturnErr
  <2>2. pos' \in [Consumers -> Nat \ {0}] /\ pc' \in [Consumers -> Steps \cup {"idle", "ack"}]
    BY <1>0, <2>1 DEF GroupTypeOK
  <2>3. ASSUME NEW d \in Consumers
        PROVE  /\ pos'[d] <= fetched'[d] + 1 /\ fetched'[d] <= Len(stream')
               /\ pc'[d] # "idle" => pos'[d] <= fetched'[d]
    BY <1>0, <2>1 DEF GroupTypeOK
  <2> QED BY <1>0, <2>1, <2>2, <2>3 DEF GroupTypeOK
<1>2. CASE Bus # "kafka"
  <2>1. fetched' = [fetched EXCEPT ![c] = pos[c] - 1] /\ pos' = pos
    BY <1>2 DEF ReturnErr
  <2>2. pos[c] - 1 \in Nat /\ pos[c] - 1 <= Len(stream)
    BY DEF GroupTypeOK
  <2>3. fetched' \in [Consumers -> Nat] /\ pc' \in [Consumers -> Steps \cup {"idle", "ack"}]
    BY <1>0, <2>1, <2>2 DEF GroupTypeOK
  <2>4. ASSUME NEW d \in Consumers
        PROVE  /\ pos'[d] <= fetched'[d] + 1 /\ fetched'[d] <= Len(stream')
               /\ pc'[d] # "idle" => pos'[d] <= fetched'[d]
    BY <1>0, <2>1, <2>2 DEF GroupTypeOK
  <2> QED BY <1>0, <2>1, <2>3, <2>4 DEF GroupTypeOK
<1> QED BY <1>1, <1>2

\* The process restarts from what was committed.
LEMMA RestartType ==
  ASSUME NEW CONSTANT Record, NEW CONSTANT Steps, GroupTypeOK(Record, Steps),
         NEW c \in Consumers, Restart(c)
  PROVE  GroupTypeOK(Record, Steps)'
  BY DEF GroupTypeOK, Restart, GoesWrong

\* The steps of the poll loop outside the handler, and their failures.
LEMMA LoopType ==
  ASSUME NEW CONSTANT Record, NEW CONSTANT Steps, GroupTypeOK(Record, Steps),
         NEW c \in Consumers, Loop(c)
  PROVE  GroupTypeOK(Record, Steps)'
<1>1. CASE Poll(c)
  BY <1>1 DEF GroupTypeOK, Poll
<1>2. CASE AutoCommit(c)
  <2>1. committed' = pos[c] - 1 /\ UNCHANGED <<stream, owner, pos, fetched, pc, faults>>
    BY <1>2 DEF AutoCommit, DoneBefore
  <2>2. pos[c] - 1 \in 0..Len(stream)
    BY DEF GroupTypeOK
  <2> QED BY <2>1, <2>2 DEF GroupTypeOK
<1>3. CASE Ack(c)
  <2>1. /\ pc[c] = "ack" /\ committed' = pos[c]
        /\ pos' = [pos EXCEPT ![c] = pos[c] + 1]
        /\ pc' = [pc EXCEPT ![c] = "idle"]
        /\ UNCHANGED <<stream, owner, fetched, faults>>
    BY <1>3 DEF Ack
  <2>2. pos[c] \in 0..Len(stream) /\ pos[c] + 1 \in Nat \ {0} /\ pos[c] <= fetched[c]
    BY <2>1 DEF GroupTypeOK
  <2>3. pos' \in [Consumers -> Nat \ {0}] /\ pc' \in [Consumers -> Steps \cup {"idle", "ack"}]
    BY <2>1, <2>2 DEF GroupTypeOK
  <2>4. ASSUME NEW d \in Consumers
        PROVE  /\ pos'[d] <= fetched'[d] + 1 /\ fetched'[d] <= Len(stream')
               /\ pc'[d] # "idle" => pos'[d] <= fetched'[d]
    BY <2>1, <2>2 DEF GroupTypeOK
  <2> QED BY <2>1, <2>2, <2>3, <2>4 DEF GroupTypeOK
<1> QED BY <1>1, <1>2, <1>3 DEF Loop

\* An ack that fails and a partition that moves keep the group well typed.
LEMMA LoopFaultType ==
  ASSUME NEW CONSTANT Record, NEW CONSTANT Steps, GroupTypeOK(Record, Steps),
         NEW c \in Consumers, LoopFault(c)
  PROVE  GroupTypeOK(Record, Steps)'
<1>1. CASE AckFail(c)
  <2>1. pos[c] <= fetched[c] /\ ReturnErr(c) /\ faults' \in Nat
    BY <1>1 DEF GroupTypeOK, AckFail, GoesWrong
  <2> QED BY <2>1, ReturnErrType
<1>2. CASE Rebalance(c)
  <2>1. /\ pc[c] = "idle" /\ owner' = c /\ faults' \in Nat
        /\ pos' = [pos EXCEPT ![c] = committed + 1]
        /\ fetched' = [fetched EXCEPT ![c] = committed]
        /\ UNCHANGED <<stream, committed, pc>>
    BY <1>2 DEF GroupTypeOK, Rebalance, GoesWrong
  <2>2. pos' \in [Consumers -> Nat \ {0}] /\ fetched' \in [Consumers -> Nat]
    BY <2>1 DEF GroupTypeOK
  <2>3. ASSUME NEW d \in Consumers
        PROVE  /\ pos'[d] <= fetched'[d] + 1 /\ fetched'[d] <= Len(stream')
               /\ pc'[d] # "idle" => pos'[d] <= fetched'[d]
    BY <2>1 DEF GroupTypeOK
  <2> QED BY <2>1, <2>2, <2>3 DEF GroupTypeOK
<1> QED BY <1>1, <1>2 DEF LoopFault
=============================================================================
