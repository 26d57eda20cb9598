--------------------------- MODULE ConsumerGroup ---------------------------
(***************************************************************************)
(* The consuming side of internal/bus, over one ordered stream: a Kafka    *)
(* partition read through franz-go, or a Redis stream read with XREADGROUP *)
(* (PULSE_BUS).  Every consumer service runs the same loop: poll a batch,  *)
(* call its handler for each record, and let the backend commit.           *)
(*                                                                         *)
(* The module has no behaviour of its own.  A service's module EXTENDS it, *)
(* gives its handler's steps as values of pc and conjoins these operators  *)
(* with what the handler does.  pc[c] = "idle" is a consumer inside poll,  *)
(* "ack" a Redis consumer whose handler returned nil.                      *)
(*                                                                         *)
(* Kafka.  The client autocommits, once poll is called again, whatever the *)
(* last poll returned, and never rewinds: after a handler error the rest   *)
(* of the fetch is not handled and the next fetch starts behind it.  A     *)
(* rebalance moves the partition while the old owner still works through   *)
(* the batch it holds.                                                     *)
(*                                                                         *)
(* Redis.  One consumer with a stable name.  It acks entry by entry, and   *)
(* an entry whose handler failed is the first one the next poll reads.     *)
(***************************************************************************)
EXTENDS Integers, Sequences

CONSTANTS
  Bus,          \* "kafka" or "redis"
  Consumers,    \* processes of the consumer group
  MaxFaults     \* bound: failed calls, crashes and rebalances

ASSUME BusAssumption ==
  /\ Bus \in {"kafka", "redis"}
  /\ Bus = "redis" => \A c, d \in Consumers : c = d
  /\ Consumers # {}
  /\ MaxFaults \in Nat

VARIABLES
  stream,       \* the records, in stream order
  committed,    \* how many records the group has committed (or acked)
  owner,        \* the consumer the partition is assigned to
  pos,          \* consumer -> index of the record it handles or handles next
  fetched,      \* consumer -> index of the last record of its fetched batch
  pc,           \* consumer -> the step its handler takes next
  faults        \* failed calls, crashes and rebalances so far

group     == <<stream, committed, owner, pos, fetched, pc>>
groupVars == <<stream, committed, owner, pos, fetched, pc, faults>>

GroupTypeOK(Record, Steps) ==
  /\ stream \in Seq(Record) /\ committed \in 0..Len(stream) /\ owner \in Consumers
  /\ pos \in [Consumers -> Nat \ {0}] /\ fetched \in [Consumers -> Nat]
  /\ \A c \in Consumers : pos[c] <= fetched[c] + 1 /\ fetched[c] <= Len(stream)
  /\ \A c \in Consumers : pc[c] # "idle" => pos[c] <= fetched[c]
  /\ pc \in [Consumers -> Steps \cup {"idle", "ack"}]
  /\ faults \in Nat

GroupInit ==
  /\ stream = <<>> /\ committed = 0 /\ owner \in Consumers
  /\ pos = [c \in Consumers |-> 1] /\ fetched = [c \in Consumers |-> 0]
  /\ pc = [c \in Consumers |-> "idle"] /\ faults = 0

\* One of the bounded number of things that go wrong.
GoesWrong ==
  /\ faults < MaxFaults
  /\ faults' = faults + 1

-----------------------------------------------------------------------------
\* Producer.Produce returned nil: the record is at the end of the stream.
Produce(record) ==
  /\ stream' = Append(stream, record)
  /\ UNCHANGED <<committed, owner, pos, fetched, pc, faults>>

\* poll reads a batch of one or more records from pos on.
Poll(c) ==
  /\ c = owner
  /\ pc[c] = "idle"
  /\ pos[c] > fetched[c]
  /\ \E n \in pos[c]..Len(stream) : fetched' = [fetched EXCEPT ![c] = n]
  /\ UNCHANGED <<stream, committed, owner, pos, pc, faults>>

\* The next record of the batch is there for the handler.
HasRecord(c) == pc[c] = "idle" /\ pos[c] <= fetched[c]
record(c)    == stream[pos[c]]

\* The handler goes on to its next step.
Goto(c, step) ==
  /\ pc' = [pc EXCEPT ![c] = step]
  /\ UNCHANGED <<stream, committed, owner, pos, fetched>>

\* The handler returned nil: Kafka goes on with the batch, Redis acks.
ReturnOK(c) ==
  /\ IF Bus = "kafka"
       THEN /\ pos' = [pos EXCEPT ![c] = @ + 1]
            /\ pc'  = [pc EXCEPT ![c] = "idle"]
       ELSE /\ pc'  = [pc EXCEPT ![c] = "ack"]
            /\ UNCHANGED pos
  /\ UNCHANGED <<stream, committed, owner, fetched>>

\* Mutant of ReturnErr: Redis, like Kafka, reads on behind the failed entry.
ReturnErrReadsOn(c) ==
  /\ pc' = [pc EXCEPT ![c] = "idle"]
  /\ pos' = [pos EXCEPT ![c] = fetched[c] + 1]
  /\ UNCHANGED <<stream, committed, owner, fetched>>

\* The handler returned an error, which poll returns at once.
ReturnErr(c) ==
  /\ pc' = [pc EXCEPT ![c] = "idle"]
  /\ IF Bus = "kafka"
       THEN /\ pos' = [pos EXCEPT ![c] = fetched[c] + 1]
            /\ UNCHANGED fetched
       ELSE /\ fetched' = [fetched EXCEPT ![c] = pos[c] - 1]
            /\ UNCHANGED pos
  /\ UNCHANGED <<stream, committed, owner>>

\* The offset to commit.  Mutant: one record too far.
OneTooFar(c) == pos[c]
DoneBefore(c) == pos[c] - 1

\* franz-go's autocommit of what the last poll returned.
AutoCommit(c) ==
  /\ Bus = "kafka"
  /\ c = owner
  /\ pc[c] = "idle"
  /\ pos[c] > fetched[c]
  /\ committed' = DoneBefore(c)
  /\ UNCHANGED <<stream, owner, pos, fetched, pc, faults>>

\* Mutant of Ack: the entry behind the handled one is acked with it.
AckTooFar(c) ==
  /\ pc[c] = "ack"
  /\ committed' = pos[c] + 1
  /\ pos' = [pos EXCEPT ![c] = @ + 1]
  /\ pc'  = [pc EXCEPT ![c] = "idle"]
  /\ UNCHANGED <<stream, owner, fetched, faults>>

\* XAck of the handled entry.
Ack(c) ==
  /\ pc[c] = "ack"
  /\ committed' = pos[c]
  /\ pos' = [pos EXCEPT ![c] = @ + 1]
  /\ pc'  = [pc EXCEPT ![c] = "idle"]
  /\ UNCHANGED <<stream, owner, fetched, faults>>

\* XAck failed: poll returns the error and the entry is read again.
AckFail(c) ==
  /\ pc[c] = "ack"
  /\ GoesWrong
  /\ ReturnErr(c)

\* The process dies and comes back; it reads on from what was committed.
Restart(c) ==
  /\ GoesWrong
  /\ pos'     = [pos EXCEPT ![c] = committed + 1]
  /\ fetched' = [fetched EXCEPT ![c] = committed]
  /\ pc'      = [pc EXCEPT ![c] = "idle"]
  /\ UNCHANGED <<stream, committed, owner>>

\* The group moves the partition to c, which waits in poll.
Rebalance(c) ==
  /\ Bus = "kafka"
  /\ c # owner
  /\ pc[c] = "idle"
  /\ pos[c] > fetched[c]
  /\ GoesWrong
  /\ owner' = c
  /\ pos'     = [pos EXCEPT ![c] = committed + 1]
  /\ fetched' = [fetched EXCEPT ![c] = committed]
  /\ UNCHANGED <<stream, committed, pc>>

\* The steps of the loop outside the handler, and their failures.
Loop(c)      == Poll(c) \/ AutoCommit(c) \/ Ack(c)
LoopFault(c) == AckFail(c) \/ Rebalance(c)

\* Everything published is behind the group and no handler is running.
Settled == committed = Len(stream) /\ \A c \in Consumers : pc[c] = "idle"
=============================================================================
