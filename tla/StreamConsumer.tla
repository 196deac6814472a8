--------------------------- MODULE StreamConsumer ---------------------------
(***************************************************************************)
(* The Redis-stream consumers of ChainPulse: services/stream.py (publish,  *)
(* ensure_group, consume), the run_consumer loops of nlp_pipeline.py and   *)
(* storage_pipeline.py that iterate over it, and the runner processes that *)
(* start them and are restarted by supervisord.                            *)
(*                                                                         *)
(* A stream is the sequence of every entry ever added (an entry id is its  *)
(* position, the entry itself the position of the entry it was derived     *)
(* from, or Undecodable); trimming removes a prefix.  A consumer owns one  *)
(* group on one stream and is the only member of it (one process per       *)
(* service), so the batch it is working through always ends at the group's *)
(* cursor and starts at pos.  Nothing reads a group's pending list again:  *)
(* consume only ever asks for ">".                                         *)
(*                                                                         *)
(* A fault is counted per consumer and bounded by MaxFaults; which kinds   *)
(* may happen is a constant, so a run can say what a property survives.    *)
(***************************************************************************)
EXTENDS Naturals, Sequences, FiniteSets

CONSTANTS
  Consumers,     \* the consumer processes
  Streams,       \* the Redis streams
  Source,        \* Source[c]: the stream c reads
  Target,        \* Target[c]: the stream c publishes to, or NoStream
  NoStream,
  FatalPublish,  \* the consumers whose publish stands outside the loop's try
  BatchSize,     \* count=16 of xreadgroup
  MaxLen,        \* maxlen=10000 of xadd
  MaxEntries,    \* bound: entries an outside producer adds to a stream
  MaxFaults,     \* bound: faults per consumer
  FaultKinds     \* which of the faults below a run lets happen

Undecodable == 0
Decodable == 1

ASSUME TopologyAssumption ==
  /\ Source \in [Consumers -> Streams]
  /\ Target \in [Consumers -> Streams \cup {NoStream}]
  /\ NoStream \notin Streams
  /\ FatalPublish \subseteq Consumers
  /\ FaultKinds \subseteq {"crash", "lostReply", "fatal"}

\* No two consumers write one stream, and none writes the stream it reads.
ASSUME OneWriterAssumption ==
  \A c, d \in Consumers :
    /\ Target[c] # Source[c]
    /\ (Target[c] = Target[d] /\ Target[c] \in Streams) => c = d

ASSUME BoundsAssumption ==
  /\ BatchSize \in Nat \ {0}
  /\ MaxLen \in Nat \ {0}
  /\ MaxEntries \in Nat
  /\ MaxFaults \in Nat

VARIABLES
  log,       \* log[s]: every entry ever added to stream s
  trimmed,   \* trimmed[s]: how many of the oldest have been trimmed away
  group,     \* group[c]: c's consumer group exists
  cursor,    \* cursor[c]: the group's last delivered id
  pel,       \* pel[c]: the group's pending entries (delivered, not acked)
  acked,     \* acked[c]: the entries c has acknowledged (history)
  pc,        \* pc[c]: where the process and its consumer task stand
  pos,       \* pos[c]: the entry of the batch c has come to
  handed,    \* handed[c]: the entries yielded to c's handler, in order (history)
  effects,   \* effects[c]: the entries whose handling took effect, in order (history)
  faults     \* faults[c]: the faults c has met

redis == <<log, trimmed, group, cursor, pel, acked>>
vars == <<log, trimmed, group, cursor, pel, acked, pc, pos, handed, effects, faults>>

\* "dead": the task has ended with an exception, the process waits on stop.wait().
Control == {"down", "starting", "reading", "dispatch", "handling", "acking", "dead"}
Busy == {"dispatch", "handling", "acking"}

\* The entries of the batch c has received and not finished with.
InFlight(c) == IF pc[c] \in Busy THEN pos[c]..cursor[c] ELSE {}

TypeOK ==
  /\ log \in [Streams -> Seq(Nat)]
  /\ trimmed \in [Streams -> Nat]
  /\ group \in [Consumers -> BOOLEAN]
  /\ cursor \in [Consumers -> Nat]
  /\ pel \in [Consumers -> SUBSET Nat]
  /\ acked \in [Consumers -> SUBSET Nat]
  /\ pc \in [Consumers -> Control]
  /\ pos \in [Consumers -> Nat]
  /\ handed \in [Consumers -> Seq(Nat)]
  /\ effects \in [Consumers -> Seq(Nat)]
  /\ faults \in [Consumers -> 0..MaxFaults]

Init ==
  /\ log = [s \in Streams |-> <<>>]
  /\ trimmed = [s \in Streams |-> 0]
  /\ group = [c \in Consumers |-> FALSE]
  /\ cursor = [c \in Consumers |-> 0]
  /\ pel = [c \in Consumers |-> {}]
  /\ acked = [c \in Consumers |-> {}]
  /\ pc = [c \in Consumers |-> "down"]
  /\ pos = [c \in Consumers |-> 1]
  /\ handed = [c \in Consumers |-> <<>>]
  /\ effects = [c \in Consumers |-> <<>>]
  /\ faults = [c \in Consumers |-> 0]

-----------------------------------------------------------------------------
(* Adding to a stream *)

\* XADD with an approximate MAXLEN: entries older than the newest MaxLen may go.
XAdd(s, entry) ==
  /\ log' = [log EXCEPT ![s] = Append(@, entry)]
  /\ \E t \in trimmed[s]..Len(log[s]) :
       /\ t > trimmed[s] => t + MaxLen <= Len(log[s]) + 1
       /\ trimmed' = [trimmed EXCEPT ![s] = t]

\* publish by a process outside this module (the ingest pollers on the raw stream).
\* An entry without a usable data field can only come from some other tool.
Produce(s, entry) ==
  /\ \A c \in Consumers : Target[c] # s
  /\ Len(log[s]) < MaxEntries
  /\ XAdd(s, entry)
  /\ UNCHANGED <<group, cursor, pel, acked, pc, pos, handed, effects, faults>>

-----------------------------------------------------------------------------
(* Starting, and the group *)

Fault(c, kind) ==
  /\ kind \in FaultKinds
  /\ faults[c] < MaxFaults
  /\ faults' = [faults EXCEPT ![c] = @ + 1]

\* supervisord (autorestart=true) starts a process that is down; main() creates the task.
Start(c) ==
  /\ pc[c] = "down"
  /\ pc' = [pc EXCEPT ![c] = "starting"]
  /\ UNCHANGED <<redis, pos, handed, effects, faults>>

\* Faulty variants: the group is made anew at every start; it begins at "$" instead of
\* "0"; it is made without a start id.
GroupCursorReset(c) == 0
GroupCursorAtEnd(c) == IF group[c] THEN cursor[c] ELSE Len(log[Source[c]])
GroupCursorUnset(c) == IF group[c] THEN cursor[c] ELSE NoStream

\* XGROUP CREATE id="0" MKSTREAM; BUSYGROUP (it exists) leaves the group alone.
GroupCursor(c) == IF group[c] THEN cursor[c] ELSE 0

CreateGroup(c) ==
  /\ group' = [group EXCEPT ![c] = TRUE]
  /\ cursor' = [cursor EXCEPT ![c] = GroupCursor(c)]

EnsureGroup(c) ==
  /\ pc[c] = "starting"
  /\ CreateGroup(c)
  /\ pc' = [pc EXCEPT ![c] = "reading"]
  /\ UNCHANGED <<log, trimmed, pel, acked, pos, handed, effects, faults>>

\* Any other error is raised, whether or not the server made the group: the task is over.
EnsureGroupFails(c) ==
  /\ pc[c] = "starting"
  /\ Fault(c, "fatal")
  /\ \/ CreateGroup(c)
     \/ UNCHANGED <<group, cursor>>
  /\ pc' = [pc EXCEPT ![c] = "dead"]
  /\ UNCHANGED <<log, trimmed, pel, acked, pos, handed, effects>>

-----------------------------------------------------------------------------
(* Reading a batch *)

\* The first entry XREADGROUP ">" can return.
FirstNew(c) ==
  LET s == Source[c]
  IN  (IF trimmed[s] > cursor[c] THEN trimmed[s] ELSE cursor[c]) + 1

\* The last one: as many as there are, at most BatchSize.
LastNew(c) ==
  LET n == Len(log[Source[c]])
  IN  IF FirstNew(c) + BatchSize - 1 < n THEN FirstNew(c) + BatchSize - 1 ELSE n

\* What the server does for one xreadgroup call: deliver and remember as pending.
Deliver(c) ==
  /\ FirstNew(c) <= LastNew(c)
  /\ cursor' = [cursor EXCEPT ![c] = LastNew(c)]
  /\ pel' = [pel EXCEPT ![c] = @ \cup (FirstNew(c)..LastNew(c))]
  /\ UNCHANGED <<log, trimmed, group, acked>>

\* An empty reply, or an error before the server acted, changes nothing: the loop goes on.
ReadBatch(c) ==
  /\ pc[c] = "reading"
  /\ Deliver(c)
  /\ pos' = [pos EXCEPT ![c] = FirstNew(c)]
  /\ pc' = [pc EXCEPT ![c] = "dispatch"]
  /\ UNCHANGED <<handed, effects, faults>>

\* Faulty variant: the error leaves the loop.
ReadReplyLostFatal(c) ==
  /\ pc[c] = "reading"
  /\ Fault(c, "lostReply")
  /\ Deliver(c)
  /\ pc' = [pc EXCEPT ![c] = "dead"]
  /\ UNCHANGED <<pos, handed, effects>>

\* The server delivered and the reply was lost: logged, and the loop reads on with ">".
ReadReplyLost(c) ==
  /\ pc[c] = "reading"
  /\ Fault(c, "lostReply")
  /\ Deliver(c)
  /\ UNCHANGED <<pc, pos, handed, effects>>

-----------------------------------------------------------------------------
(* Working through the batch *)

\* Faulty variant: the entry is acknowledged before it is yielded.
YieldAcked(c) ==
  /\ pc[c] = "dispatch"
  /\ log[Source[c]][pos[c]] # Undecodable
  /\ handed' = [handed EXCEPT ![c] = Append(@, pos[c])]
  /\ acked' = [acked EXCEPT ![c] = @ \cup {pos[c]}]
  /\ pel' = [pel EXCEPT ![c] = @ \ {pos[c]}]
  /\ pc' = [pc EXCEPT ![c] = "handling"]
  /\ UNCHANGED <<log, trimmed, group, cursor, pos, effects, faults>>

\* yield entry_id, payload
Yield(c) ==
  /\ pc[c] = "dispatch"
  /\ log[Source[c]][pos[c]] # Undecodable
  /\ handed' = [handed EXCEPT ![c] = Append(@, pos[c])]
  /\ pc' = [pc EXCEPT ![c] = "handling"]
  /\ UNCHANGED <<redis, pos, effects, faults>>

\* Faulty variant: continue without the xack.
SkipUnacked(c) ==
  /\ pc[c] = "dispatch"
  /\ log[Source[c]][pos[c]] = Undecodable
  /\ pos' = [pos EXCEPT ![c] = @ + 1]
  /\ pc' = [pc EXCEPT ![c] = IF pos[c] < cursor[c] THEN "dispatch" ELSE "reading"]
  /\ UNCHANGED <<redis, handed, effects, faults>>

\* No data field, or bad JSON: acknowledged without being yielded.
SkipUndecodable(c) ==
  /\ pc[c] = "dispatch"
  /\ log[Source[c]][pos[c]] = Undecodable
  /\ pc' = [pc EXCEPT ![c] = "acking"]
  /\ UNCHANGED <<redis, pos, handed, effects, faults>>

\* The handler's effect: an entry on the target stream, or what process_one stores.
TakeEffect(c) ==
  /\ effects' = [effects EXCEPT ![c] = Append(@, pos[c])]
  /\ IF Target[c] \in Streams THEN XAdd(Target[c], pos[c]) ELSE UNCHANGED <<log, trimmed>>

\* process_one returns None, or raises inside the loop's try: resume the generator.
HandlerDrops(c) ==
  /\ pc[c] = "handling"
  /\ pc' = [pc EXCEPT ![c] = "acking"]
  /\ UNCHANGED <<redis, pos, handed, effects, faults>>

HandlerSucceeds(c) ==
  /\ pc[c] = "handling"
  /\ TakeEffect(c)
  /\ pc' = [pc EXCEPT ![c] = "acking"]
  /\ UNCHANGED <<group, cursor, pel, acked, pos, handed, faults>>

\* Faulty variant: the publish is tried again.
PublishRetried(c) ==
  /\ pc[c] = "handling"
  /\ c \in FatalPublish
  /\ Fault(c, "fatal")
  /\ \/ TakeEffect(c)
     \/ UNCHANGED <<effects, log, trimmed>>
  /\ UNCHANGED <<group, cursor, pel, acked, pc, pos, handed>>

\* publish raises, outside the try, whether or not the server added the entry.
PublishFails(c) ==
  /\ pc[c] = "handling"
  /\ c \in FatalPublish
  /\ Fault(c, "fatal")
  /\ \/ TakeEffect(c)
     \/ UNCHANGED <<effects, log, trimmed>>
  /\ pc' = [pc EXCEPT ![c] = "dead"]
  /\ UNCHANGED <<group, cursor, pel, acked, pos, handed>>

\* XACK on the server.
Acknowledge(c) ==
  /\ acked' = [acked EXCEPT ![c] = @ \cup {pos[c]}]
  /\ pel' = [pel EXCEPT ![c] = @ \ {pos[c]}]

Ack(c) ==
  /\ pc[c] = "acking"
  /\ Acknowledge(c)
  /\ pos' = [pos EXCEPT ![c] = @ + 1]
  /\ pc' = [pc EXCEPT ![c] = IF pos[c] < cursor[c] THEN "dispatch" ELSE "reading"]
  /\ UNCHANGED <<log, trimmed, group, cursor, handed, effects, faults>>

\* xack raises inside the generator: run_consumer, which catches only the handler's
\* exceptions, ends.
AckFails(c) ==
  /\ pc[c] = "acking"
  /\ Fault(c, "fatal")
  /\ \/ Acknowledge(c)
     \/ UNCHANGED <<acked, pel>>
  /\ pc' = [pc EXCEPT ![c] = "dead"]
  /\ UNCHANGED <<log, trimmed, group, cursor, pos, handed, effects>>

-----------------------------------------------------------------------------
(* Stopping *)

\* SIGTERM (stop is set, the task is cancelled at its await), SIGKILL or a reboot.
\* What was in flight stays pending; a read under way may reach the server all the same.
Crash(c) ==
  /\ pc[c] # "down"
  /\ Fault(c, "crash")
  /\ \/ UNCHANGED redis
     \/ pc[c] = "reading" /\ Deliver(c)
  /\ pc' = [pc EXCEPT ![c] = "down"]
  /\ UNCHANGED <<pos, handed, effects>>

-----------------------------------------------------------------------------

\* What the consumer and its supervisor do when nothing goes wrong.
Step(c) ==
  \/ Start(c)
  \/ EnsureGroup(c)
  \/ ReadBatch(c)
  \/ Yield(c)
  \/ SkipUndecodable(c)
  \/ HandlerDrops(c)
  \/ HandlerSucceeds(c)
  \/ Ack(c)

Failure(c) ==
  \/ EnsureGroupFails(c)
  \/ ReadReplyLost(c)
  \/ PublishFails(c)
  \/ AckFails(c)
  \/ Crash(c)

Next ==
  \/ \E s \in Streams, entry \in {Undecodable, Decodable} : Produce(s, entry)
  \/ \E c \in Consumers : Step(c) \/ Failure(c)

Spec == Init /\ [][Next]_vars

\* The event loop runs a ready task, and supervisord restarts a process that is down.
\* Nothing forces a fault, and nothing forces an outside producer to add an entry.
FairSpec == Spec /\ \A c \in Consumers : WF_vars(Step(c))

-----------------------------------------------------------------------------
(* Properties *)

StrictlyIncreasing(s) == \A i, j \in 1..Len(s) : i < j => s[i] < s[j]

WasHanded(c, e) == \E i \in 1..Len(handed[c]) : handed[c][i] = e

\* An entry is yielded to the handler at most once, and entries in stream order,
\* through every crash, restart and lost reply: consume only reads ">" and the group
\* outlives the process.
AtMostOnceInOrder == \A c \in Consumers : StrictlyIncreasing(handed[c])

\* Together with the stream it reads, each consumer is a lossy FIFO channel from whoever
\* adds entries to its handler.
HandOff(c) == INSTANCE LossyFifo WITH sent <- Len(log[Source[c]]), out <- handed[c]

\* What the handler publishes or stores comes at most once per entry, in stream
\* order, and only for an entry that was yielded.
EffectsAtMostOnce ==
  \A c \in Consumers :
    /\ StrictlyIncreasing(effects[c])
    /\ \A i \in 1..Len(effects[c]) : WasHanded(c, effects[c][i])

\* An entry is acknowledged only once its handler has returned (or it had no usable
\* data): a crash while handling never leaves the entry acknowledged.
AckedOnlyAfterHandling ==
  \A c \in Consumers : \A e \in acked[c] :
    /\ e \notin InFlight(c)
    /\ WasHanded(c, e) \/ log[Source[c]][e] = Undecodable

\* Whatever the group's cursor has passed is acknowledged, pending, or was trimmed
\* before it could be read: the group loses no entry without a trace.
NothingVanishes ==
  \A c \in Consumers : \A e \in 1..cursor[c] :
    e \in acked[c] \/ e \in pel[c] \/ e <= trimmed[Source[c]]

\* The entries stranded in the pending list, which no code reads again, are at most
\* one batch per fault; without a fault there are none.
StrandedBounded ==
  \A c \in Consumers :
    Cardinality(pel[c] \ InFlight(c)) <= BatchSize * faults[c]

\* How far each kind of progress through the group's entries can have come.
HandedLimit(c) ==
  CASE pc[c] = "dispatch" -> pos[c] - 1
    [] pc[c] \in {"handling", "acking"} -> pos[c]
    [] OTHER -> cursor[c]
EffectsLimit(c) ==
  CASE pc[c] \in {"dispatch", "handling"} -> pos[c] - 1
    [] pc[c] = "acking" -> pos[c]
    [] OTHER -> cursor[c]
AckedLimit(c) == IF pc[c] \in Busy THEN pos[c] - 1 ELSE cursor[c]

\* The invariant that is inductive: everything consumer c has done lies behind its place
\* in the batch, and its batch lies behind the cursor.
ConsumerInv(c) ==
  /\ cursor[c] <= Len(log[Source[c]])
  /\ ~group[c] => cursor[c] = 0
  /\ pc[c] \in Busy \cup {"reading"} => group[c]
  /\ pc[c] \in Busy => pos[c] \in 1..cursor[c]
  /\ StrictlyIncreasing(handed[c])
  /\ \A i \in 1..Len(handed[c]) : handed[c][i] \in 1..HandedLimit(c)
  /\ StrictlyIncreasing(effects[c])
  /\ \A i \in 1..Len(effects[c]) :
       effects[c][i] \in 1..EffectsLimit(c) /\ WasHanded(c, effects[c][i])
  /\ pc[c] = "handling" => WasHanded(c, pos[c])
  /\ pc[c] = "acking" => WasHanded(c, pos[c]) \/ log[Source[c]][pos[c]] = Undecodable
  /\ \A e \in acked[c] :
       e \in 1..AckedLimit(c) /\ (WasHanded(c, e) \/ log[Source[c]][e] = Undecodable)
  /\ \A e \in 1..cursor[c] : e \in acked[c] \/ e \in pel[c] \/ e <= trimmed[Source[c]]

IInv == TypeOK /\ \A c \in Consumers : ConsumerInv(c)

\* Every entry of the source is in the end delivered (or trimmed away before).
EveryEntryDelivered ==
  \A c \in Consumers : \A e \in 1..MaxEntries :
    e <= Len(log[Source[c]]) ~> e <= cursor[c] \/ e <= trimmed[Source[c]]

\* Every entry of the source is in the end acknowledged by a consumer that meets no
\* fault, unless it was trimmed away.
EveryEntryAcked ==
  \A c \in Consumers : \A e \in 1..MaxEntries :
    e <= Len(log[Source[c]]) ~>
      e \in acked[c] \/ e <= trimmed[Source[c]] \/ faults[c] > 0

\* A consumer whose task an exception has ended is started again (the deployment's
\* promise that a crashed service restarts).
CrashedConsumerRestarts ==
  \A c \in Consumers : pc[c] = "dead" ~> pc[c] = "starting"
=============================================================================
