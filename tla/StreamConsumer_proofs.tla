----------------------- MODULE StreamConsumer_proofs -----------------------
(***************************************************************************)
(* Proofs about StreamConsumer, for every set of consumers and streams,    *)
(* every topology in which a stream has one writer, every batch size and   *)
(* every number and kind of faults.                                        *)
(***************************************************************************)
EXTENDS StreamConsumer, Integers, FiniteSetTheorems, TLAPS

\* The streams keep their type, only grow at the end, and are only trimmed further.
Grows ==
  /\ log' \in [Streams -> Seq(Nat)]
  /\ trimmed' \in [Streams -> Nat]
  /\ \A t \in Streams :
       /\ Len(log'[t]) \in Nat
       /\ Len(log'[t]) >= Len(log[t])
       /\ \A e \in 1..Len(log[t]) : log'[t][e] = log[t][e]
       /\ trimmed'[t] >= trimmed[t]
       /\ trimmed'[t] \in Nat

\* What adding an entry does to the streams.
LEMMA XAddGrows ==
  ASSUME TypeOK, NEW s \in Streams, NEW entry \in Nat, XAdd(s, entry)
  PROVE  Grows
<1>1. log' = [log EXCEPT ![s] = Append(@, entry)]
  BY DEF XAdd
<1>2. PICK n \in trimmed[s]..Len(log[s]) : trimmed' = [trimmed EXCEPT ![s] = n]
  BY DEF XAdd
<1>3. /\ log \in [Streams -> Seq(Nat)]
      /\ trimmed \in [Streams -> Nat]
  BY DEF TypeOK
<1>4. Append(log[s], entry) \in Seq(Nat)
  BY <1>3
<1>5. log' \in [Streams -> Seq(Nat)]
  BY <1>1, <1>3, <1>4
<1>6. trimmed' \in [Streams -> Nat]
  BY <1>2, <1>3
<1>7. ASSUME NEW t \in Streams
      PROVE  /\ Len(log'[t]) >= Len(log[t])
             /\ \A e \in 1..Len(log[t]) : log'[t][e] = log[t][e]
             /\ trimmed'[t] >= trimmed[t]
  <2>1. CASE t = s
    <3>1. log'[s] = Append(log[s], entry) /\ log[s] \in Seq(Nat)
      BY <1>1, <1>3
    <3>2. trimmed'[s] = n /\ n >= trimmed[s]
      BY <1>2, <1>3
    <3>3. QED
      BY <2>1, <3>1, <3>2
  <2>2. CASE t # s
    BY <1>1, <1>2, <1>3, <2>2
  <2>3. QED
    BY <2>1, <2>2
<1>8. QED
  BY <1>5, <1>6, <1>7 DEF Grows

\* Where the handler's effect leaves the streams, whether or not it has a target.
LEMMA TakeEffectGrows ==
  ASSUME TypeOK, NEW c \in Consumers, TakeEffect(c)
  PROVE  Grows
<1>1. pos[c] \in Nat
  BY DEF TypeOK
<1>2. CASE Target[c] \in Streams
  <2>1. XAdd(Target[c], pos[c])
    BY <1>2 DEF TakeEffect
  <2>2. QED
    BY <1>1, <1>2, <2>1, XAddGrows
<1>3. CASE Target[c] \notin Streams
  <2>1. log' = log /\ trimmed' = trimmed
    BY <1>3 DEF TakeEffect
  <2>2. QED
    BY <2>1 DEF TypeOK, Grows
<1>4. QED
  BY <1>2, <1>3

\* The range an XREADGROUP reply covers: it starts behind the cursor and ends in the stream.
LEMMA NewRange ==
  ASSUME TypeOK, NEW c \in Consumers, FirstNew(c) <= LastNew(c)
  PROVE  /\ FirstNew(c) \in Nat /\ LastNew(c) \in Nat
         /\ FirstNew(c) > cursor[c]
         /\ LastNew(c) <= Len(log[Source[c]])
         /\ \A e \in (cursor[c] + 1)..LastNew(c) :
              e \in FirstNew(c)..LastNew(c) \/ e <= trimmed[Source[c]]
<1> DEFINE s == Source[c]
<1>1. s \in Streams
  BY TopologyAssumption
<1>2. /\ cursor[c] \in Nat
      /\ trimmed[s] \in Nat
      /\ Len(log[s]) \in Nat
      /\ BatchSize \in Nat \ {0}
  BY <1>1, BoundsAssumption DEF TypeOK
<1>3. FirstNew(c) = (IF trimmed[s] > cursor[c] THEN trimmed[s] ELSE cursor[c]) + 1
  BY DEF FirstNew
<1>4. LastNew(c) = IF FirstNew(c) + BatchSize - 1 < Len(log[s])
                   THEN FirstNew(c) + BatchSize - 1 ELSE Len(log[s])
  BY DEF LastNew
<1> DEFINE behind == IF trimmed[s] > cursor[c] THEN trimmed[s] ELSE cursor[c]
<1>5. /\ behind \in Nat /\ behind >= cursor[c]
      /\ behind > cursor[c] => behind = trimmed[s]
      /\ FirstNew(c) = behind + 1
  BY <1>2, <1>3
<1>6. /\ LastNew(c) \in Nat /\ LastNew(c) <= Len(log[s])
  <2> HIDE DEF behind
  <2>1. CASE FirstNew(c) + BatchSize - 1 < Len(log[s])
    BY <1>2, <1>4, <1>5, <2>1
  <2>2. CASE ~(FirstNew(c) + BatchSize - 1 < Len(log[s]))
    BY <1>2, <1>4, <2>2
  <2>3. QED
    BY <2>1, <2>2
<1>7. \A e \in (cursor[c] + 1)..LastNew(c) :
        e \in FirstNew(c)..LastNew(c) \/ e <= trimmed[s]
  <2> HIDE DEF behind
  <2> QED
    BY <1>2, <1>5, <1>6
<1>8. FirstNew(c) \in Nat /\ FirstNew(c) > cursor[c]
  <2> HIDE DEF behind
  <2> QED
    BY <1>2, <1>5
<1>9. QED
  BY <1>6, <1>7, <1>8

-----------------------------------------------------------------------------
(* Type correctness *)

\* Every state of the consumers is well-typed.
THEOREM TypeCorrect == Spec => []TypeOK
<1>1. Init => TypeOK
  BY BoundsAssumption DEF Init, TypeOK, Control
<1>2. TypeOK /\ [Next]_vars => TypeOK'
  <2> SUFFICES ASSUME TypeOK, [Next]_vars
               PROVE  TypeOK'
    OBVIOUS
  <2> USE DEF TypeOK, Control
  <2>1. ASSUME NEW s \in Streams, NEW entry \in {Undecodable, Decodable}, Produce(s, entry)
        PROVE  TypeOK'
    <3>1. entry \in Nat
      BY DEF Undecodable, Decodable
    <3>2. QED
      BY <2>1, <3>1, XAddGrows DEF Produce, Grows
  <2>2. ASSUME NEW c \in Consumers, Start(c)
        PROVE  TypeOK'
    BY <2>2 DEF Start, redis
  <2>3. ASSUME NEW c \in Consumers, EnsureGroup(c)
        PROVE  TypeOK'
    BY <2>3 DEF EnsureGroup, CreateGroup, GroupCursor
  <2>4. ASSUME NEW c \in Consumers, Deliver(c)
        PROVE  /\ log' \in [Streams -> Seq(Nat)] /\ trimmed' \in [Streams -> Nat]
               /\ group' \in [Consumers -> BOOLEAN] /\ cursor' \in [Consumers -> Nat]
               /\ pel' \in [Consumers -> SUBSET Nat] /\ acked' \in [Consumers -> SUBSET Nat]
    <3>1. FirstNew(c) \in Nat /\ LastNew(c) \in Nat
      BY <2>4, NewRange DEF Deliver
    <3>2. FirstNew(c)..LastNew(c) \subseteq Nat
      BY <3>1
    <3>3. QED
      BY <2>4, <3>1, <3>2 DEF Deliver
  <2>5. ASSUME NEW c \in Consumers, ReadBatch(c)
        PROVE  TypeOK'
    <3>1. FirstNew(c) \in Nat
      BY <2>5, NewRange DEF ReadBatch, Deliver
    <3>2. QED
      BY <2>4, <2>5, <3>1 DEF ReadBatch
  <2>6. ASSUME NEW c \in Consumers, Yield(c)
        PROVE  TypeOK'
    BY <2>6 DEF Yield, redis
  <2>7. ASSUME NEW c \in Consumers, SkipUndecodable(c)
        PROVE  TypeOK'
    BY <2>7 DEF SkipUndecodable, redis
  <2>8. ASSUME NEW c \in Consumers, HandlerDrops(c)
        PROVE  TypeOK'
    BY <2>8 DEF HandlerDrops, redis
  <2>9. ASSUME NEW c \in Consumers, TakeEffect(c)
        PROVE  /\ log' \in [Streams -> Seq(Nat)] /\ trimmed' \in [Streams -> Nat]
               /\ effects' \in [Consumers -> Seq(Nat)]
    <3>1. effects' \in [Consumers -> Seq(Nat)]
      BY <2>9 DEF TakeEffect
    <3>2. QED
      BY <2>9, <3>1, TakeEffectGrows DEF Grows
  <2>10. ASSUME NEW c \in Consumers, HandlerSucceeds(c)
         PROVE  TypeOK'
    BY <2>9, <2>10 DEF HandlerSucceeds
  <2>11. ASSUME NEW c \in Consumers, Ack(c)
         PROVE  TypeOK'
    BY <2>11 DEF Ack, Acknowledge
  <2>12. ASSUME NEW c \in Consumers, NEW kind, Fault(c, kind)
         PROVE  faults' \in [Consumers -> 0..MaxFaults]
    BY <2>12, BoundsAssumption DEF Fault
  <2>13. ASSUME NEW c \in Consumers, EnsureGroupFails(c)
         PROVE  TypeOK'
    <3>1. /\ cursor' \in [Consumers -> Nat]
          /\ group' \in [Consumers -> BOOLEAN]
      <4>1. CASE CreateGroup(c)
        BY <4>1 DEF CreateGroup, GroupCursor
      <4>2. CASE UNCHANGED <<group, cursor>>
        BY <4>2
      <4>3. QED
        BY <2>13, <4>1, <4>2 DEF EnsureGroupFails
    <3>2. QED
      BY <2>12, <2>13, <3>1 DEF EnsureGroupFails
  <2>14. ASSUME NEW c \in Consumers, ReadReplyLost(c)
         PROVE  TypeOK'
    BY <2>4, <2>12, <2>14 DEF ReadReplyLost
  <2>15. ASSUME NEW c \in Consumers, PublishFails(c)
         PROVE  TypeOK'
    <3>1. /\ log' \in [Streams -> Seq(Nat)] /\ trimmed' \in [Streams -> Nat]
          /\ effects' \in [Consumers -> Seq(Nat)]
      BY <2>9, <2>15 DEF PublishFails
    <3>2. QED
      BY <2>12, <2>15, <3>1 DEF PublishFails
  <2>16. ASSUME NEW c \in Consumers, AckFails(c)
         PROVE  TypeOK'
    <3>1. /\ acked' \in [Consumers -> SUBSET Nat]
          /\ pel' \in [Consumers -> SUBSET Nat]
      <4>1. CASE Acknowledge(c)
        BY <4>1 DEF Acknowledge
      <4>2. CASE UNCHANGED <<acked, pel>>
        BY <4>2
      <4>3. QED
        BY <2>16, <4>1, <4>2 DEF AckFails
    <3>2. QED
      BY <2>12, <2>16, <3>1 DEF AckFails
  <2>17. ASSUME NEW c \in Consumers, Crash(c)
         PROVE  TypeOK'
    <3>1. CASE UNCHANGED redis
      BY <2>12, <2>17, <3>1 DEF Crash, redis
    <3>2. CASE Deliver(c)
      BY <2>4, <2>12, <2>17, <3>2 DEF Crash
    <3>3. QED
      BY <2>17, <3>1, <3>2 DEF Crash
  <2>18. CASE UNCHANGED vars
    BY <2>18 DEF vars
  <2>19. QED
    BY <2>1, <2>2, <2>3, <2>5, <2>6, <2>7, <2>8, <2>10, <2>11, <2>13, <2>14, <2>15,
       <2>16, <2>17, <2>18 DEF Next, Step, Failure
<1>3. QED
  BY <1>1, <1>2, PTL DEF Spec

-----------------------------------------------------------------------------
(* The inductive invariant *)

\* Appending an entry past the end of a strictly increasing sequence keeps it so.
LEMMA AppendIncreasing ==
  ASSUME NEW seq \in Seq(Nat), StrictlyIncreasing(seq), NEW e \in Nat,
         \A i \in 1..Len(seq) : seq[i] < e
  PROVE  StrictlyIncreasing(Append(seq, e))
  BY DEF StrictlyIncreasing

\* A step that touches nothing of a consumer's own, and lets streams grow at most,
\* keeps that consumer's invariant.
LEMMA Frame ==
  ASSUME TypeOK, NEW c \in Consumers, ConsumerInv(c),
         pc'[c] = pc[c], pos'[c] = pos[c], cursor'[c] = cursor[c], group'[c] = group[c],
         handed'[c] = handed[c], effects'[c] = effects[c],
         acked'[c] = acked[c], pel'[c] = pel[c],
         Grows
  PROVE  ConsumerInv(c)'
<1> DEFINE s == Source[c]
<1>1. /\ s \in Streams
      /\ Len(log'[s]) >= Len(log[s]) /\ Len(log'[s]) \in Nat
      /\ \A e \in 1..Len(log[s]) : log'[s][e] = log[s][e]
      /\ trimmed'[s] >= trimmed[s] /\ trimmed'[s] \in Nat
  BY TopologyAssumption DEF Grows
<1>2. /\ Len(log[s]) \in Nat /\ trimmed[s] \in Nat /\ cursor[c] \in Nat /\ pos[c] \in Nat
      /\ cursor[c] <= Len(log[s])
      /\ pc[c] \in Busy => pos[c] \in 1..cursor[c]
  BY <1>1 DEF TypeOK, ConsumerInv
<1>3. /\ HandedLimit(c)' = HandedLimit(c)
      /\ EffectsLimit(c)' = EffectsLimit(c)
      /\ AckedLimit(c)' = AckedLimit(c)
  BY DEF HandedLimit, EffectsLimit, AckedLimit
<1>4. \A e : WasHanded(c, e)' <=> WasHanded(c, e)
  BY DEF WasHanded
<1>5. /\ cursor'[c] <= Len(log'[s])
      /\ ~group'[c] => cursor'[c] = 0
      /\ pc'[c] \in Busy \cup {"reading"} => group'[c]
      /\ pc'[c] \in Busy => pos'[c] \in 1..cursor'[c]
  BY <1>1, <1>2 DEF ConsumerInv
<1>6. /\ StrictlyIncreasing(handed'[c])
      /\ \A i \in 1..Len(handed'[c]) : handed'[c][i] \in 1..HandedLimit(c)'
      /\ StrictlyIncreasing(effects'[c])
      /\ \A i \in 1..Len(effects'[c]) :
           effects'[c][i] \in 1..EffectsLimit(c)' /\ WasHanded(c, effects[c][i])'
  BY <1>3, <1>4 DEF ConsumerInv
<1>7. /\ pc'[c] = "handling" => WasHanded(c, pos[c])'
      /\ pc'[c] = "acking" => WasHanded(c, pos[c])' \/ log'[s][pos'[c]] = Undecodable
  BY <1>1, <1>2, <1>4 DEF ConsumerInv, Busy
<1>8. \A e \in acked'[c] :
        e \in 1..AckedLimit(c)' /\ (WasHanded(c, e)' \/ log'[s][e] = Undecodable)
  <2>1. \A e \in 1..AckedLimit(c) : e \in 1..Len(log[s])
    BY <1>2 DEF AckedLimit, Busy
  <2>2. QED
    BY <1>1, <1>3, <1>4, <2>1 DEF ConsumerInv
<1>9. \A e \in 1..cursor'[c] : e \in acked'[c] \/ e \in pel'[c] \/ e <= trimmed'[s]
  BY <1>1, <1>2 DEF ConsumerInv
<1>10. QED
  BY <1>5, <1>6, <1>7, <1>8, <1>9 DEF ConsumerInv

\* No step rewrites a stream.
LEMMA NextGrows ==
  ASSUME TypeOK, Next
  PROVE  Grows
<1>1. ASSUME NEW s \in Streams, NEW entry \in {Undecodable, Decodable}, Produce(s, entry)
      PROVE  Grows
  BY <1>1, XAddGrows DEF Produce, Undecodable, Decodable
<1>2. ASSUME UNCHANGED <<log, trimmed>>
      PROVE  Grows
  BY <1>2 DEF TypeOK, Grows
<1>3. ASSUME NEW c \in Consumers, Step(c)
      PROVE  Grows
  <2>1. TakeEffect(c) \/ UNCHANGED <<log, trimmed>>
    BY <1>3 DEF Step, Start, EnsureGroup, ReadBatch, Deliver, Yield, SkipUndecodable,
      HandlerDrops, HandlerSucceeds, Ack, redis
  <2>2. QED
    BY <1>2, <2>1, TakeEffectGrows
<1>4. ASSUME NEW c \in Consumers, Failure(c)
      PROVE  Grows
  <2>1. TakeEffect(c) \/ UNCHANGED <<log, trimmed>>
    BY <1>4 DEF Failure, EnsureGroupFails, ReadReplyLost, Deliver, PublishFails, AckFails,
      Crash, redis
  <2>2. QED
    BY <1>2, <2>1, TakeEffectGrows
<1>5. QED
  BY <1>1, <1>3, <1>4 DEF Next

\* What the acting consumer's own steps do to its invariant, first those that leave the
\* streams alone.
LEMMA StartKeeps ==
  ASSUME TypeOK, NEW c \in Consumers, ConsumerInv(c), Start(c) \/ EnsureGroup(c)
  PROVE  ConsumerInv(c)'
<1>1. /\ cursor'[c] = cursor[c] /\ pel' = pel /\ acked' = acked /\ pos' = pos
      /\ log' = log /\ trimmed' = trimmed /\ handed' = handed /\ effects' = effects
      /\ ~group'[c] => ~group[c]
      /\ pc[c] \in {"down", "starting"} /\ pc'[c] \in {"starting", "reading"}
      /\ pc'[c] = "reading" => group'[c]
  <2>1. CASE Start(c)
    BY <2>1 DEF Start, redis, TypeOK
  <2>2. CASE EnsureGroup(c)
    BY <2>2 DEF EnsureGroup, CreateGroup, GroupCursor, TypeOK, ConsumerInv
  <2>3. QED
    BY <2>1, <2>2
<1>2. /\ HandedLimit(c)' = HandedLimit(c)
      /\ EffectsLimit(c)' = EffectsLimit(c)
      /\ AckedLimit(c)' = AckedLimit(c)
  BY <1>1 DEF HandedLimit, EffectsLimit, AckedLimit, Busy
<1>3. \A e : WasHanded(c, e)' <=> WasHanded(c, e)
  BY <1>1 DEF WasHanded
<1>4. QED
  BY <1>1, <1>2, <1>3 DEF ConsumerInv, Busy

\* A task that ends with an exception while starting, or a process that goes down,
\* outside of a read, forgets its batch.
LEMMA ForgetKeeps ==
  ASSUME TypeOK, NEW c \in Consumers, ConsumerInv(c),
         pc'[c] \in {"down", "dead"},
         cursor'[c] = cursor[c], ~group'[c] => ~group[c], pel'[c] = pel[c],
         acked'[c] = acked[c], log' = log, trimmed' = trimmed,
         handed'[c] = handed[c], effects'[c] = effects[c]
  PROVE  ConsumerInv(c)'
<1>1. /\ HandedLimit(c)' = cursor[c] /\ EffectsLimit(c)' = cursor[c] /\ AckedLimit(c)' = cursor[c]
  BY DEF HandedLimit, EffectsLimit, AckedLimit, Busy
<1>2. /\ HandedLimit(c) \in Int /\ HandedLimit(c) <= cursor[c]
      /\ EffectsLimit(c) \in Int /\ EffectsLimit(c) <= cursor[c]
      /\ AckedLimit(c) \in Int /\ AckedLimit(c) <= cursor[c]
      /\ cursor[c] \in Nat
  BY DEF HandedLimit, EffectsLimit, AckedLimit, Busy, TypeOK, Control, ConsumerInv
<1>3. \A e : WasHanded(c, e)' <=> WasHanded(c, e)
  BY DEF WasHanded
<1>4. QED
  BY <1>1, <1>2, <1>3 DEF ConsumerInv, Busy

\* Receiving a batch: the consumer stands before its first entry; with the reply lost, or
\* the process gone, the cursor has moved all the same.
LEMMA DeliverKeeps ==
  ASSUME TypeOK, NEW c \in Consumers, ConsumerInv(c), Deliver(c),
         pc[c] = "reading",
         \/ pc'[c] = "dispatch" /\ pos'[c] = FirstNew(c)
         \/ pc'[c] \in {"reading", "down"},
         handed'[c] = handed[c], effects'[c] = effects[c]
  PROVE  ConsumerInv(c)'
<1> DEFINE s == Source[c]
<1>1. /\ FirstNew(c) \in Nat /\ LastNew(c) \in Nat /\ FirstNew(c) > cursor[c]
      /\ FirstNew(c) <= LastNew(c) /\ LastNew(c) <= Len(log[s])
      /\ \A e \in (cursor[c] + 1)..LastNew(c) : e \in FirstNew(c)..LastNew(c) \/ e <= trimmed[s]
  BY NewRange DEF Deliver
<1>2. /\ cursor'[c] = LastNew(c) /\ pel'[c] = pel[c] \cup (FirstNew(c)..LastNew(c))
      /\ log' = log /\ trimmed' = trimmed /\ group' = group /\ acked' = acked
  BY DEF Deliver, TypeOK
<1>3. /\ HandedLimit(c) = cursor[c] /\ EffectsLimit(c) = cursor[c] /\ AckedLimit(c) = cursor[c]
      /\ cursor[c] \in Nat
  BY DEF HandedLimit, EffectsLimit, AckedLimit, Busy, TypeOK
<1>4. /\ HandedLimit(c)' \in Nat /\ HandedLimit(c)' >= cursor[c]
      /\ EffectsLimit(c)' \in Nat /\ EffectsLimit(c)' >= cursor[c]
      /\ AckedLimit(c)' \in Nat /\ AckedLimit(c)' >= cursor[c]
  BY <1>1, <1>2, <1>3 DEF HandedLimit, EffectsLimit, AckedLimit, Busy
<1>5. \A e : WasHanded(c, e)' <=> WasHanded(c, e)
  BY DEF WasHanded
<1>6. group'[c]
  BY <1>2 DEF ConsumerInv
<1>7. pc'[c] \in Busy => pos'[c] \in 1..cursor'[c]
  BY <1>1, <1>2, <1>3 DEF Busy
<1>8. \A e \in 1..cursor'[c] : e \in acked'[c] \/ e \in pel'[c] \/ e <= trimmed'[s]
  BY <1>1, <1>2, <1>3 DEF ConsumerInv
<1>9. QED
  BY <1>1, <1>2, <1>3, <1>4, <1>5, <1>6, <1>7, <1>8 DEF ConsumerInv

LEMMA YieldKeeps ==
  ASSUME TypeOK, NEW c \in Consumers, ConsumerInv(c), Yield(c)
  PROVE  ConsumerInv(c)'
<1>1. /\ pc[c] = "dispatch" /\ pc'[c] = "handling" /\ pos' = pos
      /\ handed'[c] = Append(handed[c], pos[c]) /\ effects' = effects
      /\ log' = log /\ trimmed' = trimmed /\ group' = group /\ cursor' = cursor
      /\ pel' = pel /\ acked' = acked
  BY DEF Yield, redis, TypeOK
<1>2. pos[c] \in Nat /\ pos[c] \in 1..cursor[c] /\ handed[c] \in Seq(Nat) /\ cursor[c] \in Nat
  BY <1>1 DEF TypeOK, ConsumerInv, Busy
<1>3. /\ HandedLimit(c) = pos[c] - 1 /\ HandedLimit(c)' = pos[c]
      /\ EffectsLimit(c)' = EffectsLimit(c) /\ AckedLimit(c)' = AckedLimit(c)
  BY <1>1 DEF HandedLimit, EffectsLimit, AckedLimit, Busy
<1>4. StrictlyIncreasing(handed'[c])
  <2>1. \A i \in 1..Len(handed[c]) : handed[c][i] < pos[c]
    BY <1>2, <1>3 DEF ConsumerInv
  <2>2. QED
    BY <1>1, <1>2, <2>1, AppendIncreasing DEF ConsumerInv
<1>5. \A i \in 1..Len(handed'[c]) : handed'[c][i] \in 1..HandedLimit(c)'
  BY <1>1, <1>2, <1>3 DEF ConsumerInv
<1>6. WasHanded(c, pos[c])' /\ \A e : WasHanded(c, e) => WasHanded(c, e)'
  <2>1. /\ Len(handed'[c]) = Len(handed[c]) + 1 /\ Len(handed[c]) \in Nat
        /\ handed'[c][Len(handed[c]) + 1] = pos[c]
        /\ \A i \in 1..Len(handed[c]) : handed'[c][i] = handed[c][i]
    BY <1>1, <1>2
  <2>2. QED
    BY <1>1, <2>1 DEF WasHanded
<1>7. QED
  BY <1>1, <1>2, <1>3, <1>4, <1>5, <1>6 DEF ConsumerInv, Busy

\* The entry is dropped, by the generator or by the handler.
LEMMA DropKeeps ==
  ASSUME TypeOK, NEW c \in Consumers, ConsumerInv(c), SkipUndecodable(c) \/ HandlerDrops(c)
  PROVE  ConsumerInv(c)'
<1>1. /\ pc[c] \in {"dispatch", "handling"} /\ pc'[c] = "acking" /\ pos' = pos
      /\ pc[c] = "dispatch" => log[Source[c]][pos[c]] = Undecodable
      /\ handed' = handed /\ effects' = effects
      /\ log' = log /\ trimmed' = trimmed /\ group' = group /\ cursor' = cursor
      /\ pel' = pel /\ acked' = acked
  <2>1. CASE SkipUndecodable(c)
    BY <2>1 DEF SkipUndecodable, redis, TypeOK
  <2>2. CASE HandlerDrops(c)
    BY <2>2 DEF HandlerDrops, redis, TypeOK
  <2>3. QED
    BY <2>1, <2>2
<1>2. pos[c] \in 1..cursor[c] /\ pos[c] \in Nat /\ cursor[c] \in Nat
  BY <1>1 DEF TypeOK, ConsumerInv, Busy
<1>3. /\ HandedLimit(c) \in {pos[c] - 1, pos[c]} /\ HandedLimit(c)' = pos[c]
      /\ EffectsLimit(c) = pos[c] - 1 /\ EffectsLimit(c)' = pos[c]
      /\ AckedLimit(c)' = AckedLimit(c)
  BY <1>1 DEF HandedLimit, EffectsLimit, AckedLimit, Busy
<1>4. \A e : WasHanded(c, e)' <=> WasHanded(c, e)
  BY <1>1 DEF WasHanded
<1>5. WasHanded(c, pos[c])' \/ log'[Source[c]][pos'[c]] = Undecodable
  BY <1>1, <1>4 DEF ConsumerInv
<1>6. \A e \in 1..pos[c] - 1 : e \in 1..pos[c]
  BY <1>2
<1>7. QED
  BY <1>1, <1>2, <1>3, <1>4, <1>5, <1>6 DEF ConsumerInv, Busy

\* The handler takes effect, then goes on to the acknowledgement or dies.
LEMMA EffectKeeps ==
  ASSUME TypeOK, NEW c \in Consumers, ConsumerInv(c), Grows,
         pc[c] = "handling", pc'[c] \in {"acking", "dead"},
         effects'[c] = Append(effects[c], pos[c]),
         pos'[c] = pos[c], handed'[c] = handed[c], group'[c] = group[c],
         cursor'[c] = cursor[c], pel'[c] = pel[c], acked'[c] = acked[c]
  PROVE  ConsumerInv(c)'
<1> DEFINE s == Source[c]
<1>1. /\ s \in Streams
      /\ Len(log'[s]) >= Len(log[s]) /\ Len(log'[s]) \in Nat
      /\ \A e \in 1..Len(log[s]) : log'[s][e] = log[s][e]
      /\ trimmed'[s] >= trimmed[s] /\ trimmed'[s] \in Nat
  BY TopologyAssumption DEF Grows
<1>2. /\ Len(log[s]) \in Nat /\ trimmed[s] \in Nat /\ cursor[c] \in Nat /\ pos[c] \in Nat
      /\ cursor[c] <= Len(log[s]) /\ pos[c] \in 1..cursor[c] /\ effects[c] \in Seq(Nat)
      /\ handed[c] \in Seq(Nat)
  BY <1>1 DEF TypeOK, ConsumerInv, Busy
<1>3. /\ HandedLimit(c) = pos[c] /\ HandedLimit(c)' \in {pos[c], cursor[c]}
      /\ EffectsLimit(c) = pos[c] - 1 /\ EffectsLimit(c)' \in {pos[c], cursor[c]}
      /\ AckedLimit(c) = pos[c] - 1 /\ AckedLimit(c)' \in {pos[c] - 1, cursor[c]}
  BY DEF HandedLimit, EffectsLimit, AckedLimit, Busy
<1>4. WasHanded(c, pos[c])' /\ \A e : WasHanded(c, e)' <=> WasHanded(c, e)
  BY DEF WasHanded, ConsumerInv
<1>5. StrictlyIncreasing(effects'[c])
  <2>1. \A i \in 1..Len(effects[c]) : effects[c][i] < pos[c]
    BY <1>2, <1>3 DEF ConsumerInv
  <2>2. QED
    BY <1>2, <2>1, AppendIncreasing DEF ConsumerInv
<1>6. ASSUME NEW i \in 1..Len(effects'[c])
      PROVE  effects'[c][i] \in 1..EffectsLimit(c)' /\ WasHanded(c, effects[c][i])'
  <2>1. CASE i = Len(effects[c]) + 1
    BY <1>2, <1>3, <1>4, <2>1
  <2>2. CASE i \in 1..Len(effects[c])
    <3>1. effects'[c][i] = effects[c][i]
      BY <1>2, <2>2
    <3>2. effects[c][i] \in 1..pos[c] - 1 /\ WasHanded(c, effects[c][i])
      BY <1>3, <2>2 DEF ConsumerInv
    <3>3. effects'[c][i] \in 1..EffectsLimit(c)'
      BY <1>2, <1>3, <3>1, <3>2
    <3>4. QED
      BY <1>4, <3>1, <3>2, <3>3
  <2>3. QED
    BY <1>2, <2>1, <2>2
<1>7. \A i \in 1..Len(handed'[c]) : handed'[c][i] \in 1..HandedLimit(c)'
  BY <1>2, <1>3 DEF ConsumerInv
<1>8. \A e \in acked'[c] :
        e \in 1..AckedLimit(c)' /\ (WasHanded(c, e)' \/ log'[s][e] = Undecodable)
  <2>1. \A e \in 1..pos[c] - 1 : e \in 1..Len(log[s]) /\ e \in 1..AckedLimit(c)'
    BY <1>2, <1>3
  <2>2. QED
    BY <1>1, <1>3, <1>4, <2>1 DEF ConsumerInv
<1>9. \A e \in 1..cursor'[c] : e \in acked'[c] \/ e \in pel'[c] \/ e <= trimmed'[s]
  BY <1>1, <1>2 DEF ConsumerInv
<1>10. /\ cursor'[c] <= Len(log'[s]) /\ group'[c]
       /\ StrictlyIncreasing(handed'[c])
  BY <1>1, <1>2 DEF ConsumerInv, Busy
<1>11. QED
  BY <1>2, <1>4, <1>5, <1>6, <1>7, <1>8, <1>9, <1>10 DEF ConsumerInv, Busy

\* The acknowledgement reaches the server; the consumer goes on, or dies.
LEMMA AckKeeps ==
  ASSUME TypeOK, NEW c \in Consumers, ConsumerInv(c),
         pc[c] = "acking", Acknowledge(c),
         \/ pc'[c] = "dispatch" /\ pos[c] < cursor[c] /\ pos'[c] = pos[c] + 1
         \/ pc'[c] = "reading" /\ pos[c] >= cursor[c]
         \/ pc'[c] = "dead",
         log' = log, trimmed' = trimmed, handed' = handed, effects' = effects,
         group' = group, cursor' = cursor
  PROVE  ConsumerInv(c)'
<1> DEFINE s == Source[c]
<1>1. /\ acked'[c] = acked[c] \cup {pos[c]}
      /\ pel'[c] = pel[c] \ {pos[c]}
  BY DEF Acknowledge, TypeOK
<1>2. /\ pos[c] \in Nat /\ cursor[c] \in Nat /\ pos[c] \in 1..cursor[c] /\ group[c]
  BY DEF TypeOK, ConsumerInv, Busy
<1>3. /\ HandedLimit(c) = pos[c] /\ HandedLimit(c)' \in Nat /\ HandedLimit(c)' >= pos[c]
      /\ EffectsLimit(c) = pos[c] /\ EffectsLimit(c)' \in Nat /\ EffectsLimit(c)' >= pos[c]
      /\ AckedLimit(c) = pos[c] - 1 /\ AckedLimit(c)' \in Nat /\ AckedLimit(c)' >= pos[c]
  BY <1>2 DEF HandedLimit, EffectsLimit, AckedLimit, Busy
<1>4. \A e : WasHanded(c, e)' <=> WasHanded(c, e)
  BY DEF WasHanded
<1>5. /\ pc'[c] \in Busy => pos'[c] \in 1..cursor'[c]
      /\ pc'[c] # "handling" /\ pc'[c] # "acking"
  BY <1>2 DEF Busy
<1>6. \A e \in acked'[c] :
        e \in 1..AckedLimit(c)' /\ (WasHanded(c, e)' \/ log'[s][e] = Undecodable)
  <2>1. WasHanded(c, pos[c]) \/ log[s][pos[c]] = Undecodable
    BY DEF ConsumerInv
  <2>2. pos[c] \in 1..AckedLimit(c)'
    BY <1>2, <1>3
  <2>3. \A e \in 1..pos[c] - 1 : e \in 1..AckedLimit(c)'
    BY <1>2, <1>3
  <2>4. QED
    BY <1>1, <1>3, <1>4, <2>1, <2>2, <2>3 DEF ConsumerInv
<1>7. \A e \in 1..cursor'[c] : e \in acked'[c] \/ e \in pel'[c] \/ e <= trimmed'[s]
  BY <1>1, <1>2 DEF ConsumerInv
<1>8. \A e \in 1..pos[c] : e \in 1..HandedLimit(c)' /\ e \in 1..EffectsLimit(c)'
  BY <1>2, <1>3
<1>9. QED
  BY <1>2, <1>3, <1>4, <1>5, <1>6, <1>7, <1>8 DEF ConsumerInv

\* No step of the system breaks the invariant of any consumer.
LEMMA NextKeeps ==
  ASSUME IInv, Next, NEW d \in Consumers
  PROVE  ConsumerInv(d)'
<1> USE DEF IInv
<1>1. TypeOK /\ ConsumerInv(d) /\ Grows
  BY NextGrows
<1>2. ASSUME NEW s \in Streams, NEW entry, Produce(s, entry)
      PROVE  ConsumerInv(d)'
  BY <1>1, <1>2, Frame DEF Produce
<1>3. ASSUME NEW c \in Consumers, c # d, Step(c) \/ Failure(c)
      PROVE  ConsumerInv(d)'
  <2>1. /\ pc'[d] = pc[d] /\ pos'[d] = pos[d] /\ handed'[d] = handed[d]
        /\ effects'[d] = effects[d] /\ cursor'[d] = cursor[d] /\ group'[d] = group[d]
        /\ acked'[d] = acked[d] /\ pel'[d] = pel[d]
    <3>1. CASE Step(c)
      BY <1>3, <3>1 DEF Step, Start, EnsureGroup, CreateGroup, ReadBatch, Deliver, Yield,
        SkipUndecodable, HandlerDrops, HandlerSucceeds, TakeEffect, Ack, Acknowledge, redis, TypeOK
    <3>2. CASE EnsureGroupFails(c)
      BY <1>3, <3>2 DEF EnsureGroupFails, CreateGroup, TypeOK
    <3>3. CASE ReadReplyLost(c)
      BY <1>3, <3>3 DEF ReadReplyLost, Deliver, TypeOK
    <3>4. CASE PublishFails(c)
      BY <1>3, <3>4 DEF PublishFails, TakeEffect, TypeOK
    <3>5. CASE AckFails(c)
      BY <1>3, <3>5 DEF AckFails, Acknowledge, TypeOK
    <3>6. CASE Crash(c)
      BY <1>3, <3>6 DEF Crash, Deliver, redis, TypeOK
    <3>7. QED
      BY <1>3, <3>1, <3>2, <3>3, <3>4, <3>5, <3>6 DEF Failure
  <2>2. QED
    BY <1>1, <2>1, Frame
<1>4. CASE Start(d) \/ EnsureGroup(d)
  BY <1>1, <1>4, StartKeeps
<1>5. CASE ReadBatch(d)
  <2>1. pc[d] = "reading" /\ Deliver(d)
    BY <1>5 DEF ReadBatch
  <2>2. pc'[d] = "dispatch" /\ pos'[d] = FirstNew(d) /\ handed'[d] = handed[d] /\ effects'[d] = effects[d]
    BY <1>5, <1>1 DEF ReadBatch, TypeOK
  <2>3. QED
    BY <1>1, <2>1, <2>2, DeliverKeeps
<1>6. CASE ReadReplyLost(d)
  BY <1>1, <1>6, DeliverKeeps DEF ReadReplyLost
<1>7. CASE Yield(d)
  BY <1>1, <1>7, YieldKeeps
<1>8. CASE SkipUndecodable(d) \/ HandlerDrops(d)
  BY <1>1, <1>8, DropKeeps
<1>9. CASE HandlerSucceeds(d)
  <2>1. /\ pc[d] = "handling" /\ pc'[d] = "acking"
        /\ effects'[d] = Append(effects[d], pos[d])
        /\ pos'[d] = pos[d] /\ handed'[d] = handed[d] /\ group'[d] = group[d]
        /\ cursor'[d] = cursor[d] /\ pel'[d] = pel[d] /\ acked'[d] = acked[d]
    BY <1>1, <1>9 DEF HandlerSucceeds, TakeEffect, TypeOK
  <2>2. QED
    BY <1>1, <2>1, EffectKeeps
<1>10. CASE PublishFails(d)
  <2>1. /\ pc[d] = "handling" /\ pc'[d] = "dead"
        /\ pos'[d] = pos[d] /\ handed'[d] = handed[d] /\ group'[d] = group[d]
        /\ cursor'[d] = cursor[d] /\ pel'[d] = pel[d] /\ acked'[d] = acked[d]
    BY <1>1, <1>10 DEF PublishFails, TypeOK
  <2>2. CASE TakeEffect(d)
    <3>1. effects'[d] = Append(effects[d], pos[d])
      BY <1>1, <2>2 DEF TakeEffect, TypeOK
    <3>2. QED
      BY <1>1, <2>1, <3>1, EffectKeeps
  <2>3. CASE UNCHANGED <<effects, log, trimmed>>
    BY <1>1, <2>1, <2>3, ForgetKeeps
  <2>4. QED
    BY <1>10, <2>2, <2>3 DEF PublishFails
<1>11. CASE Ack(d)
  <2>1. /\ pc[d] = "acking" /\ Acknowledge(d)
        /\ \/ pc'[d] = "dispatch" /\ pos[d] < cursor[d] /\ pos'[d] = pos[d] + 1
           \/ pc'[d] = "reading" /\ pos[d] >= cursor[d]
        /\ log' = log /\ trimmed' = trimmed /\ handed' = handed /\ effects' = effects
        /\ group' = group /\ cursor' = cursor
    BY <1>1, <1>11 DEF Ack, TypeOK
  <2>2. QED
    BY <1>1, <2>1, AckKeeps
<1>12. CASE AckFails(d)
  <2>1. /\ pc[d] = "acking" /\ pc'[d] = "dead"
        /\ log' = log /\ trimmed' = trimmed /\ handed' = handed /\ effects' = effects
        /\ group' = group /\ cursor' = cursor
    BY <1>1, <1>12 DEF AckFails, TypeOK
  <2>2. CASE Acknowledge(d)
    BY <1>1, <2>1, <2>2, AckKeeps
  <2>3. CASE UNCHANGED <<acked, pel>>
    BY <1>1, <2>1, <2>3, ForgetKeeps
  <2>4. QED
    BY <1>12, <2>2, <2>3 DEF AckFails
<1>13. CASE EnsureGroupFails(d)
  <2>1. /\ pc'[d] = "dead" /\ log' = log /\ trimmed' = trimmed
        /\ pel' = pel /\ acked' = acked /\ handed' = handed /\ effects' = effects
    BY <1>1, <1>13 DEF EnsureGroupFails, TypeOK
  <2>2. cursor'[d] = cursor[d] /\ (~group'[d] => ~group[d])
    <3>1. CASE CreateGroup(d)
      BY <1>1, <3>1 DEF CreateGroup, GroupCursor, TypeOK, ConsumerInv
    <3>2. CASE UNCHANGED <<group, cursor>>
      BY <3>2
    <3>3. QED
      BY <1>13, <3>1, <3>2 DEF EnsureGroupFails
  <2>3. QED
    BY <1>1, <2>1, <2>2, ForgetKeeps
<1>14. CASE Crash(d)
  <2>1. pc'[d] = "down" /\ handed' = handed /\ effects' = effects
    BY <1>1, <1>14 DEF Crash, TypeOK
  <2>2. CASE UNCHANGED redis
    BY <1>1, <2>1, <2>2, ForgetKeeps DEF redis
  <2>3. CASE pc[d] = "reading" /\ Deliver(d)
    BY <1>1, <2>1, <2>3, DeliverKeeps
  <2>4. QED
    BY <1>14, <2>2, <2>3 DEF Crash
<1>15. QED
  BY <1>2, <1>3, <1>4, <1>5, <1>6, <1>7, <1>8, <1>9, <1>10, <1>11, <1>12, <1>13, <1>14
     DEF Next, Step, Failure

\* IInv is an invariant of the consumers.
THEOREM InvariantHolds == Spec => []IInv
<1>1. Init => IInv
  <2>1. Init => TypeOK
    BY BoundsAssumption DEF Init, TypeOK, Control
  <2>2. ASSUME Init, NEW c \in Consumers
        PROVE  ConsumerInv(c)
    <3>1. /\ cursor[c] = 0 /\ pc[c] = "down" /\ handed[c] = <<>> /\ effects[c] = <<>>
          /\ acked[c] = {} /\ ~group[c] /\ Len(log[Source[c]]) = 0
      BY <2>2, TopologyAssumption DEF Init
    <3>2. QED
      BY <3>1 DEF ConsumerInv, Busy, StrictlyIncreasing
  <2>3. QED
    BY <2>1, <2>2 DEF IInv
<1>2. IInv /\ [Next]_vars => \A c \in Consumers : ConsumerInv(c)'
  <2> SUFFICES ASSUME IInv, [Next]_vars, NEW c \in Consumers
               PROVE  ConsumerInv(c)'
    OBVIOUS
  <2>1. CASE Next
    BY <2>1, NextKeeps
  <2>2. CASE UNCHANGED vars
    <3>1. Grows /\ TypeOK /\ ConsumerInv(c)
      BY <2>2 DEF IInv, Grows, TypeOK, vars
    <3>2. QED
      BY <2>2, <3>1, Frame DEF vars
  <2>3. QED
    BY <2>1, <2>2
<1>3. TypeOK' /\ (\A c \in Consumers : ConsumerInv(c)') => IInv'
  BY DEF IInv
<1>4. QED
  BY <1>1, <1>2, <1>3, TypeCorrect, PTL DEF Spec

-----------------------------------------------------------------------------
(* What follows from the invariant *)

\* For every number of consumers, batch size and faults: each entry is yielded at most
\* once, in stream order.
THEOREM HandOffAtMostOnce == Spec => []AtMostOnceInOrder
<1>1. IInv => AtMostOnceInOrder
  BY DEF IInv, ConsumerInv, AtMostOnceInOrder
<1>2. QED
  BY <1>1, InvariantHolds, PTL

\* Each entry's effect comes at most once, in stream order, and only after its hand-off.
THEOREM EffectAtMostOnce == Spec => []EffectsAtMostOnce
<1>1. IInv => EffectsAtMostOnce
  BY DEF IInv, ConsumerInv, EffectsAtMostOnce
<1>2. QED
  BY <1>1, InvariantHolds, PTL

\* An acknowledged entry is no longer being worked on, and was handed over unless it had
\* no usable data.
THEOREM AckAfterHandling == Spec => []AckedOnlyAfterHandling
<1>1. IInv => AckedOnlyAfterHandling
  <2> SUFFICES ASSUME IInv, NEW c \in Consumers, NEW e \in acked[c]
               PROVE  e \notin InFlight(c) /\ (WasHanded(c, e) \/ log[Source[c]][e] = Undecodable)
    BY DEF AckedOnlyAfterHandling
  <2>1. ConsumerInv(c) /\ pos[c] \in Nat /\ cursor[c] \in Nat
    BY DEF IInv, TypeOK
  <2>2. e \in 1..AckedLimit(c) /\ (WasHanded(c, e) \/ log[Source[c]][e] = Undecodable)
    BY <2>1 DEF ConsumerInv
  <2>3. e \notin InFlight(c)
    BY <2>1, <2>2 DEF AckedLimit, InFlight
  <2>4. QED
    BY <2>2, <2>3
<1>2. QED
  BY <1>1, InvariantHolds, PTL

\* No entry the group's cursor has passed is lost without a trace.
THEOREM NoEntryVanishes == Spec => []NothingVanishes
<1>1. IInv => NothingVanishes
  BY DEF IInv, ConsumerInv, NothingVanishes
<1>2. QED
  BY <1>1, InvariantHolds, PTL

-----------------------------------------------------------------------------
(* What faults leave in the pending list *)

\* The entries nobody is working on and nothing reads again.
Stranded(c) == pel[c] \ InFlight(c)

\* StrandedBounded is not inductive: a fault strands what was in flight, so the batch
\* in flight has to be known to be no longer than a batch.
StrandedInv(c) ==
  /\ IsFiniteSet(Stranded(c))
  /\ Cardinality(Stranded(c)) <= BatchSize * faults[c]
  /\ pc[c] \in Busy => cursor[c] < pos[c] + BatchSize

\* A range no longer than a batch.
LEMMA OneBatch ==
  ASSUME NEW a \in Nat, NEW b \in Nat, b < a + BatchSize
  PROVE  /\ IsFiniteSet(a..b)
         /\ Cardinality(a..b) \in Nat
         /\ Cardinality(a..b) <= BatchSize
<1>1. IsFiniteSet(a..b) /\ Cardinality(a..b) = IF a > b THEN 0 ELSE b - a + 1
  BY FS_Interval
<1> QED
  BY <1>1, BoundsAssumption

\* A fault pays for one batch.
LEMMA OneMore ==
  ASSUME NEW f \in Nat
  PROVE  /\ BatchSize * f \in Nat
         /\ BatchSize * (f + 1) = BatchSize * f + BatchSize
BY BoundsAssumption

\* What a reply covers is no longer than a batch.
LEMMA NewIsOneBatch ==
  ASSUME TypeOK, NEW c \in Consumers, FirstNew(c) <= LastNew(c)
  PROVE  LastNew(c) < FirstNew(c) + BatchSize
<1>1. FirstNew(c) \in Nat /\ LastNew(c) \in Nat /\ BatchSize \in Nat
  BY NewRange, BoundsAssumption
<1>2. Len(log[Source[c]]) \in Nat
  BY TopologyAssumption DEF TypeOK
<1> QED
  BY <1>1, <1>2 DEF LastNew

\* A step without a fault that strands nothing.
LEMMA StrandedLess ==
  ASSUME IInv, NEW c \in Consumers, StrandedInv(c),
         Stranded(c)' \subseteq Stranded(c), faults'[c] = faults[c],
         pc'[c] \in Busy => cursor'[c] < pos'[c] + BatchSize
  PROVE  StrandedInv(c)'
<1>1. /\ IsFiniteSet(Stranded(c)') /\ Cardinality(Stranded(c)') <= Cardinality(Stranded(c))
      /\ Cardinality(Stranded(c)) \in Nat /\ Cardinality(Stranded(c)') \in Nat
  BY FS_Subset, FS_CardinalityType DEF StrandedInv
<1>2. BatchSize * faults[c] \in Nat
  BY OneMore, BoundsAssumption DEF IInv, TypeOK
<1>3. Cardinality(Stranded(c)') <= BatchSize * faults'[c]
  BY <1>1, <1>2 DEF StrandedInv
<1> QED
  BY <1>1, <1>3 DEF StrandedInv

\* A fault, which strands at most one batch and ends the work on it.
LEMMA StrandedMore ==
  ASSUME IInv, NEW c \in Consumers, StrandedInv(c),
         NEW a \in Nat, NEW b \in Nat, b < a + BatchSize,
         Stranded(c)' \subseteq Stranded(c) \cup (a..b), faults'[c] = faults[c] + 1,
         pc'[c] \notin Busy
  PROVE  StrandedInv(c)'
<1> DEFINE both == Stranded(c) \cup (a..b)
<1>1. /\ IsFiniteSet(Stranded(c)) /\ Cardinality(Stranded(c)) \in Nat
      /\ Cardinality(Stranded(c)) <= BatchSize * faults[c]
  BY FS_CardinalityType DEF StrandedInv
<1>2. /\ IsFiniteSet(both) /\ Cardinality(both) \in Nat
      /\ Cardinality(both) <= Cardinality(Stranded(c)) + BatchSize
  <2>1. /\ IsFiniteSet(a..b) /\ Cardinality(a..b) \in Nat /\ Cardinality(a..b) <= BatchSize
    BY OneBatch
  <2>2. /\ IsFiniteSet(both)
        /\ Cardinality(both) = Cardinality(Stranded(c)) + Cardinality(a..b)
                               - Cardinality(Stranded(c) \cap (a..b))
    BY <1>1, <2>1, FS_Union
  <2>3. Cardinality(Stranded(c) \cap (a..b)) \in Nat
    BY <1>1, <2>1, FS_Intersection, FS_CardinalityType
  <2>4. Cardinality(both) \in Nat
    BY <2>2, FS_CardinalityType
  <2> QED
    BY <1>1, <2>1, <2>2, <2>3, <2>4, BoundsAssumption
<1>3. /\ IsFiniteSet(Stranded(c)') /\ Cardinality(Stranded(c)') \in Nat
      /\ Cardinality(Stranded(c)') <= Cardinality(both)
  BY <1>2, FS_Subset, FS_CardinalityType
<1>4. /\ BatchSize * faults[c] \in Nat /\ BatchSize \in Nat
      /\ BatchSize * faults'[c] = BatchSize * faults[c] + BatchSize
  <2>1. faults[c] \in Nat /\ BatchSize \in Nat
    BY BoundsAssumption DEF IInv, TypeOK
  <2>2. BatchSize * faults'[c] = BatchSize * (faults[c] + 1)
    OBVIOUS
  <2> QED
    BY <2>1, <2>2, OneMore
<1>5. Cardinality(Stranded(c)') <= BatchSize * faults'[c]
  BY <1>1, <1>2, <1>3, <1>4
<1> QED
  BY <1>3, <1>5 DEF StrandedInv

\* What a consumer holds when a fault comes: nothing, or the rest of its batch.
LEMMA HeldIsOneBatch ==
  ASSUME IInv, NEW c \in Consumers, StrandedInv(c)
  PROVE  \E a, b \in Nat : b < a + BatchSize /\ InFlight(c) \subseteq a..b
<1>1. pos[c] \in Nat /\ cursor[c] \in Nat /\ BatchSize \in Nat \ {0}
  BY BoundsAssumption DEF IInv, TypeOK
<1>2. CASE pc[c] \in Busy
  BY <1>1, <1>2 DEF StrandedInv, InFlight
<1>3. CASE pc[c] \notin Busy
  <2>1. InFlight(c) = {} /\ 0 < 0 + BatchSize
    BY <1>1, <1>3 DEF InFlight
  <2> QED
    BY <2>1
<1> QED
  BY <1>2, <1>3

\* A fault that delivers nothing and stops the consumer.
LEMMA FaultStrandsBatch ==
  ASSUME IInv, NEW c \in Consumers, StrandedInv(c),
         pel'[c] \subseteq pel[c], faults'[c] = faults[c] + 1, pc'[c] \notin Busy
  PROVE  StrandedInv(c)'
<1>1. PICK a \in Nat, b \in Nat : b < a + BatchSize /\ InFlight(c) \subseteq a..b
  BY HeldIsOneBatch
<1>2. Stranded(c)' \subseteq Stranded(c) \cup (a..b)
  BY <1>1 DEF Stranded
<1> QED
  BY <1>1, <1>2, StrandedMore

\* A fault that delivers a batch nobody gets.
LEMMA LostReplyStrandsBatch ==
  ASSUME IInv, NEW c \in Consumers, StrandedInv(c), Deliver(c), pc[c] \notin Busy,
         faults'[c] = faults[c] + 1, pc'[c] \notin Busy
  PROVE  StrandedInv(c)'
<1>1. /\ FirstNew(c) \in Nat /\ LastNew(c) \in Nat
      /\ LastNew(c) < FirstNew(c) + BatchSize
  BY NewRange, NewIsOneBatch DEF Deliver, IInv
<1>2. pel'[c] = pel[c] \cup (FirstNew(c)..LastNew(c))
  BY DEF Deliver, IInv, TypeOK
<1>3. Stranded(c)' \subseteq Stranded(c) \cup (FirstNew(c)..LastNew(c))
  BY <1>2 DEF Stranded, InFlight
<1> QED
  BY <1>1, <1>3, StrandedMore

\* A consumer's fault is its own.
LEMMA FaultAlone ==
  ASSUME TypeOK, NEW c \in Consumers, NEW kind, Fault(c, kind), NEW d \in Consumers
  PROVE  faults'[d] = IF d = c THEN faults[d] + 1 ELSE faults[d]
BY DEF Fault, TypeOK

\* No step of the system strands more than its faults pay for.
LEMMA StrandedKept ==
  ASSUME IInv, Next, NEW d \in Consumers, StrandedInv(d)
  PROVE  StrandedInv(d)'
<1>1. TypeOK /\ ConsumerInv(d)
  BY DEF IInv
<1>2. ASSUME UNCHANGED <<pel, pc, pos, cursor, faults>>
      PROVE  StrandedInv(d)'
  BY <1>2 DEF StrandedInv, Stranded, InFlight
<1>3. ASSUME NEW c \in Consumers, c # d, Step(c) \/ Failure(c)
      PROVE  StrandedInv(d)'
  <2>1. pc'[d] = pc[d] /\ pos'[d] = pos[d] /\ cursor'[d] = cursor[d] /\ pel'[d] = pel[d]
    <3>1. CASE Step(c)
      BY <1>1, <1>3, <3>1 DEF Step, Start, EnsureGroup, CreateGroup, ReadBatch, Deliver, Yield,
        SkipUndecodable, HandlerDrops, HandlerSucceeds, Ack, Acknowledge, redis, TypeOK
    <3>2. CASE Failure(c)
      BY <1>1, <1>3, <3>2 DEF Failure, EnsureGroupFails, CreateGroup, ReadReplyLost, Deliver,
        PublishFails, AckFails, Acknowledge, Crash, redis, TypeOK
    <3> QED
      BY <1>3, <3>1, <3>2
  <2>2. faults'[d] = faults[d]
    <3>1. CASE Step(c)
      BY <3>1 DEF Step, Start, EnsureGroup, ReadBatch, Yield, SkipUndecodable, HandlerDrops,
        HandlerSucceeds, Ack
    <3>2. CASE Failure(c)
      BY <1>1, <1>3, <3>2, FaultAlone
         DEF Failure, EnsureGroupFails, ReadReplyLost, PublishFails, AckFails, Crash
    <3> QED
      BY <1>3, <3>1, <3>2
  <2> QED
    BY <2>1, <2>2 DEF StrandedInv, Stranded, InFlight
<1>4. CASE Start(d) \/ EnsureGroup(d)
  <2>1. pel'[d] = pel[d] /\ pc[d] \notin Busy /\ pc'[d] \notin Busy /\ faults'[d] = faults[d]
    BY <1>1, <1>4 DEF Start, EnsureGroup, TypeOK, redis, Busy
  <2>2. Stranded(d)' \subseteq Stranded(d)
    BY <2>1 DEF Stranded, InFlight
  <2> QED
    BY <2>1, <2>2, StrandedLess
<1>5. CASE ReadBatch(d)
  <2>1. /\ pel'[d] = pel[d] \cup (FirstNew(d)..LastNew(d)) /\ pc[d] \notin Busy
        /\ pc'[d] = "dispatch" /\ pos'[d] = FirstNew(d) /\ cursor'[d] = LastNew(d)
        /\ FirstNew(d) <= LastNew(d) /\ faults'[d] = faults[d]
    BY <1>1, <1>5 DEF ReadBatch, Deliver, TypeOK, Busy
  <2>2. Stranded(d)' \subseteq Stranded(d)
    BY <2>1 DEF Stranded, InFlight, Busy
  <2>3. cursor'[d] < pos'[d] + BatchSize
    BY <1>1, <2>1, NewIsOneBatch
  <2> QED
    BY <2>1, <2>2, <2>3, StrandedLess
<1>6. CASE Yield(d) \/ SkipUndecodable(d) \/ HandlerDrops(d) \/ HandlerSucceeds(d)
  <2>1. /\ pel'[d] = pel[d] /\ pc[d] \in Busy /\ pc'[d] \in Busy /\ pos'[d] = pos[d]
        /\ cursor'[d] = cursor[d] /\ faults'[d] = faults[d]
    BY <1>1, <1>6 DEF Yield, SkipUndecodable, HandlerDrops, HandlerSucceeds, redis, TypeOK, Busy
  <2> QED
    BY <2>1 DEF StrandedInv, Stranded, InFlight
<1>7. CASE Ack(d)
  <2>1. /\ pc[d] = "acking" /\ pel'[d] = pel[d] \ {pos[d]} /\ pos'[d] = pos[d] + 1
        /\ cursor'[d] = cursor[d] /\ faults'[d] = faults[d]
        /\ \/ pc'[d] = "dispatch" /\ pos[d] < cursor[d]
           \/ pc'[d] = "reading" /\ pos[d] >= cursor[d]
    BY <1>1, <1>7 DEF Ack, Acknowledge, TypeOK
  <2>2. /\ pos[d] \in 1..cursor[d] /\ cursor[d] \in Nat /\ pos[d] \in Nat
        /\ BatchSize \in Nat /\ cursor[d] < pos[d] + BatchSize
    BY <1>1, <2>1, BoundsAssumption DEF ConsumerInv, StrandedInv, TypeOK, Busy
  <2>3. Stranded(d)' \subseteq Stranded(d)
    BY <2>1, <2>2 DEF Stranded, InFlight, Busy
  <2>4. cursor'[d] < pos'[d] + BatchSize
    BY <2>1, <2>2
  <2> QED
    BY <2>1, <2>3, <2>4, StrandedLess
<1>8. CASE EnsureGroupFails(d) \/ PublishFails(d) \/ AckFails(d)
  <2>1. pel'[d] \subseteq pel[d] /\ pc'[d] \notin Busy
    BY <1>1, <1>8 DEF EnsureGroupFails, PublishFails, AckFails, Acknowledge, TypeOK, Busy
  <2>2. faults'[d] = faults[d] + 1
    BY <1>1, <1>8, FaultAlone DEF EnsureGroupFails, PublishFails, AckFails
  <2> QED
    BY <2>1, <2>2, FaultStrandsBatch
<1>9. CASE ReadReplyLost(d)
  <2>1. Deliver(d) /\ pc[d] \notin Busy /\ pc'[d] \notin Busy
    BY <1>9 DEF ReadReplyLost, Busy
  <2>2. faults'[d] = faults[d] + 1
    BY <1>1, <1>9, FaultAlone DEF ReadReplyLost
  <2> QED
    BY <2>1, <2>2, LostReplyStrandsBatch
<1>10. CASE Crash(d)
  <2>1. pc'[d] \notin Busy
    BY <1>1, <1>10 DEF Crash, TypeOK, Busy
  <2>2. faults'[d] = faults[d] + 1
    BY <1>1, <1>10, FaultAlone DEF Crash
  <2>3. CASE UNCHANGED redis
    BY <2>1, <2>2, <2>3, FaultStrandsBatch DEF redis
  <2>4. CASE pc[d] = "reading" /\ Deliver(d)
    BY <2>1, <2>2, <2>4, LostReplyStrandsBatch DEF Busy
  <2> QED
    BY <1>10, <2>3, <2>4 DEF Crash
<1>11. ASSUME NEW s \in Streams, NEW entry, Produce(s, entry)
      PROVE  StrandedInv(d)'
  BY <1>2, <1>11 DEF Produce
<1> QED
  BY <1>3, <1>4, <1>5, <1>6, <1>7, <1>8, <1>9, <1>10, <1>11 DEF Next, Step, Failure

\* What a crash, a lost reply or a failing call leaves pending for good is at most one
\* batch for each, whatever the batch size and the number of faults.
THEOREM StrandedAtMostBatches == Spec => []StrandedBounded
<1> DEFINE SInv == \A c \in Consumers : StrandedInv(c)
<1>1. Init => SInv
  <2> SUFFICES ASSUME Init, NEW c \in Consumers PROVE StrandedInv(c)
    OBVIOUS
  <2>1. Stranded(c) = {} /\ faults[c] = 0 /\ pc[c] \notin Busy
    BY DEF Init, Stranded, Busy
  <2>2. BatchSize * faults[c] = 0
    BY <2>1, BoundsAssumption
  <2> QED
    BY <2>1, <2>2, FS_EmptySet DEF StrandedInv
<1>2. IInv /\ SInv /\ [Next]_vars => SInv'
  <2> SUFFICES ASSUME IInv, SInv, [Next]_vars, NEW c \in Consumers
               PROVE  StrandedInv(c)'
    OBVIOUS
  <2>1. CASE Next
    BY <2>1, StrandedKept
  <2>2. CASE UNCHANGED vars
    BY <2>2 DEF vars, StrandedInv, Stranded, InFlight
  <2> QED
    BY <2>1, <2>2
<1>3. SInv => StrandedBounded
  BY DEF StrandedInv, Stranded, StrandedBounded
<1> HIDE DEF SInv
<1> QED
  BY <1>1, <1>2, <1>3, InvariantHolds, PTL DEF Spec

-----------------------------------------------------------------------------
(* Refinement: a consumer and its stream are a lossy FIFO channel *)

\* What a step does to the length of a stream and to what a consumer was handed.
LEMMA StepShape ==
  ASSUME TypeOK, Next, NEW c \in Consumers
  PROVE  \/ /\ Len(log'[Source[c]]) \in {Len(log[Source[c]]), Len(log[Source[c]]) + 1}
            /\ handed'[c] = handed[c]
         \/ /\ Yield(c)
            /\ log' = log
<1> DEFINE s == Source[c]
           Grown == Len(log'[s]) \in {Len(log[s]), Len(log[s]) + 1}
<1>1. s \in Streams /\ log \in [Streams -> Seq(Nat)] /\ log[s] \in Seq(Nat)
  BY TopologyAssumption DEF TypeOK
<1>2. ASSUME NEW t \in Streams, NEW entry, XAdd(t, entry)
      PROVE  Grown
  BY <1>1, <1>2 DEF XAdd
<1>3. ASSUME NEW t \in Streams, NEW entry, Produce(t, entry)
      PROVE  Grown /\ handed'[c] = handed[c]
  BY <1>2, <1>3 DEF Produce
<1>4. ASSUME NEW d \in Consumers, TakeEffect(d)
      PROVE  Grown
  <2>1. CASE Target[d] \in Streams
    BY <1>2, <1>4, <2>1 DEF TakeEffect
  <2>2. CASE Target[d] \notin Streams
    BY <1>4, <2>2 DEF TakeEffect
  <2>3. QED
    BY <2>1, <2>2
<1>5. ASSUME NEW d \in Consumers, Step(d), ~Yield(d)
      PROVE  Grown /\ handed'[c] = handed[c]
  <2>1. handed'[c] = handed[c]
    BY <1>5 DEF Step, Start, EnsureGroup, ReadBatch, SkipUndecodable, HandlerDrops,
      HandlerSucceeds, Ack
  <2>2. TakeEffect(d) \/ log' = log
    BY <1>5 DEF Step, Start, EnsureGroup, ReadBatch, Deliver, SkipUndecodable, HandlerDrops,
      HandlerSucceeds, Ack, redis
  <2>3. QED
    BY <1>4, <2>1, <2>2
<1>6. ASSUME NEW d \in Consumers, Failure(d)
      PROVE  Grown /\ handed'[c] = handed[c]
  <2>1. handed'[c] = handed[c]
    BY <1>6 DEF Failure, EnsureGroupFails, ReadReplyLost, PublishFails, AckFails, Crash
  <2>2. TakeEffect(d) \/ log' = log
    BY <1>6 DEF Failure, EnsureGroupFails, ReadReplyLost, Deliver, PublishFails, AckFails,
      Crash, redis
  <2>3. QED
    BY <1>4, <2>1, <2>2
<1>7. ASSUME NEW d \in Consumers, Yield(d), d # c
      PROVE  Grown /\ handed'[c] = handed[c]
  BY <1>7 DEF Yield, redis, TypeOK
<1>8. ASSUME Yield(c)
      PROVE  log' = log
  BY <1>8 DEF Yield, redis
<1>9. QED
  BY <1>3, <1>5, <1>6, <1>7, <1>8 DEF Next

\* Handing an entry over is a Receive of the channel.
LEMMA YieldReceives ==
  ASSUME IInv, NEW c \in Consumers, Yield(c), log' = log
  PROVE  HandOff(c)!Receive
<1>1. /\ ConsumerInv(c) /\ pc[c] = "dispatch" /\ handed[c] \in Seq(Nat)
      /\ pos[c] \in Nat /\ cursor[c] \in Nat /\ Len(log[Source[c]]) \in Nat
  BY TopologyAssumption DEF IInv, TypeOK, Yield
<1>2. /\ pos[c] \in 1..cursor[c] /\ cursor[c] <= Len(log[Source[c]])
      /\ \A i \in 1..Len(handed[c]) : handed[c][i] \in 1..(pos[c] - 1)
  BY <1>1 DEF ConsumerInv, Busy, HandedLimit
<1>3. HandOff(c)!LastOut \in Nat /\ HandOff(c)!LastOut < pos[c]
  <2>1. CASE handed[c] = <<>>
    BY <1>1, <1>2, <2>1 DEF HandOff!LastOut
  <2>2. CASE handed[c] # <<>>
    <3>1. Len(handed[c]) \in 1..Len(handed[c])
      BY <1>1, <2>2
    <3>2. HandOff(c)!LastOut = handed[c][Len(handed[c])]
      BY <2>2 DEF HandOff!LastOut
    <3>3. QED
      BY <1>1, <1>2, <3>1, <3>2
  <2>3. QED
    BY <2>1, <2>2
<1>4. pos[c] \in (HandOff(c)!LastOut + 1)..Len(log[Source[c]])
  BY <1>1, <1>2, <1>3
<1>5. handed'[c] = Append(handed[c], pos[c])
  BY DEF Yield, IInv, TypeOK
<1>6. QED
  BY <1>4, <1>5 DEF HandOff!Receive

\* For every topology, batch size and number of faults, each consumer and its stream
\* implement the lossy FIFO channel.
THEOREM HandOffRefinesLossyFifo == ASSUME NEW c \in Consumers PROVE Spec => HandOff(c)!Spec
<1>1. Init => HandOff(c)!Init
  BY TopologyAssumption DEF Init, HandOff!Init
<1>2. IInv /\ [Next]_vars => [HandOff(c)!Next]_<<Len(log[Source[c]]), handed[c]>>
  <2> SUFFICES ASSUME IInv, [Next]_vars
               PROVE  [HandOff(c)!Next]_<<Len(log[Source[c]]), handed[c]>>
    OBVIOUS
  <2>1. CASE UNCHANGED vars
    BY <2>1 DEF vars
  <2>2. CASE Next
    <3>1. TypeOK
      BY DEF IInv
    <3>2. CASE /\ Len(log'[Source[c]]) \in {Len(log[Source[c]]), Len(log[Source[c]]) + 1}
               /\ handed'[c] = handed[c]
      BY <3>2 DEF HandOff!Next, HandOff!Send
    <3>3. CASE Yield(c) /\ log' = log
      BY <3>3, YieldReceives DEF HandOff!Next
    <3>4. QED
      BY <2>2, <3>1, <3>2, <3>3, StepShape
  <2>3. QED
    BY <2>1, <2>2
<1>3. QED
  BY <1>1, <1>2, InvariantHolds, PTL DEF Spec, HandOff!Spec
=============================================================================
