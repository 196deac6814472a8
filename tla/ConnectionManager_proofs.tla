---------------------- MODULE ConnectionManager_proofs ----------------------
(***************************************************************************)
(* Proofs about ConnectionManager, for any sockets, users and messages,    *)
(* among any browsers and publishers (ServerSpec).                         *)
(*                                                                         *)
(* ServerInv, the invariant that is inductive, has three parts:            *)
(* RegistryInv, types and who is in the registry; OwnInv, the messages in  *)
(* queues are those of their socket's channels too; DeliveryInv, what a    *)
(* socket that never shared its key has got and is still to get.           *)
(***************************************************************************)
EXTENDS ConnectionManager, TLAPS, SequenceTheorems

-----------------------------------------------------------------------------
(* Sequences *)

LEMMA ForwardedSame ==
  ASSUME NEW S, NEW a \in Seq(S), NEW b \in Seq(S), b # <<>>
  PROVE  Append(a, Head(b)) \o Tail(b) = a \o b
<1> DEFINE c == Append(a, Head(b))
<1>1. Head(b) \in S /\ Tail(b) \in Seq(S) /\ Len(Tail(b)) = Len(b) - 1
  BY HeadTailProperties
<1>2. c \in Seq(S) /\ Len(c) = Len(a) + 1 /\ Len(a) \in Nat /\ Len(b) \in Nat
  BY <1>1, AppendProperties, LenProperties
<1>3. \A i \in 1..(Len(a) + 1) : c[i] = IF i <= Len(a) THEN a[i] ELSE Head(b)
  <2>1. \A i \in 1..Len(a) : c[i] = a[i]
    BY <1>1, AppendProperties
  <2>2. c[Len(a) + 1] = Head(b)
    <3>1. Append(a, Head(b))[Len(a) + 1] = Head(b)
      BY <1>1, AppendProperties, LenProperties
    <3> QED
      BY <3>1
  <2> QED
    BY <1>2, <2>1, <2>2
<1>4. \A i \in 1..Len(Tail(b)) : Tail(b)[i] = b[i + 1]
  BY HeadTailProperties
<1>5. Head(b) = b[1]
  OBVIOUS
<1> HIDE DEF c
<1>6. c \o Tail(b) \in Seq(S) /\ Len(c \o Tail(b)) = Len(a) + Len(b)
  <2>1. c \in Seq(S) /\ Tail(b) \in Seq(S)
    BY <1>1, <1>2
  <2>2. c \o Tail(b) \in Seq(S) /\ Len(c \o Tail(b)) = Len(c) + Len(Tail(b))
    BY <2>1, ConcatProperties
  <2> QED
    BY <1>1, <1>2, <2>2
<1>7. a \o b \in Seq(S) /\ Len(a \o b) = Len(a) + Len(b)
  BY ConcatProperties
<1>8. ASSUME NEW i \in 1..(Len(a) + Len(b)) PROVE (c \o Tail(b))[i] = (a \o b)[i]
  <2>1. (a \o b)[i] = IF i <= Len(a) THEN a[i] ELSE b[i - Len(a)]
    BY ConcatProperties
  <2>2. (c \o Tail(b))[i] = IF i <= Len(a) + 1 THEN c[i] ELSE Tail(b)[i - Len(a) - 1]
    <3>1. /\ Len(c) + Len(Tail(b)) = Len(a) + Len(b)
          /\ i - Len(c) = i - Len(a) - 1
      BY <1>1, <1>2
    <3> QED
      BY <1>1, <1>2, <3>1, ConcatProperties
  <2>3. CASE i <= Len(a)
    BY <1>2, <1>3, <2>1, <2>2, <2>3
  <2>4. CASE i = Len(a) + 1
    BY <1>2, <1>3, <1>5, <2>1, <2>2, <2>4
  <2>5. CASE i > Len(a) + 1
    <3>1. i - Len(a) - 1 \in 1..Len(Tail(b)) /\ (i - Len(a) - 1) + 1 = i - Len(a)
      BY <1>1, <1>2, <2>5
    <3>2. Tail(b)[i - Len(a) - 1] = b[i - Len(a)]
      BY <1>4, <3>1
    <3> QED
      BY <1>2, <2>1, <2>2, <2>5, <3>2
  <2> QED
    BY <1>2, <2>3, <2>4, <2>5
<1>9. c \o Tail(b) = a \o b
  BY <1>6, <1>7, <1>8, SeqEqual
<1> QED
  BY <1>9 DEF c

LEMMA ToSetOfSeq ==
  ASSUME NEW S, NEW q \in Seq(S)
  PROVE  \A x : x \in ToSet(q) <=> \E i \in 1..Len(q) : x = q[i]
BY DEF ToSet

LEMMA ToSetAppend ==
  ASSUME NEW S, NEW a \in Seq(S), NEW x \in S
  PROVE  ToSet(Append(a, x)) = ToSet(a) \cup {x}
<1>1. /\ Append(a, x) \in Seq(S) /\ Len(Append(a, x)) = Len(a) + 1 /\ Len(a) \in Nat
      /\ \A i \in 1..Len(a) : Append(a, x)[i] = a[i]
      /\ Append(a, x)[Len(a) + 1] = x
  BY AppendProperties, LenProperties
<1>2. ASSUME NEW y \in ToSet(Append(a, x)) PROVE y \in ToSet(a) \cup {x}
  <2>1. PICK i \in 1..(Len(a) + 1) : y = Append(a, x)[i]
    <3> DEFINE c == Append(a, x)
    <3>1. c \in Seq(S) /\ Len(c) = Len(a) + 1 /\ y \in ToSet(c)
      BY <1>1, <1>2
    <3> HIDE DEF c
    <3>2. \E i \in 1..Len(c) : y = c[i]
      BY <3>1, ToSetOfSeq
    <3> QED
      BY <3>1, <3>2 DEF c
  <2>2. i \in 1..Len(a) \/ i = Len(a) + 1
    BY <1>1
  <2>3. CASE i \in 1..Len(a)
    <3>1. y = a[i]
      BY <1>1, <2>1, <2>3
    <3> QED
      BY <2>3, <3>1, ToSetOfSeq
  <2>4. CASE i = Len(a) + 1
    BY <1>1, <2>1, <2>4
  <2> QED
    BY <2>2, <2>3, <2>4
<1>3. ASSUME NEW y \in ToSet(a) PROVE y \in ToSet(Append(a, x))
  <2>1. PICK i \in 1..Len(a) : y = a[i]
    BY <1>3, ToSetOfSeq
  <2>2. i \in 1..(Len(a) + 1) /\ y = Append(a, x)[i]
    BY <1>1, <2>1
  <2> QED
    BY <1>1, <2>2, ToSetOfSeq
<1>4. x \in ToSet(Append(a, x))
  <2>1. Len(a) + 1 \in 1..(Len(a) + 1)
    BY <1>1
  <2> QED
    BY <1>1, <2>1, ToSetOfSeq
<1> QED
  BY <1>2, <1>3, <1>4

LEMMA NumberAppended ==
  ASSUME NEW a \in Seq(1..MaxPublished), NEW n \in 1..MaxPublished, NEW c, c = Append(a, n)
  PROVE  c \in Seq(1..MaxPublished) /\ ToSet(c) = ToSet(a) \cup {n}
<1> DEFINE N == 1..MaxPublished
<1>1. a \in Seq(N) /\ n \in N
  OBVIOUS
<1> HIDE DEF N
<1>2. ToSet(Append(a, n)) = ToSet(a) \cup {n}
  BY <1>1, ToSetAppend
<1>3. Append(a, n) \in Seq(N)
  BY <1>1, AppendProperties
<1> QED
  BY <1>2, <1>3 DEF N

LEMMA ToSetTail ==
  ASSUME NEW S, NEW a \in Seq(S), a # <<>>
  PROVE  ToSet(Tail(a)) \subseteq ToSet(a) /\ Head(a) \in ToSet(a)
<1>1. Tail(a) \in Seq(S) /\ Len(Tail(a)) = Len(a) - 1 /\ Len(a) \in Nat
  BY HeadTailProperties
<1>2. \A i \in 1..Len(Tail(a)) : Tail(a)[i] = a[i + 1] /\ i + 1 \in 1..Len(a)
  BY <1>1, HeadTailProperties
<1>3. Head(a) = a[1] /\ 1 \in 1..Len(a)
  BY EmptySeq
<1>4. ASSUME NEW x \in ToSet(Tail(a)) PROVE x \in ToSet(a)
  <2>1. PICK i \in 1..Len(Tail(a)) : x = Tail(a)[i]
    BY <1>1, <1>4, ToSetOfSeq
  <2> QED
    BY <1>2, <2>1, ToSetOfSeq
<1>5. Head(a) \in ToSet(a)
  BY <1>3, ToSetOfSeq
<1> QED
  BY <1>4, <1>5

LEMMA ToSetConcat ==
  ASSUME NEW S, NEW a \in Seq(S), NEW b \in Seq(S)
  PROVE  ToSet(a \o b) = ToSet(a) \cup ToSet(b)
<1>1. /\ a \o b \in Seq(S) /\ Len(a \o b) = Len(a) + Len(b)
      /\ Len(a) \in Nat /\ Len(b) \in Nat
  BY ConcatProperties, LenProperties
<1>2. \A i \in 1..(Len(a) + Len(b)) :
        (a \o b)[i] = IF i <= Len(a) THEN a[i] ELSE b[i - Len(a)]
  BY ConcatProperties
<1>3. ASSUME NEW x \in ToSet(a \o b) PROVE x \in ToSet(a) \cup ToSet(b)
  <2>1. PICK i \in 1..(Len(a) + Len(b)) : x = (a \o b)[i]
    BY <1>1, <1>3, ToSetOfSeq
  <2>2. CASE i <= Len(a)
    <3>1. i \in 1..Len(a) /\ x = a[i]
      BY <1>1, <1>2, <2>1, <2>2
    <3> QED
      BY <3>1, ToSetOfSeq
  <2>3. CASE i > Len(a)
    <3>1. i - Len(a) \in 1..Len(b) /\ x = b[i - Len(a)]
      BY <1>1, <1>2, <2>1, <2>3
    <3> QED
      BY <3>1, ToSetOfSeq
  <2> QED
    BY <1>1, <2>2, <2>3
<1>4. ASSUME NEW x \in ToSet(a) PROVE x \in ToSet(a \o b)
  <2>1. PICK i \in 1..Len(a) : x = a[i]
    BY <1>4, ToSetOfSeq
  <2>2. i \in 1..(Len(a) + Len(b)) /\ (a \o b)[i] = x
    BY <1>1, <1>2, <2>1
  <2> QED
    BY <1>1, <2>2, ToSetOfSeq
<1>5. ASSUME NEW x \in ToSet(b) PROVE x \in ToSet(a \o b)
  <2>1. PICK i \in 1..Len(b) : x = b[i]
    BY <1>5, ToSetOfSeq
  <2>2. Len(a) + i \in 1..(Len(a) + Len(b)) /\ (a \o b)[Len(a) + i] = x
    BY <1>1, <1>2, <2>1
  <2> QED
    BY <1>1, <2>2, ToSetOfSeq
<1> QED
  BY <1>3, <1>4, <1>5

LEMMA ConcatAppend ==
  ASSUME NEW S, NEW a \in Seq(S), NEW b \in Seq(S), NEW x \in S
  PROVE  a \o Append(b, x) = Append(a \o b, x)
OBVIOUS

\* A sequence in order of all of D: what is before a point of it is a first part of D.
LEMMA OrderedPrefix ==
  ASSUME NEW a \in Seq(1..MaxPublished), NEW b \in Seq(1..MaxPublished),
         NEW D, InOrder(a \o b), ToSet(a \o b) = D
  PROVE  FirstOf(a, D)
<1>1. /\ Len(a \o b) = Len(a) + Len(b)
      /\ Len(a) \in Nat /\ Len(b) \in Nat
  BY ConcatProperties, LenProperties
<1>2. \A i \in 1..Len(a) : (a \o b)[i] = a[i]
  BY <1>1, ConcatProperties
<1>3. \A i \in 1..Len(b) : (a \o b)[Len(a) + i] = b[i] /\ Len(a) + i \in 1..Len(a \o b)
  BY <1>1, ConcatProperties
<1>4. \A i \in 1..Len(a) : i \in 1..Len(a \o b)
  BY <1>1
<1>5. InOrder(a)
  BY <1>2, <1>4 DEF InOrder
<1>6. ToSet(a) \subseteq D
  BY ToSetConcat
<1>7. ASSUME NEW m \in ToSet(a), NEW d \in D, d < m PROVE d \in ToSet(a)
  <2>1. SUFFICES ASSUME d \in ToSet(b) PROVE FALSE
    BY ToSetConcat
  <2>2. PICK i \in 1..Len(a) : m = a[i]
    BY ToSetOfSeq
  <2>3. PICK j \in 1..Len(b) : d = b[j]
    BY <2>1, ToSetOfSeq
  <2>4. m = (a \o b)[i] /\ d = (a \o b)[Len(a) + j] /\ i < Len(a) + j
    BY <1>1, <1>2, <1>3, <2>2, <2>3
  <2>5. m < d
    BY <1>3, <1>4, <2>4 DEF InOrder
  <2>6. m \in 1..MaxPublished /\ d \in 1..MaxPublished
    BY <2>2, <2>3, ElementOfSeq
  <2> QED
    BY <1>7, <2>5, <2>6
<1> QED
  BY <1>5, <1>6, <1>7 DEF FirstOf

\* A number above all of them, at the end, keeps the order.
LEMMA OrderedAppend ==
  ASSUME NEW a \in Seq(1..MaxPublished), NEW n \in 1..MaxPublished,
         InOrder(a), \A m \in ToSet(a) : m < n
  PROVE  InOrder(Append(a, n))
<1>1. /\ Len(Append(a, n)) = Len(a) + 1 /\ Len(a) \in Nat
      /\ \A i \in 1..Len(a) : Append(a, n)[i] = a[i] /\ a[i] \in ToSet(a)
      /\ Append(a, n)[Len(a) + 1] = n
  BY AppendProperties, LenProperties, ToSetOfSeq
<1>2. SUFFICES ASSUME NEW i \in 1..(Len(a) + 1), NEW j \in 1..(Len(a) + 1), i < j
               PROVE  Append(a, n)[i] < Append(a, n)[j]
  BY <1>1 DEF InOrder
<1>3. i \in 1..Len(a)
  BY <1>1, <1>2
<1>4. CASE j \in 1..Len(a)
  BY <1>1, <1>2, <1>3, <1>4 DEF InOrder
<1>5. CASE j = Len(a) + 1
  BY <1>1, <1>3, <1>5
<1> QED
  BY <1>1, <1>4, <1>5

LEMMA EmptyFirst ==
  ASSUME NEW D
  PROVE  FirstOf(<<>>, D)
<1>1. <<>> \in Seq(D) /\ Len(<<>>) = 0 /\ 1..0 = {}
  BY EmptySeq
<1>2. ToSet(<<>>) = {}
  BY <1>1, ToSetOfSeq
<1> QED
  BY <1>1, <1>2 DEF FirstOf, InOrder

-----------------------------------------------------------------------------
(* The invariant *)

Active(s) == handler[s] = "open" \/ Alive(s)

\* Before a socket is accepted nothing is there of it but its handler.
Fresh(s) ==
  handler[s] \in {"none", "auth", "accept"} => pump[s] = "none" /\ inbox[s] = <<>>

\* Two of one key that are at work have met.
Acquainted(s, q) ==
  s # q /\ Key(s) = Key(q) /\ Active(s) /\ Active(q) => s \in met

RegistryInv ==
  /\ ServerTypeOK
  /\ RegistryExplained
  /\ \A s \in Sockets : Fresh(s)
  /\ \A s, q \in Sockets : Acquainted(s, q)

LogInv ==
  /\ log \in Seq(ToSet(log))
  /\ \A s \in Sockets : since[s] <= Len(log)

OwnInv ==
  \A s \in Sockets : \A m \in ToSet(inbox[s]) \cup ToSet(queue[s]) :
    m \in 1..Len(log) /\ Own(s, m)

Delivered(s) ==
  /\ pump[s] \in {"none", "starting"} => inbox[s] = <<>>
  /\ pump[s] \in {"listening", "ended"} => FirstOf(inbox[s], Due(s))
  /\ pump[s] = "listening" /\ link[s] =>
       InOrder(inbox[s] \o queue[s]) /\ ToSet(inbox[s] \o queue[s]) = Due(s)

DeliveryInv == \A s \in Sockets \ met : Delivered(s)

ServerInv == RegistryInv /\ LogInv /\ OwnInv /\ DeliveryInv

LEMMA KeyFacts ==
  ASSUME NEW s \in Sockets, NEW q \in Sockets, ServerTypeOK
  PROVE  /\ Key(s) \in Keys
         /\ Key(s) = Key(q) => as[s] = as[q]
BY NamesAssumption DEF ServerTypeOK, Key, Keys

LEMMA InitServerInv == ServerInit => ServerInv
<1> SUFFICES ASSUME ServerInit PROVE ServerInv
  OBVIOUS
<1>1. <<>> \in Seq(1..MaxPublished) /\ Len(<<>>) = 0 /\ 1..0 = {}
  BY EmptySeq
<1>2. ToSet(<<>>) = {}
  BY <1>1, ToSetOfSeq
<1>3. ServerTypeOK
  BY <1>1, NamesAssumption DEF ServerInit, ServerTypeOK, Keys
<1>4. RegistryInv
  BY <1>3, KeyFacts DEF ServerInit, RegistryInv, RegistryExplained, Fresh, Acquainted, Active, Alive
<1>5. LogInv
  BY <1>1, EmptySeq DEF ServerInit, LogInv
<1>6. OwnInv
  BY <1>2 DEF ServerInit, OwnInv
<1>7. DeliveryInv
  BY DEF ServerInit, DeliveryInv, Delivered
<1> QED
  BY <1>4, <1>5, <1>6, <1>7 DEF ServerInv

-----------------------------------------------------------------------------
(* Types *)

LEMMA TypeStep ==
  ASSUME RegistryInv, LogInv, ServerNext
  PROVE  ServerTypeOK'
<1>0. \A s \in Sockets : Key(s) \in Keys
  BY KeyFacts DEF RegistryInv
<1>01. Len(log) \in Nat
  BY LenProperties DEF LogInv
<1> USE DEF RegistryInv, ServerTypeOK, sockets, registry, pumps
<1>1. ASSUME NEW s \in Sockets, NEW user \in Users \cup {Anon}, OpenSocket(s, user)
      PROVE  ServerTypeOK'
  BY <1>1 DEF OpenSocket
<1>2. ASSUME NEW s \in Sockets, Authenticate(s) \/ Reject(s) \/ Drop(s) \/ AcceptFails(s)
      PROVE  ServerTypeOK'
  BY <1>2 DEF Authenticate, Reject, Drop, AcceptFails
<1>3. ASSUME NEW s \in Sockets, Accept(s)
      PROVE  ServerTypeOK'
  <2>1. met' \subseteq Sockets
    BY <1>3 DEF Accept, Company
  <2>2. /\ connections' \in [Keys -> Sockets \cup {NoSocket}]
        /\ subs' \in [Keys -> Sockets \cup {NoSocket}]
    BY <1>0, <1>3 DEF Accept
  <2> QED
    BY <1>3, <2>1, <2>2 DEF Accept, Fresh
<1>4. ASSUME NEW s \in Sockets, Leave(s)
      PROVE  ServerTypeOK'
  <2>1. <<>> \in Seq(1..MaxPublished)
    BY EmptySeq
  <2>2. connections[Key(s)] \in Sockets \cup {NoSocket}
    BY <1>0
  <2> QED
    BY <1>4, <2>1, <2>2 DEF Leave
<1>5. ASSUME NEW s \in Sockets, CloseTaken(s)
      PROVE  ServerTypeOK'
  BY <1>5 DEF CloseTaken
<1>6. ASSUME NEW s \in Sockets, Subscribe(s)
      PROVE  ServerTypeOK'
  <2>1. Len(log) \in 0..MaxPublished
    BY <1>01, NamesAssumption
  <2> QED
    BY <1>6, <2>1 DEF Subscribe
<1>7. ASSUME NEW s \in Sockets, PumpStops(s)
      PROVE  ServerTypeOK'
  BY <1>7, EmptySeq DEF PumpStops
<1>8. ASSUME NEW s \in Sockets, ForwardVanishes(s)
      PROVE  ServerTypeOK'
  BY <1>8, HeadTailProperties DEF ForwardVanishes, TakeNext
<1>9. ASSUME NEW s \in Sockets, Forward(s)
      PROVE  ServerTypeOK'
  <2>1. Target(s) \in Sockets
    BY <1>0, <1>9 DEF Forward, Reachable, Target
  <2> QED
    BY <1>9, <2>1, HeadTailProperties, AppendProperties DEF Forward, TakeNext
<1>10. ASSUME NEW ch, NEW body, Publish(ch, body)
       PROVE  ServerTypeOK'
  <2>1. Len(log) + 1 \in 1..MaxPublished /\ Len(log') = Len(log) + 1
    BY <1>01, <1>10, AppendProperties, NamesAssumption DEF Publish, LogInv
  <2>2. \A p \in Sockets : Append(queue[p], Len(log) + 1) \in Seq(1..MaxPublished)
    BY <2>1, AppendProperties
  <2>3. queue' \in [Sockets -> Seq(1..MaxPublished)]
    BY <1>10, <2>2 DEF Publish
  <2>4. \A p \in Sockets : queue'[p] # <<>> => pump[p] = "listening"
    BY <1>10 DEF Publish
  <2>5. UNCHANGED <<as, handler, link, victim, connections, subs, pump, inbox, since, met>>
    BY <1>10 DEF Publish
  <2>6. Len(log') <= MaxPublished
    BY <2>1
  <2> QED
    BY <2>3, <2>4, <2>5, <2>6
<1>11. ASSUME Restart
       PROVE  ServerTypeOK'
  BY <1>11, EmptySeq DEF Restart
<1> QED
  BY <1>1, <1>2, <1>3, <1>4, <1>5, <1>6, <1>7, <1>8, <1>9, <1>10, <1>11
     DEF ServerNext, ServerStep, ServerFault, PumpFails, ForwardEnds

-----------------------------------------------------------------------------
(* The registry *)

RegistryCore ==
  /\ RegistryExplained
  /\ \A s, q \in Sockets : Acquainted(s, q)

\* What opens no handler and starts no pump leaves the registry explained.
LEMMA CalmStep ==
  ASSUME ServerTypeOK, RegistryCore,
         UNCHANGED <<as, connections, subs, met>>,
         \A s \in Sockets : /\ handler'[s] = "open" <=> handler[s] = "open"
                            /\ Alive(s)' => Alive(s)
  PROVE  RegistryCore'
<1>1. \A s : Key(s)' = Key(s)
  BY DEF Key
<1>2. \A s \in Sockets : Active(s)' => Active(s)
  BY DEF Active
<1>3. ASSUME NEW k \in Keys, connections[k] # NoSocket
      PROVE  Key(connections[k]) = k /\ handler'[connections[k]] = "open"
  BY <1>3 DEF RegistryCore, RegistryExplained, ServerTypeOK
<1>4. RegistryExplained'
  <2>1. connections' = subs'
    BY DEF RegistryCore, RegistryExplained
  <2>2. \A k \in Keys : connections'[k] # NoSocket =>
          Key(connections[k])' = k /\ handler'[connections'[k]] = "open"
    BY <1>1, <1>3 DEF Key
  <2>3. \A s \in Sockets \ met' : Active(s)' => connections'[Key(s)'] = s
    BY <1>1, <1>2 DEF RegistryCore, RegistryExplained, Active
  <2> QED
    BY <2>1, <2>2, <2>3 DEF RegistryExplained, Active
<1>5. \A s, q \in Sockets : Acquainted(s, q)'
  BY <1>1, <1>2 DEF RegistryCore, Acquainted
<1> QED
  BY <1>4, <1>5 DEF RegistryCore

LEMMA AcceptRegistry ==
  ASSUME RegistryInv, NEW s \in Sockets, Accept(s)
  PROVE  RegistryCore'
<1> DEFINE k == Key(s)
<1>1. \A q : Key(q)' = Key(q)
  BY DEF Key, Accept
<1>2. ServerTypeOK /\ \A q \in Sockets : Key(q) \in Keys
  BY KeyFacts DEF RegistryInv
<1>3. \A q \in Sockets : Active(q)' <=> (Active(q) \/ q = s)
  BY <1>2 DEF Accept, Active, Alive, ServerTypeOK
<1>4. ~Active(s)
  BY DEF Accept, RegistryInv, Fresh, Active, Alive
<1>5. met' \subseteq Sockets /\ met \subseteq met'
  BY <1>2 DEF Accept, Company, ServerTypeOK
<1>6. \A q \in Sockets : q # s /\ Key(q) = k /\ Active(q) => q \in met' /\ s \in met'
  BY DEF Accept, Company, Active
<1>7. connections' = [connections EXCEPT ![k] = s] /\ subs' = [subs EXCEPT ![k] = s]
  BY DEF Accept
<1>8. RegistryExplained'
  <2>1. connections' = subs'
    BY <1>7 DEF RegistryInv, RegistryExplained
  <2>2. ASSUME NEW j \in Keys, connections'[j] # NoSocket
        PROVE  Key(connections[j])' = j /\ handler'[connections'[j]] = "open"
    <3>1. CASE j = k
      <4>1. connections'[j] = s
        BY <1>2, <1>7, <3>1 DEF ServerTypeOK
      <4>2. handler'[s] = "open" /\ as' = as
        BY <1>2 DEF Accept, ServerTypeOK
      <4> QED
        BY <3>1, <4>1, <4>2 DEF Key
    <3>2. CASE j # k
      <4>1. connections'[j] = connections[j] /\ connections[j] \in Sockets
        BY <1>2, <1>7, <2>2, <3>2 DEF ServerTypeOK
      <4>2. Key(connections[j]) = j /\ handler[connections[j]] = "open"
        BY <2>2, <4>1 DEF RegistryInv, RegistryExplained
      <4> QED
        BY <1>2, <4>1, <4>2 DEF Accept, ServerTypeOK, Key
    <3> QED
      BY <3>1, <3>2
  <2>3. ASSUME NEW q \in Sockets \ met', Active(q)' PROVE connections'[Key(q)'] = q
    <3>1. CASE q = s
      BY <1>1, <1>2, <1>7, <3>1 DEF ServerTypeOK
    <3>2. CASE q # s
      <4>1. Active(q) /\ Key(q) # k /\ q \notin met
        BY <1>3, <1>5, <1>6, <2>3, <3>2
      <4>2. connections[Key(q)] = q
        BY <4>1 DEF RegistryInv, RegistryExplained, Active
      <4> QED
        BY <1>1, <1>2, <1>7, <4>1, <4>2 DEF ServerTypeOK
    <3> QED
      BY <3>1, <3>2
  <2> QED
    BY <2>1, <2>2, <2>3 DEF RegistryExplained, Active
<1>9. \A p, q \in Sockets : Acquainted(p, q)'
  BY <1>1, <1>3, <1>5, <1>6 DEF RegistryInv, Acquainted
<1> QED
  BY <1>8, <1>9 DEF RegistryCore

LEMMA LeaveRegistry ==
  ASSUME RegistryInv, NEW s \in Sockets, Leave(s)
  PROVE  RegistryCore'
<1> DEFINE k == Key(s)
<1>1. \A q : Key(q)' = Key(q)
  BY DEF Key, Leave
<1>2. ServerTypeOK /\ \A q \in Sockets : Key(q) \in Keys
  BY KeyFacts DEF RegistryInv
<1>3. \A q \in Sockets : Active(q)' => Active(q)
  BY <1>2 DEF Leave, Active, Alive, ServerTypeOK
<1>4. Active(s) /\ s \notin met => ~Active(s)'
  <2>1. ASSUME s \notin met PROVE connections[k] = s /\ subs[k] = s
    BY <2>1 DEF Leave, RegistryInv, RegistryExplained
  <2>2. s # NoSocket
    BY NamesAssumption
  <2> QED
    BY <1>2, <2>1, <2>2 DEF Leave, Active, Alive, ServerTypeOK
<1>5. Active(s)
  BY DEF Leave, Active
<1>6. connections' = [connections EXCEPT ![k] = NoSocket] /\ subs' = [subs EXCEPT ![k] = NoSocket]
  BY DEF Leave
<1>7. met' = met
  BY DEF Leave
<1>8. RegistryExplained'
  <2>1. connections' = subs'
    BY <1>6 DEF RegistryInv, RegistryExplained
  <2>2. ASSUME NEW j \in Keys, connections'[j] # NoSocket
        PROVE  Key(connections[j])' = j /\ handler'[connections'[j]] = "open"
    <3>1. connections'[j] = connections[j] /\ connections[j] \in Sockets /\ j # k
      BY <1>2, <1>6, <2>2 DEF ServerTypeOK
    <3>2. Key(connections[j]) = j /\ handler[connections[j]] = "open"
      BY <2>2, <3>1 DEF RegistryInv, RegistryExplained
    <3> QED
      BY <1>2, <3>1, <3>2 DEF Leave, ServerTypeOK, Key
  <2>3. ASSUME NEW q \in Sockets \ met', Active(q)' PROVE connections'[Key(q)'] = q
    <3>1. q # s /\ Active(q) /\ q \notin met
      BY <1>3, <1>4, <1>5, <1>7, <2>3
    <3>2. Key(q) # k
      BY <1>5, <3>1 DEF RegistryInv, Acquainted
    <3>3. connections[Key(q)] = q
      BY <3>1 DEF RegistryInv, RegistryExplained, Active
    <3> QED
      BY <1>1, <1>2, <1>6, <3>2, <3>3 DEF ServerTypeOK
  <2> QED
    BY <2>1, <2>2, <2>3 DEF RegistryExplained, Active
<1>9. \A p, q \in Sockets : Acquainted(p, q)'
  BY <1>1, <1>3, <1>7 DEF RegistryInv, Acquainted
<1> QED
  BY <1>8, <1>9 DEF RegistryCore

\* A socket that is only now opened is nobody's target.
LEMMA OpenSocketRegistry ==
  ASSUME RegistryInv, NEW s \in Sockets, NEW user \in Users \cup {Anon}, OpenSocket(s, user)
  PROVE  RegistryCore'
<1>1. ServerTypeOK /\ \A q \in Sockets : Key(q) \in Keys
  BY KeyFacts DEF RegistryInv
<1>2. \A q \in Sockets : q # s => Key(q)' = Key(q)
  BY <1>1 DEF Key, OpenSocket, ServerTypeOK
<1>3. ~Active(s) /\ ~Active(s)'
  <2>1. handler[s] = "none" /\ pump[s] = "none" /\ pump' = pump
    BY DEF OpenSocket, RegistryInv, Fresh, pumps
  <2>2. handler'[s] # "open"
    BY <1>1 DEF OpenSocket, ServerTypeOK
  <2> QED
    BY <2>1, <2>2 DEF Active, Alive
<1>4. \A q \in Sockets : Active(q)' => Active(q)
  BY <1>1, <1>3 DEF OpenSocket, Active, Alive, ServerTypeOK, pumps
<1>5. connections' = connections /\ subs' = subs /\ met' = met
  BY DEF OpenSocket, registry
<1>6. RegistryExplained'
  <2>1. connections' = subs'
    BY <1>5 DEF RegistryInv, RegistryExplained
  <2>2. ASSUME NEW j \in Keys, connections'[j] # NoSocket
        PROVE  Key(connections[j])' = j /\ handler'[connections'[j]] = "open"
    <3>1. connections[j] \in Sockets /\ Key(connections[j]) = j /\ handler[connections[j]] = "open"
      BY <1>1, <1>5, <2>2 DEF RegistryInv, RegistryExplained, ServerTypeOK
    <3>2. connections[j] # s
      BY <3>1 DEF OpenSocket
    <3> QED
      BY <1>1, <1>5, <3>1, <3>2 DEF OpenSocket, ServerTypeOK, Key
  <2>3. ASSUME NEW q \in Sockets \ met', Active(q)' PROVE connections'[Key(q)'] = q
    BY <1>2, <1>3, <1>4, <1>5, <2>3 DEF RegistryInv, RegistryExplained, Active
  <2> QED
    BY <2>1, <2>2, <2>3 DEF RegistryExplained, Active
<1>7. \A p, q \in Sockets : Acquainted(p, q)'
  BY <1>2, <1>3, <1>4, <1>5 DEF RegistryInv, Acquainted
<1> QED
  BY <1>6, <1>7 DEF RegistryCore

LEMMA RestartRegistry ==
  ASSUME RegistryInv, Restart
  PROVE  RegistryCore'
<1>1. ServerTypeOK /\ \A q \in Sockets : Key(q) \in Keys
  BY KeyFacts DEF RegistryInv
<1>2. \A q \in Sockets : ~Active(q)'
  BY <1>1 DEF Restart, Active, Alive, ServerTypeOK
<1>3. \A k \in Keys : connections'[k] = NoSocket
  BY DEF Restart
<1>4. connections' = subs'
  BY DEF Restart
<1>5. RegistryExplained'
  BY <1>2, <1>3, <1>4 DEF RegistryExplained, Active
<1>6. \A p, q \in Sockets : Acquainted(p, q)'
  BY <1>2 DEF Acquainted
<1> QED
  BY <1>5, <1>6 DEF RegistryCore

LEMMA FreshStep ==
  ASSUME RegistryInv, ServerNext, NEW q \in Sockets
  PROVE  Fresh(q)'
<1>0. ServerTypeOK /\ \A s \in Sockets : Key(s) \in Keys /\ Fresh(s)
  BY KeyFacts DEF RegistryInv
<1> USE DEF Fresh, ServerTypeOK, sockets, registry, pumps
<1>1. ASSUME NEW s \in Sockets, NEW user \in Users \cup {Anon}, OpenSocket(s, user)
      PROVE  Fresh(q)'
  BY <1>0, <1>1 DEF OpenSocket
<1>2. ASSUME NEW s \in Sockets,
             \/ Authenticate(s) \/ Reject(s) \/ Drop(s) \/ AcceptFails(s) \/ CloseTaken(s)
      PROVE  Fresh(q)'
  BY <1>0, <1>2 DEF Authenticate, Reject, Drop, AcceptFails, CloseTaken
<1>3. ASSUME NEW s \in Sockets, Accept(s)
      PROVE  Fresh(q)'
  BY <1>0, <1>3 DEF Accept
<1>4. ASSUME NEW s \in Sockets, Leave(s)
      PROVE  Fresh(q)'
  BY <1>0, <1>4 DEF Leave, Alive
<1>5. ASSUME NEW s \in Sockets, Subscribe(s) \/ PumpFails(s) \/ ForwardEnds(s) \/ ForwardVanishes(s)
      PROVE  Fresh(q)'
  BY <1>0, <1>5 DEF Subscribe, PumpFails, Alive, ForwardEnds, PumpStops, ForwardVanishes
<1>6. ASSUME NEW s \in Sockets, Forward(s)
      PROVE  Fresh(q)'
  <2>1. Target(s) \in Sockets /\ handler[Target(s)] = "open"
    BY <1>0, <1>6 DEF Forward, Reachable, Target, RegistryInv, RegistryExplained
  <2> QED
    BY <1>0, <1>6, <2>1 DEF Forward
<1>7. ASSUME NEW ch, NEW body, Publish(ch, body)
      PROVE  Fresh(q)'
  BY <1>0, <1>7 DEF Publish
<1>8. ASSUME Restart
      PROVE  Fresh(q)'
  BY <1>0, <1>8 DEF Restart, Alive
<1> QED
  BY <1>1, <1>2, <1>3, <1>4, <1>5, <1>6, <1>7, <1>8 DEF ServerNext, ServerStep, ServerFault

LEMMA RegistryStep ==
  ASSUME RegistryInv, LogInv, ServerNext
  PROVE  RegistryInv'
<1>0. ServerTypeOK /\ RegistryCore
  BY DEF RegistryInv, RegistryCore
<1> DEFINE Calm == /\ UNCHANGED <<as, connections, subs, met>>
                   /\ \A s \in Sockets : /\ handler'[s] = "open" <=> handler[s] = "open"
                                         /\ Alive(s)' => Alive(s)
<1>1. Calm => RegistryCore'
  BY <1>0, CalmStep
<1>2. ASSUME NEW s \in Sockets,
             \/ Authenticate(s) \/ Reject(s) \/ Drop(s) \/ AcceptFails(s) \/ CloseTaken(s)
      PROVE  Calm
  BY <1>0, <1>2 DEF Authenticate, Reject, Drop, AcceptFails, CloseTaken, Alive, ServerTypeOK, registry, pumps
<1>3. ASSUME NEW s \in Sockets,
             \/ Subscribe(s) \/ PumpFails(s) \/ ForwardEnds(s) \/ ForwardVanishes(s) \/ Forward(s)
      PROVE  Calm
  BY <1>0, <1>3 DEF Subscribe, PumpFails, ForwardEnds, PumpStops, ForwardVanishes, Forward, Alive,
                    ServerTypeOK, sockets, registry
<1>4. ASSUME NEW ch, NEW body, Publish(ch, body)
      PROVE  Calm
  BY <1>4 DEF Publish, Alive, sockets, registry
<1>5. RegistryCore'
  BY <1>1, <1>2, <1>3, <1>4, AcceptRegistry, LeaveRegistry, OpenSocketRegistry, RestartRegistry
     DEF ServerNext, ServerStep, ServerFault
<1> QED
  BY <1>5, TypeStep, FreshStep DEF RegistryInv, RegistryCore

-----------------------------------------------------------------------------
(* What is in the queues and the inboxes *)

\* Where a forward goes: the target has the same
\* user as the pump, and is the pump's own socket unless that one has met another.
LEMMA TargetFacts ==
  ASSUME RegistryInv, NEW p \in Sockets, Target(p) # NoSocket
  PROVE  /\ Target(p) \in Sockets
         /\ as[Target(p)] = as[p]
         /\ handler[Target(p)] = "open"
         /\ Alive(p) /\ Target(p) # p => p \in met /\ Target(p) \in met
<1>1. ServerTypeOK /\ Key(p) \in Keys
  BY KeyFacts DEF RegistryInv
<1>2. Target(p) \in Sockets
  BY <1>1 DEF Target, ServerTypeOK
<1>3. Key(Target(p)) = Key(p) /\ handler[Target(p)] = "open"
  BY <1>1 DEF Target, RegistryInv, RegistryExplained
<1>4. as[Target(p)] = as[p]
  BY <1>1, <1>2, <1>3, KeyFacts
<1>5. Alive(p) /\ Target(p) # p => p \in met /\ Target(p) \in met
  BY <1>2, <1>3 DEF RegistryInv, Acquainted, Active
<1> QED
  BY <1>2, <1>3, <1>4, <1>5

LEMMA LogStep ==
  ASSUME RegistryInv, LogInv, ServerNext
  PROVE  LogInv'
<1>0. ServerTypeOK /\ Len(log) \in Nat
  BY LenProperties DEF RegistryInv, LogInv
<1> USE DEF LogInv, sockets, registry, pumps
<1>1. ASSUME UNCHANGED log, \A s \in Sockets : since'[s] \in {since[s], Len(log)}
      PROVE  LogInv'
  BY <1>0, <1>1
<1>2. ASSUME NEW ch, NEW body, Publish(ch, body)
      PROVE  LogInv'
  <2> DEFINE x == [ch |-> ch, body |-> body]
  <2>1. log' = Append(log, x) /\ since' = since
    BY <1>2 DEF Publish
  <2> HIDE DEF x
  <2>2. log \in Seq(ToSet(log) \cup {x})
    BY SeqMonotonic
  <2>3. log' \in Seq(ToSet(log) \cup {x}) /\ Len(log') = Len(log) + 1
    BY <2>1, <2>2, AppendProperties
  <2>4. ToSet(log') = ToSet(log) \cup {x}
    BY <2>1, <2>2, ToSetAppend
  <2> QED
    BY <1>0, <2>1, <2>3, <2>4 DEF ServerTypeOK
<1>3. ASSUME NEW s \in Sockets, Subscribe(s)
      PROVE  LogInv'
  BY <1>0, <1>1, <1>3 DEF Subscribe, ServerTypeOK
<1> QED
  BY <1>1, <1>2, <1>3
     DEF ServerNext, ServerStep, ServerFault, OpenSocket, Authenticate, Reject, Drop, Accept,
         AcceptFails, Leave, CloseTaken, PumpFails, ForwardEnds, PumpStops, ForwardVanishes,
         Forward, Restart

\* An item of a queue or of an inbox, now and after a message is published.
LEMMA LogGrows ==
  ASSUME LogInv, NEW ch, NEW body, Publish(ch, body)
  PROVE  /\ Len(log') = Len(log) + 1 /\ Len(log) \in Nat
         /\ \A m \in 1..Len(log) : log'[m] = log[m]
         /\ log'[Len(log) + 1] = [ch |-> ch, body |-> body]
         /\ \A s \in Sockets : \A m \in 1..Len(log) : Own(s, m)' <=> Own(s, m)
         /\ \A s \in Sockets : \A n \in Nat :
              n = Len(log) + 1 => (Own(s, n)' <=> ch \in {Global, as[s]})
<1> DEFINE x == [ch |-> ch, body |-> body]
<1>1. log' = Append(log, x) /\ as' = as
  BY DEF Publish, sockets
<1>2. x.ch = ch
  OBVIOUS
<1> HIDE DEF x
<1>3. log \in Seq(ToSet(log) \cup {x})
  BY SeqMonotonic DEF LogInv
<1>4. /\ Len(log') = Len(log) + 1 /\ Len(log) \in Nat
      /\ \A m \in 1..Len(log) : log'[m] = log[m]
      /\ log'[Len(log) + 1] = x
  BY <1>1, <1>3, AppendProperties, LenProperties
<1> QED
  BY <1>1, <1>2, <1>4 DEF Own, x

Belongs(s) ==
  \A m \in ToSet(inbox[s]) \cup ToSet(queue[s]) : m \in 1..Len(log) /\ Own(s, m)

\* A queue gets what its pump hears of, an inbox what a pump of the same user had queued.
LEMMA BelongsStep ==
  ASSUME RegistryInv, LogInv, OwnInv, ServerNext, NEW s \in Sockets
  PROVE  Belongs(s)'
<1>0. ServerTypeOK /\ Belongs(s)
  BY DEF RegistryInv, OwnInv, Belongs
<1>1. inbox[s] \in Seq(1..MaxPublished) /\ queue[s] \in Seq(1..MaxPublished) /\ ToSet(<<>>) = {}
  <2>1. <<>> \in Seq(1..MaxPublished) /\ Len(<<>>) = 0 /\ 1..0 = {}
    BY EmptySeq
  <2> QED
    BY <1>0, <2>1, ToSetOfSeq DEF ServerTypeOK
<1>2. ASSUME as'[s] = as[s], log' = log,
             ToSet(inbox'[s]) \subseteq ToSet(inbox[s]), ToSet(queue'[s]) \subseteq ToSet(queue[s])
      PROVE  Belongs(s)'
  BY <1>0, <1>2 DEF Belongs, Own
<1> USE DEF sockets, registry, pumps
<1>3. ASSUME NEW q \in Sockets, NEW user, OpenSocket(q, user)
      PROVE  Belongs(s)'
  <2>1. CASE q = s
    <3>1. queue'[s] = <<>> /\ inbox'[s] = <<>>
      BY <1>0, <1>3, <2>1 DEF OpenSocket, RegistryInv, Fresh, ServerTypeOK
    <3> QED
      BY <1>1, <3>1 DEF Belongs
  <2>2. CASE q # s
    BY <1>0, <1>2, <1>3, <2>2 DEF OpenSocket, ServerTypeOK
  <2> QED
    BY <2>1, <2>2
<1>4. ASSUME NEW q \in Sockets,
             \/ Authenticate(q) \/ Reject(q) \/ Drop(q) \/ AcceptFails(q) \/ CloseTaken(q)
             \/ Accept(q) \/ Subscribe(q)
      PROVE  Belongs(s)'
  BY <1>2, <1>4 DEF Authenticate, Reject, Drop, AcceptFails, CloseTaken, Accept, Subscribe
<1>5. ASSUME NEW q \in Sockets, Leave(q) \/ PumpStops(q) \/ Restart
      PROVE  Belongs(s)'
  <2>1. queue'[s] \in {queue[s], <<>>} /\ UNCHANGED <<as, log, inbox>>
    BY <1>0, <1>5 DEF Leave, PumpStops, Restart, ServerTypeOK
  <2>2. ToSet(queue'[s]) \subseteq ToSet(queue[s])
    BY <1>1, <2>1
  <2> QED
    BY <1>2, <2>1, <2>2
<1>6. ASSUME NEW q \in Sockets, ForwardVanishes(q)
      PROVE  Belongs(s)'
  <2>1. ToSet(queue'[s]) \subseteq ToSet(queue[s])
    BY <1>0, <1>1, <1>6, ToSetTail DEF ForwardVanishes, TakeNext, ServerTypeOK
  <2> QED
    BY <1>2, <1>6, <2>1 DEF ForwardVanishes
<1>7. ASSUME NEW p \in Sockets, Forward(p)
      PROVE  Belongs(s)'
  <2>1. UNCHANGED <<as, log>>
    BY <1>7 DEF Forward
  <2>2. ToSet(queue'[s]) \subseteq ToSet(queue[s])
    BY <1>0, <1>1, <1>7, ToSetTail DEF Forward, TakeNext, ServerTypeOK
  <2>3. CASE Target(p) # s
    BY <1>0, <1>2, <1>7, <2>1, <2>2, <2>3 DEF Forward, ServerTypeOK
  <2>4. CASE Target(p) = s
    <3>1. as[s] = as[p]
      BY <1>7, <2>4, TargetFacts DEF Forward, Reachable
    <3>2. Head(queue[p]) \in ToSet(queue[p]) /\ Head(queue[p]) \in 1..MaxPublished
      BY <1>0, <1>7, ToSetTail, HeadTailProperties DEF Forward, ServerTypeOK
    <3>3. Head(queue[p]) \in 1..Len(log) /\ Own(p, Head(queue[p]))
      BY <3>2 DEF OwnInv
    <3>4. ToSet(inbox'[s]) = ToSet(inbox[s]) \cup {Head(queue[p])}
      <4>1. inbox'[s] = Append(inbox[s], Head(queue[p]))
        BY <1>0, <1>7, <2>4 DEF Forward, ServerTypeOK
      <4> QED
        BY <1>1, <3>2, <4>1, NumberAppended
    <3> QED
      BY <1>0, <2>1, <2>2, <3>1, <3>3, <3>4 DEF Belongs, Own
  <2> QED
    BY <2>3, <2>4
<1>8. ASSUME NEW ch \in Users \cup {Global}, NEW body, Publish(ch, body)
      PROVE  Belongs(s)'
  <2>0. /\ Len(log') = Len(log) + 1 /\ Len(log) \in Nat
        /\ \A m \in 1..Len(log) : Own(s, m)' <=> Own(s, m)
        /\ \A n \in Nat : n = Len(log) + 1 => (Own(s, n)' <=> ch \in {Global, as[s]})
    BY <1>8, LogGrows
  <2>1. inbox' = inbox /\ Len(log) + 1 \in 1..MaxPublished
    BY <1>8, <2>0, NamesAssumption DEF Publish
  <2>2. ASSUME NEW m \in ToSet(inbox[s]) \cup ToSet(queue[s])
        PROVE  m \in 1..Len(log') /\ Own(s, m)'
    BY <1>0, <2>0 DEF Belongs
  <2>3. CASE queue'[s] = queue[s]
    BY <2>1, <2>2, <2>3 DEF Belongs
  <2>4. CASE queue'[s] = Append(queue[s], Len(log) + 1) /\ Hears(s, ch)
    <3>1. ToSet(queue'[s]) = ToSet(queue[s]) \cup {Len(log) + 1}
      BY <1>1, <2>1, <2>4, NumberAppended
    <3>2. ASSUME NEW n \in Nat, n = Len(log) + 1 PROVE n \in 1..Len(log') /\ Own(s, n)'
      <4>1. ch \in {Global, as[s]}
        BY <2>4 DEF Hears
      <4>2. Own(s, n)'
        BY <2>0, <3>2, <4>1
      <4> QED
        BY <2>0, <3>2, <4>2
    <3> QED
      BY <2>1, <2>2, <3>1, <3>2 DEF Belongs
  <2> QED
    BY <1>8, <2>3, <2>4 DEF Publish
<1> QED
  BY <1>3, <1>4, <1>5, <1>6, <1>7, <1>8
     DEF ServerNext, ServerStep, ServerFault, PumpFails, ForwardEnds

-----------------------------------------------------------------------------
(* What a socket that never shared its key has got *)

\* A pump that goes on or ends, a link that holds or is lost: nothing else happens to s.
LEMMA DeliveredFrame ==
  ASSUME NEW s \in Sockets, Delivered(s),
         as'[s] = as[s], inbox'[s] = inbox[s], since'[s] = since[s], log' = log,
         \/ pump'[s] = pump[s] /\ queue'[s] = queue[s]
         \/ pump'[s] = pump[s] /\ ~link[s]
         \/ pump[s] = "none" /\ pump'[s] = "starting"
         \/ Alive(s) /\ pump'[s] = "ended" /\ (pump[s] = "starting" => inbox[s] = <<>>),
         link'[s] => link[s]
  PROVE  Delivered(s)'
<1>1. Due(s)' = Due(s)
  BY DEF Due, Own
<1>2. inbox[s] = <<>> => FirstOf(inbox[s], Due(s))
  BY EmptyFirst
<1>3. FirstOf(inbox[s], Due(s)) => FirstOf(inbox'[s], Due(s)')
  BY <1>1
<1>4. InOrder(inbox[s] \o queue[s]) /\ ToSet(inbox[s] \o queue[s]) = Due(s) /\ queue'[s] = queue[s]
        => InOrder(inbox'[s] \o queue'[s]) /\ ToSet(inbox'[s] \o queue'[s]) = Due(s)'
  BY <1>1
<1>5. FirstOf(inbox[s], Due(s))' <=> FirstOf(inbox'[s], Due(s)')
  BY DEF FirstOf, InOrder
<1>6. InOrder(inbox[s] \o queue[s])' <=> InOrder(inbox'[s] \o queue'[s])
  BY DEF InOrder
<1> QED
  BY <1>2, <1>3, <1>4, <1>5, <1>6 DEF Delivered, Alive

LEMMA DeliveredSubscribe ==
  ASSUME RegistryInv, LogInv, NEW s \in Sockets, Delivered(s), Subscribe(s)
  PROVE  Delivered(s)'
<1>0. ServerTypeOK /\ Len(log) \in Nat
  BY LenProperties DEF RegistryInv, LogInv
<1>1. /\ inbox'[s] = <<>> /\ queue'[s] = <<>>
      /\ pump'[s] = "listening" /\ since'[s] = Len(log) /\ log' = log
  BY <1>0 DEF Subscribe, Delivered, ServerTypeOK
<1>2. Due(s)' = {}
  BY <1>0, <1>1 DEF Due
<1>3. <<>> \o <<>> = <<>> /\ ToSet(<<>>) = {} /\ InOrder(<<>>)
  <2>1. <<>> \in Seq(Nat) /\ Len(<<>>) = 0 /\ 1..0 = {} /\ <<>> \o <<>> = <<>>
    BY EmptySeq, ConcatEmptySeq
  <2> QED
    BY <2>1, ToSetOfSeq DEF InOrder
<1>4. FirstOf(<<>>, {})
  BY EmptyFirst
<1>5. FirstOf(inbox[s], Due(s))'
  BY <1>1, <1>2, <1>4
<1>6. InOrder(inbox'[s] \o queue'[s]) /\ ToSet(inbox'[s] \o queue'[s]) = Due(s)'
  BY <1>1, <1>2, <1>3
<1> QED
  BY <1>1, <1>5, <1>6 DEF Delivered

\* A message that s hears of goes to the end of its queue, and is due from then on.
LEMMA DeliveredPublish ==
  ASSUME RegistryInv, LogInv, OwnInv, NEW s \in Sockets, Delivered(s),
         NEW ch \in Users \cup {Global}, NEW body, Publish(ch, body)
  PROVE  Delivered(s)'
<1>0. ServerTypeOK /\ since[s] <= Len(log)
  BY DEF RegistryInv, LogInv
<1>1. /\ Len(log') = Len(log) + 1 /\ Len(log) \in Nat
      /\ \A m \in 1..Len(log) : Own(s, m)' <=> Own(s, m)
      /\ \A n \in Nat : n = Len(log) + 1 => (Own(s, n)' <=> ch \in {Global, as[s]})
  BY LogGrows
<1>2. /\ UNCHANGED <<link, pump, inbox, since>>
      /\ Len(log) + 1 \in 1..MaxPublished
      /\ queue'[s] = IF pump[s] = "listening" /\ Hears(s, ch)
                     THEN Append(queue[s], Len(log) + 1) ELSE queue[s]
  BY <1>1, NamesAssumption DEF Publish, sockets, pumps
<1>3. Hears(s, ch) <=> ch \in {Global, as[s]}
  BY NamesAssumption DEF Hears
<1>4. Due(s)' = Due(s) \cup {n \in {Len(log) + 1} : Hears(s, ch)}
  <2>1. since[s] \in Nat /\ since'[s] = since[s]
    BY <1>0, <1>2 DEF ServerTypeOK
  <2>2. ASSUME NEW n
        PROVE  n \in Due(s)' <=> n \in Due(s) \cup {k \in {Len(log) + 1} : Hears(s, ch)}
    <3>1. CASE n \in 1..Len(log)
      <4>1. n \in 1..Len(log') /\ n \in Nat /\ n # Len(log) + 1
        BY <1>1, <3>1
      <4>2. Own(s, n)' <=> Own(s, n)
        BY <1>1, <3>1
      <4> QED
        BY <2>1, <3>1, <4>1, <4>2 DEF Due
    <3>2. CASE n = Len(log) + 1
      <4>1. n \in Nat /\ n \in 1..Len(log') /\ n > since'[s] /\ n \notin 1..Len(log)
        BY <1>0, <1>1, <2>1, <3>2
      <4>2. Own(s, n)' <=> Hears(s, ch)
        BY <1>1, <1>3, <3>2, <4>1
      <4>3. n \in Due(s)' <=> Own(s, n)'
        BY <4>1 DEF Due
      <4>4. n \notin Due(s)
        BY <4>1 DEF Due
      <4> QED
        BY <3>2, <4>2, <4>3, <4>4
    <3>3. CASE n \notin 1..(Len(log) + 1)
      BY <1>1, <3>3 DEF Due
    <3> QED
      BY <1>1, <3>1, <3>2, <3>3
  <2> QED
    BY <2>2
<1>5. /\ inbox[s] \in Seq(1..MaxPublished) /\ queue[s] \in Seq(1..MaxPublished)
      /\ \A m \in ToSet(inbox[s]) \cup ToSet(queue[s]) : m \in 1..Len(log)
  BY <1>0 DEF ServerTypeOK, OwnInv
<1>6. FirstOf(inbox[s], Due(s)) => FirstOf(inbox[s], Due(s)')
  BY <1>1, <1>4, <1>5 DEF FirstOf
<1>7. ASSUME pump[s] = "listening", link[s]
      PROVE  InOrder(inbox'[s] \o queue'[s]) /\ ToSet(inbox'[s] \o queue'[s]) = Due(s)'
  <2>1. InOrder(inbox[s] \o queue[s]) /\ ToSet(inbox[s] \o queue[s]) = Due(s)
    BY <1>7 DEF Delivered
  <2>2. CASE Hears(s, ch)
    <3> DEFINE n == Len(log) + 1
               q == inbox[s] \o queue[s]
    <3>1. q \in Seq(1..MaxPublished)
      BY <1>5, ConcatProperties
    <3>2. inbox'[s] \o queue'[s] = Append(q, n)
      <4>1. inbox'[s] = inbox[s] /\ queue'[s] = Append(queue[s], n) /\ n \in 1..MaxPublished
        BY <1>2, <1>7, <2>2
      <4> HIDE DEF n
      <4>2. inbox[s] \o Append(queue[s], n) = Append(q, n)
        <5> DEFINE N == 1..MaxPublished
        <5>1. inbox[s] \in Seq(N) /\ queue[s] \in Seq(N) /\ n \in N
          BY <1>5, <4>1
        <5> HIDE DEF N
        <5>2. \A a, b \in Seq(N) : a \o Append(b, n) = Append(a \o b, n)
          BY <5>1, ConcatAppend
        <5> QED
          BY <5>1, <5>2, Zenon
      <4> QED
        BY <4>1, <4>2
    <3>3. \A m \in ToSet(q) : m < n
      BY <1>1, <1>5, ToSetConcat
    <3>4. InOrder(Append(q, n))
      BY <1>2, <2>1, <3>1, <3>3, OrderedAppend
    <3>5. ToSet(Append(q, n)) = ToSet(q) \cup {n}
      BY <1>2, <3>1, NumberAppended
    <3> QED
      BY <1>4, <2>1, <2>2, <3>2, <3>4, <3>5
  <2>3. CASE ~Hears(s, ch)
    BY <1>2, <1>4, <2>1, <2>3
  <2> QED
    BY <2>2, <2>3
<1>8. FirstOf(inbox[s], Due(s))' <=> FirstOf(inbox[s], Due(s)')
  BY <1>2 DEF FirstOf, InOrder
<1> QED
  BY <1>2, <1>6, <1>7, <1>8 DEF Delivered, InOrder

\* Only its own pump sends to s: the message moves from the queue to the inbox.
LEMMA DeliveredForward ==
  ASSUME RegistryInv, NEW s \in Sockets, Delivered(s), Forward(s), Target(s) = s
  PROVE  Delivered(s)'
<1>0. ServerTypeOK
  BY DEF RegistryInv
<1>1. /\ pump[s] = "listening" /\ queue[s] # <<>> /\ link[s]
      /\ inbox'[s] = Append(inbox[s], Head(queue[s])) /\ queue'[s] = Tail(queue[s])
      /\ UNCHANGED <<link, pump, since, log, as>>
  BY <1>0 DEF Forward, Reachable, TakeNext, ServerTypeOK, sockets
<1>2. inbox[s] \in Seq(1..MaxPublished) /\ queue[s] \in Seq(1..MaxPublished)
  BY <1>0 DEF ServerTypeOK
<1>3. inbox'[s] \o queue'[s] = inbox[s] \o queue[s]
  BY <1>1, <1>2, ForwardedSame
<1>4. InOrder(inbox[s] \o queue[s]) /\ ToSet(inbox[s] \o queue[s]) = Due(s)
  BY <1>1 DEF Delivered
<1>5. Due(s)' = Due(s)
  BY <1>1 DEF Due, Own
<1>6. inbox'[s] \in Seq(1..MaxPublished) /\ queue'[s] \in Seq(1..MaxPublished)
  BY <1>1, <1>2, HeadTailProperties, NumberAppended
<1>7. FirstOf(inbox'[s], Due(s)')
  BY <1>3, <1>4, <1>5, <1>6, OrderedPrefix
<1>8. FirstOf(inbox[s], Due(s))' <=> FirstOf(inbox'[s], Due(s)')
  BY DEF FirstOf, InOrder
<1> QED
  BY <1>1, <1>3, <1>4, <1>5, <1>7, <1>8 DEF Delivered, InOrder

LEMMA DeliveryStep ==
  ASSUME RegistryInv, LogInv, OwnInv, DeliveryInv, ServerNext
  PROVE  DeliveryInv'
<1>0. ServerTypeOK /\ \A q \in Sockets : Key(q) \in Keys /\ Fresh(q)
  BY KeyFacts DEF RegistryInv
<1> SUFFICES ASSUME NEW s \in Sockets, s \notin met' PROVE Delivered(s)'
  BY DEF DeliveryInv
<1>1. s \notin met /\ Delivered(s)
  <2>1. met \subseteq met'
    BY DEF ServerNext, ServerStep, ServerFault, OpenSocket, Authenticate, Reject, Drop, Accept,
           AcceptFails, Leave, CloseTaken, Subscribe, PumpFails, ForwardEnds, PumpStops,
           ForwardVanishes, Forward, Publish, Restart
  <2> QED
    BY <2>1 DEF DeliveryInv
<1> USE DEF sockets, registry, pumps
<1>2. ASSUME NEW q \in Sockets, NEW user, OpenSocket(q, user)
      PROVE  Delivered(s)'
  <2>1. CASE q = s
    <3>1. pump'[s] = "none" /\ inbox'[s] = <<>>
      BY <1>0, <1>2, <2>1 DEF OpenSocket, Fresh
    <3> QED
      BY <3>1 DEF Delivered
  <2>2. CASE q # s
    BY <1>0, <1>1, <1>2, <2>2, DeliveredFrame DEF OpenSocket, ServerTypeOK
  <2> QED
    BY <2>1, <2>2
<1>3. ASSUME NEW q \in Sockets,
             \/ Authenticate(q) \/ Reject(q) \/ Drop(q) \/ AcceptFails(q) \/ CloseTaken(q)
      PROVE  Delivered(s)'
  <2>1. link'[s] => link[s]
    BY <1>0, <1>3 DEF Authenticate, Reject, Drop, AcceptFails, CloseTaken, ServerTypeOK
  <2> QED
    BY <1>1, <1>3, <2>1, DeliveredFrame DEF Authenticate, Reject, Drop, AcceptFails, CloseTaken
<1>4. ASSUME NEW q \in Sockets, Accept(q)
      PROVE  Delivered(s)'
  <2>1. \/ pump'[s] = pump[s]
        \/ pump[s] = "none" /\ pump'[s] = "starting"
    BY <1>0, <1>4 DEF Accept, ServerTypeOK, Fresh
  <2> QED
    BY <1>1, <1>4, <2>1, DeliveredFrame DEF Accept
<1>5. ASSUME NEW q \in Sockets, Leave(q) \/ PumpFails(q) \/ Restart \/ ForwardEnds(q)
      PROVE  Delivered(s)'
  <2>1. \/ pump'[s] = pump[s] /\ queue'[s] = queue[s]
        \/ Alive(s) /\ pump'[s] = "ended"
    <3>1. CASE Leave(q)
      BY <1>0, <3>1 DEF Leave, Alive, ServerTypeOK
    <3>2. CASE PumpFails(q) \/ ForwardEnds(q)
      BY <1>0, <3>2 DEF PumpFails, ForwardEnds, PumpStops, Alive, ServerTypeOK
    <3>3. CASE Restart
      BY <1>0, <3>3 DEF Restart, Alive, ServerTypeOK
    <3> QED
      BY <1>5, <3>1, <3>2, <3>3
  <2>2. link'[s] => link[s]
    BY <1>0, <1>5 DEF Leave, PumpFails, Restart, ForwardEnds, PumpStops, ServerTypeOK
  <2>3. UNCHANGED <<as, inbox, since, log>>
    BY <1>5 DEF Leave, PumpFails, Restart, ForwardEnds, PumpStops
  <2>4. pump[s] = "starting" => inbox[s] = <<>>
    BY <1>1 DEF Delivered
  <2> QED
    BY <1>1, <2>1, <2>2, <2>3, <2>4, DeliveredFrame
<1>6. ASSUME NEW p \in Sockets, ForwardVanishes(p)
      PROVE  Delivered(s)'
  <2>1. CASE p # s
    BY <1>0, <1>1, <1>6, <2>1, DeliveredFrame DEF ForwardVanishes, TakeNext, ServerTypeOK
  <2>2. CASE p = s
    <3>1. Target(s) = s
      BY <1>1, <1>6, <2>2, TargetFacts DEF ForwardVanishes, Alive
    <3>2. ~link[s]
      BY <1>6, <2>2, <3>1 DEF ForwardVanishes, Reachable
    <3> QED
      BY <1>1, <1>6, <3>2, DeliveredFrame DEF ForwardVanishes
  <2> QED
    BY <2>1, <2>2
<1>7. ASSUME NEW p \in Sockets, Forward(p)
      PROVE  Delivered(s)'
  <2>1. Target(p) = s => p = s
    BY <1>1, <1>7, TargetFacts DEF Forward, Reachable, Alive
  <2>2. p = s => Target(p) = s
    BY <1>1, <1>7, TargetFacts DEF Forward, Reachable, Alive
  <2>3. CASE p = s
    BY <1>1, <1>7, <2>2, <2>3, DeliveredForward
  <2>4. CASE p # s
    <3>1. inbox'[s] = inbox[s] /\ queue'[s] = queue[s]
      BY <1>0, <1>7, <2>1, <2>4 DEF Forward, TakeNext, ServerTypeOK
    <3> QED
      BY <1>1, <1>7, <3>1, DeliveredFrame DEF Forward
  <2> QED
    BY <2>3, <2>4
<1>8. ASSUME NEW q \in Sockets, Subscribe(q)
      PROVE  Delivered(s)'
  <2>1. CASE q = s
    BY <1>1, <1>8, <2>1, DeliveredSubscribe
  <2>2. CASE q # s
    BY <1>0, <1>1, <1>8, <2>2, DeliveredFrame DEF Subscribe, ServerTypeOK
  <2> QED
    BY <2>1, <2>2
<1>9. ASSUME NEW ch \in Users \cup {Global}, NEW body, Publish(ch, body)
      PROVE  Delivered(s)'
  BY <1>1, <1>9, DeliveredPublish
<1> QED
  BY <1>2, <1>3, <1>4, <1>5, <1>6, <1>7, <1>8, <1>9 DEF ServerNext, ServerStep, ServerFault

-----------------------------------------------------------------------------
(* The theorems *)

LEMMA ServerInvStep == ServerInv /\ [ServerNext]_serverVars => ServerInv'
<1> SUFFICES ASSUME ServerInv, [ServerNext]_serverVars PROVE ServerInv'
  OBVIOUS
<1>1. CASE ServerNext
  BY <1>1, RegistryStep, LogStep, BelongsStep, DeliveryStep DEF ServerInv, OwnInv, Belongs
<1>2. CASE UNCHANGED serverVars
  <2> USE <1>2 DEF serverVars
  <2>1. RegistryInv' = RegistryInv
    BY DEF RegistryInv, ServerTypeOK, RegistryExplained, Fresh, Acquainted, Active, Alive, Key
  <2>2. LogInv' = LogInv /\ OwnInv' = OwnInv
    BY DEF LogInv, OwnInv, Own
  <2>3. DeliveryInv' = DeliveryInv
    BY DEF DeliveryInv, Delivered, FirstOf, InOrder, Due, Own
  <2> QED
    BY <2>1, <2>2, <2>3 DEF ServerInv
<1> QED
  BY <1>1, <1>2

\* A connection that has been opened is not opened again, and a lost one does not come back.
LEMMA OpenedStays ==
  ASSUME RegistryInv, ServerNext, NEW s \in Sockets, handler[s] # "none"
  PROVE  handler'[s] # "none" /\ (link'[s] => link[s]) /\ as'[s] = as[s]
<1>0. ServerTypeOK
  BY DEF RegistryInv
<1> USE DEF ServerTypeOK, sockets
<1>1. ASSUME NEW q \in Sockets, NEW user, OpenSocket(q, user)
      PROVE  handler'[s] # "none" /\ (link'[s] => link[s]) /\ as'[s] = as[s]
  BY <1>0, <1>1 DEF OpenSocket
<1>2. ASSUME NEW q \in Sockets,
             \/ Authenticate(q) \/ Reject(q) \/ Drop(q) \/ AcceptFails(q) \/ CloseTaken(q)
             \/ Accept(q) \/ Leave(q)
      PROVE  handler'[s] # "none" /\ (link'[s] => link[s]) /\ as'[s] = as[s]
  BY <1>0, <1>2 DEF Authenticate, Reject, Drop, AcceptFails, CloseTaken, Accept, Leave
<1>3. ASSUME Restart
      PROVE  handler'[s] # "none" /\ (link'[s] => link[s]) /\ as'[s] = as[s]
  BY <1>0, <1>3 DEF Restart
<1>4. ASSUME NEW q \in Sockets, NEW ch, NEW body,
             \/ Subscribe(q) \/ PumpStops(q) \/ ForwardVanishes(q) \/ Forward(q)
             \/ Publish(ch, body)
      PROVE  handler'[s] # "none" /\ (link'[s] => link[s]) /\ as'[s] = as[s]
  BY <1>4 DEF Subscribe, PumpStops, ForwardVanishes, Forward, Publish
<1> QED
  BY <1>1, <1>2, <1>3, <1>4 DEF ServerNext, ServerStep, ServerFault, PumpFails, ForwardEnds

\* The inductive invariant of the server, whoever connects and publishes: the registry, the
\* pumps, the queues and what each socket was sent belong together (connection_manager.py).
THEOREM ServerInvariant == ServerSpec => []ServerInv
BY InitServerInv, ServerInvStep, PTL DEF ServerSpec

\* The handlers, registry, pumps and queues stay within their types, whoever connects and
\* publishes.
THEOREM ServerTypes == ServerSpec => []ServerTypeOK
<1>1. ServerInv => ServerTypeOK
  BY DEF ServerInv, RegistryInv
<1> QED
  BY <1>1, ServerInvariant, PTL

\* A browser is never sent what was published for another user.
THEOREM ServerOwnMessages == ServerSpec => []OnlyOwnMessages
<1>1. ServerInv => OnlyOwnMessages
  BY DEF ServerInv, OwnInv, OnlyOwnMessages
<1> QED
  BY <1>1, ServerInvariant, PTL

\* connect and disconnect leave in _connections and _subs open sockets only, and forget
\* only what another socket of the same user replaced.
THEOREM ServerRegistry == ServerSpec => []RegistryExplained
<1>1. ServerInv => RegistryExplained
  BY DEF ServerInv, RegistryInv
<1> QED
  BY <1>1, ServerInvariant, PTL

\* A socket that never shared its key gets each message of its channels once and in order.
THEOREM ServerDelivery == ServerSpec => []DeliveredOnceInOrder
<1>1. ServerInv => DeliveredOnceInOrder
  BY DEF ServerInv, DeliveryInv, Delivered, DeliveredOnceInOrder
<1> QED
  BY <1>1, ServerInvariant, PTL
=============================================================================
