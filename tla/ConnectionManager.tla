------------------------- MODULE ConnectionManager -------------------------
(***************************************************************************)
(* The live side of the API process: the handler of /ws/events             *)
(* (routers/websocket.py), the ConnectionManager with its registry of one  *)
(* socket and one pump per key (services/connection_manager.py), and       *)
(* Redis pub/sub, which hands a message to those subscribed at the moment  *)
(* and to nobody else.                                                     *)
(*                                                                         *)
(* The key of a signed-in socket is its user's id, so a second tab of the  *)
(* user, or the same tab back before the server has noticed that its       *)
(* socket is gone, takes the place of the first in the registry.  A pump   *)
(* is named after the socket whose connect created it.  The process has    *)
(* one thread: what it does between two awaits is one step.                *)
(***************************************************************************)
EXTENDS Naturals, Sequences, FiniteSets, SequencesExt

CONSTANTS
  Sockets,       \* WebSocket connections, each used once
  Users,
  Anon,          \* a socket without a token
  Global,        \* the channel events:*
  NoSocket,
  MaxPublished   \* bound: how many messages are published

ASSUME NamesAssumption ==
  /\ Anon \notin Users /\ Global \notin Users /\ Anon # Global
  /\ NoSocket \notin Sockets
  /\ MaxPublished \in Nat

VARIABLES
  as,           \* as[s]: the user whose token opened socket s
  handler,      \* handler[s]: where ws_events stands
  link,         \* link[s]: the connection between browser and server is up
  victim,       \* victim[s]: the socket the handler's disconnect has taken out to close
  connections,  \* ConnectionManager._connections
  subs,         \* ConnectionManager._subs
  pump,         \* pump[s]: the state of the task connect created for s
  queue,        \* queue[s]: what Redis has for that task, as numbers of messages
  inbox,        \* inbox[s]: what the browser got on s
  log,          \* every message published (history)
  since,        \* since[s]: how many had been when the pump subscribed (history)
  met           \* the sockets that shared their key with another one (history)

sockets == <<as, handler, link, victim>>
registry == <<connections, subs>>
pumps == <<pump, queue, inbox, since>>
serverVars ==
  <<as, handler, link, victim, connections, subs, pump, queue, inbox, log, since, met>>

Keys == ({"user"} \X Users) \cup ({"anon"} \X Sockets)
Key(s) == IF as[s] = Anon THEN <<"anon", s>> ELSE <<"user", as[s]>>

ServerTypeOK ==
  /\ as \in [Sockets -> Users \cup {Anon}]
  /\ handler \in [Sockets -> {"none", "auth", "accept", "open", "closing", "done"}]
  /\ link \in [Sockets -> BOOLEAN]
  /\ victim \in [Sockets -> Sockets \cup {NoSocket}]
  /\ connections \in [Keys -> Sockets \cup {NoSocket}]
  /\ subs \in [Keys -> Sockets \cup {NoSocket}]
  /\ pump \in [Sockets -> {"none", "starting", "listening", "ended"}]
  /\ queue \in [Sockets -> Seq(1..MaxPublished)]
  /\ inbox \in [Sockets -> Seq(1..MaxPublished)]
  /\ Len(log) <= MaxPublished
  /\ since \in [Sockets -> 0..MaxPublished]
  /\ met \subseteq Sockets
  /\ \A s \in Sockets : queue[s] # <<>> => pump[s] = "listening"

ServerInit ==
  /\ as = [s \in Sockets |-> Anon]
  /\ handler = [s \in Sockets |-> "none"]
  /\ link = [s \in Sockets |-> FALSE]
  /\ victim = [s \in Sockets |-> NoSocket]
  /\ connections = [k \in Keys |-> NoSocket]
  /\ subs = [k \in Keys |-> NoSocket]
  /\ pump = [s \in Sockets |-> "none"]
  /\ queue = [s \in Sockets |-> <<>>]
  /\ inbox = [s \in Sockets |-> <<>>]
  /\ log = <<>>
  /\ since = [s \in Sockets |-> 0]
  /\ met = {}

-----------------------------------------------------------------------------
(* A connection comes and goes *)

OpenSocket(s, user) ==
  /\ handler[s] = "none"
  /\ as' = [as EXCEPT ![s] = user]
  /\ link' = [link EXCEPT ![s] = TRUE]
  /\ handler' = [handler EXCEPT ![s] = IF user = Anon THEN "accept" ELSE "auth"]
  /\ UNCHANGED <<victim, registry, pumps, log, met>>

Authenticate(s) ==
  /\ handler[s] = "auth"
  /\ handler' = [handler EXCEPT ![s] = "accept"]
  /\ UNCHANGED <<as, link, victim, registry, pumps, log, met>>

\* The token is no good any more, or the lookup of the user fails (no connection of the
\* pool within its timeout): closed before it was accepted, an HTTP 403 to the browser.
Reject(s) ==
  /\ handler[s] = "auth"
  /\ handler' = [handler EXCEPT ![s] = "done"]
  /\ link' = [link EXCEPT ![s] = FALSE]
  /\ UNCHANGED <<as, victim, registry, pumps, log, met>>

\* The browser closes the socket, or the network loses it.
Drop(s) ==
  /\ link[s]
  /\ link' = [link EXCEPT ![s] = FALSE]
  /\ UNCHANGED <<as, handler, victim, registry, pumps, log, met>>

Alive(p) == pump[p] \in {"starting", "listening"}

\* The sockets of the same key that have a handler or a pump at work.
Company(s) == {q \in Sockets \ {s} : Key(q) = Key(s) /\ (handler[q] = "open" \/ Alive(q))}

\* connect: the registration follows the accept without an await.
Accept(s) ==
  /\ handler[s] = "accept" /\ link[s]
  /\ connections' = [connections EXCEPT ![Key(s)] = s]
  /\ subs' = [subs EXCEPT ![Key(s)] = s]
  /\ pump' = [pump EXCEPT ![s] = "starting"]
  /\ handler' = [handler EXCEPT ![s] = "open"]
  /\ met' = IF Company(s) = {} THEN met ELSE met \cup {s} \cup Company(s)
  /\ UNCHANGED <<as, link, victim, queue, inbox, since, log>>

AcceptFails(s) ==
  /\ handler[s] = "accept" /\ ~link[s]
  /\ handler' = [handler EXCEPT ![s] = "done"]
  /\ UNCHANGED <<as, link, victim, registry, pumps, log, met>>

\* Faulty variant: the pump of the key is taken out and left running.
LeaveNoCancel(s) ==
  /\ handler[s] = "open" /\ ~link[s]
  /\ connections' = [connections EXCEPT ![Key(s)] = NoSocket]
  /\ subs' = [subs EXCEPT ![Key(s)] = NoSocket]
  /\ handler' = [handler EXCEPT ![s] = "closing"]
  /\ victim' = [victim EXCEPT ![s] = connections[Key(s)]]
  /\ UNCHANGED <<as, link, pumps, log, met>>

\* receive_text raises; disconnect takes out what the key leads to now, and cancels it.
Leave(s) ==
  /\ handler[s] = "open" /\ ~link[s]
  /\ connections' = [connections EXCEPT ![Key(s)] = NoSocket]
  /\ subs' = [subs EXCEPT ![Key(s)] = NoSocket]
  /\ LET cancelled == {p \in {subs[Key(s)]} : p # NoSocket /\ Alive(p)}
     IN  /\ pump' = [p \in Sockets |-> IF p \in cancelled THEN "ended" ELSE pump[p]]
         /\ queue' = [p \in Sockets |-> IF p \in cancelled THEN <<>> ELSE queue[p]]
  /\ handler' = [handler EXCEPT ![s] = "closing"]
  /\ victim' = [victim EXCEPT ![s] = connections[Key(s)]]
  /\ UNCHANGED <<as, link, inbox, since, log, met>>

\* ... and then closes the socket it took out.
CloseTaken(s) ==
  /\ handler[s] = "closing"
  /\ link' = [q \in Sockets |-> link[q] /\ q # victim[s]]
  /\ handler' = [handler EXCEPT ![s] = "done"]
  /\ victim' = [victim EXCEPT ![s] = NoSocket]
  /\ UNCHANGED <<as, registry, pumps, log, met>>

-----------------------------------------------------------------------------
(* The pumps *)

\* Faulty variant: a pattern subscription, to which events:* means every channel.
HearsAll(s, ch) == TRUE

\* The channels ws_events subscribes a socket to.
Hears(s, ch) == ch = Global \/ (as[s] # Anon /\ ch = as[s])

Subscribe(s) ==
  /\ pump[s] = "starting"
  /\ pump' = [pump EXCEPT ![s] = "listening"]
  /\ since' = [since EXCEPT ![s] = Len(log)]
  /\ UNCHANGED <<sockets, registry, queue, inbox, log, met>>

\* Faulty variant: the subscription is left behind.
PumpStopsSubscribed(s) ==
  /\ pump' = [pump EXCEPT ![s] = "ended"]
  /\ UNCHANGED <<sockets, registry, queue, inbox, since, log, met>>

\* The end of _pump: unsubscribe and close.
PumpStops(s) ==
  /\ pump' = [pump EXCEPT ![s] = "ended"]
  /\ queue' = [queue EXCEPT ![s] = <<>>]
  /\ UNCHANGED <<sockets, registry, inbox, since, log, met>>

\* subscribe or listen raises: Redis is away or has no connection left in the pool.  The
\* socket stays open.
PumpFails(s) == Alive(s) /\ PumpStops(s)

\* The socket a pump's next message goes to: what its key leads to by then.
Target(p) == connections[Key(p)]

Reachable(p) == Target(p) # NoSocket /\ link[Target(p)]

TakeNext(p) == queue' = [queue EXCEPT ![p] = Tail(@)]

Forward(p) ==
  /\ pump[p] = "listening" /\ queue[p] # <<>>
  /\ Reachable(p)
  /\ inbox' = [inbox EXCEPT ![Target(p)] = Append(@, Head(queue[p]))]
  /\ TakeNext(p)
  /\ UNCHANGED <<sockets, registry, pump, since, log, met>>

\* No socket for the key any more, or the send raises.
ForwardEnds(p) ==
  /\ pump[p] = "listening" /\ queue[p] # <<>>
  /\ ~Reachable(p)
  /\ PumpStops(p)

\* A send into a lost connection that has not been noticed.
ForwardVanishes(p) ==
  /\ pump[p] = "listening" /\ queue[p] # <<>>
  /\ Target(p) # NoSocket /\ ~Reachable(p)
  /\ TakeNext(p)
  /\ UNCHANGED <<sockets, registry, pump, inbox, since, log, met>>

\* publish_to_users, publish_to_global.
Publish(ch, body) ==
  /\ Len(log) < MaxPublished
  /\ log' = Append(log, [ch |-> ch, body |-> body])
  /\ queue' = [p \in Sockets |-> IF pump[p] = "listening" /\ Hears(p, ch)
                                  THEN Append(queue[p], Len(log) + 1) ELSE queue[p]]
  /\ UNCHANGED <<sockets, registry, pump, inbox, since, met>>

\* The API process dies and is started again.
Restart ==
  /\ \E s \in Sockets : handler[s] \notin {"none", "done"} \/ Alive(s)
  /\ handler' = [s \in Sockets |-> IF handler[s] = "none" THEN "none" ELSE "done"]
  /\ link' = [s \in Sockets |-> FALSE]
  /\ victim' = [s \in Sockets |-> NoSocket]
  /\ connections' = [k \in Keys |-> NoSocket]
  /\ subs' = [k \in Keys |-> NoSocket]
  /\ pump' = [s \in Sockets |-> IF Alive(s) THEN "ended" ELSE pump[s]]
  /\ queue' = [s \in Sockets |-> <<>>]
  /\ UNCHANGED <<as, inbox, since, log, met>>

ServerStep(s) ==
  \/ Authenticate(s) \/ Accept(s) \/ AcceptFails(s) \/ Leave(s) \/ CloseTaken(s)
  \/ Subscribe(s) \/ ForwardEnds(s) \/ ForwardVanishes(s)

ServerFault == Restart \/ \E s \in Sockets : Reject(s) \/ Drop(s) \/ PumpFails(s)

\* The server among any browsers and any publishers.
ServerNext ==
  \/ \E s \in Sockets : \/ ServerStep(s) \/ Forward(s)
                         \/ \E user \in Users \cup {Anon} : OpenSocket(s, user)
  \/ \E ch \in Users \cup {Global} : \E body : Publish(ch, body)
  \/ ServerFault

ServerSpec == ServerInit /\ [][ServerNext]_serverVars

-----------------------------------------------------------------------------
(* Properties *)

\* What a socket is for: the events for all and its own user's messages.
Own(s, m) == log[m].ch \in {Global, as[s]}

\* A browser is never sent what was published for another user, whichever pump sends it
\* and however often the sockets of a key replaced each other.
OnlyOwnMessages == \A s \in Sockets : \A m \in ToSet(inbox[s]) : Own(s, m)

\* What a socket is to be sent: the messages of its channels since its pump subscribed.
Due(s) == {m \in 1..Len(log) : m > since[s] /\ Own(s, m)}

\* Each message once, the older ones first.
InOrder(q) == \A i, j \in 1..Len(q) : i < j => q[i] < q[j]

\* In order, and none of D left out before the last.
FirstOf(q, D) ==
  /\ InOrder(q)
  /\ ToSet(q) \subseteq D
  /\ \A m \in ToSet(q) : \A d \in D : d < m => d \in ToSet(q)

\* A socket that never shared its key gets every message of its channels once and in
\* order, as long as its pump runs and the connection holds.
DeliveredOnceInOrder ==
  \A s \in Sockets \ met : pump[s] \in {"listening", "ended"} =>
    /\ FirstOf(inbox[s], Due(s))
    /\ pump[s] = "listening" /\ link[s] =>
         InOrder(inbox[s] \o queue[s]) /\ ToSet(inbox[s] \o queue[s]) = Due(s)

\* The registry holds open sockets only, and a handler or a pump that is not in it was
\* replaced there by another socket of the same user: no other end of a connection leaves
\* something behind.
RegistryExplained ==
  /\ connections = subs
  /\ \A k \in Keys : connections[k] # NoSocket =>
       Key(connections[k]) = k /\ handler[connections[k]] = "open"
  /\ \A s \in Sockets \ met : handler[s] = "open" \/ Alive(s) => connections[Key(s)] = s
=============================================================================
