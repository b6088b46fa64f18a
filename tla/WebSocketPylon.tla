--------------------------- MODULE WebSocketPylon ---------------------------
(***************************************************************************)
(* webSocket/WebSocketPylon.java and WebSocketServerEntity.java: pylons    *)
(* that exchange waves through one server, and the mobile agents and nodes *)
(* that register with them (core/support/AbstractMessagingShard.java,      *)
(* core/node/Node.java).                                                   *)
(*                                                                         *)
(* A pylon hands everything to its Dispatcher: registrations, waves and    *)
(* agents in transit go into OUTBOUND, what the server sends into INBOUND, *)
(* and one thread serves both (see QueueBank, which Dispatcher implements: *)
(* a queue is served only while it is open, in the order of adding).  The  *)
(* server keeps a table from names to sockets.  It serves each socket with *)
(* one thread; a wave it looks up and forwards in one step, which shows    *)
(* nothing that a longer stay in the channel does not show.                *)
(*                                                                         *)
(* A node is called like its pylon: q \in Pylons is the name of the node,  *)
(* and of the socket by which the server knows the pylon.  A pylon has one *)
(* connection: nothing in the code opens another one after onClose.        *)
(***************************************************************************)
EXTENDS Naturals, Sequences, FiniteSets

CONSTANTS Pylons,      \* pylons, their nodes and their sockets
          Agents,      \* names of mobile agents
          Home,        \* agent -> the node it is loaded on
          Nobody,      \* null: no socket, no node, no wave
          Quota,       \* bound: agent -> the waves it sends
          Moves,       \* bound: agent -> its moves
          SelfMoves,   \* an agent may be told to move to the node it is on
          MayClose,    \* the pylons whose connection may be lost
          MayRestart   \* bound: the agents that may be started anew, once

Entities == Agents \cup Pylons

(* Registrations, waves between agents, and an agent in a wave to a node.  *)
Registration == [kind : {"reg", "unreg"}, from : Entities]
Wave == UNION {[kind : {"wave"}, from : {a}, nr : 1 .. Quota[a], to : Agents] : a \in Agents}
Transit == UNION {[kind : {"agent"}, from : {a}, nr : 1 .. Moves[a], to : Pylons] : a \in Agents}
Content == Wave \cup Transit
Message == Registration \cup Content

ASSUME NamesAssumption == Agents \cap Pylons = {} /\ Home \in [Agents -> Pylons]
ASSUME NobodyAssumption == Nobody \notin Entities \cup Message
ASSUME BoundsAssumption ==
    /\ Quota \in [Agents -> Nat] /\ Moves \in [Agents -> Nat]
    /\ SelfMoves \in BOOLEAN /\ MayClose \subseteq Pylons /\ MayRestart \subseteq Agents

Steps == {"putting", "adding", "in", "stopping", "removed", "away"}

VARIABLES
    conn,       \* pylon -> its WebSocketClient: connecting, open or closed
    stopped,    \* pylons whose Dispatcher has been stopped
    suspended,  \* pylons whose OUTBOUND queue is suspended
    outbound,   \* pylon -> the OUTBOUND queue
    inbound,    \* pylon -> the INBOUND queue
    serving,    \* pylon -> the wave the Dispatcher's thread is delivering
    receivers,  \* pylon -> messageReceivers: the names registered with it
    toServer,   \* pylon -> what is on the way to the server
    toPylon,    \* pylon -> what is on the way from the server
    table,      \* entityToWebSocket: name -> socket or Nobody
    where,      \* entity -> the node its newest copy runs on, and its step there
    count,      \* agent -> waves sent
    moved,      \* agent -> moves made
    restarted,  \* history: agents that were started anew elsewhere
    received,   \* history: agent -> the waves it took, and the pylon they came by
    lost,       \* history: the waves and agents that were dropped
    calm        \* history: those whose destination was settled when they were sent and stayed so

pylon   == <<conn, stopped, suspended>>
thread  == <<inbound, serving>>
network == <<toServer, toPylon, table>>
agents  == <<where, count, moved, restarted>>
history == <<received, lost, calm>>
vars == <<pylon, outbound, thread, receivers, network, agents, history>>

At(e, step, p) == where[e] = [step |-> step, node |-> p]

Place == [step : Steps, node : Pylons]
Receipt == [wave : Wave, by : Pylons]

PylonTypes ==
    /\ conn \in [Pylons -> {"connecting", "open", "closed"}]
    /\ stopped \subseteq Pylons /\ suspended \subseteq Pylons
LineTypes ==
    /\ outbound \in [Pylons -> Seq(Message)] /\ toServer \in [Pylons -> Seq(Message)]
    /\ inbound \in [Pylons -> Seq(Content)] /\ toPylon \in [Pylons -> Seq(Content)]
    /\ serving \in [Pylons -> Content \cup {Nobody}]
NameTypes ==
    /\ receivers \in [Pylons -> SUBSET Entities]
    /\ table \in [Entities -> Pylons \cup {Nobody}]
WhereTypes == where \in [Entities -> Place]
CountTypes ==
    /\ count \in [Agents -> Nat] /\ \A a \in Agents : count[a] <= Quota[a]
    /\ moved \in [Agents -> Nat] /\ \A a \in Agents : moved[a] <= Moves[a]
    /\ restarted \subseteq MayRestart
HistoryTypes ==
    /\ received \in [Agents -> Seq(Receipt)]
    /\ lost \subseteq Content /\ calm \subseteq Content

TypeOK == PylonTypes /\ LineTypes /\ NameTypes /\ WhereTypes /\ CountTypes /\ HistoryTypes

(* Nodes and agents are loaded and about to be started; the Dispatcher of  *)
(* a pylon is created with OUTBOUND suspended.                             *)
Init ==
    /\ conn = [p \in Pylons |-> "connecting"]
    /\ stopped = {} /\ suspended = Pylons
    /\ outbound = [p \in Pylons |-> <<>>]
    /\ inbound = [p \in Pylons |-> <<>>]
    /\ serving = [p \in Pylons |-> Nobody]
    /\ receivers = [p \in Pylons |-> {}]
    /\ toServer = [p \in Pylons |-> <<>>]
    /\ toPylon = [p \in Pylons |-> <<>>]
    /\ table = [e \in Entities |-> Nobody]
    /\ where = [e \in Entities |-> [step |-> "putting", node |-> IF e \in Agents THEN Home[e] ELSE e]]
    /\ count = [a \in Agents |-> 0]
    /\ moved = [a \in Agents |-> 0]
    /\ restarted = {}
    /\ received = [a \in Agents |-> <<>>]
    /\ lost = {}
    /\ calm = {}

-----------------------------------------------------------------------------
(* The connection of a pylon.                                              *)

(* start(): connectBlocking() has succeeded, onOpen(). *)
Open(p) ==
    /\ conn[p] = "connecting"
    /\ conn' = [conn EXCEPT ![p] = "open"]
    /\ suspended' = suspended \ {p}
    /\ UNCHANGED <<stopped, outbound, thread, receivers, network, agents, history>>

(* The connection goes: what the server has not sent on to the client is   *)
(* lost, of what the client has written a part still arrives.              *)
Close(p) ==
    /\ conn[p] = "open"
    /\ p \in MayClose
    /\ conn' = [conn EXCEPT ![p] = "closed"]
    /\ \E n \in 0 .. Len(toServer[p]) :
           /\ toServer' = [toServer EXCEPT ![p] = SubSeq(@, 1, n)]
           /\ lost' = lost \cup {toPylon[p][i] : i \in DOMAIN toPylon[p]}
                           \cup ({toServer[p][i] : i \in n + 1 .. Len(toServer[p])} \ Registration)
    /\ toPylon' = [toPylon EXCEPT ![p] = <<>>]
    /\ calm' = {}
    /\ UNCHANGED <<stopped, suspended, outbound, thread, receivers, table, agents, received>>

(* onClose(). *)
Suspend(p) ==
    /\ conn[p] = "closed"
    /\ p \notin suspended
    /\ suspended' = suspended \cup {p}
    /\ UNCHANGED <<conn, stopped, outbound, thread, receivers, network, agents, history>>

(* stop(): the Dispatcher is stopped; closeBlocking() follows as a Close.  *)
Stop(p) ==
    /\ conn[p] = "open"
    /\ p \in MayClose \ stopped
    /\ stopped' = stopped \cup {p}
    /\ calm' = {}
    /\ UNCHANGED <<conn, suspended, outbound, thread, receivers, network, agents, received, lost>>

-----------------------------------------------------------------------------
(* The thread of the Dispatcher.                                           *)

Drop(m) == lost' = lost \cup ({m} \ Registration)

(* sendMessage(): the receiver is local, or the socket takes the wave, or  *)
(* send() throws and the wave is dropped with a line in the log.           *)
Local(p, m) == m.kind \in {"wave", "agent"} /\ m.to \in receivers[p]

(* Mutant: a wave that is delivered here goes to the server as well. *)
ServeOutBoth(p) ==
    /\ p \notin stopped \cup suspended
    /\ serving[p] = Nobody
    /\ outbound[p] # <<>>
    /\ outbound' = [outbound EXCEPT ![p] = Tail(@)]
    /\ LET m == Head(outbound[p]) IN
       /\ serving' = [serving EXCEPT ![p] = IF Local(p, m) THEN m ELSE @]
       /\ IF conn[p] = "open"
          THEN toServer' = [toServer EXCEPT ![p] = Append(@, m)] /\ UNCHANGED lost
          ELSE Drop(m) /\ UNCHANGED toServer
    /\ UNCHANGED <<pylon, inbound, receivers, toPylon, table, agents, received, calm>>

ServeOutbound(p) ==
    /\ p \notin stopped \cup suspended
    /\ serving[p] = Nobody
    /\ outbound[p] # <<>>
    /\ outbound' = [outbound EXCEPT ![p] = Tail(@)]
    /\ LET m == Head(outbound[p]) IN
       IF Local(p, m)
       THEN serving' = [serving EXCEPT ![p] = m] /\ UNCHANGED <<toServer, lost>>
       ELSE /\ UNCHANGED serving
            /\ IF conn[p] = "open"
               THEN toServer' = [toServer EXCEPT ![p] = Append(@, m)] /\ UNCHANGED lost
               ELSE Drop(m) /\ UNCHANGED toServer
    /\ UNCHANGED <<pylon, inbound, receivers, toPylon, table, agents, received, calm>>

(* receiveMessage(AgentWave). *)
ServeInbound(p) ==
    /\ p \notin stopped
    /\ serving[p] = Nobody
    /\ inbound[p] # <<>>
    /\ inbound' = [inbound EXCEPT ![p] = Tail(@)]
    /\ LET m == Head(inbound[p]) IN
       IF Local(p, m)
       THEN serving' = [serving EXCEPT ![p] = m] /\ UNCHANGED lost
       ELSE Drop(m) /\ UNCHANGED serving
    /\ UNCHANGED <<pylon, outbound, receivers, network, agents, received, calm>>

(* An agent that has been told to stop refuses the wave; a node starts the *)
(* agent that arrives (RECEIVE_AGENT_OPERATION).  A copy of an agent that  *)
(* was started again elsewhere still takes what comes to it.               *)
Refuses(e, p) == At(e, "stopping", p)

Receive(p, m) ==
    \/ /\ m.kind = "agent"
       /\ where' = [where EXCEPT ![m.from] = [step |-> "putting", node |-> p]]
       /\ UNCHANGED <<received, lost>>
    \/ /\ m.kind = "wave"
       /\ IF Refuses(m.to, p)
          THEN Drop(m) /\ UNCHANGED received
          ELSE /\ received' = [received EXCEPT ![m.to] = Append(@, [wave |-> m, by |-> p])]
               /\ UNCHANGED lost
       /\ UNCHANGED where

(* messageReceivers.get(...): null if the receiver has gone since, and the *)
(* Dispatcher catches the exception.                                       *)
Deliver(p) ==
    /\ serving[p] # Nobody
    /\ serving' = [serving EXCEPT ![p] = Nobody]
    /\ IF Local(p, serving[p])
       THEN Receive(p, serving[p])
       ELSE Drop(serving[p]) /\ UNCHANGED <<received, where>>
    /\ UNCHANGED <<pylon, outbound, inbound, receivers, network, count, moved, restarted, calm>>

(* Mutant: the queue has room for one message. *)
ReadBounded(p) ==
    /\ toPylon[p] # <<>>
    /\ inbound' = [inbound EXCEPT ![p] = IF @ = <<>> THEN <<Head(toPylon[p])>> ELSE @]
    /\ toPylon' = [toPylon EXCEPT ![p] = Tail(@)]
    /\ UNCHANGED <<pylon, outbound, serving, receivers, toServer, table, agents, history>>

(* receiveMessage(String), called by the client's reader. *)
Read(p) ==
    /\ toPylon[p] # <<>>
    /\ inbound' = [inbound EXCEPT ![p] = Append(@, Head(toPylon[p]))]
    /\ toPylon' = [toPylon EXCEPT ![p] = Tail(@)]
    /\ UNCHANGED <<pylon, outbound, serving, receivers, toServer, table, agents, history>>

-----------------------------------------------------------------------------
(* The server: processMessage().                                           *)

Incoming(p) == Head(toServer[p])

ServerRegister(p) ==
    /\ Incoming(p).kind = "reg"
    /\ table' = [table EXCEPT ![Incoming(p).from] = p]
    /\ UNCHANGED <<toPylon, lost>>

(* Mutant: the socket is not compared. *)
ServerUnregisterAny(p) ==
    /\ Incoming(p).kind = "unreg"
    /\ table' = [table EXCEPT ![Incoming(p).from] = Nobody]
    /\ UNCHANGED <<toPylon, lost>>

ServerUnregister(p) ==
    /\ Incoming(p).kind = "unreg"
    /\ table' = [table EXCEPT ![Incoming(p).from] = IF @ = p THEN Nobody ELSE @]
    /\ UNCHANGED <<toPylon, lost>>

(* A socket that is closed throws; the entry stays.                        *)
ServerRoute(p) ==
    /\ Incoming(p).kind \in {"wave", "agent"}
    /\ LET q == table[Incoming(p).to] IN
       IF q # Nobody /\ conn[q] = "open"
       THEN toPylon' = [toPylon EXCEPT ![q] = Append(@, Incoming(p))] /\ UNCHANGED lost
       ELSE Drop(Incoming(p)) /\ UNCHANGED toPylon
    /\ UNCHANGED table

Server(p) ==
    /\ toServer[p] # <<>>
    /\ toServer' = [toServer EXCEPT ![p] = Tail(@)]
    /\ ServerRegister(p) \/ ServerUnregister(p) \/ ServerRoute(p)
    /\ UNCHANGED <<pylon, outbound, thread, receivers, agents, received, calm>>

-----------------------------------------------------------------------------
(* Entities: nodes and agents, with their messaging shards.                *)

Goes(e, step) == where' = [where EXCEPT ![e].step = step]

InSeq(s, m) == \E i \in DOMAIN s : s[i] = m
Registering(e) == \E p \in Pylons : \E kind \in {"reg", "unreg"} :
    LET m == [kind |-> kind, from |-> e] IN InSeq(outbound[p], m) \/ InSeq(toServer[p], m)

Connected(p) == conn[p] = "open" /\ p \notin stopped

(* The entity runs, the server knows where, and nothing is about to change.*)
Settled(e) ==
    LET p == where[e].node IN
    where[e].step = "in" /\ Connected(p) /\ table[e] = p /\ ~Registering(e)

(* AGENT_START: registerEntity() puts the receiver, then tells the server; *)
(* it refuses a name that is registered already.  The pylon was started    *)
(* before, and connectBlocking() came back.                                *)
Put(e) ==
    LET p == where[e].node IN
    /\ where[e].step = "putting"
    /\ conn[p] # "connecting"
    /\ IF e \in receivers[p]
       THEN Goes(e, "in") /\ UNCHANGED receivers
       ELSE Goes(e, "adding") /\ receivers' = [receivers EXCEPT ![p] = @ \cup {e}]
    /\ UNCHANGED <<pylon, outbound, thread, network, count, moved, restarted, history>>

Add(e) ==
    LET p == where[e].node IN
    /\ where[e].step = "adding"
    /\ Goes(e, "in")
    /\ outbound' = [outbound EXCEPT ![p] = Append(@, [kind |-> "reg", from |-> e])]
    /\ UNCHANGED <<pylon, thread, receivers, network, count, moved, restarted, history>>

(* moveTo(): AGENT_STOP is posted, with the destination.  From here on the *)
(* agent refuses events.                                                   *)
PostMove(a) ==
    /\ where[a].step = "in"
    /\ moved[a] < Moves[a]
    /\ moved' = [moved EXCEPT ![a] = @ + 1]
    /\ Goes(a, "stopping")
    /\ calm' = {m \in calm : m.to # a}
    /\ UNCHANGED <<pylon, outbound, thread, receivers, network, count, restarted, received, lost>>

(* AGENT_STOP: unregisterEntity() removes the receiver if it is this one,  *)
(* which it is: no copy comes to a pylon where another one is registered,  *)
Remove(a) ==
    LET p == where[a].node IN
    /\ where[a].step = "stopping"
    /\ Goes(a, "removed")
    /\ receivers' = [receivers EXCEPT ![p] = @ \ {a}]
    /\ UNCHANGED <<pylon, outbound, thread, network, count, moved, restarted, history>>

Destinations(p) == IF SelfMoves THEN Pylons ELSE Pylons \ {p}

(* and tells the server; then the event cycle gives the agent to its node, *)
(* whose sendAgent() sends it, both by the OUTBOUND queue of this thread.  *)
Leave(a) ==
    LET p == where[a].node IN
    /\ where[a].step = "removed"
    /\ Goes(a, "away")
    /\ \E q \in Destinations(p) :
        LET m == [kind |-> "agent", from |-> a, nr |-> moved[a], to |-> q] IN
        /\ outbound' = [outbound EXCEPT ![p] = @ \o <<[kind |-> "unreg", from |-> a], m>>]
        /\ calm' = IF Settled(q) /\ Connected(p) THEN calm \cup {m} ELSE calm
    /\ UNCHANGED <<pylon, thread, receivers, network, count, moved, restarted, received, lost>>

(* Mutant: a wave to an entity of this pylon skips OUTBOUND. *)
SendDirect(a) ==
    LET p == where[a].node IN
    /\ where[a].step \in {"in", "stopping"}
    /\ count[a] < Quota[a]
    /\ count' = [count EXCEPT ![a] = @ + 1]
    /\ \E b \in Agents \ {a} :
        LET m == [kind |-> "wave", from |-> a, nr |-> count[a] + 1, to |-> b] IN
        IF Local(p, m)
        THEN inbound' = [inbound EXCEPT ![p] = Append(@, m)] /\ UNCHANGED outbound
        ELSE outbound' = [outbound EXCEPT ![p] = Append(@, m)] /\ UNCHANGED inbound
    /\ UNCHANGED <<pylon, serving, receivers, network, where, moved, restarted, history>>

(* send(): an agent that has been told to stop may still handle what was  *)
(* posted before.                                                          *)
Send(a) ==
    LET p == where[a].node IN
    /\ where[a].step \in {"in", "stopping"}
    /\ count[a] < Quota[a]
    /\ count' = [count EXCEPT ![a] = @ + 1]
    /\ \E b \in Agents \ {a} :
        LET m == [kind |-> "wave", from |-> a, nr |-> count[a] + 1, to |-> b] IN
        /\ outbound' = [outbound EXCEPT ![p] = Append(@, m)]
        /\ calm' = IF Settled(b) /\ Connected(p) THEN calm \cup {m} ELSE calm
    /\ UNCHANGED <<pylon, thread, receivers, network, where, moved, restarted, received, lost>>

(* Somebody starts an agent anew, on another node, when the connection of  *)
(* its node is lost or the agent was lost on its way.  An old copy is left *)
(* where it is.  By then onClose() has run, and the server has read what   *)
(* the node had registered.                                                *)
Restart(a) ==
    /\ a \in MayRestart \ restarted
    /\ \/ where[a].step = "in" /\ conn[where[a].node] = "closed" /\ where[a].node \in suspended
       \/ where[a].step = "away" /\ \E m \in lost \cap Transit : m.from = a /\ m.nr = moved[a]
    /\ \A p \in Pylons : ~InSeq(toServer[p], [kind |-> "reg", from |-> a])
    /\ \E q \in Pylons :
        conn[q] = "open" /\ where' = [where EXCEPT ![a] = [step |-> "putting", node |-> q]]
    /\ restarted' = restarted \cup {a}
    /\ UNCHANGED <<pylon, outbound, thread, receivers, network, count, moved, history>>

(* An old copy is stopped: it unregisters from its own pylon. *)
StopCopy(a) ==
    \E p \in Pylons \ {where[a].node} :
        /\ a \in receivers[p]
        /\ receivers' = [receivers EXCEPT ![p] = @ \ {a}]
        /\ outbound' = [outbound EXCEPT ![p] = Append(@, [kind |-> "unreg", from |-> a])]
        /\ UNCHANGED <<pylon, thread, network, agents, history>>

-----------------------------------------------------------------------------
Next ==
    \/ \E p \in Pylons :
           \/ Open(p) \/ Close(p) \/ Suspend(p) \/ Stop(p)
           \/ ServeOutbound(p) \/ ServeInbound(p) \/ Deliver(p) \/ Read(p)
           \/ Server(p)
    \/ \E e \in Entities : Put(e) \/ Add(e)
    \/ \E a \in Agents :
           PostMove(a) \/ Remove(a) \/ Leave(a) \/ Send(a) \/ Restart(a) \/ StopCopy(a)

Spec == Init /\ [][Next]_vars

-----------------------------------------------------------------------------
(* Properties. *)

OnTheWay(m) == \E p \in Pylons :
    InSeq(outbound[p], m) \/ InSeq(toServer[p], m) \/ InSeq(toPylon[p], m)
    \/ InSeq(inbound[p], m) \/ serving[p] = m

Arrived(m) ==
    IF m.kind = "agent" THEN ~OnTheWay(m) /\ m \notin lost
    ELSE \E i \in DOMAIN received[m.to] : received[m.to][i].wave = m

(* A wave to an entity that the server knows, or an agent sent to such a   *)
(* node, is not dropped while the connections hold and the entity stays    *)
(* (WebSocketPylon 363-406, WebSocketServerEntity 132-146).                *)
CalmArrives == \A m \in calm : m \notin lost /\ (OnTheWay(m) \/ Arrived(m))

(* The server follows the agents: an entity that runs behind an open       *)
(* connection, and of which nothing is left to be told, is in the table    *)
(* with the socket of its pylon, whatever an old copy of it says later,    *)
(* that was cut off and, as Restart asks, had its registrations read       *)
(* (WebSocketServerEntity 148-171).                                        *)
TableFollows ==
    \A e \in Entities :
        where[e].step = "in" /\ Connected(where[e].node) /\ ~Registering(e)
            => table[e] = where[e].node

(* Waves of one agent to another are taken in the order of sending, by way *)
(* of the server or not, and wherever both have moved meanwhile: an agent  *)
(* cannot overtake its registrations (lines 363-406).  Only an agent that  *)
(* was started anew may hear them, or be heard, out of order.              *)
SenderOrder ==
    \A a \in Agents \ restarted : \A i, j \in DOMAIN received[a] :
        LET first == received[a][i]
            later == received[a][j]
        IN  i < j /\ first.wave.from = later.wave.from /\ first.wave.from \notin restarted
                => first.wave.nr < later.wave.nr

(* A wave is not both dropped and received, and not received twice by the  *)
(* same pylon (lines 363-406); an agent is in one place: where it runs it  *)
(* is not on the way as well, and it is on the way once (Node 437-469,     *)
(* MobileCompositeAgent 224-236).                                          *)
OnceOnly ==
    \A a \in Agents :
        LET transits == {m \in Transit : m.from = a /\ OnTheWay(m)} IN
        /\ \A i, j \in DOMAIN received[a] :
               /\ received[a][i].wave \notin lost
               /\ received[a][i] = received[a][j] => i = j
        /\ Cardinality(transits) <= 1
        /\ transits # {} => where[a].step = "away"

(* What a reader may take for granted and the code does not keep: an agent *)
(* that is sent to another node gets there or comes back (Node 459-469).   *)
AgentSurvives == \A a \in Agents : \A m \in lost : ~(m.kind = "agent" /\ m.from = a)

(* ... and the server forgets the sockets that are closed (78-80).         *)
TableForgets == \A e \in Entities : table[e] # Nobody => conn[table[e]] # "closed"

=============================================================================
