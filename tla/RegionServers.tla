--------------------------- MODULE RegionServers ---------------------------
(***************************************************************************)
(* The WS Regions protocol (wsRegions/): every agent has a home region     *)
(* server, the one it registered with; the agent may move to nodes of      *)
(* other regions, and waves for it keep reaching it through its home.      *)
(* The state is that of the region servers (RegionServer, AgentStatus), of *)
(* the messaging shards and pylons of the agents (WSRegionsShard,          *)
(* WSRegionsPylon), and the WebSocket connections between them, which are  *)
(* FIFO and stay open.                                                     *)
(*                                                                         *)
(* A handler is one step: a server with one decoder thread (Java-WebSocket *)
(* has one per processor) runs its handlers one after the other, and what  *)
(* they share with the rest of the system are the connections.  The wave   *)
(* that carries a serialized agent from node to node is not in the         *)
(* connections: the agent is in transit for as long as it likes.           *)
(***************************************************************************)
EXTENDS Naturals, Sequences, FiniteSets

CONSTANTS Servers,   \* the region servers, all connected with each other
          Nodes,     \* the nodes, each with one WSRegionsPylon
          Agents,
          Region,    \* node -> the server its pylon is connected to
          Origin,    \* agent -> the node it is started on
          Movers,    \* the agents that move
          Impatient, \* may an agent call moveTo while it waits to leave?
          MaxWaves,  \* bound: the waves sent
          MaxMoves,  \* bound: the calls of moveTo
          NoNode

ASSUME RegionAssumption ==
    Region \in [Nodes -> Servers] /\ NoNode \notin Nodes /\ Nodes \cap Servers = {}
ASSUME OriginAssumption == Origin \in [Agents -> Nodes] /\ Movers \subseteq Agents
ASSUME BoundsAssumption == MaxWaves \in Nat /\ MaxMoves \in Nat /\ Impatient \in BOOLEAN

(* An agent's name ends in the name of its home region: extractHomeRegion. *)
Home(a) == Region[Origin[a]]

Ids == 1 .. MaxWaves
Wires == {w \in Nodes \X Servers : w[2] = Region[w[1]]}
         \cup {w \in Servers \X Nodes : w[1] = Region[w[2]]}
         \cup {w \in Servers \X Servers : w[1] # w[2]}

(* Constants.MessageType, and the waves, which only carry their number and *)
(* how often they went from server to server.                              *)
ProtocolTypes == {"REGISTER", "CONNECT", "REQ_LEAVE", "REQ_BUFFER", "AGENT_UPDATE", "REQ_ACCEPT"}
Message == [type : ProtocolTypes, agent : Agents]
           \cup [type : {"WAVE"}, id : Ids, hops : Nat]

VARIABLES
    phase,   \* agent -> where its messaging shard is in its life
    node,    \* agent -> the node it is on, or comes from
    target,  \* agent -> nextMoveTarget, then the TARGET of its AGENT_STOP
    inQueue, \* agent -> the shard's inQueue, meaningful while it moves
    got,     \* agent -> the waves posted to its event queue
    status,  \* agent -> its status at its home server
    conn,    \* agent -> its clientConnection at its home server
    last,    \* agent -> its lastLocation at its home server
    saved,   \* agent -> the messages saved at its home server
    guests,  \* server -> agent -> its connection in guestAgents, or NoNode
    chan,    \* wire -> the messages on it
    waves,   \* history: the waves sent, as [from, to, known]; their number is the index
    moves    \* history: calls of moveTo

shardVars == <<phase, node, target, inQueue, got>>
homeVars == <<status, conn, last, saved>>
vars == <<shardVars, homeVars, guests, chan, waves, moves>>

Wave(i, h) == [type |-> "WAVE", id |-> i, hops |-> h]
Msg(t, a) == [type |-> t, agent |-> a]

TypeOK ==
    /\ phase \in [Agents -> {"new", "running", "leaving", "stopping", "transit"}]
    /\ node \in [Agents -> Nodes]
    /\ target \in [Agents -> Nodes \cup {NoNode}]
    /\ inQueue \in [Agents -> Seq(Ids)]
    /\ got \in [Agents -> Seq(Ids)]
    /\ status \in [Agents -> {"none", "HOME", "OFFLINE", "REMOTE"}]
    /\ conn \in [Agents -> Nodes \cup {NoNode}]
    /\ last \in [Agents -> Servers]
    /\ saved \in [Agents -> Seq(Message)]
    /\ guests \in [Servers -> [Agents -> Nodes \cup {NoNode}]]
    /\ chan \in [Wires -> Seq(Message)]
    /\ waves \in Seq([from : Agents, to : Agents, known : BOOLEAN])
    /\ Len(waves) <= MaxWaves
    /\ moves \in 0 .. MaxMoves

Init ==
    /\ phase = [a \in Agents |-> "new"]
    /\ node = Origin
    /\ target = [a \in Agents |-> NoNode]
    /\ inQueue = [a \in Agents |-> <<>>]
    /\ got = [a \in Agents |-> <<>>]
    /\ status = [a \in Agents |-> "none"]
    /\ conn = [a \in Agents |-> NoNode]
    /\ last = [a \in Agents |-> Home(a)]
    /\ saved = [a \in Agents |-> <<>>]
    /\ guests = [s \in Servers |-> [a \in Agents |-> NoNode]]
    /\ chan = [w \in Wires |-> <<>>]
    /\ waves = <<>>
    /\ moves = 0

-----------------------------------------------------------------------------
(* The connections. *)

Up(a) == <<node[a], Region[node[a]]>>

Send(w, m) == chan' = [chan EXCEPT ![w] = Append(@, m)]

(* The message at the head of wire w is handled; ms go out on wire v. *)
Pass(w, v, ms) == chan' = [chan EXCEPT ![w] = Tail(@), ![v] = @ \o ms]
Drop(w) == chan' = [chan EXCEPT ![w] = Tail(@)]

Incoming(w, t) == chan[w] # <<>> /\ Head(chan[w]).type = t

-----------------------------------------------------------------------------
(* The agents: WSRegionsShard. *)

(* The pylon's agentList: registered on AGENT_START, removed on AGENT_STOP. *)
Registered(a, n) == node[a] = n /\ phase[a] \in {"running", "leaving", "stopping"}

(* AGENT_START, the first one: startShard(REGISTER). *)
Start(a) ==
    /\ phase[a] = "new"
    /\ phase' = [phase EXCEPT ![a] = "running"]
    /\ Send(Up(a), Msg("REGISTER", a))
    /\ UNCHANGED <<node, target, inQueue, got, homeVars, guests, waves, moves>>

(* An agent sends a wave, also while it waits for REQ_ACCEPT: outQueue is  *)
(* created but nothing is ever put into it.                                *)
SendWave(b, a) ==
    /\ phase[b] \in {"running", "leaving", "stopping"}
    /\ Len(waves) < MaxWaves
    /\ waves' = Append(waves, [from |-> b, to |-> a, known |-> status[a] # "none"])
    /\ Send(Up(b), Wave(Len(waves) + 1, 0))
    /\ UNCHANGED <<shardVars, homeVars, guests, moves>>

(* moveTo, and the shard's handling of BEFORE_MOVE.  Nothing keeps the     *)
(* agent from calling it again: the second call makes new queues.          *)
Move(a, n) ==
    /\ phase[a] = "running" \/ (Impatient /\ phase[a] = "leaving")
    /\ n # node[a]
    /\ moves < MaxMoves
    /\ moves' = moves + 1
    /\ phase' = [phase EXCEPT ![a] = "leaving"]
    /\ target' = [target EXCEPT ![a] = n]
    /\ inQueue' = [inQueue EXCEPT ![a] = <<>>]
    /\ Send(Up(a), Msg("REQ_LEAVE", a))
    /\ UNCHANGED <<node, got, homeVars, guests, waves>>

(* The agent's thread handles AGENT_STOP: the shard is unregistered, the   *)
(* agent is serialized, inQueue included, and sent to the target node.     *)
Depart(a) ==
    /\ phase[a] = "stopping"
    /\ phase' = [phase EXCEPT ![a] = "transit"]
    /\ UNCHANGED <<node, target, inQueue, got, homeVars, guests, chan, waves, moves>>

(* AGENT_START after the move: registered with the pylon of the new node,  *)
(* the shard posts what it queued and connects.                            *)
Arrive(a) ==
    /\ phase[a] = "transit"
    /\ phase' = [phase EXCEPT ![a] = "running"]
    /\ node' = [node EXCEPT ![a] = target[a]]
    /\ target' = [target EXCEPT ![a] = NoNode]
    /\ got' = [got EXCEPT ![a] = @ \o inQueue[a]]
    /\ inQueue' = [inQueue EXCEPT ![a] = <<>>]
    /\ Send(<<target[a], Region[target[a]]>>, Msg("CONNECT", a))
    /\ UNCHANGED <<homeVars, guests, waves, moves>>

(* The pylon's processMessage: a wave for an entity that is not registered *)
(* is logged and dropped; one for an agent that is to move is queued.      *)
ReceiveWave(n) ==
    LET w == <<Region[n], n>> IN
    /\ Incoming(w, "WAVE")
    /\ LET i == Head(chan[w]).id
           a == waves[i].to
       IN IF ~Registered(a, n)
          THEN UNCHANGED <<inQueue, got>>
          ELSE IF phase[a] = "running"
          THEN got' = [got EXCEPT ![a] = Append(@, i)] /\ UNCHANGED inQueue
          ELSE inQueue' = [inQueue EXCEPT ![a] = Append(@, i)] /\ UNCHANGED got
    /\ Drop(w)
    /\ UNCHANGED <<phase, node, target, homeVars, guests, waves, moves>>

(* REQ_ACCEPT: AGENT_STOP is posted.  In a shard that does not move it     *)
(* finds no inQueue and throws; in one that stops, it is posted in vain.   *)
ReceiveAccept(n) ==
    LET w == <<Region[n], n>> IN
    /\ Incoming(w, "REQ_ACCEPT")
    /\ LET a == Head(chan[w]).agent
       IN phase' = [phase EXCEPT ![a] =
                       IF Registered(a, n) /\ @ = "leaving" THEN "stopping" ELSE @]
    /\ Drop(w)
    /\ UNCHANGED <<node, target, inQueue, got, homeVars, guests, waves, moves>>

-----------------------------------------------------------------------------
(* The region servers: RegionServer.  s handles the head of a wire to it.  *)

AtHome(s, a) == Home(a) = s /\ status[a] # "none"   \* in regionHomeAgents

(* w is a wire to s and m the message at its head. *)
Handles(s, w, t) == w[2] = s /\ Incoming(w, t)

Register(s, w) ==
    /\ Handles(s, w, "REGISTER")
    /\ LET a == Head(chan[w]).agent IN
       /\ status' = [status EXCEPT ![a] = "HOME"]
       /\ conn' = [conn EXCEPT ![a] = w[1]]
       /\ last' = [last EXCEPT ![a] = s]
       /\ saved' = [saved EXCEPT ![a] = <<>>]
    /\ Drop(w)
    /\ UNCHANGED <<shardVars, guests, waves, moves>>

(* The agent is back in its home region: it gets what was saved for it. *)
ConnectHome(s, w) ==
    /\ Handles(s, w, "CONNECT")
    /\ LET a == Head(chan[w]).agent IN
       /\ AtHome(s, a)
       /\ IF status[a] = "OFFLINE"
          THEN /\ conn' = [conn EXCEPT ![a] = w[1]]
               /\ last' = [last EXCEPT ![a] = s]
               /\ status' = [status EXCEPT ![a] = "HOME"]
               /\ saved' = [saved EXCEPT ![a] = <<>>]
               /\ Pass(w, <<s, w[1]>>, saved[a])
          ELSE UNCHANGED homeVars /\ Drop(w)
    /\ UNCHANGED <<shardVars, guests, waves, moves>>

(* The agent is a guest: its home server is told where it is. *)
ConnectGuest(s, w) ==
    /\ Handles(s, w, "CONNECT")
    /\ LET a == Head(chan[w]).agent IN
       /\ ~AtHome(s, a)
       /\ IF guests[s][a] # NoNode
          THEN UNCHANGED guests /\ Drop(w)
          ELSE /\ guests' = [guests EXCEPT ![s][a] = w[1]]
               /\ IF Home(a) # s
                  THEN Pass(w, <<s, Home(a)>>, <<Msg("AGENT_UPDATE", a)>>)
                  ELSE Drop(w)
    /\ UNCHANGED <<shardVars, homeVars, waves, moves>>

(* Mutants of ReqLeave: the status stays HOME; the guest is removed at once. *)
ReqLeaveNoBuffer(s, w) ==
    /\ Handles(s, w, "REQ_LEAVE")
    /\ LET a == Head(chan[w]).agent IN
       IF AtHome(s, a)
       THEN Pass(w, <<s, conn[a]>>, <<Msg("REQ_ACCEPT", a)>>)
       ELSE IF guests[s][a] # NoNode /\ Home(a) # s
            THEN Pass(w, <<s, Home(a)>>, <<Msg("REQ_BUFFER", a)>>)
            ELSE Drop(w)
    /\ UNCHANGED <<shardVars, homeVars, guests, waves, moves>>

ReqLeaveForgets(s, w) ==
    /\ Handles(s, w, "REQ_LEAVE")
    /\ LET a == Head(chan[w]).agent IN
       IF AtHome(s, a)
       THEN /\ status' = [status EXCEPT ![a] = "OFFLINE"]
            /\ Pass(w, <<s, conn[a]>>, <<Msg("REQ_ACCEPT", a)>>)
            /\ UNCHANGED guests
       ELSE /\ guests' = [guests EXCEPT ![s][a] = NoNode]
            /\ Pass(w, <<s, Home(a)>>, <<Msg("REQ_BUFFER", a)>>)
            /\ UNCHANGED status
    /\ UNCHANGED <<shardVars, conn, last, saved, waves, moves>>

ReqLeave(s, w) ==
    /\ Handles(s, w, "REQ_LEAVE")
    /\ LET a == Head(chan[w]).agent IN
       IF AtHome(s, a)
       THEN /\ status' = [status EXCEPT ![a] = "OFFLINE"]
            /\ Pass(w, <<s, conn[a]>>, <<Msg("REQ_ACCEPT", a)>>)
       ELSE /\ UNCHANGED status
            /\ IF guests[s][a] # NoNode /\ Home(a) # s
               THEN Pass(w, <<s, Home(a)>>, <<Msg("REQ_BUFFER", a)>>)
               ELSE Drop(w)
    /\ UNCHANGED <<shardVars, conn, last, saved, guests, waves, moves>>

(* Mutant of ReqBuffer: nobody is answered. *)
ReqBufferSilent(s, w) ==
    /\ Handles(s, w, "REQ_BUFFER")
    /\ status' = [status EXCEPT ![Head(chan[w]).agent] = "OFFLINE"]
    /\ Drop(w)
    /\ UNCHANGED <<shardVars, conn, last, saved, guests, waves, moves>>

(* homeServers.get throws on the server's own name, after the status is set. *)
ReqBuffer(s, w) ==
    /\ Handles(s, w, "REQ_BUFFER")
    /\ LET a == Head(chan[w]).agent IN
       IF AtHome(s, a)
       THEN /\ status' = [status EXCEPT ![a] = "OFFLINE"]
            /\ IF last[a] # s
               THEN Pass(w, <<s, last[a]>>, <<Msg("REQ_ACCEPT", a)>>)
               ELSE Drop(w)
       ELSE UNCHANGED status /\ Drop(w)
    /\ UNCHANGED <<shardVars, conn, last, saved, guests, waves, moves>>

(* Mutant of ReqAccept: the guest stays. *)
ReqAcceptKeeps(s, w) ==
    /\ Handles(s, w, "REQ_ACCEPT")
    /\ LET a == Head(chan[w]).agent IN
       IF guests[s][a] # NoNode
       THEN Pass(w, <<s, guests[s][a]>>, <<Msg("REQ_ACCEPT", a)>>)
       ELSE Drop(w)
    /\ UNCHANGED <<shardVars, homeVars, guests, waves, moves>>

ReqAccept(s, w) ==
    /\ Handles(s, w, "REQ_ACCEPT")
    /\ LET a == Head(chan[w]).agent IN
       IF guests[s][a] # NoNode
       THEN /\ Pass(w, <<s, guests[s][a]>>, <<Msg("REQ_ACCEPT", a)>>)
            /\ guests' = [guests EXCEPT ![s][a] = NoNode]
       ELSE Drop(w) /\ UNCHANGED guests
    /\ UNCHANGED <<shardVars, homeVars, waves, moves>>

(* Mutant of AgentUpdate: what was saved stays saved. *)
AgentUpdateNoDrain(s, w) ==
    /\ Handles(s, w, "AGENT_UPDATE")
    /\ LET a == Head(chan[w]).agent IN
       IF AtHome(s, a)
       THEN /\ last' = [last EXCEPT ![a] = w[1]]
            /\ status' = [status EXCEPT ![a] = "REMOTE"]
       ELSE UNCHANGED <<last, status>>
    /\ Drop(w)
    /\ UNCHANGED <<shardVars, conn, saved, guests, waves, moves>>

(* What was saved follows the agent to the region it is in now. *)
AgentUpdate(s, w) ==
    /\ Handles(s, w, "AGENT_UPDATE")
    /\ LET a == Head(chan[w]).agent IN
       IF AtHome(s, a)
       THEN /\ last' = [last EXCEPT ![a] = w[1]]
            /\ status' = [status EXCEPT ![a] = "REMOTE"]
            /\ saved' = [saved EXCEPT ![a] = <<>>]
            /\ Pass(w, <<s, w[1]>>, [i \in DOMAIN saved[a] |->
                                       [saved[a][i] EXCEPT !.hops = @ + 1]])
       ELSE UNCHANGED <<last, status, saved>> /\ Drop(w)
    /\ UNCHANGED <<shardVars, conn, guests, waves, moves>>

(* Mutant of Content: the newest wave is saved first. *)
ContentPush(s, w) ==
    /\ Handles(s, w, "WAVE")
    /\ LET m == Head(chan[w])
           a == waves[m.id].to
       IN IF AtHome(s, a) /\ status[a] = "OFFLINE"
          THEN saved' = [saved EXCEPT ![a] = <<m>> \o @] /\ Drop(w)
          ELSE /\ UNCHANGED saved
               /\ IF AtHome(s, a) /\ status[a] = "HOME" THEN Pass(w, <<s, conn[a]>>, <<m>>)
                  ELSE IF AtHome(s, a) THEN Pass(w, <<s, last[a]>>, <<Wave(m.id, m.hops + 1)>>)
                  ELSE IF guests[s][a] # NoNode THEN Pass(w, <<s, guests[s][a]>>, <<m>>)
                  ELSE IF Home(a) # s THEN Pass(w, <<s, Home(a)>>, <<Wave(m.id, m.hops + 1)>>)
                  ELSE Drop(w)
    /\ UNCHANGED <<shardVars, status, conn, last, guests, waves, moves>>

(* contentMessageHandler: a wave goes to the agent, to its buffer, to the  *)
(* server it is with, or to its home server.                               *)
Content(s, w) ==
    /\ Handles(s, w, "WAVE")
    /\ LET m == Head(chan[w])
           a == waves[m.id].to
           Forward(t) == Pass(w, <<s, t>>, <<Wave(m.id, m.hops + 1)>>)
           Deliver(n) == Pass(w, <<s, n>>, <<m>>)
       IN \/ /\ AtHome(s, a) /\ status[a] = "HOME"
             /\ Deliver(conn[a]) /\ UNCHANGED saved
          \/ /\ AtHome(s, a) /\ status[a] = "OFFLINE"
             /\ saved' = [saved EXCEPT ![a] = Append(@, m)]
             /\ Drop(w)
          \/ /\ AtHome(s, a) /\ status[a] = "REMOTE"
             /\ Forward(last[a]) /\ UNCHANGED saved
          \/ /\ ~AtHome(s, a) /\ guests[s][a] # NoNode
             /\ Deliver(guests[s][a]) /\ UNCHANGED saved
          \/ /\ ~AtHome(s, a) /\ guests[s][a] = NoNode /\ Home(a) # s
             /\ Forward(Home(a)) /\ UNCHANGED saved
          \/ /\ ~AtHome(s, a) /\ guests[s][a] = NoNode /\ Home(a) = s
             /\ Drop(w) /\ UNCHANGED saved
    /\ UNCHANGED <<shardVars, status, conn, last, guests, waves, moves>>

-----------------------------------------------------------------------------
Serve(s, w) ==
    \/ Register(s, w) \/ ConnectHome(s, w) \/ ConnectGuest(s, w) \/ ReqLeave(s, w)
    \/ ReqBuffer(s, w) \/ ReqAccept(s, w) \/ AgentUpdate(s, w) \/ Content(s, w)

Receive(n) == ReceiveWave(n) \/ ReceiveAccept(n)

Next ==
    \/ \E a \in Agents : Start(a) \/ Depart(a) \/ Arrive(a)
    \/ \E a, b \in Agents : a # b /\ SendWave(b, a)
    \/ \E a \in Movers, n \in Nodes : Move(a, n)
    \/ \E s \in Servers, w \in Wires : Serve(s, w)
    \/ \E n \in Nodes : Receive(n)

Spec == Init /\ [][Next]_vars

(* The connections' threads handle what comes; an agent that was stopped   *)
(* departs and arrives.  Nobody has to start, send or move.                *)
FairSpec ==
    /\ Spec
    /\ \A s \in Servers, w \in Wires : WF_vars(Serve(s, w))
    /\ \A n \in Nodes : WF_vars(Receive(n))
    /\ \A a \in Agents : WF_vars(Depart(a) \/ Arrive(a))

-----------------------------------------------------------------------------
(* Properties.                                                             *)

Copies(i, seq) == Cardinality({k \in DOMAIN seq : seq[k].type = "WAVE" /\ seq[k].id = i})
OnWires(i) == UNION {{<<w, k>> : k \in {l \in DOMAIN chan[w] : chan[w][l].type = "WAVE"
                                                             /\ chan[w][l].id = i}}
                      : w \in Wires}
InShard(i, seq) == Cardinality({k \in DOMAIN seq : seq[k] = i})

(* Every wave is somewhere, once, until it is in the event queue of the    *)
(* agent it is for: moves, buffers, forwarding and queues in the shard     *)
(* neither lose nor double it, if its agent was registered when it was     *)
(* sent.                                                                   *)
NothingLost ==
    \A i \in DOMAIN waves :
        LET a == waves[i].to
            n == Cardinality(OnWires(i)) + Copies(i, saved[a]) + InShard(i, inQueue[a])
                 + InShard(i, got[a])
        IN n <= 1 /\ (waves[i].known => n = 1)

(* A wave goes from server to server twice at most: to the home server of  *)
(* its agent and on to the server the agent is with; the servers never     *)
(* send it to and fro between them.                                        *)
TwoHops ==
    \A w \in Wires : \A k \in DOMAIN chan[w] :
        chan[w][k].type = "WAVE" => chan[w][k].hops <= 2

(* Who sends from a node of the home region of an agent, and stays there,  *)
(* reaches it in the order of sending, wherever the agent goes meanwhile.  *)
HomeOrder ==
    \A a \in Agents : \A k, l \in DOMAIN got[a] :
        LET b == waves[got[a][k]].from
        IN k < l /\ b = waves[got[a][l]].from /\ b \notin Movers /\ Region[Origin[b]] = Home(a)
           => got[a][k] < got[a][l]

(* The servers agree with the agent on where it is: it is a guest of one   *)
(* server at most, on the node it runs on, and its home server knows which *)
(* server that is or is about to be told; it delivers at home only to a    *)
(* shard that is there.                                                    *)
WhereItIs ==
    \A a \in Agents :
        /\ \A s \in Servers : guests[s][a] # NoNode =>
              /\ s # Home(a) /\ guests[s][a] = node[a] /\ phase[a] \in {"running", "leaving"}
              /\ last[a] = s \/ status[a] = "OFFLINE"
        /\ status[a] = "REMOTE" => guests[last[a]][a] = node[a]
        /\ status[a] = "HOME" => conn[a] = node[a] /\ phase[a] \in {"running", "leaving"}

(* "Saved messages for the agents that are OFFLINE": nothing stays behind  *)
(* in the buffer of an agent that is connected.                            *)
SavedWhileOffline == \A a \in Agents : saved[a] # <<>> => status[a] = "OFFLINE"

(* An agent that asked to leave does arrive at its target. *)
MoveCompletes ==
    \A a \in Agents : phase[a] = "leaving" ~> phase[a] = "running"

(* A wave for a registered agent reaches its event queue, once the agent   *)
(* no longer waits to leave.                                               *)
Delivered ==
    \A i \in Ids, a \in Agents :
        (i \in DOMAIN waves /\ waves[i].to = a /\ waves[i].known)
            ~> \E k \in DOMAIN got[a] : got[a][k] = i

(* inQueue: "Between triggering a move and actually stopping the agent,    *)
(* this stores any received messages, that will be posted on the event     *)
(* queue after the agent arrives."                                         *)
QueuedIsPosted ==
    [][\A a \in Agents : \A k \in DOMAIN inQueue[a] :
          \/ \E l \in DOMAIN inQueue'[a] : inQueue'[a][l] = inQueue[a][k]
          \/ \E l \in DOMAIN got'[a] : got'[a][l] = inQueue[a][k]]_vars

(* OFFLINE: "The agent is disconnected and the messages will be saved for  *)
(* it": while it runs and waits for nothing, it is about to be connected.  *)
OfflineIsDisconnected ==
    \A a \in Agents :
        status[a] = "OFFLINE" /\ phase[a] = "running" =>
            \E w \in Wires : \E k \in DOMAIN chan[w] :
                chan[w][k] \in {Msg("CONNECT", a), Msg("AGENT_UPDATE", a)}

(* BEFORE_MOVE: "create queues, no messages sent / received beyond this    *)
(* point".                                                                 *)
OutgoingWaits ==
    [][waves' # waves =>
          \E b \in Agents : phase[b] = "running" /\ chan'[Up(b)] # chan[Up(b)]]_vars

=============================================================================
