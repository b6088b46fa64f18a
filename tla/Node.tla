-------------------------------- MODULE Node --------------------------------
(***************************************************************************)
(* core/node/Node.java and core/mobileComposite/MobileCompositeAgent.java: *)
(* nodes that start their agents, stop by themselves when no agent runs    *)
(* any more, and send agents to each other.  An agent that moves packs its *)
(* shards, leaves an object behind that is TRANSIENT for ever, and arrives *)
(* as a new object that unpacks them.                                      *)
(*                                                                         *)
(* Four kinds of threads: the one that calls start(), the Timer that calls *)
(* checkRunning() and from there stop(), the thread of each agent, and the *)
(* pylon's, which hands the node its messages one by one.  The two lists   *)
(* of a node are plain collections: entityOrder is changed by the threads  *)
(* of agents while start() iterates over it, registeredEntities by the     *)
(* pylon's while checkRunning() does.  How these iterators notice is       *)
(* modelled.  A search of entityOrder, by a START operation or             *)
(* sendAgent(), is one step here; that its stream may notice a change and  *)
(* throw is left out.                                                      *)
(*                                                                         *)
(* A node holds a pylon, registered under "pylon", and agents.  How the    *)
(* message with an agent travels is WebSocketPylon's subject: here it is   *)
(* in transit until its node takes it.  The event queue of an agent is     *)
(* CompositeAgent's.                                                       *)
(***************************************************************************)
EXTENDS Naturals, Sequences, FiniteSets, SequencesExt

CONSTANTS Nodes,
          Agents,
          Nobody,       \* null: no agent, no node, no message
          Loaded,       \* node -> the agents loaded on it, in the order of loading
          Designations, \* of the shards of mobile agents
          FirstShards,  \* agent -> the shards it is loaded with
          MaxMoves,     \* bound: agent -> its moves
          MaxEdits,     \* bound: agent -> its additions, removals and changes of shards
          MaxControls   \* bound: node -> the START operations it gets

(* A designation has no shard, or one that can be serialized, or one that  *)
(* is only recorded by its configuration.                                  *)
ShardSet == [Designations -> {"none", "ser", "non"}]
NoShards == [d \in Designations |-> "none"]

ASSUME LoadedAssumption ==
    /\ Loaded \in [Nodes -> Seq(Agents)]
    /\ \A n, m \in Nodes : \A i \in DOMAIN Loaded[n], j \in DOMAIN Loaded[m] :
           Loaded[n][i] = Loaded[m][j] => n = m /\ i = j
ASSUME ShardsAssumption == FirstShards \in [Agents -> ShardSet]
ASSUME BoundsAssumption ==
    /\ MaxMoves \in [Agents -> Nat] /\ MaxEdits \in [Agents -> Nat]
    /\ MaxControls \in [Nodes -> Nat]

(* shards: the map of shards; ser: serializedShards; non:                  *)
(* nonSerializedShardDesignations.                                         *)
Body == [shards : ShardSet, ser : SUBSET Designations, non : SUBSET Designations]

(* An inert object is in a state that no thread will ever take it out of.  *)
States == {"none", "stopped", "starting", "running", "stopping", "transient", "inert"}
Alive == {"starting", "running", "stopping"}
Message == [agent : Agents, to : Nodes, body : Body, state : States]

ASSUME NobodyAssumption == Nobody \notin Agents \cup Nodes \cup Message

VARIABLES
    phase,     \* node -> where start() is
    cursor,    \* node -> how many agents start() has started
    modified,  \* nodes whose entityOrder was changed since start() last began to iterate
    order,     \* node -> entityOrder, the pylon left out
    arrived,   \* node -> agents whose present object is registered under "AGENT"
    newKey,    \* nodes that got the key "AGENT" while checkRunning() iterates
    timer,     \* node -> where the Timer's thread is
    look,      \* node -> how many loaded agents this round has looked at
    toStop,    \* node -> what stop() has still to go through, from the end
    found,     \* node -> the agent a START operation has found
    controls,  \* node -> START operations so far
    state,     \* node -> agent -> the state of its object there
    body,      \* node -> agent -> the shards of that object
    leaving,   \* agent -> its thread on the way out: from, to, step and message
    transit,   \* messages with agents
    moves,     \* agent -> its moves
    edits,     \* agent -> its edits
    steady,    \* history: node -> agents that have run ever since this round began
    left,      \* history: agent -> the shards it last left with, after how many edits
    leavers,   \* history: node -> how many agents left while start() started agents
    revived    \* history: agents that were started while they were leaving

startup == <<phase, cursor, modified, leavers>>
watch   == <<newKey, timer, look, toStop>>
control == <<found, controls, revived>>
objects == <<state, body>>
travel  == <<leaving, transit, moves, left>>
vars == <<startup, order, arrived, watch, control, objects, travel, edits, steady>>

Phases == {"loaded", "starting", "listing", "up", "unwatched", "failed"}
Times == {"off", "idle", "begin", "scan", "stopping", "over", "dead"}
Way == [from : Nodes \cup {Nobody}, to : Nodes \cup {Nobody}, step : {"none", "asked", "exited", "packed"},
        message : Message \cup {Nobody}]
Departure == [shards : ShardSet, edits : Nat]
Copied == [agent : Agents, nr : Nat]

StartTypes ==
    /\ phase \in [Nodes -> Phases] /\ timer \in [Nodes -> Times]
    /\ \A n \in Nodes : timer[n] # "off" <=> phase[n] = "up"
    /\ cursor \in [Nodes -> Nat] /\ leavers \in [Nodes -> Nat]
    /\ look \in [Nodes -> Nat] /\ \A n \in Nodes : look[n] <= Len(Loaded[n])
    /\ modified \subseteq Nodes /\ newKey \subseteq Nodes
ListTypes == order \in [Nodes -> Seq(Agents)]
StopTypes == toStop \in [Nodes -> Seq(Copied)]
NameTypes ==
    /\ arrived \in [Nodes -> SUBSET Agents] /\ steady \in [Nodes -> SUBSET Agents]
    /\ revived \subseteq Agents
    /\ found \in [Nodes -> Agents \cup {Nobody}]
    /\ controls \in [Nodes -> Nat] /\ \A n \in Nodes : controls[n] <= MaxControls[n]
StateTypes == state \in [Nodes -> [Agents -> States]]
BodyTypes == body \in [Nodes -> [Agents -> Body]]
LeavingTypes == leaving \in [Agents -> Way]
TravelTypes ==
    /\ transit \subseteq Message
    /\ moves \in [Agents -> Nat] /\ edits \in [Agents -> Nat]
    /\ left \in [Agents -> Departure]

TypeOK ==
    /\ StartTypes /\ ListTypes /\ StopTypes /\ NameTypes
    /\ StateTypes /\ BodyTypes /\ LeavingTypes /\ TravelTypes

Stays == [from |-> Nobody, to |-> Nobody, step |-> "none", message |-> Nobody]
IsLoaded(n, a) == \E i \in DOMAIN Loaded[n] : Loaded[n][i] = a

Init ==
    /\ phase = [n \in Nodes |-> "loaded"]
    /\ cursor = [n \in Nodes |-> 0]
    /\ modified = {} /\ newKey = {}
    /\ order = Loaded
    /\ arrived = [n \in Nodes |-> {}]
    /\ timer = [n \in Nodes |-> "off"]
    /\ look = [n \in Nodes |-> 0]
    /\ toStop = [n \in Nodes |-> <<>>]
    /\ found = [n \in Nodes |-> Nobody]
    /\ controls = [n \in Nodes |-> 0]
    /\ state = [n \in Nodes |-> [a \in Agents |-> IF IsLoaded(n, a) THEN "stopped" ELSE "none"]]
    /\ body = [n \in Nodes |-> [a \in Agents |->
                  [shards |-> IF IsLoaded(n, a) THEN FirstShards[a] ELSE NoShards, ser |-> {}, non |-> {}]]]
    /\ leaving = [a \in Agents |-> Stays]
    /\ transit = {}
    /\ moves = [a \in Agents |-> 0]
    /\ edits = [a \in Agents |-> 0]
    /\ steady = [n \in Nodes |-> {}]
    /\ left = [a \in Agents |-> [shards |-> NoShards, edits |-> 0]]
    /\ leavers = [n \in Nodes |-> 0]
    /\ revived = {}

-----------------------------------------------------------------------------
(* start(), by the thread that has loaded the node. *)

Goes(n, a, s) == state' = [state EXCEPT ![n][a] = s]

Start(n) ==
    /\ phase[n] = "loaded"
    /\ phase' = [phase EXCEPT ![n] = "starting"]
    /\ modified' = modified \ {n}
    /\ UNCHANGED <<cursor, leavers, order, arrived, watch, control, objects, travel, edits, steady>>

(* startAndRegister(): the iterator of the list compares its position with *)
(* the size before it compares the number of modifications.                *)
StartNext(n) ==
    /\ phase[n] = "starting"
    /\ cursor[n] < Len(order[n])
    /\ IF n \in modified
       THEN phase' = [phase EXCEPT ![n] = "failed"] /\ UNCHANGED <<cursor, state>>
       ELSE /\ cursor' = [cursor EXCEPT ![n] = @ + 1]
            /\ Goes(n, order[n][cursor[n] + 1], "starting")
            /\ UNCHANGED phase
    /\ UNCHANGED <<modified, leavers, order, arrived, watch, control, body, travel, edits, steady>>

(* Mutant: the iterator misses the last entity. *)
MessagingStartedShort(n) ==
    /\ phase[n] = "starting"
    /\ cursor[n] + 1 >= Len(order[n])
    /\ phase' = [phase EXCEPT ![n] = "listing"]
    /\ modified' = modified \ {n}
    /\ UNCHANGED <<cursor, leavers, order, arrived, watch, control, objects, travel, edits, steady>>

(* The messaging shard is started, and start() iterates over the list once *)
(* more, for the registrations.                                            *)
MessagingStarted(n) ==
    /\ phase[n] = "starting"
    /\ cursor[n] >= Len(order[n])
    /\ phase' = [phase EXCEPT ![n] = "listing"]
    /\ modified' = modified \ {n}
    /\ UNCHANGED <<cursor, leavers, order, arrived, watch, control, objects, travel, edits, steady>>

(* The Timer is scheduled; not so if the list has changed before the last  *)
(* entity is registered: then the exception ends start().                  *)
Started(n) ==
    /\ phase[n] = "listing"
    /\ \/ /\ phase' = [phase EXCEPT ![n] = "up"]
          /\ timer' = [timer EXCEPT ![n] = "idle"]
       \/ /\ n \in modified
          /\ phase' = [phase EXCEPT ![n] = "unwatched"]
          /\ UNCHANGED timer
    /\ UNCHANGED <<cursor, modified, leavers, order, arrived, newKey, look, toStop, control,
                   objects, travel, edits, steady>>

-----------------------------------------------------------------------------
(* The Timer's thread: checkRunning(), and stop().                         *)

(* keySet().iterator(), of which "pylon" is the first element, *)
Tick(n) ==
    /\ timer[n] = "idle"
    /\ timer' = [timer EXCEPT ![n] = "begin"]
    /\ newKey' = newKey \ {n}
    /\ look' = [look EXCEPT ![n] = 0]
    /\ steady' = [steady EXCEPT ![n] = {a \in Agents : state[n][a] = "running"}]
    /\ UNCHANGED <<startup, order, arrived, toStop, control, objects, travel, edits>>

(* and "agent" the last, if agents were loaded: a key put in between ends  *)
(* the Timer's thread with a ConcurrentModificationException.  Without a   *)
(* second key the iteration is over before that is compared.               *)
NextKey(n) ==
    /\ timer[n] = "begin"
    /\ timer' = [timer EXCEPT ![n] = IF n \in newKey /\ Loaded[n] # <<>> THEN "dead" ELSE "scan"]
    /\ UNCHANGED <<startup, order, arrived, newKey, look, toStop, control, objects, travel, edits, steady>>

(* The object that was loaded; an object that has arrived is not in this   *)
(* list.                                                                   *)
LoadedRuns(n, a) == state[n][a] = "running" /\ a \notin arrived[n]

(* Mutant: the round goes on from where the last one has found an agent. *)
LookStale(n) ==
    /\ timer[n] = "scan"
    /\ look[n] < Len(Loaded[n])
    /\ look' = [look EXCEPT ![n] = @ + 1]
    /\ timer' = [timer EXCEPT ![n] =
                    IF LoadedRuns(n, Loaded[n][look[n] + 1]) /\ look[n] + 1 < Len(Loaded[n])
                    THEN "idle" ELSE @]
    /\ UNCHANGED <<startup, order, arrived, newKey, toStop, control, objects, travel, edits, steady>>

Look(n) ==
    /\ timer[n] = "scan"
    /\ look[n] < Len(Loaded[n])
    /\ IF LoadedRuns(n, Loaded[n][look[n] + 1])
       THEN timer' = [timer EXCEPT ![n] = "idle"] /\ UNCHANGED look
       ELSE look' = [look EXCEPT ![n] = @ + 1] /\ UNCHANGED timer
    /\ UNCHANGED <<startup, order, arrived, newKey, toStop, control, objects, travel, edits, steady>>

(* No active entity runs: stop(), over a copy of entityOrder. *)
BeginStop(n) ==
    /\ timer[n] = "scan"
    /\ look[n] = Len(Loaded[n])
    /\ timer' = [timer EXCEPT ![n] = "stopping"]
    /\ toStop' = [toStop EXCEPT ![n] =
                    [i \in DOMAIN order[n] |-> [agent |-> order[n][i], nr |-> moves[order[n][i]]]]]
    /\ UNCHANGED <<startup, order, arrived, newKey, look, control, objects, travel, edits, steady>>

(* An entity of the copy is stopped if it runs.  An agent that has moved   *)
(* away and come back is another object.                                   *)
StopNext(n) ==
    LET last == toStop[n][Len(toStop[n])] IN
    /\ timer[n] = "stopping"
    /\ toStop[n] # <<>>
    /\ toStop' = [toStop EXCEPT ![n] = SubSeq(@, 1, Len(@) - 1)]
    /\ IF state[n][last.agent] = "running" /\ moves[last.agent] = last.nr
       THEN /\ Goes(n, last.agent, "stopping")
            /\ steady' = [steady EXCEPT ![n] = @ \ {last.agent}]
       ELSE UNCHANGED <<state, steady>>
    /\ UNCHANGED <<startup, order, arrived, newKey, timer, look, control, body, travel, edits>>

(* The pylon, first in the list, has been stopped. *)
Stopped(n) ==
    /\ timer[n] = "stopping"
    /\ toStop[n] = <<>>
    /\ timer' = [timer EXCEPT ![n] = "over"]
    /\ UNCHANGED <<startup, order, arrived, newKey, look, toStop, control, objects, travel, edits, steady>>

Timing(n) == Tick(n) \/ NextKey(n) \/ Look(n) \/ BeginStop(n) \/ StopNext(n) \/ Stopped(n)

-----------------------------------------------------------------------------
(* loadShards(): addShard() throws where there is a shard already.         *)

CanLoad(b) == b.ser \cap b.non = {} /\ \A d \in b.ser \cup b.non : b.shards[d] = "none"

WithShards(b) == [b EXCEPT !.shards =
    [d \in Designations |-> IF d \in b.ser THEN "ser" ELSE IF d \in b.non THEN "non" ELSE b.shards[d]]]

(* Mutant: a shard that is not serializable is left behind. *)
PackedSerializable(b) ==
    [shards |-> NoShards,
     ser |-> b.ser \cup {d \in Designations : b.shards[d] = "ser"},
     non |-> b.non]

(* serialize(): the two maps are not emptied first.  *)
Packed(b) ==
    [shards |-> NoShards,
     ser |-> b.ser \cup {d \in Designations : b.shards[d] = "ser"},
     non |-> b.non \cup {d \in Designations : b.shards[d] = "non"}]

-----------------------------------------------------------------------------
(* The pylon's thread: parseReceivedMsg().                                 *)

Listening(n) ==
    phase[n] \in {"listing", "up", "unwatched"} /\ timer[n] # "over" /\ found[n] = Nobody

(* START: the entity is found in entityOrder, *)
Find(n) ==
    /\ Listening(n)
    /\ controls[n] < MaxControls[n]
    /\ controls' = [controls EXCEPT ![n] = @ + 1]
    /\ \E i \in DOMAIN order[n] : found' = [found EXCEPT ![n] = order[n][i]]
    /\ UNCHANGED <<startup, order, arrived, watch, revived, objects, travel, edits, steady>>

(* and started.  A TRANSIENT one believes that it has arrived.  Once its   *)
(* thread has taken its contexts away it has no pylon to register with.    *)
StartFound(n) ==
    LET a == found[n] IN
    /\ a # Nobody
    /\ found' = [found EXCEPT ![n] = Nobody]
    /\ \/ /\ state[n][a] = "stopped"
          /\ Goes(n, a, "starting")
          /\ UNCHANGED <<body, revived>>
       \/ /\ state[n][a] = "transient"
          /\ CanLoad(body[n][a])
          /\ Goes(n, a, IF leaving[a].step = "exited" THEN "starting" ELSE "inert")
          /\ body' = [body EXCEPT ![n][a] = WithShards(@)]
          /\ revived' = revived \cup {a}
       \/ /\ state[n][a] # "stopped"
          /\ state[n][a] = "transient" => ~CanLoad(body[n][a])
          /\ UNCHANGED <<objects, revived>>
    /\ UNCHANGED <<startup, order, arrived, watch, controls, travel, edits, steady>>

(* RECEIVE_AGENT: register under CategoryName.AGENT.toString(), and start. *)
Receive(n) ==
    /\ Listening(n)
    /\ \E m \in transit :
        LET a == m.agent IN
        /\ m.to = n
        /\ transit' = transit \ {m}
        /\ order' = [order EXCEPT ![n] = Append(@, a)]
        /\ modified' = IF phase[n] = "listing" THEN modified \cup {n} ELSE modified
        /\ newKey' = IF arrived[n] = {} THEN newKey \cup {n} ELSE newKey
        /\ arrived' = [arrived EXCEPT ![n] = @ \cup {a}]
        /\ IF m.state = "transient" /\ CanLoad(m.body)
           THEN /\ Goes(n, a, "starting")
                /\ body' = [body EXCEPT ![n][a] = WithShards(m.body)]
           ELSE /\ Goes(n, a, IF m.state = "transient" THEN "transient" ELSE "inert")
                /\ body' = [body EXCEPT ![n][a] = m.body]
    /\ UNCHANGED <<phase, cursor, leavers, timer, look, toStop, control, leaving, moves, left, edits, steady>>

-----------------------------------------------------------------------------
(* The threads of agents.                                                  *)

Runs(n, a) ==
    /\ state[n][a] = "starting"
    /\ Goes(n, a, "running")
    /\ UNCHANGED <<startup, order, arrived, watch, control, body, travel, edits, steady>>

NoLonger(n, a) ==
    /\ state[n][a] = "running"
    /\ Goes(n, a, "stopping")
    /\ steady' = [steady EXCEPT ![n] = @ \ {a}]

(* The agent has done its work. *)
AskStop(n, a) ==
    /\ NoLonger(n, a)
    /\ UNCHANGED <<startup, order, arrived, watch, control, body, travel, edits>>

(* moveTo(). *)
AskMove(n, a) ==
    /\ NoLonger(n, a)
    /\ leaving[a].step = "none"
    /\ moves[a] < MaxMoves[a]
    /\ moves' = [moves EXCEPT ![a] = @ + 1]
    /\ \E q \in Nodes \ {n} :
        leaving' = [leaving EXCEPT ![a] = [from |-> n, to |-> q, step |-> "asked", message |-> Nobody]]
    /\ UNCHANGED <<startup, order, arrived, watch, control, body, transit, left, edits>>

Moving(n, a) == leaving[a].step = "asked" /\ leaving[a].from = n

(* Mutant: the object that stays is not left TRANSIENT. *)
ExitStopped(n, a) ==
    /\ state[n][a] = "stopping"
    /\ Goes(n, a, "stopped")
    /\ leaving' = IF Moving(n, a) THEN [leaving EXCEPT ![a].step = "exited"] ELSE leaving
    /\ UNCHANGED <<startup, order, arrived, watch, control, body, transit, moves, left, edits, steady>>

(* The event cycle ends with AGENT_STOP. *)
Exit(n, a) ==
    /\ state[n][a] = "stopping"
    /\ IF Moving(n, a)
       THEN Goes(n, a, "transient") /\ leaving' = [leaving EXCEPT ![a].step = "exited"]
       ELSE Goes(n, a, "stopped") /\ UNCHANGED leaving
    /\ UNCHANGED <<startup, order, arrived, watch, control, body, transit, moves, left, edits, steady>>

(* Contexts are removed, and serialize(). *)
Pack(a) ==
    LET n == leaving[a].from
        b == body[n][a]
    IN
    /\ leaving[a].step = "exited"
    /\ body' = [body EXCEPT ![n][a] = Packed(b)]
    /\ left' = [left EXCEPT ![a] = [shards |-> b.shards, edits |-> edits[a]]]
    /\ leaving' = [leaving EXCEPT ![a].step = "packed",
                       ![a].message = [agent |-> a, to |-> leaving[a].to, body |-> Packed(b),
                                       state |-> state[n][a]]]
    /\ UNCHANGED <<startup, order, arrived, watch, control, state, transit, moves, edits, steady>>

(* sendAgent(): an entity of that name is taken out of entityOrder, if     *)
(* there is one.                                                           *)
SendAgent(a) ==
    LET n == leaving[a].from
        here == {i \in DOMAIN order[n] : order[n][i] = a}
    IN
    /\ leaving[a].step = "packed"
    /\ IF here = {} THEN UNCHANGED order
       ELSE \E i \in here : order' = [order EXCEPT ![n] = RemoveAt(@, i)]
    /\ modified' = IF phase[n] \in {"starting", "listing"} /\ here # {} THEN modified \cup {n} ELSE modified
    /\ leavers' = IF phase[n] = "starting" /\ here # {} THEN [leavers EXCEPT ![n] = @ + 1] ELSE leavers
    /\ transit' = transit \cup {leaving[a].message}
    /\ leaving' = [leaving EXCEPT ![a] = Stays]
    /\ UNCHANGED <<phase, cursor, arrived, watch, control, objects, moves, left, edits, steady>>

(* addShard(), removeShard(), or a shard that begins or ceases to hold     *)
(* something that cannot be serialized.                                    *)
EditShard(n, a) ==
    /\ state[n][a] = "running"
    /\ edits[a] < MaxEdits[a]
    /\ edits' = [edits EXCEPT ![a] = @ + 1]
    /\ \E d \in Designations : \E kind \in {"none", "ser", "non"} \ {body[n][a].shards[d]} :
        body' = [body EXCEPT ![n][a].shards[d] = kind]
    /\ UNCHANGED <<startup, order, arrived, watch, control, state, travel, steady>>

-----------------------------------------------------------------------------
Main(n) == Start(n) \/ StartNext(n) \/ MessagingStarted(n) \/ Started(n)

Pylon(n) == Find(n) \/ StartFound(n) \/ Receive(n)

Thread(n, a) ==
    Runs(n, a) \/ AskStop(n, a) \/ AskMove(n, a) \/ EditShard(n, a) \/ Exit(n, a)

Next ==
    \/ \E n \in Nodes : Main(n) \/ Timing(n) \/ Pylon(n) \/ \E a \in Agents : Thread(n, a)
    \/ \E a \in Agents : Pack(a) \/ SendAgent(a)

Spec == Init /\ [][Next]_vars

-----------------------------------------------------------------------------
(* Properties. *)

Bodies(a) ==
    Cardinality({n \in Nodes : state[n][a] \in Alive \/ Moving(n, a)})
    + Cardinality({m \in transit : m.agent = a})
    + IF leaving[a].step \in {"exited", "packed"} THEN 1 ELSE 0

(* An agent lives at one node, or is on its way, once: unless it was told  *)
(* to start while it was leaving (Node 425-447, 459-472;                   *)
(* MobileCompositeAgent 224-236).                                          *)
OneBody == \A a \in Agents \ revived : Bodies(a) <= 1

(* An agent that has arrived and started has the shards it left with; it   *)
(* may have others, that it had removed on an earlier stay, if it ever     *)
(* changed its shards (MobileCompositeAgent 180-195, 271-316).             *)
NothingForgotten ==
    \A n \in Nodes : \A a \in arrived[n] \ revived :
        state[n][a] \in Alive /\ edits[a] = left[a].edits =>
            \A d \in Designations :
                left[a].shards[d] # "none" \/ edits[a] = 0
                    => body[n][a].shards[d] = left[a].shards[d]

(* start() leaves out only as many of its last entities as have moved away *)
(* while it was starting them (Node 217-224, 459-462).                     *)
SkipsOnlyForLeavers ==
    \A n \in Nodes : phase[n] \in {"listing", "up", "unwatched"} => Len(Loaded[n]) <= cursor[n] + leavers[n]

(* A node does not stop by itself while an agent that was loaded on it has *)
(* run ever since the round of the Timer began (Node 369-382).             *)
LoadedKeepNode ==
    \A n \in Nodes : timer[n] \in {"stopping", "over"} => steady[n] \subseteq arrived[n]

(* What the documentation says of active entities, "which keep the node    *)
(* running while they are running" (Node 105): agents included that have   *)
(* arrived.  They are registered under "AGENT", and "agent" is looked for. *)
ActiveKeepNode ==
    \A n \in Nodes : timer[n] = "stopping" => steady[n] = {}

(* What a reader may take for granted and the code does not keep: start()  *)
(* starts every entity;                                                    *)
AllStarted == \A n \in Nodes : phase[n] \in {"listing", "up"} => cursor[n] = Len(Loaded[n])

(* an agent that arrives has the shards it left with and starts;           *)
ArrivesWhole ==
    \A n \in Nodes : \A a \in arrived[n] \ revived :
        /\ state[n][a] # "transient" \/ leaving[a].from = n
        /\ state[n][a] \in Alive /\ edits[a] = left[a].edits => body[n][a].shards = left[a].shards

(* nothing runs on a node that has stopped;                                *)
StoppedIsQuiet ==
    \A n \in Nodes : timer[n] = "over" => \A a \in Agents : state[n][a] # "running"

(* the Timer lives as long as the node, and no agent is doubled.           *)
TimerSurvives == \A n \in Nodes : timer[n] # "dead"
NeverTwice == \A a \in Agents : Bodies(a) <= 1

=============================================================================
