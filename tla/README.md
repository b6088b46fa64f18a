# FLASH-MAS in TLA+

Models, model-checking runs and proofs for the core of FLASH-MAS: the life cycle of
composite agents, the pylons that carry waves between them (local, WebSocket, WS Regions)
with the dispatcher they use, the node that starts, stops and sends agents, and the web
interface. Paths below are relative to `src/net/xqhs/flash` of the repository.

Contents: [the system](#the-system), [the modules](#the-modules), [the runs](#the-runs),
[the proofs](#the-proofs), [promises the code does not keep](#promises-the-code-does-not-keep),
[what is not modelled](#what-is-not-modelled), [what is left](#what-is-left).

To check: `tlc -config X.cfg M` with the pairs in [the runs](#the-runs), and `tlapm` on each
of the `_proofs` modules.

## The system

A deployment is a set of **nodes**; a node holds **pylons** (message transport) and
**agents**; an agent is a container of **shards**. One shard, the messaging shard, is
registered with a pylon: it sends waves through it and gets waves from it. Everything that
happens to an agent is an **event** in its queue.

| Component | State | Operations | Interacts by |
|---|---|---|---|
| Composite agent (`core/composite/CompositeAgent`) | `agentState`, `eventQueue` (a fresh one for each start), `agentThread`, `shards`, `shardOrder` | `postAgentEvent`, `start`, `run`, `exit`, `stop`, `toggleTransient`, `addShard`, `removeShard`, contexts; the thread's `eventProcessingCycle` | any thread posts events; the agent's thread signals shards, whose handlers post events |
| Mobile agent (`core/mobileComposite`) | `serializedShards`, `nonSerializedShardDesignations` | `moveTo`, `serialize`, `loadShards` | a stop with the TRANSIENT parameter, then the node sends the serialized agent |
| Messaging shards (`core/support`) | the pylon proxy, the inbox, hooks | `sendMessage`, `receiveWave`, registration at AGENT_START and AGENT_STOP | pylon threads call `receiveWave`, which posts an event |
| Dispatcher (`core/util/Dispatcher`) | three parallel lists (queues, processors, flags), `running`, a round-robin cursor | `addProcessor`, `add`, `suspend`, `resume`, `stop`, the worker | one lock for wait and notify; the rest is lock free |
| Local pylons (`local`) | receivers, a message queue, `useThread` | `send`, `deliver`, `start`, `stop`, `processQueue` | senders and the message thread share the queue's monitor |
| WebSocket pylon and server (`webSocket`) | receivers, two queues of a dispatcher; the routing table | `register`, `unregister`, `send`, connection callbacks; `processMessage` | one connection per pylon |
| WS Regions (`wsRegions`) | per server: `regionHomeAgents`, `guestAgents`, `homeServers`; per shard: `inQueue`, `outQueue`, `nextMoveTarget` | REGISTER, CONNECT, REQ_LEAVE, REQ_BUFFER, REQ_ACCEPT, AGENT_UPDATE, content | connections shard - server and server - server |
| Node (`core/node/Node`) | `registeredEntities`, `entityOrder`, `messagingShard`, a timer | `registerEntity`, `start`, `stop`, `checkRunning`, `sendAgent`, messages | the timer's thread, the threads of pylons and of agents |
| Web interface (`web`, `gui/structure`) | the GUIs of entities and the identifiers of their elements; per page: the entities, the panels and their indices | `updateGui`, `sendOutput`, the bridge's hook, inputs; `new_interface`, `remove`, `activate` | the central entity's thread, the server's event loop, the pages |
| Monitoring (`core/monitoring`, `core/control`) | maps of entities, their operations and states | registration, updates, operations | waves to and from a central entity |

What is hard here is concurrency: the agent's fields are read and written outside the
monitor of its queue; the dispatcher's and the node's lists have no lock; a pylon is stopped
while senders are between two of its fields; the region servers change shared tables from a
thread per connection; an agent that moves is known to several parties, each of which is out
of date for a while; and a connection may go at any time. `PROJECT.json` lists the hazards at
their lines with the properties about them. What makes each component correct:

- *agent*: all shards see the same events in an order every poster agrees with; a life
  begins with AGENT_START and ends with AGENT_STOP; a stopped agent is quiet (it may be
  serialized); what was accepted is seen; starts and stops complete;
- *dispatcher*: FIFO per queue, nothing lost or doubled; no queue starves; suspending
  and stopping are effective within a bound; what is added is served;
- *local pylon*: a wave is in one place; waves of a sender arrive in order; a
  registered inbox is reached under its name until another of that name registers, and
  nobody else is; `stop()` comes back and is final;
- *WebSocket*: the server's table follows the agents, also through moves, restarts and late
  messages; order per sender; nothing is dropped while connections and receivers are calm;
- *regions*: a wave for a moving agent arrives, once, after a bounded number of hops and,
  from its home region, in order; the tables agree with where the agent is; moves complete;
- *node and mobile agent*: an agent lives in one place and has the shards it left with; a
  node starts its agents, and does not stop under them;
- *web interface*: panels are where the page believes them, identifiers hold through updates,
  inputs are taken once and in order, a page gets its list.

## The modules

| Module | Models | Extends / instantiates |
|---|---|---|
| `CompositeAgent` | `CompositeAgent.java`: state machine, queue, processing cycle, shard list | |
| `QueueBank` | what a dispatcher promises (abstract) | |
| `Dispatcher` | `Dispatcher.java`, access by access | instantiates `QueueBank` |
| `LocalPylon` | `LocalPylon.java`, with the messaging shard's registration | |
| `WebSocketPylon` | `WebSocketPylon.java`, `WebSocketServerEntity.java`, with agents that move between nodes | |
| `RegionServers` | `RegionServer`, `AgentStatus`, `WSRegionsShard`, `WSRegionsPylon`: whole handlers | |
| `RegionThreads` | the same servers with a decoder thread per connection | extends `RegionServers` |
| `Node` | `Node.java`, `MobileCompositeAgent.java` | |
| `WebInterface` | `WebEntity.java`, `ElementIdManager.java`, `client.js` | |
| `WebSocketLines` | the invariants that the proofs about `WebSocketPylon` need, in terms of the places of its messages | extends `WebSocketPylon` |
| `*_proofs` | theorems about the module of that name; `RegionServers_proofs`: also about the protocol of RegionThreads; `RegionWaves_proofs`: about the waves of both | |
| `MC*` | constants for TLC | |

Each is composed with the others at the interface where they meet, not by one large product:
a pylon's model has the registration and the refusals of its agents, a node's model the
states of its agents, and what a module takes from another is a property checked there
(`WebSocketPylon` takes FIFO queues and their suspension from `QueueBank`, which `Dispatcher`
implements; `Node` takes the states of an agent from `CompositeAgent`).

### CompositeAgent

`postAgentEvent` is cut where another thread can interfere: the check (`Post`), the new
queue and thread of a start (`CreateQueue`), the read of the field (`ReadQueue`), the entry
into the monitor with the change of state (`Enter`), and the addition, notification and
release (`Put`). `eventProcessingCycle` is cut in the same way: `Loop`, `Take`, `Wake`,
`NextShard` and `Signal` per shard (the iterator hands out a designation, forwards, or backwards
for the destructive types; then the map is asked for the shard), and the effects
of FSMEventOut (`ReadQueueOut`, `StartOut`, `StopOut`, `ClearQueue`). A start makes a new
queue and a new run of the cycle, both numbered; a call made by a shard handler is a call of
the cycle's own thread, made while it signals. `newThread = FALSE` is `run()`: the caller
becomes the processing thread. `addShard` is `CheckAddShard`, `CheckAbsent`, `PutShard`,
`FindShard` and `AppendShard`, `removeShard` is `CheckRemoveShard`, `RemoveFromOrder` and
`RemoveFromMap`, for the map and the list have no lock; `arg` is the shard in hand. A change of
the list invalidates the iterators over it (`stale`), which then end the run as the
ConcurrentModificationException would.
`seen` and `ignored` are history: what each shard was signalled, and what a stop drained.

Assumed: sequentially consistent accesses; a handler does not start its own agent; handlers
do not throw. A timed-out `wait` looks at the queue again and waits again, so it is a stutter.

### Dispatcher and QueueBank

A step is one access: to one of the three lists (they grow one after the other while the
worker runs), to a flag, to a queue, or a whole synchronized block; since the worker's
blocks only wait and the other blocks only notify, a block is one step. The `worker`
variable is its program counter, with `dead` for the IndexOutOfBoundsException of a list
that has not grown yet. `QueueBank` says what users rely on: FIFO queues, a turn that only
begins on an open queue, and at most one item taken in a turn. The mapping: `pending` is
`queues`, `open` is the negated flag, `turn` is the queue the worker is about to poll. So
"suspended" means "no more than the turn that has begun". Assumed: no interrupts, no
spurious wakeups, processors that return or throw.

### LocalPylon

One action is one step another thread can see. A sender in `send()` reads `useThread`
(`ReadFlag`), then adds to the queue in its monitor (`Enqueue`), or delivers by itself: two
looks at the table (`SenderCheck`, `SenderGet`), and the call of the inbox they gave (`dest`;
`SenderReceive`). The message thread looks at its flag (`Loop`), at the queue (`Look`, outside
the monitor), polls (`Poll`), and delivers in the same way (`ThreadCheck`, `ThreadGet`,
`ThreadReceive`; `target`). `stop()` resets the flag (`StopFlag`), empties the queue in the monitor
(`StopClear`), and joins the thread and sets the queue to null (`StopJoin`). Inboxes with the
same name are the messaging shards of agents of that name, or of one agent that comes back
(`Register`, `PostStop`, `Unregister`); `overtaken` are those still registered whose name another
one has registered since. An agent told to stop may refuse what comes, and one that is gone
does, also when its inbox was looked up before. `lost` records each wave that ends elsewhere:
emptied by `stop()`, enqueued after that, without a receiver, refused, or met by a null
reference, which also ends the message thread (`dead`). The wait has a timeout, so it may end at any time and notification needs no state.
Start and stop come from one thread, the node's; after a stop `useThread` stays FALSE.

### WebSocketPylon

Pylons with their two queues, connections that are FIFO in both directions, the server's
table, and the entities behind them. `serving` is the wave between `containsKey` and `get` of
a delivery. `Close` drops what was on its way to the client and any suffix of what was on its
way to the server; `Suspend` (onClose) comes later, so what the dispatcher takes in between is
dropped. No code opens a connection again, so none is. An agent registers in two steps
(`Put`, `Add`), and moves by `PostMove`, `Remove` and `Leave`, which puts the unregistration
and the message with the agent into OUTBOUND; between the first two it may still send. The
removal of a receiver compares it with the one that leaves, which is always this one: no copy of
an agent comes to a pylon where another is registered. `Restart` is what an operator may do when a
node is cut off: the agent is started anew, the old copy stays and may unregister later
(`StopCopy`). It waits until the server has read what the node had registered: a registration
that comes from a closed connection later would overwrite the new one. The order of waves is promised
between agents that were not started anew.

### RegionServers

Connections are FIFO sequences of protocol messages and waves; agents are one shard and one
pylon entry each. `Start`, `SendWave`, `Move`, `Depart`, `Arrive`, `ReceiveWave` and
`ReceiveAccept` are the shard's and pylon's operations, and there is one action per message
handler of the server. A server has one decoder thread here, so a handler is one step. The
wave that carries the serialized agent is not in the connections: an agent is in transit for
as long as it likes, which includes any delay of that wave. A move is: REQ_LEAVE to the
agent's server; that server, or the home server after REQ_BUFFER, notes OFFLINE, from then on
saves waves, and answers REQ_ACCEPT; the agent stops, departs, arrives, and CONNECTs; the
home server is told by the CONNECT itself or by AGENT_UPDATE, and sends on what it saved.

### RegionThreads

The handlers as a multi-threaded WebSocket server runs them: one thread per connection, each
handler cut between its accesses to `AgentStatus` and `guestAgents` and its sending. Sending what was
saved is a loop of a look at the status (`drain`), one at the list (`more`) and `Pop`, which takes
the first wave and sends it; a list that another handler has emptied in between throws, and that
ends the handler. What is looked up only to be sent or sent on to is read in the step that sends,
and the look with which a handler begins and the lines that then say where the agent is are one
step. The message stays at the head of its connection until its handler has returned. An operation on a
list or a map is one step, although the maps are plain: what a race inside a HashMap does is
left out.

### Node

Four kinds of threads per node: `Main` is `start()`, one `StartNext` per round of its iterator
(which compares its position with the size before it compares modification counts, so a list
that shrinks may end it early or throw), then `MessagingStarted` and the second iteration, for the
registrations (`listing`; an exception there ends `start()` without a Timer, `unwatched`), then
`Started`; `Timing` is the Timer (`Tick`, the step from one key
to the next, one `Look` per agent, `BeginStop` with its copy of `entityOrder`, `StopNext`);
`Pylon` hands over START in two steps (`Find`, `StartFound`) and RECEIVE_AGENT (`Receive`);
`Thread` is the agent's own. A search of `entityOrder` (`Find`, `SendAgent`) is one step: that its
stream may meet a change and throw is left out. A move is `AskMove`, `Exit` (the object becomes TRANSIENT), `Pack`
(`serialize()`: the two maps are not emptied first) and `SendAgent`, which removes one entity of
that name from the list. An agent's shards are
`none`, serializable or not per designation, and `CanLoad` is where `loadShards()` throws. The
event queue is CompositeAgent's and is not repeated: an agent is in one of the states. A map
with the keys "pylon" and "agent" iterates in that order, with "AGENT" added between: the
order of a HashMap with 16 buckets and these hash codes.

### WebInterface

`Update` is the first half of `updateGui()` (the Element without identifiers is visible), then
`RemoveIds` and `InsertIds`. A registration is `BeginList` (the iterator) and `EndList` (the
list sent by `send()`, which picks one registered page; the consumer added; then the
registration itself). A page registers twice, receives lists and outputs, and its reader selects
entities (`Checkbox`, which is `new_interface()` or `remove()`) and activates inputs of the panels
that are shown.
`RemovePanel` follows the loop over lines that moves the first panel of each to the line
before. The prefix test of `removeIdsWithPrefix` is by `Longer`: names that begin with another.
Only the counters are removed by it, for the keys of the other map have another form.

## The runs

| Run | Module | Checks | Shows |
|---|---|---|---|
| `ca_life` | MCCompositeAgent | TypeOK, ShardsAgree, LifeIsWhole, StoppedIsQuiet, RunningIsServed | one life of an agent with two shards, started by `start()` or `run()`, while node, pylon and shard handlers post events and stop it |
| `ca_edit` | MCCompositeAgent | CallerOrder | the same with one thread that edits the shard list and toggles TRANSIENT |
| `ca_live` | MCCompositeAgent | AcceptedIsSeen, CallsComplete | fair threads, one stop at most |
| `disp_bank` | MCDispatcher | ListsReady, StopIsBounded, FairRounds, BankSpec, RoundsServe | two queues, one created suspended, two clients, creation concurrent with use; with fair threads, what a round can see is processed |
| `lp_pylon` | MCLocalPylon | TypeOK, OnePlace, SenderOrder, RunningIsReached, StoppedIsOver, StopReturns, QueuedIsTaken | two senders, two inboxes of one name, a pylon that is started, stopped and started again |
| `ws_pylon` | MCWebSocketPylon | CalmArrives, TableFollows, SenderOrder, OnceOnly | two nodes, a sender, an agent that moves twice, a connection that may go or be stopped, one restart |
| `rs_three` | MCRegionServers | NothingLost, TwoHops, WhereItIs | three regions, three moves, waves both ways |
| `rs_near` | MCRegionServers | HomeOrder, MoveCompletes, Delivered | two regions, fair connections, two waves from the home region, two moves |
| `rt_threads` | MCRegionThreads | NothingDoubled, StopsOffline | what survives a thread per connection |
| `node_move` | MCNode | OneBody, NothingForgotten, SkipsOnlyForLeavers, LoadedKeepNode | two nodes, an agent that moves there and back and edits its shards, one that stays, a START operation, the Timer |
| `node_active` | MCNode | ActiveKeepNode (violated) | an agent that arrived and runs does not keep its node running |
| `web_page` | MCWebInterface | PanelsInOrder, IdentifiersHold, InputsInOrder, ListArrives | six entities in lines of two panels, two pages, updates, outputs, inputs, lost connections |

**Bounds.** `MaxCalls` per thread, `MaxStarts`, `MaxAdds`, `MaxToggles`, `Quota`, `MaxLives`,
`MaxWaves`, `Moves`/`MaxMoves`, `MaxEdits`, `MaxControls`, `MayClose`, `MayRestart` and
`MaxEvents` are guards of the operations, nothing else is bounded. The hazards need two posters
and the handler, two shards (two directions of signalling) and two or three calls each; two
queues make the cursor wrap and one overtake the other; three regions give a home and two
foreign servers that both have an old idea of an agent, with enough moves to go home and away
again; two waves show order; two starts of a pylon show what a stop leaves behind, and two
inboxes of one name an agent that comes back; two moves bring an agent back to a node that has
its old object; five panels in lines of two make a removal go through three lines (the code
has lines of three, `Columns` is a parameter). What depends on more of the same is what the
proofs cover. `CHECK_DEADLOCK FALSE` everywhere: when the bounds are used up and nobody calls,
the system rests.

**Fairness.** `FairSpec` demands that a call that has begun goes on, that the agent's
thread, the dispatcher's worker and a pylon's message thread run, that a connection's thread
handles what has arrived, and that pages get what was sent to them: the JVM's scheduler and
the socket threads do that. Nobody has to begin a call, start an agent, send, move or stop. An
agent that was stopped for a move departs and arrives (`Depart`, `Arrive`): that takes a node
that works. A thread inside a monitor leaves it in the same step or by a step that is weakly
fair. For the dispatcher, weak fairness of `Accept` is of its branch that returns: a processor
that never returns stops the worker. WebSocketPylon has no liveness: its dispatcher may leave an
item waiting (`AddedIsServed` below). Node has none because nothing there is promised to happen
at an idle node, and a fair move is RegionServers' subject.

## The proofs

`CompositeAgent_proofs`: `TypeCorrect` (the type invariant, for any posters, scripts, shards,
starts and calls); `OneLifeInvariant`, `QuietWhenStopped` and `ServedWhileRunning`, for
`OneLife` (one start, nobody toggles), any number of posters and calls. The invariant
`LifeInv` says how the single queue and the single cycle are coupled with the state:
`QueueField` (the field is the queue or null, as the cycle's place says), `BeforeStart`,
`CallInv` (what a call in progress holds), `StoppedInv` (STOPPED or TRANSIENT only before the
start and after `StopOut`), `RunningInv` and `EditInv` (the cycle can only be abandoned by an
edit). StoppedIsQuiet alone is not inductive: nothing in it says that a waiting `Enter` cannot
move a stopped agent, or that a cycle has not yet begun. `ServedWhileRunning` needs
`Editors = {}`; with an editor it is false.

In the same module, `ShardsSeeTheSame` (ShardsAgree) and `OneLifeIsWhole` (LifeIsWhole), for
`OneLife` and `Editors = {}`. Both follow from `OneSequence`: there is one sequence of events such
that every shard has seen it, or it and the event that is being signalled (`Common`: whether a
shard already has, is its place before or behind the iterator). `Past` says that this sequence
begins with the start and where the cycle is after a stop; `Coming` that the only start is
the first in the queue or on its way there, which is what the calls of `Enter` preserve. That
every shard is signalled rests on `ListKept`: without editors, iterators hold and what they hand
out is in the map.

Then `CallersInOrder` (CallerOrder), for `OneCycle` (one start) and `OneEditor` (at most one
thread edits the list; it may do so while any others post, toggle and signal). A thread numbers
its calls; `Numbered`: what has left its hands is older than what is in them; `Follow`: what
shards have seen, what is signalled and what is queued follow each other; `Awaiting`: the shards
the iterator has still to reach have not seen the event. The iterator reaches none twice because
the list has none twice (`ListHasEachOnce`): with one editor no other addition comes between its look and its own. Two editors can list a shard twice, and then CallerOrder is false (below).

`Dispatcher_proofs`: `DispatcherType`; `DispatcherSafe` (ListsReady and StopIsBounded) through
`Inv == ListsReady /\ Lists /\ LastRound /\ StopIsBounded`, where `Lists` orders the three
sizes by the creator's place and `LastRound` counts what the round under way can still take;
`DispatcherIsBank`: the refinement of QueueBank, for any number of queues, clients, items and
toggles. A step of the dispatcher is a step of the bank or leaves its four variables alone:
only `Offer`, the two flag writes, the begin of a turn, the poll and nothing else are visible.

`TurnsAreReady` is ListsReady by itself. `RoundRobinIsFair` (FairRounds): `Waited` bounds what has been taken since
a queue had its turn by the distance of the cursor from it, in the two cases of a queue before and
behind the cursor; `InTurn` tells a turn that took its item from one that has not. Lists that
grow only make the way round longer, and the bound with it.

`LocalPylon_proofs`: `PylonType`; `WavesInOnePlace` (OnePlace), from `WavesOnlyOnce` and
`WavesAreSomewhere`; `RegisteredIsReached` (RunningIsReached); `PollFinds`; `StoppedDelivers`
(StoppedIsOver). Two invariants carry them. `Threads` couples the keeper, the flag and the message
thread: after `stop()` has come back the thread is over, dead or was never there. `Places` has
OnlyOnce in three parts (queue, inboxes, ends) and what makes them inductive: the places are
disjoint (`Apart`), every wave anywhere was sent (`SentOnly`: its number is at most its sender's
count, so a new wave is in no place), and a sender holds only its own waves (`OwnWaves`).

`WavesInOrder` (SenderOrder): `Numbers` and `InLine` are as for the
agent: received, held and queued waves of a sender follow each other. The exception is the
wave that a sender delivers by itself, which it only does once `useThread` is FALSE: `Direct` says
that behind such a wave an inbox gets at most one more from the message thread, the one that
the thread had polled before the stop.

`RegionServers_proofs`, for any servers, nodes, agents, waves and moves: `RegionTypes`, and for
agents that do not call `moveTo` again while they wait to leave (`~Impatient`), `WhereAgentsAre`
(WhereItIs) and `WavesGoTwice` (TwoHops). The invariant of the second is about the protocol
messages of one agent that are on their way: they are at most two, one of its arrival (REGISTER,
CONNECT, AGENT_UPDATE) and behind it one of its departure (`Follows`); a message of each type is
on one certain wire and says in what state the tables are (`Staged`); and when there is none but
of a departure, the tables are right (`Settled`, `Life`). An accepted departure is then answered by
REQ_ACCEPT, which takes its place, so one agent's messages are a token that is passed on. WhereItIs
alone is not inductive, for it says nothing of the messages. For the waves, `Flow` says how often a
wave on each kind of connection has been passed on: from server to server it goes to the home of its
receiver, or from there to the server where the receiver is a guest. `BeforeLeave` is why that server
does not send it back: it is ahead of the REQ_ACCEPT on the same connection, so the guest is there
when it is handled. `SavedHops`: what the home server saved has come at most one hop.

`RegionWaves_proofs`, on top of these and under the same condition: `NoWaveLost` (NothingLost) and
`HomeWavesInOrder` (HomeOrder). A wave stands in a line: on a connection, in what is saved for an
agent, in a shard's `inQueue` or in what the agent got. `LineInv` says of all lines together that a
number is in one place (`OnceIn`), that the wave for a registered agent is somewhere (`KeptIn`), and
that of two waves of a pair that is to stay in order the first has a smaller `Rank`, that is, is
further on its way, or is in the same line and ahead (`OrderIn`). `StepShifts` makes of every step
one and the same form: some lines lose their heads, or one is taken whole, and one line gets what
was taken behind what it has (`Goes`); that `OnceIn` and `OrderIn` survive that form is shown once
(`OnceStays`, `OrderStays`), and what is left for each action is where the taken waves go. Neither
property is inductive. A wave could be dropped by a pylon that finds no agent, or overtaken by one
that comes another way; that there is no such pylon and no such way is `WayInv`: what goes down to a
node finds its agent there, ahead of the REQ_ACCEPT (`Finds`); a shard queues only while its agent
is to leave, and the home server saves only for an OFFLINE agent (`Queued`); the waves of an agent
that stays in the home region take one road, on which no step goes back (`Straight`, `NearPlaces`).

The same two modules have the theorems about `RegionThreads`, where the handlers interleave, for any
servers, nodes, agents, waves and moves: in the first `ThreadTypes`, and for `~Impatient`
`AgentsStopOffline` (StopsOffline); in the second `NoWaveDoubled` (NothingDoubled), which needs no
condition. Other handlers run between the steps of one, but each step, whatever the handler has read
before, takes at most one wave, either the one at the head of its own connection or the first one
saved, and puts it behind what is in one other place, or drops it (`StepForm`; `Fits` adds the types, and `Cleared` is the step
that empties the buffer of an agent that CONNECTs for the first time). That form alone preserves that
every number is that of a wave that was sent and stands once (`Alone`), so nothing is doubled although
the handlers work with what is no longer so; that nothing is lost does not follow from it, and is not
so.

What an agent stops for is an answer to what its last REQ_LEAVE set off, and the tables no longer say
how far that is, since any handler may be half way. `TurnInv` therefore speaks of the protocol messages
about one agent that are on their way, without those whose handler has answered them and has only to
clear up (`Spent`): each is on a certain connection and tells in what phase the agent is (`Placed`),
an arrival comes before the departure after it (`InTurn`), and from the write of OFFLINE to the
REQ_ACCEPT, the handler between the two included, the status is OFFLINE (`Accepting`, `Placed`). The
handler of an earlier CONNECT or AGENT_UPDATE cannot undo the write of OFFLINE: its message would
still be on its way, ahead of the departure, and the departure is not handled before it. As a
message stays at the head of its connection until its handler returns, a step of a handler takes a
message, replaces it by one message about the same agent, or leaves the messages alone (`TurnForm`).
With `Impatient` a second REQ_LEAVE is on its way behind the first, and InTurn is false.

`Node_proofs`, for any nodes, agents, shards and loading: `NodeTypes`; `SkipsAreLeavers`
(SkipsOnlyForLeavers), from `Startup`, which counts what the iterator of `start()` has passed, what
is left of the list and what has left it; `LoadedAreWatched` (LoadedKeepNode), from `Watched`: a
round of `checkRunning()` that has met no running agent has met none of those it has passed;
`AgentsHaveOneBody` (OneBody), from `Placed`: an agent is in the hands of one thread, and the object
that stays behind a move is TRANSIENT until somebody starts it; `AgentsRemember` (NothingForgotten),
from `Remembered`: what `serialize()` put into the two maps is what the agent had, at every place
that a copy of them passes.

`WebSocketPylon_proofs`, for any nodes and agents: `PylonTypesHold`; `NothingDoubled` (OnceOnly);
`ServerFollows` (TableFollows); `CalmMessagesArrive` (CalmArrives); and for `~SelfMoves`
`SendersHeardInOrder` (SenderOrder). A message goes through five places, OUTBOUND, the connection to
the server, the connection from it, INBOUND and a delivery; the proofs see them as lines (`Line`),
and an action as one that cuts something off a line (`Cut`) or carries its first message to another
(`Carried`), or, where the order counts, as a map from the places that stay to where they were
(`Kept`, `Flow`), so that each invariant is shown for those few forms and not for each of the
actions. The invariants and the forms are defined in `WebSocketLines`. `Copies`: a message is in one
line, once, and then neither received nor lost; an agent on its way is nowhere else. `Named`: a
registration on its way was made where the agent is or was. `Announced`: what a pylon tells the
server of an agent goes in the order in which it happened, a registration behind the unregistration
before it. `Followed`: the last thing on its way to the server of an entity, or the table when there
is none, says where it is. `Calms`: a calm message is in a line that leads to where its receiver is,
at a place that nothing can cut off as long as the connections hold. None of these properties is
inductive: they speak of entities of which nothing is left to be told, and a step that makes one of
those comes from states with messages on their way.

SenderOrder looks at what has been received, and so says nothing of two waves on their way. Its
invariant is `Marches`: for two agents that nobody has started anew, the waves between them that may
still be received stand in the order in which they were sent, those that come from the server before
those that go to it (`Queued`), and what has been received is older than all of these (`Heard`).
Two waves can be at nodes far apart only if one of them is never received, which is what the rest
of the invariant says for one agent. `Journey`: what it has said and the server has not read stands
on one connection, the agent itself is the last of it, before that it signs off, and before that it
enters. `Missed`: a wave on its way to the server from a node to which its receiver has come since
then will be dropped, for the server reads it before it reads that the receiver is there (`Doomed`).
`Ahead` and `Cleared`: an agent that comes from the server comes behind all its waves. `Elsewhere`:
a wave that comes back from the server to the node of its sender is not received there. An agent
told to move to where it is breaks `LastWord` and `Missed`: it goes to the server and back on the
connection of its own node, a wave from there follows it, the server sends that back too, and it is
received at a node where the next wave has been delivered directly. A step is again looked at by what it
does to the lines: it names for each message its place before the step (`Runs`), and the order is kept
if those places keep theirs (`Sources`).

`WebInterface_proofs`, for any entities, names and pages: `WebTypesHold` (all but the layout,
PanelTypes), `IdentifiersStay` (IdentifiersHold) and `InputsStayInOrder` (InputsInOrder). `Numbered`
is the reason why identifiers hold: the counter of an entity is removed before its new Element gets
an identifier, so the number is 0 again, and the old identifier was never removed. IdentifiersHold
alone is not inductive: it says nothing of the lists and of the entities behind a panel's
identifier (`Identified`). `Registered` bounds registrations by counting those that are through with
those on their way; `Inputs` orders posted inputs, those on their way and the next number.

The assumptions are the named ASSUMEs of the modules, which every run evaluates.

Named conditions that a run's configuration satisfies or not: `OneLife`, `OneCycle`,
`OneEditor`, `Editors = {}`, `~Impatient` and `~SelfMoves`; what happens without them is in the table below. The assumptions on
constants that say something of the code: `OrderAssumption` (a designation is once in the list of
shards, as `addShard` sees to) and `RegionAssumption` (a node is connected to the server of its
region, and nodes and servers have different names).

*Only model-checked*: liveness (the provers here have no rule for fairness and ENABLED); the layout
of panels (PanelsInOrder, PanelTypes), which is what a fold over the lines computes, hence induction
over data.

## Promises the code does not keep

`ActiveKeepNode` is a run (`findings` in `PROJECT.json`). TLC refutes the following ones as
well; the properties are in the modules. The constants are those of the run named, with the
changes given. *A* stands for `Spec`, `Posters = {node}`, `Script <- NodeWaveScript`,
`HandlerPosts <- Nothing`, `Shards = {s1}`, `InitOrder <- OneShard`, `MaxCalls = 3`; *D* for
`NumQueues = 1`, `StartSuspended <- MCNone`, `Clients = {c1}`, `Stoppers = {}`, `MaxAdds = 1`,
`MaxToggles = 0`. The first four contradict a sentence of the sources, quoted.

| Property | From | Changes | What happens |
|---|---|---|---|
| `NothingAfterStop` | `ca_life` | *A* | a stop posted during STARTING is overwritten by RUNNING: "No events will be successfully received after this event has been posted" (`CompositeAgent.java:253`) |
| `AddedIsServed` | `disp_bank` | *D* | the notification comes before the wait: "waits on the lock object until notified that new items have been added" (`Dispatcher.java:274`) |
| `OutgoingWaits` | `rs_near`, `Spec` | `Origin <- MCOriginFar`, `MaxWaves = 1`, `MaxMoves = 1` | waves leave an agent that waits to leave: "no messages sent / received beyond this point" (`WSRegionsShard.java:91`) |
| `NothingStaysSaved` | `rt_threads` | `Origin <- MCOriginNear`, `MaxMoves = 1` | a wave saved behind the emptying of the buffer stays: "Saved messages for the agents that are OFFLINE" (`AgentStatus.java:29`) |
| `LivesAreWhole` | `ca_life` | *A*, `Posters = {node, pylon}`, `Script <- StartStopScript`, `MaxStarts = 2` | a poster admitted in one life puts its event into the next life's queue, ahead of the AGENT_START (`:355`) |
| `CallerOrder` | `ca_edit` | `Editors = {node, pylon}`, `Togglers = {}`, `Shards = {s1}`, `InitOrder <- OneShard` | two `addShard` of one designation list it twice, and its events come twice (`:587`) |
| `NothingIgnored` | `ca_life` | *A* | events accepted before the stop was processed are drained (`CompositeAgent.java:485`) |
| `CallsComplete` | `ca_live` | `Script <- LifeScript`, `HandlerPosts <- Nothing` | a second stop admitted early sets STOPPING after STOPPED (`:358`) |
| `CallsComplete` | `ca_life` | *A*, `FairSpec`, `Script <- NodeScript`, `MaxStarts = 2` | the end of a life discards the next life's queue (`:495`) |
| `OneCycleSignals` | `ca_life` | *A*, `Script <- NodeScript`, `MaxStarts = 3`, `MaxCalls = 5` | a start that returned false leaves its thread running (`:439`) |
| `StartIsPresumed` | `ca_life` | *A*, `Posters = {node, pylon}`, `Script <- TwoStartersScript`, `MaxStarts = 2`, `MaxCalls = 1` | two starters pass the check (`:437`) |
| `RunningIsServed` | `ca_edit` | `Togglers = {}`, `MaxCalls = 2` | the agent's thread dies of a ConcurrentModificationException (`:310`) |
| `TransientIsFrozen` | `ca_edit` | `Editors = {node}`, `Togglers = {node}`, `InitOrder <- OneShard`, `MaxCalls = 2` | shards are added in TRANSIENT (`:690`) |
| `StopReturns` | `disp_bank` | *D*, `Stoppers = {c1}`, `MaxAdds = 0` | `stop()` joins a worker that sleeps (`Dispatcher.java:315`) |
| `WorkerSurvives` | `disp_bank` | *D*, `NumQueues = 2`, `MaxAdds = 0` | the worker meets a queue without its flag (`:292`) |
| `SuspendedIsNotServed` | `disp_bank` | *D*, `MaxToggles = 1` | the turn had begun (`:297`) |
| `NothingTakenAfterStop` | `disp_bank` | *D*, `NumQueues = 2`, `Clients = {c1, c2}`, `Stoppers = {c1}` | the round had begun (`:285`) |
| `ThreadSurvives` | `lp_pylon` | | an inbox unregisters between the two looks of a delivery (`LocalPylon.java:264`) |
| `NameAnswers` | `lp_pylon` | | the later of two agents of one name leaves first (`LocalPylon.java:102`) |
| `SenderOrder` | `ws_pylon` | `SelfMoves = TRUE`, `MayClose = {}`, `MayRestart = {}` | a wave goes by the server while the agent moves to the node it is on, the next is delivered directly |
| `AgentSurvives` | `ws_pylon` | `MayClose = {}`, `MayRestart = {}` | an agent is sent to a node that has not registered yet (`WebSocketServerEntity.java:143`) |
| `TableForgets` | `ws_pylon` | `MayRestart = {}` | `onClose` leaves the table alone (`WebSocketServerEntity.java:78`) |
| `QueuedIsPosted` | `rs_near`, `Spec` | `Origin <- MCOriginFar`, `Impatient = TRUE` | a second `moveTo` makes new queues (`WSRegionsShard.java:92`) |
| `OfflineIsDisconnected` | `rs_three` | `Impatient = TRUE`, `MaxWaves = 0` | its REQ_LEAVE is handled after the arrival (`RegionServer.java:404`) |
| `KnownIsKept` | `rt_threads` | `MaxMoves = 1` | a wave behind the REQ_ACCEPT is dropped (`RegionServer.java:518`) |
| `ArrivedIsConnected` | `rt_threads` | `MaxWaves = 0` | a move inside a region meets its own old entry (`RegionServer.java:459`) |
| `AllStarted` | `node_move` | | an agent that leaves while `start()` iterates shortens the list (`Node.java:218`) |
| `ArrivesWhole` | `node_move` | | a shard in both maps stops the agent from starting, a removed one comes back (`MobileCompositeAgent.java:281`) |
| `StoppedIsQuiet` | `node_move` | | an agent that starts after the copy was made runs on a stopped node (`Node.java:270`) |
| `TimerSurvives` | `node_move` | | the first arrival adds a key while `checkRunning()` iterates (`Node.java:372`) |
| `NeverTwice` | `node_move` | | a START operation starts the object that stays behind (`Node.java:428`) |
| `RowsOnce` | `web_page` | | a list goes to one registered page, not to the one that asked (`WebEntity.java:67`) |
| `PanelsUsable` | `web_page` | | a list is made while an Element has no identifiers yet (`WebEntity.java:264`) |
| `EveryPageLists` | `web_page` | | the same as `RowsOnce`: another page gets it |

With `Impatient = TRUE` and a thread per connection two servers can moreover send a wave to
and fro for as long as they hold the old entries.

## What is not modelled

- the contexts of an agent, beyond their removal when it leaves;
- `LocalPylon.run()`, which has no caller, and `LocalClassicPylon`, an older twin of the class;
- connections of WS Regions that close, reconnect or are not there yet; `WSClient`'s retries;
  the start and stop of the WebSocket server and its list of nodes for the log;
- the node's loader and proxies; monitoring and control: maps filled by one thread;
- the look of GUI elements, the Swing interface, and the page's global buttons: they send
  messages without a scope, which the server ignores;
- loading (XML, command line, reflection), S-CLAIM, ROS and MPI bindings: sequential, I/O, or
  other people's middleware;
- weak memory and races inside java.util collections;
- the text of waves: a wave is a number and a destination.

The program is Java. The JavaScript in the repository is one file of its own,
`web/js/client.js` (749 lines, modelled by WebInterface where it keeps state), the client
libraries of Vert.x and SockJS, and copies of jQuery that come with generated documentation.

## What is left

1. `AgentQueue`: an abstract life cycle that `CompositeAgent` refines in one life, so that
   pylons and nodes compose with the small specification instead of the large one.
2. Connection loss in `RegionServers`; the contexts of agents.
