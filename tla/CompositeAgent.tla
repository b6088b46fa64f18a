--------------------------- MODULE CompositeAgent ---------------------------
(***************************************************************************)
(* The life cycle and event queue of a composite agent                     *)
(* (core/composite/CompositeAgent.java), at the grain of its reads and     *)
(* writes of the shared fields.                                            *)
(*                                                                         *)
(* Any thread may call postAgentEvent: the threads of the node, of a pylon *)
(* or of a test (Posters), and the agent's own thread from inside a shard's *)
(* event handler.  Every AGENT_START creates a new event queue and one     *)
(* more run of eventProcessingCycle; the n-th queue created and the run    *)
(* created with it are both called n.  The fields agentState and           *)
(* eventQueue are read and written outside the queue's monitor, so the     *)
(* model keeps every such access as a step of its own.  Accesses are       *)
(* sequentially consistent.  Inside one critical section the re-reads of   *)
(* the field eventQueue count as one read.                                 *)
(***************************************************************************)
EXTENDS Naturals, Sequences, FiniteSets

CONSTANTS
    Posters,     \* threads that are not the agent's own
    Script,      \* Script[p]: the event kinds poster p may post
    HandlerPosts,\* the event kinds a shard handler may post
    Editors,     \* posters that add and remove shards
    Togglers,    \* posters that call toggleTransient
    Shards,      \* all shards
    NoShard,     \* null, in place of a shard
    InitOrder,   \* the shards of the agent, in the order they were added
    MaxStarts,   \* bound: queues (runs of the processing cycle) ever created
    MaxCalls     \* bound: calls made by one thread

EventTypes == {"AGENT_START", "AGENT_STOP", "BEFORE_MOVE", "AFTER_MOVE", "AGENT_WAVE"}
States == {"RUNNING", "STOPPED", "TRANSIENT", "STARTING", "STOPPING"}

\* What a caller puts in the event it posts: the event type and whether it
\* carries TRANSIENT_EVENT_PARAMETER and lacks NO_CREATE_THREAD.
Kind == [type : EventTypes, transient : BOOLEAN, newThread : BOOLEAN]

Cycles == 1 .. MaxStarts
Threads == Posters \cup Cycles
Queues == 1 .. MaxStarts
NoQueue == 0

\* A posted event: its kind, the thread that posted it and that thread's call number.
Event == [kind : Kind, by : Threads, n : 1 .. MaxCalls]

\* Where a thread is in postAgentEvent or toggleTransient, addShard or removeShard.
EditPC == {"absent", "insert", "find", "append", "delist", "unmap"}
CallPC == {"idle", "create", "read", "enter", "put", "inCycle", "toggle"} \cup EditPC
\* A run of the cycle ends "exited" after an AGENT_STOP, "abandoned" by a null
\* field, a lost monitor or a list changed under its iterator.
CyclePC == {"none", "loop", "enter", "waiting", "signal", "outRead", "out",
            "clear", "exited", "abandoned"}

ASSUME BoundsAssumption == MaxStarts \in Nat /\ MaxCalls \in Nat
ASSUME PosterAssumption ==
    /\ Posters \cap Nat = {}
    /\ Script \in [Posters -> SUBSET Kind]
    /\ Editors \subseteq Posters /\ Togglers \subseteq Posters
\* A handler runs on the agent's thread: it never starts an agent that is running.
ASSUME HandlerAssumption ==
    HandlerPosts \in SUBSET {k \in Kind : k.type # "AGENT_START"}
ASSUME ShardsAssumption == NoShard \notin Shards
\* One thread builds the agent, and addShard refuses a designation it has (583).
ASSUME OrderAssumption ==
    /\ InitOrder \in Seq(Shards)
    /\ \A i, j \in DOMAIN InitOrder : InitOrder[i] = InitOrder[j] => i = j

VARIABLES
    agentState,  \* the field agentState
    eventQueue,  \* the field eventQueue: a queue or NoQueue (null)
    queue,       \* the contents of each queue object
    monitor,     \* the threads (at most one) inside each queue's monitor
    starts,      \* queues created so far
    shardOrder,  \* the field shardOrder
    shards,      \* the designations that are keys of the field shards
    pc, req, mon, own, calls, arg,   \* one call of each thread; arg: the shard it edits
    cpc, cmon, cev, cur, stale,      \* each run of the processing cycle
    at,          \* what the iterator of each run has handed out and is not signalled yet
    seen,        \* history: the events each shard was signalled, in order
    ignored      \* history: accepted events drained at AGENT_STOP

callVars == <<pc, req, mon, own, calls, arg>>
cycleVars == <<cpc, cmon, cev, cur, stale, at>>
history == <<seen, ignored>>
vars == <<agentState, eventQueue, queue, monitor, starts, shardOrder, shards,
          callVars, cycleVars, history>>

NoEvent == [kind |-> [type |-> "AGENT_WAVE", transient |-> FALSE, newThread |-> FALSE],
            by |-> NoQueue, n |-> 0]

TypeOK ==
    /\ agentState \in States
    /\ eventQueue \in Queues \cup {NoQueue}
    /\ queue \in [Queues -> Seq(Event)]
    /\ monitor \in [Queues -> SUBSET Threads]
    /\ starts \in 0 .. MaxStarts
    /\ shardOrder \in Seq(Shards)
    /\ shards \subseteq Shards
    /\ pc \in [Threads -> CallPC]
    /\ req \in [Threads -> Event \cup {NoEvent}]
    /\ mon \in [Threads -> Queues \cup {NoQueue}]
    /\ own \in [Threads -> Queues \cup {NoQueue}]
    /\ calls \in [Threads -> 0 .. MaxCalls]
    /\ arg \in [Threads -> Shards \cup {NoShard}]
    /\ cpc \in [Cycles -> CyclePC]
    /\ cmon \in [Cycles -> Queues \cup {NoQueue}]
    /\ cev \in [Cycles -> Event \cup {NoEvent}]
    /\ cur \in [Cycles -> Nat]
    /\ stale \in [Cycles -> BOOLEAN]
    /\ at \in [Cycles -> Shards \cup {NoShard}]
    /\ seen \in [Shards -> Seq(Event)]
    /\ ignored \subseteq Event
    /\ \A c \in Threads :
          /\ pc[c] \notin {"idle"} \cup EditPC => req[c] \in Event
          /\ pc[c] \in EditPC => arg[c] \in Shards
          /\ pc[c] \in {"enter", "put"} => mon[c] \in Queues
    /\ \A t \in Cycles :
          /\ cpc[t] \in {"signal", "outRead", "out"} => cev[t] \in Event
          /\ cpc[t] \in {"enter", "waiting", "out"} => cmon[t] \in Queues
          /\ cpc[t] = "signal" /\ ~stale[t] => cur[t] \in 0 .. Len(shardOrder)

Init ==
    /\ agentState = "STOPPED"
    /\ eventQueue = NoQueue
    /\ queue = [q \in Queues |-> <<>>]
    /\ monitor = [q \in Queues |-> {}]
    /\ starts = 0
    /\ shardOrder = InitOrder
    /\ shards = {InitOrder[i] : i \in DOMAIN InitOrder}
    /\ pc = [c \in Threads |-> "idle"]
    /\ req = [c \in Threads |-> NoEvent]
    /\ mon = [c \in Threads |-> NoQueue]
    /\ own = [c \in Threads |-> NoQueue]
    /\ calls = [c \in Threads |-> 0]
    /\ arg = [c \in Threads |-> NoShard]
    /\ cpc = [t \in Cycles |-> "none"]
    /\ cmon = [t \in Cycles |-> NoQueue]
    /\ cev = [t \in Cycles |-> NoEvent]
    /\ cur = [t \in Cycles |-> 0]
    /\ stale = [t \in Cycles |-> FALSE]
    /\ at = [t \in Cycles |-> NoShard]
    /\ seen = [s \in Shards |-> <<>>]
    /\ ignored = {}
-----------------------------------------------------------------------------
(* postAgentEvent, run by any thread *)

CanPostEvent(k) ==
    /\ k.type = "AGENT_START" =>
            agentState = "STOPPED" \/ (agentState = "TRANSIENT" /\ k.transient)
    /\ k.type = "AFTER_MOVE" => agentState = "STARTING"
    /\ k.type \notin {"AGENT_START", "AFTER_MOVE"} => agentState \in {"RUNNING", "STARTING"}

\* Mutants of FutureState: the null test is dropped; the agent is STOPPED at once.
FutureStateUnchecked(k) ==
    IF k.type = "AGENT_START" THEN "STARTING"
    ELSE IF k.type = "AGENT_STOP" THEN "STOPPING" ELSE "null"
FutureStateEarly(k) ==
    IF k.type = "AGENT_START" THEN "STARTING"
    ELSE IF k.type = "AGENT_STOP" THEN "STOPPED" ELSE agentState

\* The state FSMEventIn asks for; an event that asks for none keeps the current one.
FutureState(k) ==
    IF k.type = "AGENT_START" THEN "STARTING"
    ELSE IF k.type = "AGENT_STOP" THEN "STOPPING"
    ELSE agentState

Destructive(e) == e.kind.type \in {"AGENT_STOP", "BEFORE_MOVE"}

\* Run t is between two shards: the handler of the last one may not have come back.
InHandler(t) ==
    /\ cpc[t] = "signal" /\ at[t] = NoShard
    /\ IF Destructive(cev[t]) THEN cur[t] < Len(shardOrder) ELSE cur[t] > 0

MayPost(c, k) ==
    IF c \in Posters THEN k \in Script[c] ELSE k \in HandlerPosts /\ InHandler(c)

\* The call passes the check of canPostEvent, made without the monitor.  A call
\* that does not pass returns false and changes nothing: it is no step.
Post(c, k) ==
    /\ pc[c] = "idle" /\ calls[c] < MaxCalls /\ MayPost(c, k)
    /\ CanPostEvent(k)
    /\ calls' = [calls EXCEPT ![c] = @ + 1]
    /\ req' = [req EXCEPT ![c] = [kind |-> k, by |-> c, n |-> calls[c] + 1]]
    /\ pc' = [pc EXCEPT ![c] = IF k.type = "AGENT_START" THEN "create" ELSE "read"]
    /\ UNCHANGED <<agentState, eventQueue, queue, monitor, starts, shardOrder, shards,
                   mon, own, arg, cycleVars, history>>

\* FSMEventIn for AGENT_START: a new queue replaces whatever the field held, and
\* the agent's thread is started (or left to the caller, NO_CREATE_THREAD).
CreateQueue(c) ==
    /\ pc[c] = "create" /\ starts < MaxStarts
    /\ starts' = starts + 1
    /\ eventQueue' = starts + 1
    /\ own' = [own EXCEPT ![c] = starts + 1]
    /\ cpc' = [cpc EXCEPT ![starts + 1] = IF req[c].kind.newThread THEN "loop" ELSE "none"]
    /\ pc' = [pc EXCEPT ![c] = "read"]
    /\ UNCHANGED <<agentState, queue, monitor, shardOrder, shards, req, mon, calls, arg,
                   cmon, cev, cur, stale, at, history>>

\* The field is read for the null test and for the monitor; null refuses the event.
ReadQueue(c) ==
    /\ pc[c] = "read"
    /\ mon' = [mon EXCEPT ![c] = eventQueue]
    /\ pc' = [pc EXCEPT ![c] = IF eventQueue = NoQueue THEN "idle" ELSE "enter"]
    /\ UNCHANGED <<agentState, eventQueue, queue, monitor, starts, shardOrder, shards,
                   req, own, calls, arg, cycleVars, history>>

\* The caller is inside the monitor of the queue it read: it moves the agent's state.
Enter(c) ==
    /\ pc[c] = "enter" /\ monitor[mon[c]] = {}
    /\ monitor' = [monitor EXCEPT ![mon[c]] = {c}]
    /\ agentState' = FutureState(req[c].kind)
    /\ pc' = [pc EXCEPT ![c] = "put"]
    /\ UNCHANGED <<eventQueue, queue, starts, shardOrder, shards,
                   req, mon, own, calls, arg, cycleVars, history>>

\* The event goes to the queue the field holds now; a null field throws, and so
\* does notify when the field's queue is not the one whose monitor is held.
Put(c) ==
    LET runsCycle == /\ req[c].kind.type = "AGENT_START"
                     /\ ~req[c].kind.newThread
                     /\ eventQueue = mon[c]
    IN  /\ pc[c] = "put"
        /\ monitor' = [monitor EXCEPT ![mon[c]] = {}]
        /\ queue' = IF eventQueue = NoQueue THEN queue
                    ELSE [queue EXCEPT ![eventQueue] = Append(@, req[c])]
        /\ pc' = [pc EXCEPT ![c] = IF runsCycle THEN "inCycle" ELSE "idle"]
        /\ cpc' = IF runsCycle THEN [cpc EXCEPT ![own[c]] = "loop"] ELSE cpc
        /\ UNCHANGED <<agentState, eventQueue, starts, shardOrder, shards,
                       req, mon, own, calls, arg, cmon, cev, cur, stale, at, history>>

\* With NO_CREATE_THREAD postAgentEvent returns only when the cycle does.
ReturnFromCycle(c) ==
    /\ pc[c] = "inCycle" /\ cpc[own[c]] \in {"exited", "abandoned"}
    /\ pc' = [pc EXCEPT ![c] = "idle"]
    /\ UNCHANGED <<agentState, eventQueue, queue, monitor, starts, shardOrder, shards,
                   req, mon, own, calls, arg, cycleVars, history>>
-----------------------------------------------------------------------------
(* eventProcessingCycle, run t *)

\* The top of the loop: a null field ends the cycle.
Loop(t) ==
    /\ cpc[t] = "loop"
    /\ cmon' = [cmon EXCEPT ![t] = eventQueue]
    /\ cpc' = [cpc EXCEPT ![t] = IF eventQueue = NoQueue THEN "abandoned" ELSE "enter"]
    /\ UNCHANGED <<agentState, eventQueue, queue, monitor, starts, shardOrder, shards,
                   callVars, cev, cur, stale, at, history>>

BeginSignal(t, e) ==
    /\ cev' = [cev EXCEPT ![t] = e]
    /\ cur' = [cur EXCEPT ![t] = IF Destructive(e) THEN Len(shardOrder) ELSE 0]
    /\ stale' = [stale EXCEPT ![t] = FALSE]
    /\ at' = [at EXCEPT ![t] = NoShard]
    /\ cpc' = [cpc EXCEPT ![t] = "signal"]

\* Mutants of Poll: the newest event is taken; the rest of the queue is lost.
PollNewest(t, q) ==
    /\ queue' = [queue EXCEPT ![q] = SubSeq(@, 1, Len(@) - 1)]
    /\ BeginSignal(t, queue[q][Len(queue[q])])
PollAndClear(t, q) ==
    /\ queue' = [queue EXCEPT ![q] = <<>>]
    /\ BeginSignal(t, Head(queue[q]))

\* The head of queue q leaves it and the iteration over the shards begins.
Poll(t, q) ==
    /\ queue' = [queue EXCEPT ![q] = Tail(@)]
    /\ BeginSignal(t, Head(queue[q]))

\* Mutant of GoTo: the cycle returns when it finds the queue empty.
GoToNoWait(t, where) ==
    /\ cpc' = [cpc EXCEPT ![t] = IF where = "waiting" THEN "exited" ELSE where]
    /\ UNCHANGED <<queue, cev, cur, stale, at>>

GoTo(t, where) ==
    /\ cpc' = [cpc EXCEPT ![t] = where]
    /\ UNCHANGED <<queue, cev, cur, stale, at>>

\* Inside the monitor for the first time: poll, or wait on the field's queue, which
\* must be the one whose monitor is held.
Take(t) ==
    /\ cpc[t] = "enter" /\ monitor[cmon[t]] = {}
    /\ IF eventQueue = NoQueue THEN GoTo(t, "abandoned")
       ELSE IF queue[eventQueue] # <<>> THEN Poll(t, eventQueue)
       ELSE GoTo(t, IF eventQueue = cmon[t] THEN "waiting" ELSE "abandoned")
    /\ UNCHANGED <<agentState, eventQueue, monitor, starts, shardOrder, shards,
                   callVars, cmon, history>>

\* The wait ends by notify or after GLOBAL_WAITING_TIME, whichever is first.
Wake(t) ==
    /\ cpc[t] = "waiting" /\ monitor[cmon[t]] = {}
    /\ IF eventQueue = NoQueue THEN GoTo(t, "abandoned")
       ELSE IF queue[eventQueue] # <<>> THEN Poll(t, eventQueue)
       ELSE GoTo(t, "loop")
    /\ UNCHANGED <<agentState, eventQueue, monitor, starts, shardOrder, shards,
                   callVars, cmon, history>>

\* Mutant of HasNext: the reverse iteration stops one shard early.
HasNextShort(t) ==
    IF Destructive(cev[t]) THEN cur[t] # 1 ELSE cur[t] # Len(shardOrder)

HasNext(t) ==
    IF Destructive(cev[t]) THEN cur[t] # 0 ELSE cur[t] # Len(shardOrder)

\* The iterator hands out the next shard; a list changed under it throws.
NextShard(t) ==
    LET i == IF Destructive(cev[t]) THEN cur[t] ELSE cur[t] + 1
    IN  /\ cpc[t] = "signal" /\ pc[t] = "idle" /\ at[t] = NoShard /\ HasNext(t)
        /\ IF stale[t]
           THEN cpc' = [cpc EXCEPT ![t] = "abandoned"] /\ UNCHANGED <<cur, at>>
           ELSE /\ cur' = [cur EXCEPT ![t] = IF Destructive(cev[t]) THEN @ - 1 ELSE @ + 1]
                /\ at' = [at EXCEPT ![t] = shardOrder[i]]
                /\ UNCHANGED cpc
        /\ UNCHANGED <<agentState, eventQueue, queue, monitor, starts, shardOrder, shards,
                       callVars, cmon, cev, stale, history>>

\* signalAgentEvent on that shard.  One that has left the map meanwhile is passed over, or,
\* if it left between containsKey and get, the null ends the run.
Signal(t) ==
    /\ cpc[t] = "signal" /\ at[t] # NoShard
    /\ at' = [at EXCEPT ![t] = NoShard]
    /\ IF at[t] \in shards
       THEN seen' = [seen EXCEPT ![at[t]] = Append(@, cev[t])] /\ UNCHANGED cpc
       ELSE UNCHANGED seen /\ (cpc' = [cpc EXCEPT ![t] = "abandoned"] \/ UNCHANGED cpc)
    /\ UNCHANGED <<agentState, eventQueue, queue, monitor, starts, shardOrder, shards,
                   callVars, cmon, cev, cur, stale, ignored>>

\* The iteration is over; FSMEventOut has work only for the two life cycle events.
EndSignal(t) ==
    /\ cpc[t] = "signal" /\ pc[t] = "idle" /\ at[t] = NoShard /\ ~HasNext(t)
    /\ cpc' = [cpc EXCEPT ![t] =
                 IF cev[t].kind.type \in {"AGENT_START", "AGENT_STOP"} THEN "outRead" ELSE "loop"]
    /\ UNCHANGED <<agentState, eventQueue, queue, monitor, starts, shardOrder, shards,
                   callVars, cmon, cev, cur, stale, at, history>>

\* FSMEventOut reads the field to lock it.
ReadQueueOut(t) ==
    /\ cpc[t] = "outRead"
    /\ cmon' = [cmon EXCEPT ![t] = eventQueue]
    /\ cpc' = [cpc EXCEPT ![t] = IF eventQueue = NoQueue THEN "abandoned" ELSE "out"]
    /\ UNCHANGED <<agentState, eventQueue, queue, monitor, starts, shardOrder, shards,
                   callVars, cev, cur, stale, at, history>>

\* FSMEventOut for AGENT_START: the agent is RUNNING, whatever its state was.
StartOut(t) ==
    /\ cpc[t] = "out" /\ cev[t].kind.type = "AGENT_START" /\ monitor[cmon[t]] = {}
    /\ agentState' = "RUNNING"
    /\ cpc' = [cpc EXCEPT ![t] = "loop"]
    /\ UNCHANGED <<eventQueue, queue, monitor, starts, shardOrder, shards,
                   callVars, cmon, cev, cur, stale, at, history>>

\* FSMEventOut for AGENT_STOP: what is left in the queue is ignored.
StopOut(t) ==
    /\ cpc[t] = "out" /\ cev[t].kind.type = "AGENT_STOP" /\ monitor[cmon[t]] = {}
    /\ IF eventQueue = NoQueue
       THEN /\ cpc' = [cpc EXCEPT ![t] = "abandoned"]
            /\ UNCHANGED <<agentState, queue, ignored>>
       ELSE /\ ignored' = ignored \cup {queue[eventQueue][i] : i \in DOMAIN queue[eventQueue]}
            /\ queue' = [queue EXCEPT ![eventQueue] = <<>>]
            /\ agentState' = IF cev[t].kind.transient THEN "TRANSIENT" ELSE "STOPPED"
            /\ cpc' = [cpc EXCEPT ![t] = "clear"]
    /\ UNCHANGED <<eventQueue, monitor, starts, shardOrder, shards,
                   callVars, cmon, cev, cur, stale, at, seen>>

\* After the monitor is released the field is set to null and the cycle returns.
ClearQueue(t) ==
    /\ cpc[t] = "clear"
    /\ eventQueue' = NoQueue
    /\ cpc' = [cpc EXCEPT ![t] = "exited"]
    /\ UNCHANGED <<agentState, queue, monitor, starts, shardOrder, shards,
                   callVars, cmon, cev, cur, stale, at, history>>
-----------------------------------------------------------------------------
(* The operations that bypass the event queue *)

canAddShards == agentState \in {"STOPPED", "TRANSIENT", "RUNNING"}

OrderSet == {shardOrder[i] : i \in DOMAIN shardOrder}

\* A change of the list invalidates every iterator over it.
Invalidate == stale' = [t \in Cycles |-> stale[t] \/ cpc[t] = "signal"]

BeginEdit(c, where, s) ==
    /\ pc[c] = "idle" /\ c \in Editors /\ calls[c] < MaxCalls
    /\ calls' = [calls EXCEPT ![c] = @ + 1]
    /\ pc' = [pc EXCEPT ![c] = where]
    /\ arg' = [arg EXCEPT ![c] = s]
    /\ UNCHANGED <<agentState, eventQueue, queue, monitor, starts, shardOrder, shards,
                   req, mon, own, cycleVars, history>>

GoOnEdit(c, where) ==
    /\ pc' = [pc EXCEPT ![c] = where]
    /\ arg' = IF where = "idle" THEN [arg EXCEPT ![c] = NoShard] ELSE arg
    /\ UNCHANGED <<agentState, eventQueue, queue, monitor, starts,
                   req, mon, own, calls, cpc, cmon, cev, cur, at, history>>

\* addShard: the state is looked at first, and not again.
CheckAddShard(c, s) == canAddShards /\ BeginEdit(c, "absent", s)

\* A designation that is in the map throws.
CheckAbsent(c) ==
    /\ pc[c] = "absent"
    /\ GoOnEdit(c, IF arg[c] \in shards THEN "idle" ELSE "insert")
    /\ UNCHANGED <<shardOrder, shards, stale>>

PutShard(c) ==
    /\ pc[c] = "insert"
    /\ shards' = shards \cup {arg[c]}
    /\ GoOnEdit(c, "find")
    /\ UNCHANGED <<shardOrder, stale>>

FindShard(c) ==
    /\ pc[c] = "find"
    /\ GoOnEdit(c, IF arg[c] \in OrderSet THEN "idle" ELSE "append")
    /\ UNCHANGED <<shardOrder, shards, stale>>

AppendShard(c) ==
    /\ pc[c] = "append"
    /\ shardOrder' = Append(shardOrder, arg[c]) /\ Invalidate
    /\ GoOnEdit(c, "idle")
    /\ UNCHANGED shards

\* removeShard, which does not look at the agent's state; an unknown shard throws.
CheckRemoveShard(c, s) == s \in shards /\ BeginEdit(c, "delist", s)

FirstPlace(i, s) == shardOrder[i] = s /\ \A j \in DOMAIN shardOrder : j < i => shardOrder[j] # s

Without(i) ==
    [j \in 1 .. Len(shardOrder) - 1 |-> IF j < i THEN shardOrder[j] ELSE shardOrder[j + 1]]

\* The first place in the list goes, if there is any; then the key of the map.
RemoveFromOrder(c) ==
    /\ pc[c] = "delist"
    /\ IF arg[c] \in OrderSet
       THEN /\ \E i \in DOMAIN shardOrder : FirstPlace(i, arg[c]) /\ shardOrder' = Without(i)
            /\ Invalidate
       ELSE UNCHANGED <<shardOrder, stale>>
    /\ GoOnEdit(c, "unmap")
    /\ UNCHANGED shards

RemoveFromMap(c) ==
    /\ pc[c] = "unmap"
    /\ shards' = shards \ {arg[c]}
    /\ GoOnEdit(c, "idle")
    /\ UNCHANGED <<shardOrder, stale>>

\* toggleTransient reads the state and writes the other one, with no monitor.
\* In any other state it throws and changes nothing.
ToggleRead(c) ==
    /\ pc[c] = "idle" /\ c \in Togglers /\ calls[c] < MaxCalls
    /\ agentState \in {"STOPPED", "TRANSIENT"}
    /\ calls' = [calls EXCEPT ![c] = @ + 1]
    /\ req' = [req EXCEPT ![c] = [kind |-> [type |-> "AGENT_WAVE", newThread |-> FALSE,
                                             transient |-> (agentState = "STOPPED")],
                                   by |-> c, n |-> calls[c] + 1]]
    /\ pc' = [pc EXCEPT ![c] = "toggle"]
    /\ UNCHANGED <<agentState, eventQueue, queue, monitor, starts, shardOrder, shards,
                   mon, own, arg, cycleVars, history>>

ToggleWrite(c) ==
    /\ pc[c] = "toggle"
    /\ agentState' = IF req[c].kind.transient THEN "TRANSIENT" ELSE "STOPPED"
    /\ pc' = [pc EXCEPT ![c] = "idle"]
    /\ UNCHANGED <<eventQueue, queue, monitor, starts, shardOrder, shards,
                   req, mon, own, calls, arg, cycleVars, history>>
-----------------------------------------------------------------------------
CallStep(c) ==
    CreateQueue(c) \/ ReadQueue(c) \/ Enter(c) \/ Put(c) \/ ReturnFromCycle(c)

CycleStep(t) ==
    \/ Loop(t) \/ Take(t) \/ Wake(t) \/ NextShard(t) \/ Signal(t) \/ EndSignal(t)
    \/ ReadQueueOut(t) \/ StartOut(t) \/ StopOut(t) \/ ClearQueue(t)

Edit(c) ==
    \/ \E s \in Shards : CheckAddShard(c, s) \/ CheckRemoveShard(c, s)
    \/ CheckAbsent(c) \/ PutShard(c) \/ FindShard(c) \/ AppendShard(c)
    \/ RemoveFromOrder(c) \/ RemoveFromMap(c)

Toggle(c) == ToggleRead(c) \/ ToggleWrite(c)

Next ==
    \/ \E c \in Threads : CallStep(c) \/ \E k \in Kind : Post(c, k)
    \/ \E t \in Cycles : CycleStep(t)
    \/ \E c \in Posters : Edit(c) \/ Toggle(c)

Spec == Init /\ [][Next]_vars

\* The JVM runs every thread: a call that was begun goes on, and so does a cycle.
\* Nobody is obliged to begin a call.
FairSpec ==
    /\ Spec
    /\ \A c \in Threads : WF_vars(CallStep(c))
    /\ \A t \in Cycles : WF_vars(CycleStep(t))
-----------------------------------------------------------------------------
(* Properties *)

Alive(t) == cpc[t] \notin {"none", "exited", "abandoned"}
InShards(t) == cpc[t] \in {"signal", "outRead", "out"}
Kept == {InitOrder[i] : i \in DOMAIN InitOrder}
IsStart(e) == e.kind.type = "AGENT_START"
IsStop(e) == e.kind.type = "AGENT_STOP"

\* Every two shards of the agent are signalled the same events in the same order,
\* whatever the direction in which one event visits them (eventProcessingCycle).
ShardsAgree ==
    \A s, u \in Kept : \A i \in DOMAIN seen[s] \cap DOMAIN seen[u] : seen[s][i] = seen[u][i]

\* In one life of the agent a shard is signalled AGENT_START first and never again, and
\* nothing behind an AGENT_STOP, whoever posts, stops or starts meanwhile (FSMEventIn,
\* FSMEventOut).  It is about one start: see LivesAreWhole.
LifeIsWhole ==
    \A s \in Kept : \A i \in DOMAIN seen[s] :
        /\ IsStart(seen[s][i]) <=> i = 1
        /\ IsStop(seen[s][i]) => i = Len(seen[s])

\* The events one thread posted reach a shard in the order of its calls, none of
\* them twice, also when it raced with other threads, with one that edits the list of
\* shards, and with the life cycle.  With two editors the list may get a shard twice
\* (lines 587-588), which is then signalled the same event twice.
CallerOrder ==
    \A s \in Kept : \A i, j \in DOMAIN seen[s] :
        i < j /\ seen[s][i].by = seen[s][j].by => seen[s][i].n < seen[s][j].n

\* A stopped or frozen agent is quiet: no shard is being signalled (FSMEventOut moves
\* to STOPPED or TRANSIENT only when the shards are done; serialization relies on it).
StoppedIsQuiet ==
    agentState \in {"STOPPED", "TRANSIENT"} => \A t \in Cycles : ~InShards(t)

\* An agent that says it is RUNNING has somebody who processes its queue.
RunningIsServed == agentState = "RUNNING" => \E t \in Cycles : Alive(t)

\* The same of an agent that starts again: a shard is signalled AGENT_START first and first
\* after an AGENT_STOP.  A poster that was admitted in one life reads the field eventQueue
\* in the next, and puts its event there ahead of the AGENT_START (lines 348-359).
LivesAreWhole ==
    \A s \in Kept : \A i \in DOMAIN seen[s] :
        IsStart(seen[s][i]) <=> (i = 1 \/ IsStop(seen[s][i - 1]))

\* Between two runs of the processing cycle, at most one signals shards.
OneCycleSignals == \A t, u \in Cycles : InShards(t) /\ InShards(u) => t = u

Queued(c, n) ==
    \E q \in Queues : \E i \in DOMAIN queue[q] : queue[q][i].by = c /\ queue[q][i].n = n
SeenBy(s, c, n) == \E i \in DOMAIN seen[s] : seen[s][i].by = c /\ seen[s][i].n = n
StopSeen == \E s \in Shards : \E i \in DOMAIN seen[s] : IsStop(seen[s][i])

\* What postAgentEvent accepted reaches every shard, unless the shards are stopped.
AcceptedIsSeen ==
    \A c \in Threads, n \in 1 .. MaxCalls :
        Queued(c, n) ~> (StopSeen \/ \A s \in Kept : SeenBy(s, c, n))

\* A start that was put in the queue ends in RUNNING, a stop in STOPPED or TRANSIENT.
CallsComplete ==
    /\ agentState = "STARTING" ~> agentState = "RUNNING"
    /\ agentState = "STOPPING" ~> agentState \in {"STOPPED", "TRANSIENT"}

\* The promise of postAgentEvent: a successfully posted event is processed eventually,
\* so no accepted event may be thrown away.
NothingIgnored == ignored = {}

\* The promise of exit(): no event is received after the AGENT_STOP has been posted.
NothingAfterStop ==
    \A q \in Queues : \A i \in DOMAIN queue[q] : IsStop(queue[q][i]) => i = Len(queue[q])

\* FSMEventIn presumes that the event can indeed be posted in the current state.
StartIsPresumed ==
    [][\A c \in Threads : CreateQueue(c) => CanPostEvent(req[c].kind)]_vars

\* The TRANSIENT state does not allow changes of the shard list.
TransientIsFrozen == [][agentState = "TRANSIENT" => shardOrder' = shardOrder]_vars
=============================================================================
