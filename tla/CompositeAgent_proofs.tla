------------------------ MODULE CompositeAgent_proofs ------------------------
(***************************************************************************)
(* Proofs about CompositeAgent.                                            *)
(***************************************************************************)
EXTENDS CompositeAgent, SequenceTheorems, TLAPS

USE BoundsAssumption

LEMMA FutureStateIsState ==
  ASSUME TypeOK, NEW k \in Kind PROVE FutureState(k) \in States
  BY DEF TypeOK, FutureState, States, Kind, EventTypes

\* Taking the head of a queue keeps every type (shared by Take and Wake).
LEMMA PollType ==
  ASSUME TypeOK, NEW t \in Cycles, NEW q \in Queues, queue[q] # <<>>, Poll(t, q)
  PROVE  /\ queue' \in [Queues -> Seq(Event)]
         /\ cev' \in [Cycles -> Event \cup {NoEvent}]
         /\ cur' \in [Cycles -> Nat]
         /\ stale' \in [Cycles -> BOOLEAN]
         /\ at' \in [Cycles -> Shards \cup {NoShard}]
         /\ cpc' \in [Cycles -> CyclePC]
         /\ cev'[t] \in Event
         /\ cur'[t] \in 0 .. Len(shardOrder)
         /\ \A u \in Cycles : u # t => /\ cev'[u] = cev[u] /\ cur'[u] = cur[u]
                                      /\ stale'[u] = stale[u] /\ cpc'[u] = cpc[u]
         /\ cpc'[t] = "signal"
  <1>1. Head(queue[q]) \in Event /\ Tail(queue[q]) \in Seq(Event)
    BY DEF TypeOK
  <1>2. Len(shardOrder) \in Nat
    BY DEF TypeOK
  <1> QED BY <1>1, <1>2 DEF TypeOK, Poll, BeginSignal, CyclePC

\* A step of addShard or removeShard keeps every type.
LEMMA EditType ==
  ASSUME TypeOK, NEW c \in Posters, arg[c] \in Shards,
         NEW where \in EditPC \cup {"idle"}, GoOnEdit(c, where),
         shardOrder' \in Seq(Shards), shards' \subseteq Shards, stale' \in [Cycles -> BOOLEAN],
         UNCHANGED <<shardOrder, stale>> \/ Invalidate
  PROVE  TypeOK'
  <1>1. c \in Threads
    BY DEF Threads
  <1>2. pc' \in [Threads -> CallPC] /\ pc'[c] = where
    BY <1>1 DEF GoOnEdit, TypeOK, CallPC, EditPC
  <1>3. arg' \in [Threads -> Shards \cup {NoShard}] /\ (where # "idle" => arg'[c] \in Shards)
    BY <1>1 DEF GoOnEdit, TypeOK
  <1>4. \A d \in Threads : d # c => pc'[d] = pc[d] /\ arg'[d] = arg[d]
    BY DEF GoOnEdit, TypeOK
  <1>5. UNCHANGED <<agentState, eventQueue, queue, monitor, starts, req, mon, own, calls,
                    cpc, cmon, cev, cur, at, seen, ignored>>
    BY DEF GoOnEdit, history
  <1>6. \A d \in Threads : /\ pc'[d] \notin {"idle"} \cup EditPC => req[d] \in Event
                           /\ pc'[d] \in EditPC => arg'[d] \in Shards
                           /\ pc'[d] \in {"enter", "put"} => mon[d] \in Queues
    BY <1>2, <1>3, <1>4 DEF TypeOK, EditPC
  <1>7. \A t \in Cycles : cpc'[t] = "signal" /\ ~stale'[t] => cur'[t] \in 0 .. Len(shardOrder')
    <2>1. CASE UNCHANGED <<shardOrder, stale>>
      BY <1>5, <2>1 DEF TypeOK
    <2>2. CASE Invalidate
      BY <1>5, <2>2 DEF Invalidate
    <2> QED BY <2>1, <2>2
  <1> QED BY <1>2, <1>3, <1>5, <1>6, <1>7 DEF TypeOK

\* Without one of its members the list is a list of shards.
LEMMA WithoutType ==
  ASSUME TypeOK, NEW i \in DOMAIN shardOrder
  PROVE  Without(i) \in Seq(Shards)
  <1> DEFINE len == Len(shardOrder)
  <1>1. shardOrder \in Seq(Shards) /\ len \in Nat /\ DOMAIN shardOrder = 1 .. len /\ len - 1 \in Nat
    BY DEF TypeOK
  <1>2. \A j \in 1 .. len - 1 :
            (IF j < i THEN shardOrder[j] ELSE shardOrder[j + 1]) \in Shards
    BY <1>1
  <1>3. Without(i) \in [1 .. len - 1 -> Shards]
    BY <1>2 DEF Without
  <1>4. \A n \in Nat : [1 .. n -> Shards] \subseteq Seq(Shards)
    OBVIOUS
  <1> HIDE DEF len
  <1> QED BY <1>1, <1>3, <1>4

\* The type invariant: every field, program counter and history variable keeps its type.
THEOREM TypeCorrect == Spec => []TypeOK
<1>1. Init => TypeOK
  BY PosterAssumption, OrderAssumption
     DEF Init, TypeOK, States, Queues, Cycles, CallPC, EditPC, CyclePC, NoQueue
<1>2. TypeOK /\ [Next]_vars => TypeOK'
  <2> SUFFICES ASSUME TypeOK, [Next]_vars PROVE TypeOK'
    OBVIOUS
  <2> USE DEF TypeOK, EditPC
  <2>1. ASSUME NEW c \in Threads, NEW k \in Kind, Post(c, k) PROVE TypeOK'
    <3>1. calls[c] + 1 \in 1 .. MaxCalls
      BY <2>1 DEF Post
    <3>2. [kind |-> k, by |-> c, n |-> calls[c] + 1] \in Event
      BY <3>1 DEF Event
    <3> QED BY <2>1, <3>1, <3>2 DEF Post, CallPC, cycleVars, history
  <2>2. ASSUME NEW c \in Threads, CreateQueue(c) PROVE TypeOK'
    <3>1. starts + 1 \in Queues /\ starts + 1 \in Cycles /\ starts + 1 \in 0 .. MaxStarts
      BY <2>2 DEF CreateQueue, Queues, Cycles
    <3>2. cpc' \in [Cycles -> CyclePC]
      BY <2>2, <3>1 DEF CreateQueue, CyclePC
    <3>3. \A t \in Cycles : cpc'[t] = cpc[t] \/ cpc'[t] \in {"loop", "none"}
      BY <2>2, <3>1 DEF CreateQueue
    <3> QED BY <2>2, <3>1, <3>2, <3>3 DEF CreateQueue, CallPC, history
  <2>3. ASSUME NEW c \in Threads, ReadQueue(c) PROVE TypeOK'
    BY <2>3 DEF ReadQueue, CallPC, cycleVars, history
  <2>4. ASSUME NEW c \in Threads, Enter(c) PROVE TypeOK'
    <3>1. req[c].kind \in Kind
      BY <2>4 DEF Enter, Event
    <3>2. agentState' \in States
      BY <2>4, <3>1, FutureStateIsState DEF Enter
    <3> QED BY <2>4, <3>2 DEF Enter, CallPC, cycleVars, history
  <2>5. ASSUME NEW c \in Threads, Put(c) PROVE TypeOK'
    <3>1. queue' \in [Queues -> Seq(Event)]
      <4>1. req[c] \in Event
        BY <2>5 DEF Put
      <4>2. \A q \in Queues : Append(queue[q], req[c]) \in Seq(Event)
        BY <4>1
      <4> QED BY <2>5, <4>2 DEF Put
    <3>2. cpc' \in [Cycles -> CyclePC] /\ \A t \in Cycles : cpc'[t] \in {cpc[t], "loop"}
      BY <2>5 DEF Put, CyclePC
    <3>3. pc' \in [Threads -> CallPC] /\ \A d \in Threads : d # c => pc'[d] = pc[d]
      BY <2>5 DEF Put, CallPC
    <3>4. pc'[c] \in {"inCycle", "idle"} /\ req[c] \in Event
      BY <2>5 DEF Put
    <3> QED BY <2>5, <3>1, <3>2, <3>3, <3>4 DEF Put, history
  <2>6. ASSUME NEW c \in Threads, ReturnFromCycle(c) PROVE TypeOK'
    BY <2>6 DEF ReturnFromCycle, CallPC, cycleVars, history
  <2>7. ASSUME NEW t \in Cycles, Loop(t) PROVE TypeOK'
    BY <2>7 DEF Loop, CyclePC, callVars, history
  <2>8. ASSUME NEW t \in Cycles, Take(t) \/ Wake(t) PROVE TypeOK'
    <3>1. CASE eventQueue # NoQueue /\ queue[eventQueue] # <<>> /\ Poll(t, eventQueue)
      <4>1. UNCHANGED <<agentState, eventQueue, monitor, starts, shardOrder, shards,
                        callVars, cmon, history>>
        BY <2>8 DEF Take, Wake
      <4>2. eventQueue \in Queues
        BY <3>1
      <4> QED BY <3>1, <4>1, <4>2, PollType DEF callVars, history
    <3>2. CASE \E where \in {"abandoned", "waiting", "loop"} : GoTo(t, where)
      BY <2>8, <3>2 DEF Take, Wake, GoTo, CyclePC, callVars, history
    <3> QED BY <2>8, <3>1, <3>2 DEF Take, Wake
  <2>9. ASSUME NEW t \in Cycles, NextShard(t) \/ Signal(t) PROVE TypeOK'
    <3>1. CASE NextShard(t)
      <4>1. CASE stale[t]
        <5>1. cpc' = [cpc EXCEPT ![t] = "abandoned"]
          BY <3>1, <4>1 DEF NextShard
        <5>2. /\ cpc' \in [Cycles -> CyclePC] /\ cpc'[t] = "abandoned"
              /\ \A u \in Cycles : u # t => cpc'[u] = cpc[u]
          BY <5>1 DEF CyclePC
        <5>3. UNCHANGED <<agentState, eventQueue, queue, monitor, starts, shardOrder, shards,
                          callVars, cmon, cev, cur, stale, at, history>>
          BY <3>1, <4>1 DEF NextShard
        <5> QED BY <5>2, <5>3 DEF callVars, history
      <4>2. CASE ~stale[t]
        <5> DEFINE i == IF Destructive(cev[t]) THEN cur[t] ELSE cur[t] + 1
        <5> DEFINE n == IF Destructive(cev[t]) THEN cur[t] - 1 ELSE cur[t] + 1
        <5>0. n \in Nat
          <6>1. HasNext(t) /\ cur[t] \in Nat
            BY <3>1 DEF NextShard
          <6> QED BY <6>1 DEF HasNext
        <5>1. cur' \in [Cycles -> Nat]
          <6>1. cur' = [cur EXCEPT ![t] = n] /\ cur \in [Cycles -> Nat]
            BY <3>1, <4>2 DEF NextShard
          <6> QED BY <5>0, <6>1
        <5>2. i \in DOMAIN shardOrder /\ cur'[t] \in 0 .. Len(shardOrder)
          BY <3>1, <4>2 DEF NextShard, HasNext
        <5>3. shardOrder[i] \in Shards
          BY <5>2
        <5>4. at' \in [Cycles -> Shards \cup {NoShard}]
          BY <3>1, <4>2, <5>3 DEF NextShard
        <5>5. UNCHANGED <<cpc, cmon, cev, stale>>
          BY <3>1, <4>2 DEF NextShard
        <5>6. \A u \in Cycles : u # t => cur'[u] = cur[u]
          BY <3>1, <4>2 DEF NextShard
        <5> QED BY <3>1, <5>1, <5>2, <5>4, <5>5, <5>6 DEF NextShard, callVars, history
      <4> QED BY <4>1, <4>2
    <3>2. CASE Signal(t)
      <4>1. at' \in [Cycles -> Shards \cup {NoShard}]
        BY <3>2 DEF Signal
      <4>2. \A s \in Shards : Append(seen[s], cev[t]) \in Seq(Event)
        BY <3>2 DEF Signal
      <4>3. seen' \in [Shards -> Seq(Event)]
        <5>1. CASE seen' = seen
          BY <5>1
        <5>2. CASE seen' = [seen EXCEPT ![at[t]] = Append(seen[at[t]], cev[t])]
          <6>1. seen \in [Shards -> Seq(Event)]
            OBVIOUS
          <6> HIDE DEF TypeOK
          <6> QED BY <4>2, <5>2, <6>1
        <5> QED BY <3>2, <5>1, <5>2 DEF Signal
      <4>4. cpc' \in [Cycles -> CyclePC] /\ \A u \in Cycles : cpc'[u] \in {cpc[u], "abandoned"}
        BY <3>2 DEF Signal, CyclePC
      <4> QED BY <3>2, <4>1, <4>3, <4>4 DEF Signal, callVars
    <3> QED BY <2>9, <3>1, <3>2
  <2>10. ASSUME NEW t \in Cycles, EndSignal(t) PROVE TypeOK'
    BY <2>10 DEF EndSignal, CyclePC, callVars, history
  <2>11. ASSUME NEW t \in Cycles, ReadQueueOut(t) PROVE TypeOK'
    BY <2>11 DEF ReadQueueOut, CyclePC, callVars, history
  <2>12. ASSUME NEW t \in Cycles, StartOut(t) PROVE TypeOK'
    BY <2>12 DEF StartOut, CyclePC, States, callVars, history
  <2>13. ASSUME NEW t \in Cycles, StopOut(t) PROVE TypeOK'
    <3>1. CASE eventQueue = NoQueue
      BY <2>13, <3>1 DEF StopOut, CyclePC, callVars
    <3>2. CASE eventQueue # NoQueue
      <4>1. \A i \in DOMAIN queue[eventQueue] : queue[eventQueue][i] \in Event
        BY <3>2
      <4>2. ignored' \subseteq Event
        BY <2>13, <3>2, <4>1 DEF StopOut
      <4>3. queue' \in [Queues -> Seq(Event)]
        <5>1. <<>> \in Seq(Event)
          OBVIOUS
        <5> QED BY <2>13, <3>2, <5>1 DEF StopOut
      <4>4. agentState' \in States
        BY <2>13, <3>2 DEF StopOut, States
      <4> QED BY <2>13, <3>2, <4>2, <4>3, <4>4 DEF StopOut, CyclePC, callVars
    <3> QED BY <3>1, <3>2
  <2>14. ASSUME NEW t \in Cycles, ClearQueue(t) PROVE TypeOK'
    BY <2>14 DEF ClearQueue, CyclePC, callVars, history
  <2>15. ASSUME NEW c \in Posters, NEW s \in Shards, CheckAddShard(c, s) \/ CheckRemoveShard(c, s)
         PROVE  TypeOK'
    <3>1. PICK where \in {"absent", "delist"} : BeginEdit(c, where, s)
      BY <2>15 DEF CheckAddShard, CheckRemoveShard
    <3>2. c \in Threads /\ calls[c] + 1 \in 0 .. MaxCalls
      BY <3>1 DEF BeginEdit, Threads
    <3> QED BY <3>1, <3>2 DEF BeginEdit, CallPC, cycleVars, history
  <2>16. ASSUME NEW c \in Posters,
                CheckAbsent(c) \/ PutShard(c) \/ FindShard(c) \/ AppendShard(c)
         PROVE  TypeOK'
    <3>1. c \in Threads /\ arg[c] \in Shards
      BY <2>16 DEF Threads, CheckAbsent, PutShard, FindShard, AppendShard
    <3>2. PICK where \in EditPC \cup {"idle"} : GoOnEdit(c, where)
      BY <2>16 DEF CheckAbsent, PutShard, FindShard, AppendShard
    <3>3. shardOrder' \in Seq(Shards)
      <4>1. Append(shardOrder, arg[c]) \in Seq(Shards)
        BY <3>1
      <4> QED BY <2>16, <4>1 DEF CheckAbsent, PutShard, FindShard, AppendShard
    <3>4. shards' \subseteq Shards
      BY <2>16, <3>1 DEF CheckAbsent, PutShard, FindShard, AppendShard
    <3>5. stale' \in [Cycles -> BOOLEAN]
      <4>1. CASE AppendShard(c)
        BY <4>1, Zenon DEF AppendShard, Invalidate
      <4> QED BY <2>16, <4>1 DEF CheckAbsent, PutShard, FindShard
    <3>6. UNCHANGED <<shardOrder, stale>> \/ Invalidate
      BY <2>16 DEF CheckAbsent, PutShard, FindShard, AppendShard
    <3> HIDE DEF TypeOK, EditPC
    <3> QED BY <3>1, <3>2, <3>3, <3>4, <3>5, <3>6, EditType
  <2>17. ASSUME NEW c \in Posters, RemoveFromOrder(c) \/ RemoveFromMap(c) PROVE TypeOK'
    <3>1. c \in Threads /\ arg[c] \in Shards
      BY <2>17 DEF Threads, RemoveFromOrder, RemoveFromMap
    <3>2. PICK where \in EditPC \cup {"idle"} : GoOnEdit(c, where)
      BY <2>17 DEF RemoveFromOrder, RemoveFromMap
    <3>3. shardOrder' \in Seq(Shards)
      <4>1. shardOrder' = shardOrder \/ \E i \in DOMAIN shardOrder : shardOrder' = Without(i)
        BY <2>17 DEF RemoveFromOrder, RemoveFromMap
      <4> QED BY <4>1, WithoutType
    <3>4. shards' \subseteq Shards
      BY <2>17 DEF RemoveFromOrder, RemoveFromMap
    <3>5. stale' \in [Cycles -> BOOLEAN]
      <4>1. CASE stale' = stale
        BY <4>1
      <4>2. CASE Invalidate
        BY <4>2, Zenon DEF Invalidate
      <4> QED BY <2>17, <4>1, <4>2 DEF RemoveFromOrder, RemoveFromMap
    <3>6. UNCHANGED <<shardOrder, stale>> \/ Invalidate
      BY <2>17 DEF RemoveFromOrder, RemoveFromMap
    <3> HIDE DEF TypeOK, EditPC
    <3> QED BY <3>1, <3>2, <3>3, <3>4, <3>5, <3>6, EditType
  <2>18. ASSUME NEW c \in Posters, ToggleRead(c) PROVE TypeOK'
    <3>1. calls[c] + 1 \in 1 .. MaxCalls /\ c \in Threads
      BY <2>18 DEF ToggleRead, Threads
    <3>2. [kind |-> [type |-> "AGENT_WAVE", newThread |-> FALSE,
                     transient |-> (agentState = "STOPPED")],
           by |-> c, n |-> calls[c] + 1] \in Event
      BY <3>1 DEF Event, Kind, EventTypes
    <3>3. req' \in [Threads -> Event \cup {NoEvent}] /\ req'[c] \in Event
      BY <2>18, <3>1, <3>2 DEF ToggleRead
    <3>4. \A d \in Threads : d # c => req'[d] = req[d] /\ pc'[d] = pc[d]
      BY <2>18 DEF ToggleRead
    <3>5. pc' \in [Threads -> CallPC] /\ pc'[c] = "toggle"
      BY <2>18, <3>1 DEF ToggleRead, CallPC
    <3>6. calls' \in [Threads -> 0 .. MaxCalls]
      BY <2>18, <3>1 DEF ToggleRead
    <3> QED BY <2>18, <3>3, <3>4, <3>5, <3>6 DEF ToggleRead, cycleVars, history
  <2>19. ASSUME NEW c \in Posters, ToggleWrite(c) PROVE TypeOK'
    BY <2>19 DEF ToggleWrite, CallPC, States, Threads, cycleVars, history
  <2>20. CASE UNCHANGED vars
    BY <2>20 DEF vars, callVars, cycleVars, history
  <2> QED BY <2>1, <2>2, <2>3, <2>4, <2>5, <2>6, <2>7, <2>8, <2>9, <2>10, <2>11, <2>12,
             <2>13, <2>14, <2>15, <2>16, <2>17, <2>18, <2>19, <2>20
          DEF Next, CallStep, CycleStep, Edit, Toggle
<1> QED BY <1>1, <1>2, PTL DEF Spec
-----------------------------------------------------------------------------
(* While nobody edits the list of shards every iterator over it is good, and the *)
(* shard it hands out is in the map.                                       *)

Walk(t) ==
    /\ ~stale[t] /\ at[t] \in shards \cup {NoShard}
    /\ cpc[t] = "signal" => cur[t] \in 0 .. Len(shardOrder)

ListInv ==
    Editors = {} =>
        /\ \A c \in Threads : pc[c] \notin EditPC
        /\ \A i \in DOMAIN shardOrder : shardOrder[i] \in shards
        /\ \A t \in Cycles : Walk(t)

\* A step that begins no edit and no iteration.
LEMMA OthersKeepList ==
  ASSUME ListInv, UNCHANGED <<shardOrder, shards, stale, at, cur>>,
         \A c \in Threads : pc'[c] = pc[c] \/ pc'[c] \notin EditPC,
         \A t \in Cycles : cpc'[t] = cpc[t] \/ cpc'[t] # "signal"
  PROVE  ListInv'
  BY DEF ListInv, Walk

LEMMA CycleKeepsList ==
  ASSUME TypeOK, ListInv, Editors = {}, NEW t \in Cycles, CycleStep(t)
  PROVE  ListInv'
<1>1. /\ \A c \in Threads : pc[c] \notin EditPC
      /\ \A i \in DOMAIN shardOrder : shardOrder[i] \in shards
      /\ \A u \in Cycles : Walk(u)
  BY DEF ListInv
<1>2. UNCHANGED <<shardOrder, shards, pc>>
  BY DEF CycleStep, Loop, Take, Wake, NextShard, Signal, EndSignal, ReadQueueOut, StartOut,
         StopOut, ClearQueue, callVars
<1>3. SUFFICES Walk(t)' /\ \A u \in Cycles : u # t => Walk(u)'
  BY <1>1, <1>2 DEF ListInv
<1>4. CASE \E q \in Queues : Poll(t, q)
  <2>1. Len(shardOrder) \in Nat
    BY DEF TypeOK
  <2>2. PICK e : BeginSignal(t, e)
    BY <1>4 DEF Poll
  <2> QED BY <1>1, <1>2, <2>1, <2>2 DEF BeginSignal, Walk, TypeOK
<1>5. CASE NextShard(t)
  <2>1. /\ \A u \in Cycles : u # t => /\ cpc'[u] = cpc[u] /\ cur'[u] = cur[u]
                                      /\ at'[u] = at[u] /\ stale'[u] = stale[u]
        /\ stale'[t] = stale[t]
    BY <1>5 DEF NextShard, TypeOK
  <2>2. PICK n \in Nat : n = Len(shardOrder) /\ DOMAIN shardOrder = 1 .. n
    BY DEF TypeOK
  <2>3. ~stale[t] /\ cpc[t] = "signal" /\ HasNext(t) /\ cur[t] \in 0 .. n
    BY <1>1, <1>5, <2>2 DEF NextShard, Walk
  <2>4. PICK i : i = IF Destructive(cev[t]) THEN cur[t] ELSE cur[t] + 1
    OBVIOUS
  <2>5. i \in DOMAIN shardOrder
    BY <2>2, <2>3, <2>4 DEF HasNext
  <2>6. at'[t] = shardOrder[i]
    BY <1>5, <2>3, <2>4 DEF NextShard, TypeOK
  <2>7. cur'[t] = IF Destructive(cev[t]) THEN cur[t] - 1 ELSE cur[t] + 1
    BY <1>5, <2>3 DEF NextShard, TypeOK
  <2>8. cur'[t] \in 0 .. n
    BY <2>2, <2>4, <2>5, <2>7, <2>3
  <2> QED BY <1>1, <1>2, <2>1, <2>2, <2>3, <2>5, <2>6, <2>8 DEF Walk
<1>6. CASE Signal(t)
  BY <1>1, <1>2, <1>6 DEF Signal, Walk, TypeOK
<1>7. CASE /\ UNCHANGED <<cur, stale, at>> /\ cpc'[t] # "signal"
           /\ \A u \in Cycles : u # t => cpc'[u] = cpc[u]
  BY <1>1, <1>2, <1>7 DEF Walk
<1>8. CASE Take(t) \/ Wake(t)
  <2>1. \/ \E q \in Queues : Poll(t, q)
        \/ \E where \in {"abandoned", "waiting", "loop"} : GoTo(t, where)
    BY <1>8 DEF Take, Wake, TypeOK
  <2>2. ASSUME NEW where \in {"abandoned", "waiting", "loop"}, GoTo(t, where)
        PROVE  /\ UNCHANGED <<cur, stale, at>> /\ cpc'[t] # "signal"
               /\ \A u \in Cycles : u # t => cpc'[u] = cpc[u]
    BY <2>2 DEF GoTo, TypeOK
  <2> QED BY <1>4, <1>7, <2>1, <2>2
<1>9. CASE Loop(t) \/ EndSignal(t) \/ ReadQueueOut(t) \/ StartOut(t) \/ StopOut(t) \/ ClearQueue(t)
  <2>1. UNCHANGED <<cur, stale, at>>
    BY <1>9 DEF Loop, EndSignal, ReadQueueOut, StartOut, StopOut, ClearQueue
  <2>2. \E where \in CyclePC \ {"signal"} : cpc' = [cpc EXCEPT ![t] = where]
    BY <1>9 DEF Loop, EndSignal, ReadQueueOut, StartOut, StopOut, ClearQueue, CyclePC
  <2> QED BY <1>7, <2>1, <2>2 DEF TypeOK
<1> QED BY <1>5, <1>6, <1>8, <1>9 DEF CycleStep

THEOREM ListKept == Spec => []ListInv
<1>1. Init => ListInv
  BY OrderAssumption DEF Init, ListInv, Walk, EditPC
<1>2. TypeOK /\ ListInv /\ [Next]_vars => ListInv'
  <2> SUFFICES ASSUME TypeOK, ListInv, [Next]_vars, Editors = {} PROVE ListInv'
    BY DEF ListInv
  <2>1. ASSUME NEW c \in Threads, CallStep(c) \/ \E k \in Kind : Post(c, k) PROVE ListInv'
    <3>1. UNCHANGED <<shardOrder, shards, stale, at, cur>>
      BY <2>1 DEF CallStep, CreateQueue, ReadQueue, Enter, Put, ReturnFromCycle, Post, cycleVars
    <3>2. \E where \in CallPC \ EditPC : pc' = [pc EXCEPT ![c] = where]
      BY <2>1 DEF CallStep, CreateQueue, ReadQueue, Enter, Put, ReturnFromCycle, Post,
                  CallPC, EditPC
    <3>3. cpc' = cpc \/ \E t \in Nat, where \in {"loop", "none"} : cpc' = [cpc EXCEPT ![t] = where]
      <4>1. starts + 1 \in Nat /\ own[c] \in Nat
        BY DEF TypeOK, Queues, NoQueue
      <4> QED BY <2>1, <4>1 DEF CallStep, CreateQueue, ReadQueue, Enter, Put, ReturnFromCycle,
                               Post, cycleVars
    <3> QED BY <3>1, <3>2, <3>3, OthersKeepList DEF TypeOK
  <2>2. ASSUME NEW t \in Cycles, CycleStep(t) PROVE ListInv'
    BY <2>2, CycleKeepsList
  <2>3. ASSUME NEW c \in Posters, Edit(c) PROVE FALSE
    <3>1. c \in Threads
      BY DEF Threads
    <3>2. pc[c] \notin EditPC /\ c \notin Editors
      BY <3>1 DEF ListInv
    <3> QED BY <2>3, <3>2 DEF Edit, CheckAddShard, CheckRemoveShard, BeginEdit, CheckAbsent,
              PutShard, FindShard, AppendShard, RemoveFromOrder, RemoveFromMap, EditPC
  <2>4. ASSUME NEW c \in Posters, Toggle(c) PROVE ListInv'
    <3>1. UNCHANGED <<shardOrder, shards, stale, at, cur, cpc>>
      BY <2>4 DEF Toggle, ToggleRead, ToggleWrite, cycleVars
    <3>2. \E where \in CallPC \ EditPC : pc' = [pc EXCEPT ![c] = where]
      BY <2>4 DEF Toggle, ToggleRead, ToggleWrite, CallPC, EditPC
    <3> QED BY <3>1, <3>2, OthersKeepList DEF TypeOK
  <2>5. CASE UNCHANGED vars
    BY <2>5, OthersKeepList DEF vars, callVars, cycleVars
  <2> QED BY <2>1, <2>2, <2>3, <2>4, <2>5 DEF Next
<1> QED BY <1>1, <1>2, TypeCorrect, PTL DEF Spec
-----------------------------------------------------------------------------
(* One life: the agent object is started at most once and its transient state *)
(* is reached through the life cycle events only.  Every agent a node loads or *)
(* receives is such an object: a move ends its life and de-serialization makes *)
(* another object.  A second life of one object breaks the coupling (README,   *)
(* the promises the code does not keep, the rows with more than one start).    *)

OneLife == MaxStarts = 1 /\ Togglers = {}

InCall(c) == pc[c] \in {"read", "enter", "put"}
Unserved == cpc[1] \in {"none", "loop", "enter", "waiting"}
Stopped == agentState \in {"STOPPED", "TRANSIENT"}

\* The inductive strengthening.  Until the first event is put the queue is empty and
\* only a start is on its way; afterwards the state says where the cycle is.
QueueField ==
    eventQueue = IF starts = 0 \/ cpc[1] = "exited" THEN NoQueue ELSE 1

BeforeStart ==
    starts = 0 => /\ cpc[1] = "none" /\ agentState = "STOPPED" /\ queue[1] = <<>>
                  /\ \A c \in Threads : pc[c] \in {"idle", "create"} \cup EditPC

CallInv(c) ==
    /\ pc[c] # "toggle"
    /\ pc[c] = "create" => IsStart(req[c])
    /\ pc[c] = "put" => monitor[1] = {c}
    /\ InCall(c) /\ IsStart(req[c]) =>
          /\ Unserved /\ queue[1] = <<>>
          /\ pc[c] = "put" => agentState = "STARTING"
          /\ pc[c] # "put" => Stopped /\ \A d \in Threads : InCall(d) => d = c

StoppedInv ==
    Stopped => /\ cpc[1] \notin {"signal", "outRead", "out"}
               /\ Unserved =>
                     /\ queue[1] = <<>>
                     /\ \A c \in Threads : InCall(c) => IsStart(req[c]) /\ pc[c] # "put"

RunningInv == agentState = "RUNNING" => cpc[1] \notin {"none", "clear", "exited"}

EditInv == Editors = {} => cpc[1] # "abandoned"

LifeInv ==
    /\ QueueField /\ BeforeStart /\ (\A c \in Threads : CallInv(c))
    /\ StoppedInv /\ RunningInv /\ EditInv

LEMMA OneLifeFacts ==
  ASSUME OneLife
  PROVE  Cycles = {1} /\ Queues = {1} /\ NoQueue = 0 /\ Togglers = {}
  BY DEF OneLife, Cycles, Queues, NoQueue

LEMMA LifeInvInit == ASSUME OneLife, Init PROVE LifeInv
  BY OneLifeFacts
     DEF Init, LifeInv, QueueField, BeforeStart, CallInv, StoppedInv, RunningInv,
         EditInv, InCall, Unserved, Stopped

\* The steps of a call keep the invariant.
LEMMA LifeInvCall ==
  ASSUME OneLife, TypeOK, LifeInv, NEW c \in Threads,
         CallStep(c) \/ \E k \in Kind : Post(c, k)
  PROVE  LifeInv'
<1> USE OneLifeFacts
    DEF LifeInv, QueueField, BeforeStart, CallInv, StoppedInv, RunningInv, EditInv,
        InCall, Unserved, Stopped, IsStart, TypeOK, EditPC
<1>1. CASE \E k \in Kind : Post(c, k)
  BY <1>1 DEF Post, CanPostEvent, cycleVars, history
<1>2. CASE CreateQueue(c)
  <2>1. starts = 0 /\ starts' = 1 /\ eventQueue' = 1 /\ cpc'[1] \in {"loop", "none"}
    BY <1>2 DEF CreateQueue, OneLife
  <2>2. pc'[c] = "read" /\ \A d \in Threads : d # c => pc'[d] = pc[d]
    BY <1>2 DEF CreateQueue
  <2>3. UNCHANGED <<agentState, queue, monitor, req, stale>>
    BY <1>2 DEF CreateQueue
  <2>4. IsStart(req[c])
    BY <1>2 DEF CreateQueue
  <2>5. \A d \in Threads : ~InCall(d)
    BY <2>1
  <2>6. ASSUME NEW d \in Threads PROVE CallInv(d)'
    <3>1. CASE d = c
      BY <2>1, <2>2, <2>3, <2>4, <2>5, <3>1
    <3>2. CASE d # c
      BY <2>1, <2>2, <2>3, <2>5, <3>2
    <3> QED BY <3>1, <3>2
  <2> QED BY <2>1, <2>2, <2>3, <2>4, <2>5, <2>6
<1>3. CASE ReadQueue(c)
  BY <1>3 DEF ReadQueue, cycleVars, history
<1>4. CASE Enter(c)
  <2>1. mon[c] = 1 /\ monitor[1] = {} /\ monitor'[1] = {c} /\ pc[c] = "enter"
    BY <1>4 DEF Enter
  <2>2. pc'[c] = "put" /\ \A d \in Threads : d # c => pc'[d] = pc[d] /\ pc[d] # "put"
    BY <1>4, <2>1 DEF Enter
  <2>3. UNCHANGED <<eventQueue, queue, starts, req, cpc, stale>>
    BY <1>4 DEF Enter, cycleVars
  <2>4. CASE IsStart(req[c])
    <3>1. agentState' = "STARTING"
      BY <1>4, <2>4 DEF Enter, FutureState
    <3>2. Unserved /\ queue[1] = <<>> /\ \A d \in Threads : InCall(d) => d = c
      BY <2>1, <2>4
    <3>3. ASSUME NEW d \in Threads PROVE CallInv(d)'
      <4>1. CASE d = c
        BY <2>1, <2>2, <2>3, <3>1, <3>2, <4>1
      <4>2. CASE d # c
        BY <2>1, <2>2, <2>3, <3>2, <4>2
      <4> QED BY <4>1, <4>2
    <3>4. starts # 0
      BY <2>1
    <3>5. QueueField' /\ BeforeStart'
      BY <2>3, <3>4
    <3>6. EditInv'
      BY <2>2, <2>3
    <3> QED BY <3>1, <3>3, <3>5, <3>6
  <2>5. CASE ~IsStart(req[c])
    <3>1. agentState' = agentState \/ agentState' = "STOPPING"
      BY <1>4, <2>5 DEF Enter, FutureState
    <3>2. \A d \in Threads : ~(InCall(d) /\ IsStart(req[d]))
      BY <2>1, <2>5
    <3>3. \A d \in Threads : CallInv(d)'
      BY <2>1, <2>2, <2>3, <2>5, <3>2
    <3>4. StoppedInv'
      BY <2>1, <2>2, <2>3, <2>5, <3>1
    <3> QED BY <2>1, <2>2, <2>3, <3>1, <3>3, <3>4
  <2> QED BY <2>4, <2>5
<1>5. CASE Put(c)
  <2>1. mon[c] = 1 /\ monitor[1] = {c} /\ pc[c] = "put"
    BY <1>5 DEF Put
  <2>2. /\ pc'[c] \in {"idle", "inCycle"}
        /\ \A d \in Threads : d # c => pc'[d] = pc[d] /\ pc[d] # "put"
    <3>1. \A d \in Threads : d # c => pc[d] # "put"
      BY <2>1
    <3> QED BY <1>5, <3>1 DEF Put
  <2>3. UNCHANGED <<agentState, eventQueue, starts, req, stale>>
    BY <1>5 DEF Put
  <2>4. cpc' = cpc \/ (IsStart(req[c]) /\ cpc'[1] \in {cpc[1], "loop"})
    BY <1>5 DEF Put
  <2>5. \A d \in Threads : InCall(d) /\ d # c => ~IsStart(req[d])
    BY <2>1, <2>2
  <2>6. ~(Stopped /\ Unserved)
    BY <2>1
  <2>7. \A d \in Threads : CallInv(d)'
    BY <2>2, <2>3, <2>5
  <2>8. starts # 0
    BY <2>1
  <2>9. QueueField' /\ BeforeStart' /\ StoppedInv'
    <3>1. CASE IsStart(req[c])
      BY <2>1, <2>3, <2>4, <2>8, <3>1
    <3>2. CASE ~IsStart(req[c])
      BY <2>3, <2>4, <2>6, <2>8, <3>2
    <3> QED BY <3>1, <3>2
  <2>10. RunningInv' /\ EditInv'
    BY <2>2, <2>3, <2>4
  <2> QED BY <2>7, <2>9, <2>10
<1>6. CASE ReturnFromCycle(c)
  BY <1>6 DEF ReturnFromCycle, cycleVars, history
<1> QED BY <1>1, <1>2, <1>3, <1>4, <1>5, <1>6 DEF CallStep

\* The steps of the processing cycle keep the invariant.
LEMMA LifeInvCycle ==
  ASSUME OneLife, TypeOK, ListInv, LifeInv, CycleStep(1)
  PROVE  LifeInv'
<1> USE OneLifeFacts
    DEF LifeInv, QueueField, BeforeStart, CallInv, StoppedInv, RunningInv, EditInv,
        InCall, Unserved, Stopped, IsStart, TypeOK, EditPC
<1>1. CASE Loop(1)
  BY <1>1 DEF Loop, callVars, history
<1>2. CASE Take(1) \/ Wake(1)
  BY <1>2 DEF Take, Wake, Poll, BeginSignal, GoTo, callVars, history
<1>3. CASE NextShard(1) \/ Signal(1)
  <2>1. Editors = {} => ~stale[1] /\ at[1] \in shards \cup {NoShard}
    BY DEF ListInv, Walk
  <2>2. UNCHANGED <<agentState, eventQueue, queue, monitor, starts, callVars>>
    BY <1>3 DEF NextShard, Signal
  <2>3. cpc[1] = "signal" /\ (cpc'[1] = "signal" \/ (cpc'[1] = "abandoned" /\ Editors # {}))
    BY <1>3, <2>1 DEF NextShard, Signal
  <2> QED BY <2>2, <2>3 DEF callVars
<1>4. CASE EndSignal(1)
  BY <1>4 DEF EndSignal, callVars, history
<1>5. CASE ReadQueueOut(1)
  BY <1>5 DEF ReadQueueOut, callVars, history
<1>6. CASE StartOut(1)
  BY <1>6 DEF StartOut, callVars, history
<1>7. CASE StopOut(1)
  BY <1>7 DEF StopOut, callVars
<1>8. CASE ClearQueue(1)
  BY <1>8 DEF ClearQueue, callVars, history
<1> QED BY <1>1, <1>2, <1>3, <1>4, <1>5, <1>6, <1>7, <1>8 DEF CycleStep

\* Editing the shard list disturbs only the iterator; nobody toggles.
LEMMA LifeInvEdit ==
  ASSUME OneLife, TypeOK, LifeInv, NEW c \in Posters, Edit(c) \/ Toggle(c)
  PROVE  LifeInv'
<1> USE OneLifeFacts
<1>1. ~Toggle(c)
  BY DEF Toggle, ToggleRead, ToggleWrite, LifeInv, CallInv, Threads
<1>2. /\ UNCHANGED <<agentState, eventQueue, queue, monitor, starts, req, mon, own, cpc>>
      /\ pc[c] \in {"idle"} \cup EditPC
      /\ \E where \in {"idle"} \cup EditPC : pc' = [pc EXCEPT ![c] = where]
  <2>1. CASE \E s \in Shards : CheckAddShard(c, s) \/ CheckRemoveShard(c, s)
    BY <2>1 DEF CheckAddShard, CheckRemoveShard, BeginEdit, cycleVars, EditPC
  <2>2. CASE \/ CheckAbsent(c) \/ PutShard(c) \/ FindShard(c) \/ AppendShard(c)
             \/ RemoveFromOrder(c) \/ RemoveFromMap(c)
    BY <2>2 DEF CheckAbsent, PutShard, FindShard, AppendShard, RemoveFromOrder, RemoveFromMap,
                GoOnEdit, EditPC
  <2> QED BY <1>1, <2>1, <2>2 DEF Edit
<1>3. c \in Threads
  BY DEF Threads
<1>4. PICK where \in {"idle"} \cup EditPC : pc' = [pc EXCEPT ![c] = where]
  BY <1>2
<1>5. /\ pc'[c] \in {"idle"} \cup EditPC
      /\ \A d \in Threads : d # c => pc'[d] = pc[d]
  BY <1>3, <1>4 DEF TypeOK
<1>6. ASSUME NEW d \in Threads PROVE InCall(d)' => InCall(d)
  BY <1>5 DEF InCall, EditPC
<1>7. QueueField' /\ RunningInv' /\ EditInv'
  BY <1>2 DEF LifeInv, QueueField, RunningInv, EditInv
<1>8. BeforeStart' /\ StoppedInv'
  BY <1>2, <1>5, <1>6 DEF LifeInv, BeforeStart, StoppedInv, Stopped, Unserved, InCall, EditPC, IsStart
<1>9. ASSUME NEW d \in Threads PROVE CallInv(d)'
  BY <1>2, <1>5, <1>6 DEF LifeInv, CallInv, Stopped, Unserved, InCall, EditPC, IsStart
<1> QED BY <1>7, <1>8, <1>9 DEF LifeInv

THEOREM OneLifeInvariant == ASSUME OneLife PROVE Spec => []LifeInv
<1>1. Init => LifeInv
  BY LifeInvInit
<1>2. TypeOK /\ ListInv /\ LifeInv /\ [Next]_vars => LifeInv'
  <2> SUFFICES ASSUME TypeOK, ListInv, LifeInv, [Next]_vars PROVE LifeInv'
    OBVIOUS
  <2>1. CASE UNCHANGED vars
    BY <2>1 DEF vars, callVars, cycleVars, history, LifeInv, QueueField, BeforeStart,
           CallInv, StoppedInv, RunningInv, EditInv, InCall, Unserved, Stopped
  <2>2. CASE Next
    BY <2>2, OneLifeFacts, LifeInvCall, LifeInvCycle, LifeInvEdit DEF Next
  <2> QED BY <2>1, <2>2
<1> QED BY <1>1, <1>2, TypeCorrect, ListKept, PTL DEF Spec

\* In one life, no shard is signalled while the agent is STOPPED or TRANSIENT.
THEOREM QuietWhenStopped == ASSUME OneLife PROVE Spec => []StoppedIsQuiet
<1>1. LifeInv => StoppedIsQuiet
  BY OneLifeFacts DEF LifeInv, StoppedInv, Stopped, StoppedIsQuiet, InShards
<1> QED BY <1>1, OneLifeInvariant, PTL

\* In one life of an agent whose shards are not edited, RUNNING means that the cycle
\* is there to process the queue.
THEOREM ServedWhileRunning ==
  ASSUME OneLife, Editors = {} PROVE Spec => []RunningIsServed
<1>1. LifeInv => RunningIsServed
  BY OneLifeFacts DEF LifeInv, RunningInv, EditInv, RunningIsServed, Alive
<1> QED BY <1>1, OneLifeInvariant, PTL

-----------------------------------------------------------------------------
(* Proof of what the shards of a composite agent see in one life while     *)
(* nobody edits the list of shards.  All that happened is one sequence of  *)
(* events, B: a shard has seen B, or B and the event that is being         *)
(* signalled.                                                              *)

HandedOut(i) == IF Destructive(cev[1]) THEN i > cur[1] ELSE i <= cur[1]
Signalled(i) == cpc[1] = "signal" /\ HandedOut(i) /\ InitOrder[i] # at[1]

Common(B) ==
    \A i \in DOMAIN InitOrder :
        seen[InitOrder[i]] = IF Signalled(i) THEN Append(B, cev[1]) ELSE B

Whole(B) == \A i \in DOMAIN B : (IsStart(B[i]) <=> i = 1) /\ (IsStop(B[i]) => i = Len(B))

\* What has been signalled, and how it leaves the cycle.
Past(B) ==
    /\ Whole(B)
    /\ cpc[1] = "signal" => Whole(Append(B, cev[1]))
    /\ B # <<>> /\ IsStop(B[Len(B)]) => cpc[1] \in {"outRead", "out", "clear", "exited"}
    /\ cpc[1] \in {"outRead", "out"} => B # <<>> /\ cev[1] = B[Len(B)]
    /\ B = <<>> => Unserved \/ cpc[1] = "signal"
    /\ starts = 0 => B = <<>>

Began(B) == B # <<>> \/ cpc[1] = "signal"

\* What is still to be signalled: the start comes first, and only once.
Coming(B) ==
    /\ Began(B) => /\ \A i \in DOMAIN queue[1] : ~IsStart(queue[1][i])
                   /\ \A c \in Threads : InCall(c) => ~IsStart(req[c])
    /\ ~Began(B) => \A i \in DOMAIN queue[1] : IsStart(queue[1][i]) <=> i = 1
    /\ ~Began(B) /\ queue[1] = <<>> =>
          /\ \A c \in Threads : pc[c] = "put" => IsStart(req[c])
          /\ Stopped \/ \E c \in Threads : pc[c] = "put"

Iterates ==
    /\ shardOrder = InitOrder
    /\ cpc[1] = "signal" =>
          /\ cur[1] \in 0 .. Len(InitOrder)
          /\ at[1] # NoShard => \E i \in DOMAIN InitOrder : HandedOut(i) /\ InitOrder[i] = at[1]

SeenInv == Iterates /\ \E B \in Seq(Event) : Common(B) /\ Past(B) /\ Coming(B)

LEMMA CommonFacts == SeenInv /\ TypeOK => ShardsAgree
  <1> SUFFICES ASSUME SeenInv, TypeOK, NEW i \in DOMAIN InitOrder, NEW j \in DOMAIN InitOrder,
                      NEW n \in DOMAIN seen[InitOrder[i]] \cap DOMAIN seen[InitOrder[j]]
               PROVE  seen[InitOrder[i]][n] = seen[InitOrder[j]][n]
    BY DEF ShardsAgree, Kept
  <1>1. PICK B \in Seq(Event) : Common(B)
    BY DEF SeenInv
  <1> DEFINE C == Append(B, cev[1])
  <1>2. seen[InitOrder[i]] \in {B, C} /\ seen[InitOrder[j]] \in {B, C}
    BY <1>1 DEF Common
  <1>3. \A m \in DOMAIN B : C[m] = B[m]
    OBVIOUS
  <1> QED BY <1>2, <1>3

LEMMA WholeFacts == SeenInv /\ TypeOK => LifeIsWhole
  <1> SUFFICES ASSUME SeenInv, TypeOK, NEW s \in Kept PROVE Whole(seen[s])
    BY DEF LifeIsWhole, Whole
  <1>1. PICK j \in DOMAIN InitOrder : s = InitOrder[j]
    BY DEF Kept
  <1>2. PICK B \in Seq(Event) : Common(B) /\ Past(B)
    BY DEF SeenInv
  <1> QED BY <1>1, <1>2 DEF Common, Past, Signalled

\* The calls leave alone what has happened.
LEMMA CallKeepsPast ==
  ASSUME OneLife, TypeOK, LifeInv, NEW B \in Seq(Event), Common(B), Past(B), Iterates,
         UNCHANGED <<seen, cev, cur, at, shardOrder>>,
         starts' = 0 => starts = 0,
         cpc'[1] = cpc[1] \/ (B = <<>> /\ Unserved /\ cpc'[1] \in {"none", "loop"})
  PROVE  Common(B)' /\ Past(B)' /\ Iterates'
  <1>1. cpc'[1] = "signal" <=> cpc[1] = "signal"
    BY DEF Unserved
  <1>2. Common(B)' /\ Iterates'
    BY <1>1 DEF Common, Signalled, HandedOut, Destructive, Iterates
  <1>3. Past(B)'
    BY <1>1 DEF Past, Unserved, Whole, IsStart, IsStop
  <1> QED BY <1>2, <1>3

LEMMA CallKeepsSeen ==
  ASSUME OneLife, Editors = {}, TypeOK, LifeInv, LifeInv', SeenInv, NEW c \in Threads,
         CallStep(c) \/ \E k \in Kind : Post(c, k)
  PROVE  SeenInv'
<1> USE OneLifeFacts
<1>1. PICK B \in Seq(Event) : Common(B) /\ Past(B) /\ Coming(B)
  BY DEF SeenInv
<1>2. Iterates
  BY DEF SeenInv
<1>3. UNCHANGED <<seen, cev, cur, at, shardOrder>>
  BY DEF CallStep, CreateQueue, ReadQueue, Enter, Put, ReturnFromCycle, Post, cycleVars, history
<1>4. SUFFICES /\ Coming(B)'
               /\ starts' = 0 => starts = 0
               /\ cpc'[1] = cpc[1] \/ (B = <<>> /\ Unserved /\ cpc'[1] \in {"none", "loop"})
  BY <1>1, <1>2, <1>3, CallKeepsPast DEF SeenInv
<1>5. CASE \E k \in Kind : Post(c, k)
  <2>1. PICK k \in Kind : Post(c, k)
    BY <1>5
  <2>2. UNCHANGED <<agentState, queue, starts, cpc>> /\ pc[c] = "idle"
    BY <2>1 DEF Post, cycleVars
  <2>3. pc'[c] = "create" \/ (pc'[c] = "read" /\ ~IsStart(req'[c]))
    BY <2>1 DEF Post, IsStart, TypeOK
  <2>4. \A d \in Threads : d # c => pc'[d] = pc[d] /\ req'[d] = req[d]
    BY <2>1 DEF Post, TypeOK
  <2>5. \A d \in Threads : /\ pc'[d] = "put" <=> pc[d] = "put"
                           /\ pc[d] = "put" => req'[d] = req[d]
                           /\ InCall(d)' => \/ InCall(d) /\ req'[d] = req[d]
                                            \/ ~IsStart(req'[d])
    BY <2>2, <2>3, <2>4 DEF InCall
  <2>6. Coming(B)'
    BY <1>1, <2>2, <2>5 DEF Coming, Began, Stopped, IsStart
  <2> QED BY <2>2, <2>6
<1>6. CASE CreateQueue(c)
  <2>1. starts = 0 /\ starts' = 1 /\ cpc'[1] \in {"loop", "none"} /\ cpc[1] = "none" /\ B = <<>>
    BY <1>1, <1>6 DEF CreateQueue, OneLife, TypeOK, LifeInv, BeforeStart, Past
  <2>2. UNCHANGED <<agentState, queue, req>> /\ IsStart(req[c])
    BY <1>6 DEF CreateQueue, LifeInv, CallInv
  <2>3. \A d \in Threads : pc[d] # "put" /\ pc'[d] # "put"
    BY <1>6, <2>1 DEF CreateQueue, LifeInv, BeforeStart, TypeOK, EditPC
  <2> QED BY <1>1, <2>1, <2>2, <2>3 DEF Coming, Began, Unserved, Stopped, LifeInv, BeforeStart
<1>7. CASE ReadQueue(c)
  BY <1>1, <1>7 DEF ReadQueue, cycleVars, Coming, Began, InCall, Stopped, TypeOK
<1>8. CASE Enter(c)
  <2>1. mon[c] = 1 /\ monitor[1] = {} /\ pc[c] = "enter" /\ pc'[c] = "put"
    BY <1>8 DEF Enter, TypeOK
  <2>2. \A d \in Threads : d # c => pc'[d] = pc[d] /\ pc[d] # "put"
    BY <1>8, <2>1 DEF Enter, TypeOK, LifeInv, CallInv
  <2>3. UNCHANGED <<queue, starts, req, cpc>>
    BY <1>8 DEF Enter, cycleVars
  <2>4. IsStart(req[c]) \/ Began(B) \/ queue[1] # <<>>
    BY <1>1, <2>1, <2>2 DEF Coming, Began, Past, LifeInv, StoppedInv, InCall
  <2> QED BY <1>1, <2>1, <2>2, <2>3, <2>4 DEF Coming, Began, InCall
<1>9. CASE Put(c)
  <2>1. mon[c] = 1 /\ monitor[1] = {c} /\ pc[c] = "put" /\ starts' = starts /\ req' = req
    BY <1>9 DEF Put, TypeOK, LifeInv, CallInv
  <2>2. \A d \in Threads : d # c => pc'[d] = pc[d] /\ pc[d] # "put"
    <3>1. \A d \in Threads : pc[d] = "put" => monitor[1] = {d}
      BY DEF LifeInv, CallInv
    <3>2. \A d \in Threads : d # c => pc'[d] = pc[d]
      BY <1>9 DEF Put, TypeOK
    <3> QED BY <2>1, <3>1, <3>2
  <2>3. pc'[c] \in {"idle", "inCycle"}
    BY <1>9 DEF Put, TypeOK
  <2>4. req[c] \in Event /\ queue[1] \in Seq(Event)
    BY <2>1 DEF TypeOK, EditPC
  <2>5. CASE IsStart(req[c])
    <3>1. Unserved /\ queue[1] = <<>> /\ ~Began(B)
      BY <1>1, <2>1, <2>5 DEF LifeInv, CallInv, InCall, Coming
    <3>2. cpc'[1] \in {cpc[1], "loop"}
      BY <1>9, <2>1 DEF Put, TypeOK
    <3>3. eventQueue = 1
      BY <2>1, <3>1 DEF LifeInv, QueueField, BeforeStart, Unserved, EditPC
    <3>4. queue'[1] = Append(<<>>, req[c])
      <4>1. queue' = [queue EXCEPT ![1] = Append(queue[1], req[c])]
        BY <1>9, <3>3 DEF Put, NoQueue
      <4> QED BY <3>1, <4>1 DEF TypeOK
    <3>5. DOMAIN queue'[1] = {1} /\ queue'[1][1] = req[c] /\ queue'[1] # <<>>
      BY <2>4, <3>4
    <3>6. ~Began(B)'
      BY <3>1, <3>2 DEF Began, Unserved
    <3>7. Coming(B)'
      BY <2>1, <2>5, <3>5, <3>6 DEF Coming, IsStart
    <3> QED BY <2>1, <3>1, <3>2, <3>7 DEF Began
  <2>6. CASE ~IsStart(req[c])
    <3>1. cpc' = cpc
      BY <1>9, <2>6 DEF Put, IsStart
    <3>2. Began(B) \/ queue[1] # <<>>
      BY <1>1, <2>1, <2>6 DEF Coming
    <3>3. \/ queue'[1] = queue[1]
          \/ queue'[1] = Append(queue[1], req[c])
      BY <1>9 DEF Put, TypeOK
    <3> DEFINE q == queue[1]
               r == queue'[1]
    <3>4. /\ \A i \in DOMAIN r : \/ i \in DOMAIN q /\ r[i] = q[i]
                                 \/ i = Len(q) + 1 /\ r[i] = req[c]
          /\ q # <<>> => Len(q) + 1 # 1 /\ r # <<>>
      <4> HIDE DEF q, r
      <4>1. q \in Seq(Event) /\ req[c] \in Event /\ (r = q \/ r = Append(q, req[c]))
        BY <2>4, <3>3 DEF q, r
      <4> QED BY <4>1
    <3>5. Coming(B)'
      <4>1. \A d \in Threads : InCall(d)' => InCall(d)
        BY <2>2, <2>3 DEF InCall
      <4>2. CASE Began(B)
        BY <1>1, <2>1, <2>6, <3>1, <3>4, <4>1, <4>2 DEF Coming, Began, IsStart
      <4>3. CASE ~Began(B)
        <5>1. ~Began(B)' /\ queue'[1] # <<>>
          BY <3>1, <3>2, <3>4, <4>3 DEF Began
        <5>2. \A i \in DOMAIN queue'[1] : IsStart(queue'[1][i]) <=> i = 1
          BY <1>1, <2>6, <3>2, <3>4, <4>3 DEF Coming
        <5> QED BY <5>1, <5>2 DEF Coming, IsStart
      <4> QED BY <4>2, <4>3
    <3> QED BY <2>1, <3>1, <3>5
  <2> QED BY <2>5, <2>6
<1>10. CASE ReturnFromCycle(c)
  BY <1>1, <1>10 DEF ReturnFromCycle, cycleVars, Coming, Began, InCall, Stopped, TypeOK
<1> QED BY <1>5, <1>6, <1>7, <1>8, <1>9, <1>10 DEF CallStep

\* So do the steps of the cycle outside the loop over the shards.
LEMMA OutsideKeepsPast ==
  ASSUME TypeOK, NEW B \in Seq(Event), Common(B), Past(B), Coming(B), Iterates,
         cpc[1] # "signal", cpc'[1] # "signal",
         UNCHANGED <<seen, shardOrder, cev, starts, pc, req>>,
         queue' = queue \/ (queue'[1] = <<>> /\ B # <<>>),
         agentState' = agentState \/ B # <<>>,
         B # <<>> /\ IsStop(B[Len(B)]) => cpc'[1] \in {"outRead", "out", "clear", "exited"},
         cpc'[1] \in {"outRead", "out"} => cpc[1] \in {"outRead", "out"},
         B = <<>> => Unserved'
  PROVE  SeenInv'
  <1>1. Common(B)' /\ Iterates'
    BY DEF Common, Signalled, Iterates
  <1>2. Past(B)'
    BY DEF Past, Whole, IsStart, IsStop
  <1>3. Coming(B)'
    <2>1. CASE B # <<>>
      BY <2>1 DEF Coming, Began, InCall, IsStart
    <2>2. CASE B = <<>>
      BY <2>2 DEF Coming, Began, InCall, IsStart, Stopped
    <2> QED BY <2>1, <2>2
  <1> QED BY <1>1, <1>2, <1>3 DEF SeenInv

\* The event polled is the start if none came before it, and no start otherwise.
LEMMA PollKeepsSeen ==
  ASSUME OneLife, TypeOK, LifeInv, NEW B \in Seq(Event), Common(B), Past(B), Coming(B), Iterates,
         cpc[1] \in {"enter", "waiting"}, queue[1] # <<>>, Poll(1, 1),
         UNCHANGED <<seen, shardOrder, starts, pc, req>>
  PROVE  SeenInv'
  <1> USE OneLifeFacts
  <1> DEFINE q == queue[1]
             e == Head(q)
  <1>1. q \in Seq(Event) /\ queue'[1] = Tail(q) /\ cpc'[1] = "signal" /\ cev'[1] = e
    BY DEF TypeOK, Poll, BeginSignal
  <1>2. e = q[1] /\ 1 \in DOMAIN q /\ e \in Event
    BY <1>1
  <1>3. \A i \in DOMAIN Tail(q) : i + 1 \in DOMAIN q /\ i + 1 # 1 /\ Tail(q)[i] = q[i + 1]
    BY <1>1
  <1>4. Len(InitOrder) \in Nat /\ DOMAIN InitOrder = 1 .. Len(InitOrder)
    BY OrderAssumption
  <1>5. cur'[1] = IF Destructive(e) THEN Len(InitOrder) ELSE 0
    BY DEF TypeOK, Poll, BeginSignal, Iterates
  <1>10. at'[1] = NoShard
    BY DEF TypeOK, Poll, BeginSignal
  <1>6. Common(B)' /\ Iterates'
    BY <1>1, <1>4, <1>5, <1>10 DEF Common, Signalled, HandedOut, Iterates, Destructive
  <1>7. Whole(Append(B, e))
    <2> DEFINE C == Append(B, e)
    <2>1. /\ Len(C) = Len(B) + 1 /\ C[Len(B) + 1] = e /\ Len(B) \in Nat
          /\ \A i \in DOMAIN C : i = Len(B) + 1 \/ (i \in DOMAIN B /\ C[i] = B[i])
      BY <1>2
    <2>2. CASE B = <<>>
      <3>1. IsStart(e) /\ ~IsStop(e) /\ Len(B) + 1 = 1 /\ DOMAIN B = {}
        BY <1>2, <2>2 DEF Coming, Began, IsStart, IsStop
      <3> QED BY <2>1, <3>1 DEF Whole
    <2>3. CASE B # <<>>
      <3>1. ~IsStart(e) /\ Len(B) + 1 # 1
        BY <1>2, <2>1, <2>3 DEF Coming, Began
      <3>2. \A i \in DOMAIN B : ~IsStop(B[i])
        BY <2>3 DEF Past, Whole
      <3>3. \A i \in DOMAIN B : IsStart(B[i]) <=> i = 1
        BY DEF Past, Whole
      <3> QED BY <2>1, <3>1, <3>2, <3>3 DEF Whole
    <2> QED BY <2>2, <2>3
  <1>8. Past(B)'
    BY <1>1, <1>7 DEF Past, Whole, IsStart, IsStop
  <1>9. Coming(B)'
    <2>1. \A c \in Threads : InCall(c) => ~IsStart(req[c])
      BY DEF LifeInv, CallInv
    <2>2. \A i \in DOMAIN q : i # 1 => ~IsStart(q[i])
      BY DEF Coming
    <2>3. \A i \in DOMAIN queue'[1] : ~IsStart(queue'[1][i])
      BY <1>1, <1>3, <2>2
    <2> QED BY <1>1, <2>1, <2>3 DEF Coming, Began, InCall, IsStart
  <1> QED BY <1>6, <1>8, <1>9 DEF SeenInv

\* What a step inside the loop over the shards leaves alone.
LEMMA LoopKeepsPast ==
  ASSUME NEW B, Past(B), Coming(B), cpc[1] = "signal", cpc'[1] = "signal",
         UNCHANGED <<agentState, queue, starts, pc, req, cev>>
  PROVE  Past(B)' /\ Coming(B)'
  BY DEF Past, Coming, Whole, Began, InCall, Stopped, Unserved, IsStart, IsStop

\* The shard handed out is not yet one of those that have seen the event.
LEMMA NextShardKeepsSeen ==
  ASSUME OneLife, Editors = {}, TypeOK, ListInv, SeenInv, NextShard(1)
  PROVE  SeenInv'
  <1> USE OneLifeFacts
  <1>1. PICK B \in Seq(Event) : Common(B) /\ Past(B) /\ Coming(B)
    BY DEF SeenInv
  <1>2. Iterates /\ cpc[1] = "signal" /\ ~stale[1] /\ HasNext(1) /\ at[1] = NoShard
    BY DEF SeenInv, NextShard, ListInv, Walk
  <1>3. PICK n \in Nat : n = Len(InitOrder) /\ DOMAIN InitOrder = 1 .. n /\ cur[1] \in 0 .. n
    BY <1>2, OrderAssumption DEF Iterates
  <1>4. PICK i : i = IF Destructive(cev[1]) THEN cur[1] ELSE cur[1] + 1
    OBVIOUS
  <1>5. i \in 1 .. n
    BY <1>2, <1>3, <1>4 DEF HasNext, Iterates
  <1>6. /\ UNCHANGED <<agentState, queue, starts, shardOrder, pc, req, cev, cpc, seen>>
        /\ cur'[1] = IF Destructive(cev[1]) THEN cur[1] - 1 ELSE cur[1] + 1
        /\ at'[1] = InitOrder[i]
    BY <1>2, <1>4 DEF NextShard, callVars, history, Iterates, TypeOK
  <1>7. /\ \A j \in 1 .. n : HandedOut(j)' <=> HandedOut(j) \/ j = i
        /\ ~HandedOut(i) /\ cur'[1] \in 0 .. n
    BY <1>3, <1>4, <1>5, <1>6 DEF HandedOut, Destructive
  <1>8. \A j \in 1 .. n : InitOrder[j] # NoShard /\ (InitOrder[j] = InitOrder[i] => j = i)
    BY <1>3, <1>5, OrderAssumption, ShardsAssumption
  <1>9. \A j \in 1 .. n : Signalled(j)' <=> Signalled(j)
    BY <1>2, <1>6, <1>7, <1>8 DEF Signalled
  <1>10. Common(B)'
    BY <1>1, <1>3, <1>6, <1>9 DEF Common
  <1>11. Iterates'
    BY <1>2, <1>3, <1>5, <1>6, <1>7 DEF Iterates
  <1> QED BY <1>1, <1>2, <1>6, <1>10, <1>11, LoopKeepsPast DEF SeenInv

\* One more shard has seen the event that is being signalled.
LEMMA SignalKeepsSeen ==
  ASSUME OneLife, Editors = {}, TypeOK, ListInv, SeenInv, Signal(1)
  PROVE  SeenInv'
  <1> USE OneLifeFacts
  <1>1. PICK B \in Seq(Event) : Common(B) /\ Past(B) /\ Coming(B)
    BY DEF SeenInv
  <1>2. Iterates /\ cpc[1] = "signal" /\ at[1] # NoShard /\ at[1] \in shards
    BY DEF SeenInv, Signal, ListInv, Walk
  <1>3. PICK i \in DOMAIN InitOrder : HandedOut(i) /\ InitOrder[i] = at[1]
    BY <1>2 DEF Iterates
  <1>4. /\ UNCHANGED <<agentState, queue, starts, shardOrder, pc, req, cev, cpc, cur>>
        /\ at'[1] = NoShard
        /\ seen' = [seen EXCEPT ![InitOrder[i]] = Append(@, cev[1])]
    BY <1>2, <1>3 DEF Signal, callVars, TypeOK
  <1>5. \A j \in DOMAIN InitOrder :
            /\ InitOrder[j] \in Shards /\ InitOrder[j] # NoShard
            /\ InitOrder[j] = InitOrder[i] => j = i
    BY OrderAssumption, ShardsAssumption
  <1>6. \A j \in DOMAIN InitOrder : /\ HandedOut(j)' <=> HandedOut(j)
                                    /\ Signalled(j)' <=> HandedOut(j)
                                    /\ Signalled(j) <=> HandedOut(j) /\ j # i
    BY <1>2, <1>3, <1>4, <1>5 DEF Signalled, HandedOut, Destructive
  <1>7. seen[InitOrder[i]] = B
    BY <1>1, <1>6 DEF Common
  <1>8. /\ seen'[InitOrder[i]] = Append(B, cev[1])
        /\ \A j \in DOMAIN InitOrder : j # i => seen'[InitOrder[j]] = seen[InitOrder[j]]
    <2>1. seen \in [Shards -> Seq(Event)]
      BY DEF TypeOK
    <2> QED BY <1>4, <1>5, <1>7, <2>1
  <1>9. Common(B)'
    <2> SUFFICES ASSUME NEW j \in DOMAIN InitOrder
                 PROVE  seen'[InitOrder[j]] = IF Signalled(j)' THEN Append(B, cev[1]) ELSE B
      BY <1>4 DEF Common
    <2>1. CASE j = i
      BY <1>3, <1>6, <1>8, <2>1
    <2>2. CASE j # i
      BY <1>1, <1>6, <1>8, <2>2 DEF Common
    <2> QED BY <2>1, <2>2
  <1>10. Iterates'
    BY <1>2, <1>4 DEF Iterates
  <1> QED BY <1>1, <1>2, <1>4, <1>9, <1>10, LoopKeepsPast DEF SeenInv

\* When every shard has seen the event it is part of what happened.
LEMMA EndSignalKeepsSeen ==
  ASSUME OneLife, TypeOK, LifeInv, SeenInv, EndSignal(1)
  PROVE  SeenInv'
  <1> USE OneLifeFacts
  <1>1. PICK B \in Seq(Event) : Common(B) /\ Past(B) /\ Coming(B)
    BY DEF SeenInv
  <1>2. Iterates /\ cpc[1] = "signal" /\ at[1] = NoShard /\ ~HasNext(1) /\ cev[1] \in Event
    BY DEF SeenInv, EndSignal, TypeOK
  <1>11. PICK C : C = Append(B, cev[1])
    OBVIOUS
  <1>3. UNCHANGED <<agentState, queue, starts, shardOrder, pc, req, cev, cur, seen>>
    BY DEF EndSignal, callVars, history
  <1>4. cpc'[1] = IF IsStart(cev[1]) \/ IsStop(cev[1]) THEN "outRead" ELSE "loop"
    BY DEF EndSignal, TypeOK, IsStart, IsStop
  <1>5. C \in Seq(Event) /\ C # <<>> /\ C[Len(C)] = cev[1]
    BY <1>2, <1>11
  <1>6. \A j \in DOMAIN InitOrder : Signalled(j)
    BY <1>2, OrderAssumption, ShardsAssumption DEF Signalled, HandedOut, HasNext, Iterates
  <1>7. Common(C)'
    BY <1>1, <1>3, <1>4, <1>6, <1>11 DEF Common, Signalled
  <1>8. Past(C)'
    <2>1. Whole(C) /\ starts' # 0
      BY <1>1, <1>2, <1>3, <1>11 DEF Past, LifeInv, BeforeStart
    <2> QED BY <1>3, <1>4, <1>5, <2>1 DEF Past, Whole, IsStart, IsStop
  <1>9. Coming(C)'
    <2>1. Began(B) /\ Began(C)'
      BY <1>2, <1>5 DEF Began
    <2> QED BY <1>1, <1>3, <2>1 DEF Coming, InCall, IsStart
  <1>10. Iterates'
    BY <1>2, <1>3, <1>4 DEF Iterates
  <1> QED BY <1>5, <1>7, <1>8, <1>9, <1>10 DEF SeenInv

LEMMA CycleKeepsSeen ==
  ASSUME OneLife, Editors = {}, TypeOK, ListInv, LifeInv, LifeInv', SeenInv, CycleStep(1)
  PROVE  SeenInv'
<1> USE OneLifeFacts
<1>1. PICK B \in Seq(Event) : Common(B) /\ Past(B) /\ Coming(B)
  BY DEF SeenInv
<1>2. Iterates
  BY DEF SeenInv
<1>3. cpc[1] # "abandoned" /\ cpc'[1] # "abandoned"
  BY DEF LifeInv, EditInv
<1>4. CASE NextShard(1) \/ Signal(1)
  BY <1>4, NextShardKeepsSeen, SignalKeepsSeen
<1>5. CASE EndSignal(1)
  BY <1>5, EndSignalKeepsSeen
<1>6. CASE Loop(1)
  <2>1. UNCHANGED <<agentState, queue, seen, shardOrder, cev, starts, pc, req>>
    BY <1>6 DEF Loop, callVars, history
  <2>2. cpc[1] = "loop" /\ cpc'[1] = "enter"
    BY <1>3, <1>6 DEF Loop, TypeOK
  <2>3. ~(B # <<>> /\ IsStop(B[Len(B)]))
    BY <1>1, <2>2 DEF Past
  <2> QED BY <1>1, <1>2, <2>1, <2>2, <2>3, OutsideKeepsPast DEF Unserved
<1>7. CASE Take(1) \/ Wake(1)
  <2>1. UNCHANGED <<agentState, eventQueue, seen, shardOrder, starts, pc, req>>
    BY <1>7 DEF Take, Wake, callVars, history
  <2>2. cpc[1] \in {"enter", "waiting"}
    BY <1>7 DEF Take, Wake
  <2>3. CASE queue[1] # <<>> /\ Poll(1, 1)
    BY <1>1, <1>2, <2>1, <2>2, <2>3, PollKeepsSeen
  <2>4. CASE UNCHANGED <<queue, cev>> /\ cpc'[1] \in {"waiting", "loop"}
    <3>1. ~(B # <<>> /\ IsStop(B[Len(B)]))
      BY <1>1, <2>2 DEF Past
    <3> QED BY <1>1, <1>2, <2>1, <2>2, <2>4, <3>1, OutsideKeepsPast DEF Unserved
  <2>5. \/ queue[1] # <<>> /\ Poll(1, 1)
        \/ \E where \in {"abandoned", "waiting", "loop"} : GoTo(1, where)
    <3>1. eventQueue \in {0, 1}
      BY DEF TypeOK
    <3> QED BY <1>7, <3>1 DEF Take, Wake
  <2>6. ASSUME NEW where \in {"abandoned", "waiting", "loop"}, GoTo(1, where)
        PROVE  UNCHANGED <<queue, cev>> /\ cpc'[1] \in {"waiting", "loop"}
    BY <1>3, <2>6 DEF GoTo, TypeOK
  <2> QED BY <2>3, <2>4, <2>5, <2>6
<1>8. CASE ReadQueueOut(1)
  <2>1. UNCHANGED <<agentState, queue, seen, shardOrder, cev, starts, pc, req>>
    BY <1>8 DEF ReadQueueOut, callVars, history
  <2>2. cpc[1] = "outRead" /\ cpc'[1] = "out"
    BY <1>3, <1>8 DEF ReadQueueOut, TypeOK
  <2>3. B # <<>>
    BY <1>1, <2>2 DEF Past
  <2> QED BY <1>1, <1>2, <2>1, <2>2, <2>3, OutsideKeepsPast
<1>9. CASE StartOut(1)
  <2>1. UNCHANGED <<queue, seen, shardOrder, cev, starts, pc, req>>
    BY <1>9 DEF StartOut, callVars, history
  <2>2. cpc[1] = "out" /\ cpc'[1] = "loop" /\ cev[1].kind.type = "AGENT_START"
    BY <1>9 DEF StartOut, TypeOK
  <2>3. B # <<>> /\ ~IsStop(B[Len(B)])
    BY <1>1, <2>2 DEF Past, IsStop
  <2> QED BY <1>1, <1>2, <2>1, <2>2, <2>3, OutsideKeepsPast
<1>10. CASE StopOut(1)
  <2>1. UNCHANGED <<seen, shardOrder, cev, starts, pc, req>>
    BY <1>10 DEF StopOut, callVars
  <2>2. cpc[1] = "out" /\ cpc'[1] = "clear" /\ (queue' = queue \/ queue'[1] = <<>>)
    <3>1. eventQueue \in {0, 1}
      BY DEF TypeOK
    <3> QED BY <1>3, <1>10, <3>1 DEF StopOut, TypeOK
  <2>3. B # <<>>
    BY <1>1, <2>2 DEF Past
  <2> QED BY <1>1, <1>2, <2>1, <2>2, <2>3, OutsideKeepsPast
<1>11. CASE ClearQueue(1)
  <2>1. UNCHANGED <<agentState, queue, seen, shardOrder, cev, starts, pc, req>>
    BY <1>11 DEF ClearQueue, callVars, history
  <2>2. cpc[1] = "clear" /\ cpc'[1] = "exited"
    BY <1>11 DEF ClearQueue, TypeOK
  <2>3. B # <<>>
    BY <1>1, <2>2 DEF Past, Unserved
  <2> QED BY <1>1, <1>2, <2>1, <2>2, <2>3, OutsideKeepsPast
<1> QED BY <1>4, <1>5, <1>6, <1>7, <1>8, <1>9, <1>10, <1>11 DEF CycleStep

\* What the shards have seen, in one life and while nobody edits their list.
THEOREM OneSequence ==
  ASSUME OneLife, Editors = {} PROVE Spec => []SeenInv
<1> USE OneLifeFacts
<1>1. Init => SeenInv
  <2> SUFFICES ASSUME Init PROVE SeenInv
    OBVIOUS
  <2>1. cpc[1] = "none" /\ queue[1] = <<>> /\ starts = 0 /\ agentState = "STOPPED"
    BY DEF Init
  <2>2. \A c \in Threads : pc[c] = "idle"
    BY DEF Init
  <2>3. Common(<<>>) /\ Iterates
    BY <2>1, OrderAssumption DEF Init, Common, Signalled, Iterates
  <2>4. Past(<<>>) /\ Coming(<<>>) /\ <<>> \in Seq(Event)
    BY <2>1, <2>2 DEF Past, Whole, Coming, Began, Unserved, InCall, Stopped
  <2> QED BY <2>3, <2>4 DEF SeenInv
<1>2. TypeOK /\ ListInv /\ LifeInv /\ LifeInv' /\ SeenInv /\ [Next]_vars => SeenInv'
  <2> SUFFICES ASSUME TypeOK, ListInv, LifeInv, LifeInv', SeenInv, [Next]_vars PROVE SeenInv'
    OBVIOUS
  <2>1. ASSUME NEW c \in Threads, CallStep(c) \/ \E k \in Kind : Post(c, k) PROVE SeenInv'
    BY <2>1, CallKeepsSeen
  <2>2. CASE CycleStep(1)
    BY <2>2, CycleKeepsSeen
  <2>3. ASSUME NEW c \in Posters, Edit(c) \/ Toggle(c) PROVE FALSE
    BY <2>3 DEF Edit, Toggle, CheckAddShard, CheckRemoveShard, BeginEdit, CheckAbsent, PutShard,
                FindShard, AppendShard, RemoveFromOrder, RemoveFromMap, EditPC,
                ToggleRead, ToggleWrite, ListInv, LifeInv, CallInv, Threads
  <2>4. CASE UNCHANGED vars
    BY <2>4 DEF vars, callVars, cycleVars, history, SeenInv, Iterates, Common, Signalled, HandedOut, Past,
                Whole, Coming, Began, Unserved, InCall, Stopped, IsStart, IsStop, Destructive
  <2> QED BY <2>1, <2>2, <2>3, <2>4 DEF Next
<1> QED BY <1>1, <1>2, OneLifeInvariant, ListKept, TypeCorrect, PTL DEF Spec

\* Whoever posts, and however many shards there are, the shards agree on what has
\* happened: one has seen at most the event more that is being signalled.
THEOREM ShardsSeeTheSame ==
  ASSUME OneLife, Editors = {} PROVE Spec => []ShardsAgree
BY OneSequence, TypeCorrect, CommonFacts, PTL

\* A shard is started first, and once, and sees nothing after its stop, however the
\* calls of start() and of stop() race with the events.
THEOREM OneLifeIsWhole ==
  ASSUME OneLife, Editors = {} PROVE Spec => []LifeIsWhole
BY OneSequence, TypeCorrect, WholeFacts, PTL

-----------------------------------------------------------------------------
(* With one thread that adds and removes shards, the list has each once.  *)

OneEditor == \A c, d \in Editors : c = d

Listed == \A i, j \in DOMAIN shardOrder : shardOrder[i] = shardOrder[j] => i = j

Edits ==
    \A c \in Threads : /\ pc[c] \in EditPC => c \in Editors
                       /\ pc[c] = "append" => arg[c] \notin OrderSet

ListedInv == Listed /\ Edits

LEMMA AppendKeepsListed ==
  ASSUME TypeOK, ListedInv, OneEditor, NEW c \in Threads, AppendShard(c)
  PROVE  ListedInv'
  <1>1. pc[c] = "append" /\ shardOrder' = Append(shardOrder, arg[c]) /\ arg[c] \in Shards
    BY DEF AppendShard, TypeOK, EditPC
  <1>2. pc'[c] = "idle" /\ \A d \in Threads : d # c => pc'[d] = pc[d]
    BY DEF AppendShard, GoOnEdit, TypeOK
  <1>3. \A i \in DOMAIN shardOrder' :
            \/ i \in DOMAIN shardOrder /\ shardOrder'[i] = shardOrder[i]
            \/ i = Len(shardOrder) + 1 /\ shardOrder'[i] = arg[c]
    BY <1>1 DEF TypeOK
  <1>4. Listed'
    BY <1>1, <1>3 DEF ListedInv, Listed, Edits, OrderSet
  <1>5. \A d \in Threads : pc[d] \in EditPC => d = c
    BY <1>1 DEF ListedInv, Edits, OneEditor, EditPC
  <1>6. Edits'
    BY <1>2, <1>5 DEF Edits, EditPC
  <1> QED BY <1>4, <1>6 DEF ListedInv

LEMMA WithoutKeepsListed ==
  ASSUME TypeOK, Listed, NEW n \in DOMAIN shardOrder, shardOrder' = Without(n)
  PROVE  Listed' /\ OrderSet' \subseteq OrderSet
  <1>1. PICK len \in Nat : len = Len(shardOrder) /\ DOMAIN shardOrder = 1 .. len
    BY DEF TypeOK
  <1>2. /\ DOMAIN shardOrder' = 1 .. len - 1
        /\ \A i \in 1 .. len - 1 :
              shardOrder'[i] = IF i < n THEN shardOrder[i] ELSE shardOrder[i + 1]
    BY <1>1 DEF Without
  <1>3. \A i \in 1 .. len - 1 : \E k \in 1 .. len :
            shardOrder'[i] = shardOrder[k] /\ k = IF i < n THEN i ELSE i + 1
    BY <1>1, <1>2
  <1>4. Listed'
    <2> SUFFICES ASSUME NEW i \in 1 .. len - 1, NEW j \in 1 .. len - 1,
                        shardOrder'[i] = shardOrder'[j]
                 PROVE  i = j
      BY <1>2 DEF Listed
    <2>1. PICK k \in 1 .. len : shardOrder'[i] = shardOrder[k] /\ k = IF i < n THEN i ELSE i + 1
      BY <1>3
    <2>2. PICK l \in 1 .. len : shardOrder'[j] = shardOrder[l] /\ l = IF j < n THEN j ELSE j + 1
      BY <1>3
    <2>3. k = l
      BY <1>1, <2>1, <2>2 DEF Listed
    <2> QED BY <1>1, <2>1, <2>2, <2>3
  <1>5. OrderSet' \subseteq OrderSet
    BY <1>1, <1>2, <1>3 DEF OrderSet
  <1> QED BY <1>4, <1>5

\* Neither the list nor an edit under way gets anything new.
LEMMA OthersKeepListed ==
  ASSUME ListedInv, Listed', OrderSet' \subseteq OrderSet,
         \A c \in Threads : \/ pc'[c] = pc[c] /\ arg'[c] = arg[c]
                            \/ pc'[c] \notin EditPC
                            \/ c \in Editors /\ pc'[c] # "append"
  PROVE  ListedInv'
  BY DEF ListedInv, Edits, EditPC

THEOREM ListHasEachOnce == ASSUME OneEditor PROVE Spec => []ListedInv
<1>1. Init => ListedInv
  BY OrderAssumption DEF Init, ListedInv, Listed, Edits, EditPC
<1>2. TypeOK /\ ListedInv /\ [Next]_vars => ListedInv'
  <2> SUFFICES ASSUME TypeOK, ListedInv, [Next]_vars PROVE ListedInv'
    OBVIOUS
  <2>0. Listed
    BY DEF ListedInv
  <2>1. ASSUME NEW c \in Threads,
               \/ CallStep(c) \/ (\E k \in Kind : Post(c, k))
               \/ c \in Posters /\ Toggle(c)
        PROVE  ListedInv'
    <3>1. UNCHANGED <<shardOrder, arg>>
      BY <2>1 DEF CallStep, CreateQueue, ReadQueue, Enter, Put, ReturnFromCycle, Post, Toggle,
                  ToggleRead, ToggleWrite
    <3>2. \E where \in CallPC \ EditPC : pc' = [pc EXCEPT ![c] = where]
      BY <2>1 DEF CallStep, CreateQueue, ReadQueue, Enter, Put, ReturnFromCycle, Post, Toggle,
                  ToggleRead, ToggleWrite, CallPC, EditPC
    <3>3. \A d \in Threads : pc'[d] = pc[d] \/ pc'[d] \notin EditPC
      BY <3>2 DEF TypeOK
    <3> QED BY <2>0, <3>1, <3>3, OthersKeepListed DEF Listed, OrderSet
  <2>2. ASSUME NEW t \in Cycles, CycleStep(t) PROVE ListedInv'
    <3>1. UNCHANGED <<shardOrder, arg, pc>>
      BY <2>2 DEF CycleStep, Loop, Take, Wake, NextShard, Signal, EndSignal, ReadQueueOut,
                  StartOut, StopOut, ClearQueue, callVars
    <3> QED BY <2>0, <3>1, OthersKeepListed DEF Listed, OrderSet
  <2>3. ASSUME NEW c \in Posters, Edit(c) PROVE ListedInv'
    <3>0. c \in Threads
      BY DEF Threads
    <3>1. CASE \E s \in Shards : CheckAddShard(c, s) \/ CheckRemoveShard(c, s)
      <4>1. /\ shardOrder' = shardOrder /\ c \in Editors
            /\ pc'[c] \in {"absent", "delist"}
            /\ \A d \in Threads : d # c => pc'[d] = pc[d] /\ arg'[d] = arg[d]
        BY <3>0, <3>1 DEF CheckAddShard, CheckRemoveShard, BeginEdit, TypeOK
      <4> QED BY <2>0, <4>1, OthersKeepListed DEF Listed, OrderSet
    <3>2. ASSUME NEW where \in EditPC \cup {"idle"}, GoOnEdit(c, where), pc[c] \in EditPC
          PROVE  /\ c \in Editors /\ pc'[c] = where
                 /\ \A d \in Threads : d # c => pc'[d] = pc[d] /\ arg'[d] = arg[d]
                 /\ where # "idle" => arg'[c] = arg[c]
      BY <3>0, <3>2 DEF GoOnEdit, TypeOK, ListedInv, Edits
    <3>3. CASE CheckAbsent(c) \/ PutShard(c)
      <4>1. PICK where \in {"insert", "find", "idle"} : GoOnEdit(c, where)
        BY <3>3 DEF CheckAbsent, PutShard
      <4>2. shardOrder' = shardOrder /\ pc[c] \in EditPC
        BY <3>3 DEF CheckAbsent, PutShard, EditPC
      <4>3. /\ c \in Editors /\ pc'[c] = where
            /\ \A d \in Threads : d # c => pc'[d] = pc[d] /\ arg'[d] = arg[d]
        BY <3>2, <4>1, <4>2 DEF EditPC
      <4> QED BY <2>0, <4>1, <4>2, <4>3, OthersKeepListed DEF Listed, OrderSet
    <3>4. CASE FindShard(c)
      <4>1. /\ pc[c] \in EditPC /\ shardOrder' = shardOrder
            /\ GoOnEdit(c, IF arg[c] \in OrderSet THEN "idle" ELSE "append")
        BY <3>4 DEF FindShard, EditPC
      <4>2. CASE arg[c] \in OrderSet
        <5>1. /\ pc'[c] = "idle"
              /\ \A d \in Threads : d # c => pc'[d] = pc[d] /\ arg'[d] = arg[d]
          BY <3>2, <4>1, <4>2
        <5> QED BY <2>0, <4>1, <5>1, OthersKeepListed DEF Listed, OrderSet, EditPC
      <4>3. CASE arg[c] \notin OrderSet
        <5>1. /\ pc'[c] = "append" /\ arg'[c] = arg[c] /\ c \in Editors
              /\ \A d \in Threads : d # c => pc'[d] = pc[d] /\ arg'[d] = arg[d]
          BY <3>2, <4>1, <4>3 DEF EditPC
        <5> QED BY <4>1, <4>3, <5>1 DEF ListedInv, Listed, Edits, OrderSet
      <4> QED BY <4>2, <4>3
    <3>5. CASE AppendShard(c)
      BY <3>0, <3>5, AppendKeepsListed
    <3>6. CASE RemoveFromOrder(c) \/ RemoveFromMap(c)
      <4>1. PICK where \in {"unmap", "idle"} : GoOnEdit(c, where)
        BY <3>6 DEF RemoveFromOrder, RemoveFromMap
      <4>2. pc[c] \in EditPC
        BY <3>6 DEF RemoveFromOrder, RemoveFromMap, EditPC
      <4>3. /\ c \in Editors /\ pc'[c] = where
            /\ \A d \in Threads : d # c => pc'[d] = pc[d] /\ arg'[d] = arg[d]
        BY <3>2, <4>1, <4>2 DEF EditPC
      <4>4. shardOrder' = shardOrder \/ \E n \in DOMAIN shardOrder : shardOrder' = Without(n)
        BY <3>6 DEF RemoveFromOrder, RemoveFromMap
      <4>5. Listed' /\ OrderSet' \subseteq OrderSet
        <5>1. CASE shardOrder' = shardOrder
          BY <2>0, <5>1 DEF Listed, OrderSet
        <5> QED BY <2>0, <4>4, <5>1, WithoutKeepsListed
      <4> QED BY <4>1, <4>3, <4>5, OthersKeepListed
    <3> QED BY <2>3, <3>1, <3>3, <3>4, <3>5, <3>6 DEF Edit
  <2>4. CASE UNCHANGED vars
    BY <2>0, <2>4, OthersKeepListed DEF vars, callVars, Listed, OrderSet
  <2> QED BY <2>1, <2>2, <2>3, <2>4 DEF Next, Threads
<1> QED BY <1>1, <1>2, TypeCorrect, PTL DEF Spec
-----------------------------------------------------------------------------
(* Proof that the events of one caller reach a shard in the order of its   *)
(* calls, while one thread adds and removes shards and others toggle.      *)

Posting(c) == pc[c] \in {"create", "read", "enter", "put"}

Older(e) == e.n <= calls[e.by] /\ (Posting(e.by) => e.n < calls[e.by])

\* A thread numbers its calls: what has left its hands is older than what is in them.
Numbered ==
    /\ \A c \in Threads : Posting(c) => req[c].by = c /\ req[c].n = calls[c]
    /\ \A i \in DOMAIN queue[1] : Older(queue[1][i])
    /\ cpc[1] = "signal" => Older(cev[1])
    /\ \A s \in Shards : \A i \in DOMAIN seen[s] : Older(seen[s][i])

Before(e, f) == e.by = f.by => e.n < f.n

\* Seen, being signalled, queued: they follow each other.
Follow ==
    /\ \A i, j \in DOMAIN queue[1] : i < j => Before(queue[1][i], queue[1][j])
    /\ cpc[1] = "signal" => \A i \in DOMAIN queue[1] : Before(cev[1], queue[1][i])
    /\ \A s \in Shards : \A k \in DOMAIN seen[s], i \in DOMAIN queue[1] :
           Before(seen[s][k], queue[1][i])
    /\ \A s \in Shards : \A i, j \in DOMAIN seen[s] : i < j => Before(seen[s][i], seen[s][j])

\* The shard handed out and those whose turn is still to come have not seen the event.
Ahead(i) == IF Destructive(cev[1]) THEN i <= cur[1] ELSE i > cur[1]
NewTo(s) == \A k \in DOMAIN seen[s] : Before(seen[s][k], cev[1])
Awaiting ==
    cpc[1] = "signal" =>
        /\ at[1] # NoShard => NewTo(at[1])
        /\ ~stale[1] =>
              /\ cur[1] \in 0 .. Len(shardOrder)
              /\ \A i \in DOMAIN shardOrder :
                    Ahead(i) => shardOrder[i] # at[1] /\ NewTo(shardOrder[i])

OrderInv == Numbered /\ Follow /\ Awaiting

OneCycle == MaxStarts = 1

LEMMA OneCycleFacts ==
  ASSUME OneCycle
  PROVE  Cycles = {1} /\ Queues = {1} /\ NoQueue = 0
  BY DEF OneCycle, Cycles, Queues, NoQueue

LEMMA EventFields ==
  ASSUME OneCycle, TypeOK
  PROVE  /\ queue[1] \in Seq(Event) /\ \A i \in DOMAIN queue[1] : queue[1][i] \in Event
         /\ \A s \in Shards : /\ seen[s] \in Seq(Event)
                              /\ \A i \in DOMAIN seen[s] : seen[s][i] \in Event
         /\ \A e \in Event : e.by \in Threads /\ e.n \in Nat
         /\ \A c \in Threads : calls[c] \in Nat
  <1>1. queue[1] \in Seq(Event) /\ seen \in [Shards -> Seq(Event)] /\ calls \in [Threads -> Nat]
    BY OneCycleFacts DEF TypeOK
  <1>2. \A e \in Event : e.by \in Threads /\ e.n \in Nat
    BY DEF Event
  <1> QED BY <1>1, <1>2

\* A caller goes on with its call or begins another one.
GoesOn(c) ==
    \/ calls'[c] = calls[c] /\ (Posting(c)' => Posting(c))
    \/ ~Posting(c) /\ calls'[c] = calls[c] + 1

LEMMA OlderKept ==
  ASSUME OneCycle, TypeOK, NEW e \in Event, Older(e), GoesOn(e.by)
  PROVE  Older(e)'
  <1>1. e.n \in Nat /\ calls[e.by] \in Nat
    BY EventFields
  <1> QED BY <1>1 DEF Older, GoesOn

\* What has left the hands of its caller, and what is leaving them in this step.
Left(e) == e \in Event /\ (Older(e) \/ \E c \in Threads : Posting(c) /\ ~Posting(c)' /\ e = req[c])

LEMMA NumbersKept ==
  ASSUME OneCycle, TypeOK, Numbered,
         \A c \in Threads : GoesOn(c),
         \A c \in Threads : Posting(c)' => req'[c].by = c /\ req'[c].n = calls'[c],
         \A i \in DOMAIN queue'[1] : Left(queue'[1][i]),
         cpc'[1] = "signal" => Left(cev'[1]),
         \A s \in Shards : \A i \in DOMAIN seen'[s] : Left(seen'[s][i])
  PROVE  Numbered'
  <1>1. ASSUME NEW e, Left(e) PROVE Older(e)'
    <2>0. e \in Event /\ e.by \in Threads /\ e.n \in Nat /\ calls[e.by] \in Nat
      BY <1>1, EventFields DEF Left
    <2>1. CASE Older(e)
      BY <2>0, <2>1, OlderKept
    <2>2. ASSUME NEW c \in Threads, Posting(c), ~Posting(c)', e = req[c] PROVE Older(e)'
      <3>1. e.by = c /\ e.n = calls[c]
        BY <2>2 DEF Numbered
      <3>2. calls'[c] = calls[c]
        BY <2>2 DEF GoesOn
      <3>3. e.n <= calls'[e.by] /\ ~Posting(e.by)'
        BY <2>0, <2>2, <3>1, <3>2
      <3> QED BY <3>3 DEF Older
    <2> QED BY <1>1, <2>1, <2>2 DEF Left
  <1> QED BY <1>1 DEF Numbered

LEMMA Stays ==
  ASSUME OneCycle, TypeOK, Numbered
  PROVE  /\ \A i \in DOMAIN queue[1] : Left(queue[1][i])
         /\ cpc[1] = "signal" => Left(cev[1])
         /\ \A s \in Shards : \A i \in DOMAIN seen[s] : Left(seen[s][i])
  <1>1. cpc[1] = "signal" => cev[1] \in Event
    BY OneCycleFacts DEF TypeOK
  <1> QED BY <1>1, EventFields DEF Left, Numbered

\* The steps of the calls before the event is put, of the edits and of the toggling.
LEMMA CallKeepsOrder ==
  ASSUME OneCycle, TypeOK, OrderInv,
         \A c \in Threads : GoesOn(c),
         \A c \in Threads : Posting(c)' => req'[c].by = c /\ req'[c].n = calls'[c],
         UNCHANGED <<queue, seen, cev, cur, at>>,
         cpc'[1] = cpc[1] \/ cpc'[1] # "signal",
         UNCHANGED <<shardOrder, stale>> \/ (cpc[1] = "signal" => stale'[1])
  PROVE  OrderInv'
  <1> USE DEF OrderInv
  <1>1. Numbered'
    BY NumbersKept, Stays
  <1>2. Follow'
    BY DEF Follow, Before
  <1>3. Awaiting'
    BY DEF Awaiting, NewTo, Ahead, Destructive, Before
  <1> QED BY <1>1, <1>2, <1>3

LEMMA PutKeepsOrder ==
  ASSUME OneCycle, TypeOK, OrderInv, NEW c \in Threads, Put(c)
  PROVE  OrderInv'
  <1> USE OneCycleFacts DEF OrderInv
  <1> DEFINE q == queue[1]
             e == req[c]
  <1>1. UNCHANGED <<seen, cev, cur, at, shardOrder, stale, calls, req>> /\ pc[c] = "put"
    BY DEF Put, history
  <1>2. pc'[c] \in {"idle", "inCycle"} /\ \A d \in Threads : d # c => pc'[d] = pc[d]
    BY DEF Put, TypeOK
  <1>3. Posting(c) /\ ~Posting(c)' /\ \A d \in Threads : d # c => (Posting(d)' <=> Posting(d))
    BY <1>1, <1>2 DEF Posting
  <1>4. \A d \in Threads : GoesOn(d)
    BY <1>1, <1>3 DEF GoesOn
  <1>5. \A d \in Threads : Posting(d)' => req'[d].by = d /\ req'[d].n = calls'[d]
    BY <1>1, <1>3 DEF Numbered
  <1>6. cpc'[1] = cpc[1] \/ cpc'[1] = "loop"
    BY DEF Put, TypeOK
  <1>7. e \in Event /\ e.by = c /\ e.n = calls[c] /\ Left(e)
    BY <1>1, <1>3 DEF TypeOK, Numbered, Left, EditPC
  <1>8. queue'[1] = q \/ queue'[1] = Append(q, e)
    BY DEF Put, TypeOK
  <1>9. /\ \A i \in DOMAIN queue'[1] : \/ i \in DOMAIN q /\ queue'[1][i] = q[i]
                                       \/ i = Len(q) + 1 /\ queue'[1][i] = e
        /\ \A i \in DOMAIN q : i \in Nat /\ i < Len(q) + 1
        /\ Len(q) + 1 \in Nat
    <2>1. q \in Seq(Event)
      BY EventFields
    <2> HIDE DEF q, e
    <2> QED BY <1>7, <1>8, <2>1
  <1>10. Numbered'
    <2>1. \A i \in DOMAIN queue'[1] : Left(queue'[1][i])
      BY <1>7, <1>9, Stays
    <2> QED BY <1>1, <1>4, <1>5, <1>6, <2>1, NumbersKept, Stays
  <1>11. ASSUME NEW v, Older(v) PROVE Before(v, e)
    BY <1>3, <1>7, <1>11 DEF Older, Before
  <1>12. Follow'
    <2>1. \A i, j \in DOMAIN queue'[1] : i < j => Before(queue'[1][i], queue'[1][j])
      <3> SUFFICES ASSUME NEW i \in DOMAIN queue'[1], NEW j \in DOMAIN queue'[1], i < j
                   PROVE  Before(queue'[1][i], queue'[1][j])
        OBVIOUS
      <3>1. i \in DOMAIN q /\ queue'[1][i] = q[i]
        BY <1>9
      <3>2. Older(q[i])
        BY <3>1 DEF Numbered
      <3> QED BY <1>9, <1>11, <3>1, <3>2 DEF Follow
    <2>2. cpc[1] = "signal" => \A i \in DOMAIN queue'[1] : Before(cev[1], queue'[1][i])
      BY <1>9, <1>11 DEF Follow, Numbered
    <2>3. \A s \in Shards : \A k \in DOMAIN seen[s], i \in DOMAIN queue'[1] :
              Before(seen[s][k], queue'[1][i])
      BY <1>9, <1>11 DEF Follow, Numbered
    <2>4. \A s \in Shards : \A i, j \in DOMAIN seen[s] : i < j => Before(seen[s][i], seen[s][j])
      BY DEF Follow
    <2> QED BY <1>1, <1>6, <2>1, <2>2, <2>3, <2>4 DEF Follow, Before
  <1>13. Awaiting'
    BY <1>1, <1>6 DEF Awaiting, NewTo, Ahead, Destructive, Before
  <1> QED BY <1>10, <1>12, <1>13

\* The steps of the cycle that signal nothing.
LEMMA QuietKeepsOrder ==
  ASSUME OneCycle, TypeOK, OrderInv, UNCHANGED <<seen, callVars>>,
         queue'[1] \in {queue[1], <<>>}, cpc'[1] # "signal"
  PROVE  OrderInv'
  <1> USE DEF OrderInv
  <1>1. \A i \in DOMAIN queue'[1] : i \in DOMAIN queue[1] /\ queue'[1][i] = queue[1][i]
    OBVIOUS
  <1>2. \A c \in Threads : GoesOn(c) /\ (Posting(c)' <=> Posting(c))
    BY DEF GoesOn, Posting, callVars
  <1>3. Numbered'
    <2>1. \A c \in Threads : Posting(c)' => req'[c].by = c /\ req'[c].n = calls'[c]
      BY <1>2 DEF Numbered, callVars
    <2> QED BY <1>1, <1>2, <2>1, NumbersKept, Stays
  <1>4. Follow' /\ Awaiting'
    BY <1>1 DEF Follow, Before, Awaiting
  <1> QED BY <1>3, <1>4

LEMMA PollKeepsOrder ==
  ASSUME OneCycle, TypeOK, OrderInv, queue[1] # <<>>, Poll(1, 1),
         UNCHANGED <<seen, callVars, shardOrder>>
  PROVE  OrderInv'
  <1> USE OneCycleFacts DEF OrderInv
  <1> DEFINE q == queue[1]
  <1>1. /\ queue'[1] = Tail(q) /\ cpc'[1] = "signal" /\ cev'[1] = Head(q)
        /\ ~stale'[1] /\ at'[1] = NoShard
    BY DEF Poll, BeginSignal, TypeOK
  <1>2. /\ cev'[1] = q[1] /\ 1 \in DOMAIN q
        /\ \A i \in DOMAIN queue'[1] : i \in Nat /\ i + 1 \in DOMAIN q /\ 1 < i + 1
                                       /\ queue'[1][i] = q[i + 1]
    <2>1. q \in Seq(Event)
      BY EventFields
    <2> QED BY <1>1, <2>1
  <1>3. \A c \in Threads : GoesOn(c) /\ (Posting(c)' <=> Posting(c))
    BY DEF GoesOn, Posting, callVars
  <1>4. Numbered'
    <2>1. \A c \in Threads : Posting(c)' => req'[c].by = c /\ req'[c].n = calls'[c]
      BY <1>3 DEF Numbered, callVars
    <2> QED BY <1>2, <1>3, <2>1, NumbersKept, Stays
  <1>5. Follow'
    <2>1. \A i, j \in DOMAIN queue'[1] : i < j => Before(queue'[1][i], queue'[1][j])
      <3> SUFFICES ASSUME NEW i \in DOMAIN queue'[1], NEW j \in DOMAIN queue'[1], i < j
                   PROVE  Before(queue'[1][i], queue'[1][j])
        OBVIOUS
      <3>1. i + 1 < j + 1
        BY <1>2
      <3> QED BY <1>2, <3>1 DEF Follow
    <2> QED BY <1>2, <2>1 DEF Follow, Before
  <1>6. Awaiting'
    <2>1. cur'[1] \in 0 .. Len(shardOrder)
      <3>1. Len(shardOrder) \in Nat
        BY DEF TypeOK
      <3> QED BY <3>1 DEF Poll, BeginSignal, TypeOK
    <2>2. \A i \in DOMAIN shardOrder : shardOrder[i] \in Shards /\ shardOrder[i] # NoShard
      BY ShardsAssumption DEF TypeOK
    <2>3. \A s \in Shards : NewTo(s)'
      BY <1>2 DEF NewTo, Follow, Before
    <2> QED BY <1>1, <2>1, <2>2, <2>3 DEF Awaiting
  <1> QED BY <1>4, <1>5, <1>6

\* The shard handed out has not seen the event, and it is listed once.
LEMMA NextShardKeepsOrder ==
  ASSUME OneCycle, TypeOK, Listed, OrderInv, NextShard(1), ~stale[1]
  PROVE  OrderInv'
  <1> USE OneCycleFacts DEF OrderInv
  <1>1. PICK n \in Nat : n = Len(shardOrder) /\ DOMAIN shardOrder = 1 .. n
    BY DEF TypeOK
  <1>2. /\ cpc[1] = "signal" /\ at[1] = NoShard /\ HasNext(1) /\ cur[1] \in 0 .. n
        /\ \A j \in 1 .. n : Ahead(j) => NewTo(shardOrder[j])
    BY <1>1 DEF NextShard, Awaiting
  <1>3. PICK i : i = IF Destructive(cev[1]) THEN cur[1] ELSE cur[1] + 1
    OBVIOUS
  <1>4. i \in 1 .. n /\ Ahead(i)
    BY <1>1, <1>2, <1>3 DEF HasNext, Ahead
  <1>5. /\ UNCHANGED <<queue, seen, shardOrder, callVars, cev, cpc, stale>>
        /\ cur'[1] = IF Destructive(cev[1]) THEN cur[1] - 1 ELSE cur[1] + 1
        /\ at'[1] = shardOrder[i]
    BY <1>3 DEF NextShard, history, TypeOK
  <1>6. \A c \in Threads : GoesOn(c) /\ (Posting(c)' <=> Posting(c))
    BY <1>5 DEF GoesOn, Posting, callVars
  <1>7. Numbered'
    <2>1. \A c \in Threads : Posting(c)' => req'[c].by = c /\ req'[c].n = calls'[c]
      BY <1>5, <1>6 DEF Numbered, callVars
    <2> QED BY <1>5, <1>6, <2>1, NumbersKept, Stays
  <1>8. Follow'
    BY <1>5 DEF Follow, Before
  <1>9. cur'[1] \in 0 .. n /\ \A j \in 1 .. n : Ahead(j)' => Ahead(j) /\ j # i
    BY <1>2, <1>3, <1>4, <1>5 DEF Ahead, Destructive
  <1>10. \A j \in 1 .. n : j # i => shardOrder[j] # shardOrder[i]
    BY <1>1, <1>4 DEF Listed
  <1>11. \A s : NewTo(s)' <=> NewTo(s)
    BY <1>5 DEF NewTo, Before
  <1>12. Awaiting'
    BY <1>1, <1>2, <1>4, <1>5, <1>9, <1>10, <1>11 DEF Awaiting
  <1> QED BY <1>7, <1>8, <1>12

\* It sees the event after all it has seen.
LEMMA SignalKeepsOrder ==
  ASSUME OneCycle, TypeOK, OrderInv, Signal(1), at[1] \in shards
  PROVE  OrderInv'
  <1> USE OneCycleFacts DEF OrderInv
  <1> DEFINE s == at[1]
             e == cev[1]
  <1>1. cpc[1] = "signal" /\ e \in Event /\ s # NoShard /\ s \in Shards
    BY DEF Signal, TypeOK
  <1>2. NewTo(s)
    BY <1>1 DEF Awaiting
  <1>3. /\ UNCHANGED <<queue, shardOrder, callVars, cev, cpc, cur, stale>>
        /\ at'[1] = NoShard
        /\ seen' = [seen EXCEPT ![s] = Append(@, e)]
    BY DEF Signal, TypeOK
  <1>5. /\ \A t \in Shards : t # s => seen'[t] = seen[t]
        /\ seen[s] \in Seq(Event) /\ seen'[s] = Append(seen[s], e)
    <2>1. seen \in [Shards -> Seq(Event)]
      BY DEF TypeOK
    <2> HIDE DEF s, e
    <2> QED BY <1>1, <1>3, <2>1
  <1>6. /\ \A t \in Shards : \A k \in DOMAIN seen'[t] :
              \/ k \in DOMAIN seen[t] /\ seen'[t][k] = seen[t][k]
              \/ t = s /\ k = Len(seen[s]) + 1 /\ seen'[t][k] = e
        /\ \A k \in DOMAIN seen[s] : k \in Nat /\ k < Len(seen[s]) + 1
        /\ Len(seen[s]) + 1 \in Nat
    <2> DEFINE old == seen[s]
               new == seen'[s]
    <2>1. /\ \A k \in DOMAIN new : \/ k \in DOMAIN old /\ new[k] = old[k]
                                   \/ k = Len(old) + 1 /\ new[k] = e
          /\ \A k \in DOMAIN old : k \in Nat /\ k < Len(old) + 1
          /\ Len(old) + 1 \in Nat
      <3>1. old \in Seq(Event) /\ new = Append(old, e) /\ e \in Event
        BY <1>1, <1>5
      <3> HIDE DEF old, new, e
      <3> QED BY <3>1
    <2> QED BY <1>5, <2>1
  <1>7. \A c \in Threads : GoesOn(c) /\ (Posting(c)' <=> Posting(c))
    BY <1>3 DEF GoesOn, Posting, callVars
  <1>8. Numbered'
    <2>1. \A c \in Threads : Posting(c)' => req'[c].by = c /\ req'[c].n = calls'[c]
      BY <1>3, <1>7 DEF Numbered, callVars
    <2>2. \A t \in Shards : \A k \in DOMAIN seen'[t] : Left(seen'[t][k])
      BY <1>1, <1>6, Stays
    <2> QED BY <1>3, <1>7, <2>1, <2>2, NumbersKept, Stays
  <1>9. \A k \in DOMAIN seen[s] : Before(seen[s][k], e)
    BY <1>2 DEF NewTo
  <1>10. Follow'
    <2>1. \A t \in Shards : \A k \in DOMAIN seen'[t], j \in DOMAIN queue[1] :
              Before(seen'[t][k], queue[1][j])
      BY <1>1, <1>6 DEF Follow
    <2>2. ASSUME NEW t \in Shards, NEW j \in DOMAIN seen'[t], NEW k \in DOMAIN seen'[t], j < k
          PROVE  Before(seen'[t][j], seen'[t][k])
      <3>1. CASE t # s
        BY <1>5, <2>2, <3>1 DEF Follow
      <3>2. CASE t = s
        <4>1. j \in DOMAIN seen[t] /\ seen'[t][j] = seen[t][j]
          BY <1>6, <2>2, <3>2
        <4> QED BY <1>6, <1>9, <2>2, <3>2, <4>1 DEF Follow
      <3> QED BY <3>1, <3>2
    <2>3. /\ \A j, k \in DOMAIN queue'[1] : j < k => Before(queue'[1][j], queue'[1][k])
          /\ cpc'[1] = "signal" => \A k \in DOMAIN queue'[1] : Before(cev'[1], queue'[1][k])
      BY <1>3 DEF Follow
    <2>4. \A t \in Shards : \A k \in DOMAIN seen'[t], j \in DOMAIN queue'[1] :
              Before(seen'[t][k], queue'[1][j])
      BY <1>3, <2>1
    <2> QED BY <2>2, <2>3, <2>4 DEF Follow, Before
  <1>11. Awaiting'
    <2>1. \A j \in DOMAIN shardOrder : shardOrder[j] \in Shards /\ shardOrder[j] # NoShard
      BY ShardsAssumption DEF TypeOK
    <2>2. ASSUME NEW t \in Shards, t # s, NewTo(t) PROVE NewTo(t)'
      BY <1>3, <1>5, <2>2 DEF NewTo, Before
    <2>3. \A j \in DOMAIN shardOrder : Ahead(j)' <=> Ahead(j)
      BY <1>3 DEF Ahead, Destructive
    <2> QED BY <1>1, <1>3, <2>1, <2>2, <2>3 DEF Awaiting
  <1> QED BY <1>8, <1>10, <1>11

\* A shard that has left the map is passed over.
LEMMA PassKeepsOrder ==
  ASSUME OneCycle, TypeOK, OrderInv, UNCHANGED <<queue, seen, shardOrder, callVars, cev, cur, stale>>,
         cpc' = cpc, at'[1] = NoShard
  PROVE  OrderInv'
  <1> USE DEF OrderInv
  <1>1. \A c \in Threads : GoesOn(c) /\ (Posting(c)' <=> Posting(c))
    BY DEF GoesOn, Posting, callVars
  <1>2. Numbered'
    <2>1. \A c \in Threads : Posting(c)' => req'[c].by = c /\ req'[c].n = calls'[c]
      BY <1>1 DEF Numbered, callVars
    <2> QED BY <1>1, <2>1, NumbersKept, Stays
  <1>3. Follow'
    BY DEF Follow, Before
  <1>4. \A j \in DOMAIN shardOrder : shardOrder[j] # NoShard
    BY ShardsAssumption DEF TypeOK
  <1>5. Awaiting'
    BY <1>4 DEF Awaiting, NewTo, Ahead, Destructive, Before
  <1> QED BY <1>2, <1>3, <1>5

\* One thread goes on with a call or begins one: the others are where they were.
LEMMA OneGoesOn ==
  ASSUME OneCycle, TypeOK, OrderInv, NEW c \in Threads,
         \A d \in Threads : d # c => pc'[d] = pc[d] /\ req'[d] = req[d] /\ calls'[d] = calls[d],
         \/ Posting(c) /\ req'[c] = req[c] /\ calls'[c] = calls[c]
         \/ ~Posting(c) /\ ~Posting(c)' /\ calls'[c] \in {calls[c], calls[c] + 1}
         \/ ~Posting(c) /\ calls'[c] = calls[c] + 1 /\ req'[c].by = c /\ req'[c].n = calls'[c]
  PROVE  /\ \A d \in Threads : GoesOn(d)
         /\ \A d \in Threads : Posting(d)' => req'[d].by = d /\ req'[d].n = calls'[d]
  <1>1. \A d \in Threads : Posting(d) => req[d].by = d /\ req[d].n = calls[d]
    BY DEF OrderInv, Numbered
  <1>2. ASSUME NEW d \in Threads, d # c
        PROVE  GoesOn(d) /\ (Posting(d)' => req'[d].by = d /\ req'[d].n = calls'[d])
    BY <1>1, <1>2 DEF GoesOn, Posting
  <1>3. GoesOn(c) /\ (Posting(c)' => req'[c].by = c /\ req'[c].n = calls'[c])
    BY <1>1 DEF GoesOn
  <1> QED BY <1>2, <1>3

LEMMA StepOrder ==
  ASSUME OneCycle, TypeOK, Listed, OrderInv, [Next]_vars
  PROVE  OrderInv'
<1> USE OneCycleFacts
<1>1. ASSUME NEW c \in Threads, NEW k \in Kind, Post(c, k) PROVE OrderInv'
  <2>1. /\ pc[c] = "idle" /\ calls'[c] = calls[c] + 1
        /\ req'[c] = [kind |-> k, by |-> c, n |-> calls[c] + 1]
        /\ \A d \in Threads : d # c => pc'[d] = pc[d] /\ req'[d] = req[d] /\ calls'[d] = calls[d]
    BY <1>1 DEF Post, TypeOK
  <2>2. UNCHANGED <<queue, seen, cev, cur, at, cpc, shardOrder, stale>>
    BY <1>1 DEF Post, cycleVars, history
  <2>3. ~Posting(c) /\ req'[c].by = c /\ req'[c].n = calls'[c]
    BY <2>1 DEF Posting
  <2>4. /\ \A d \in Threads : GoesOn(d)
        /\ \A d \in Threads : Posting(d)' => req'[d].by = d /\ req'[d].n = calls'[d]
    BY <2>1, <2>3, OneGoesOn
  <2> QED BY <2>2, <2>4, CallKeepsOrder
<1>2. ASSUME NEW c \in Threads, CreateQueue(c) \/ ReadQueue(c) \/ Enter(c) PROVE OrderInv'
  <2>1. /\ Posting(c) /\ req' = req /\ calls' = calls
        /\ \A d \in Threads : d # c => pc'[d] = pc[d]
    BY <1>2 DEF CreateQueue, ReadQueue, Enter, Posting, TypeOK
  <2>2. UNCHANGED <<queue, seen, cev, cur, at, shardOrder, stale>>
    BY <1>2 DEF CreateQueue, ReadQueue, Enter, cycleVars, history
  <2>3. cpc'[1] = cpc[1] \/ cpc'[1] # "signal"
    <3>1. CASE CreateQueue(c)
      <4>1. starts + 1 \in Cycles
        BY <3>1 DEF CreateQueue, TypeOK, Cycles
      <4> QED BY <3>1, <4>1 DEF CreateQueue, TypeOK
    <3> QED BY <1>2, <3>1 DEF ReadQueue, Enter, cycleVars
  <2>4. /\ \A d \in Threads : GoesOn(d)
        /\ \A d \in Threads : Posting(d)' => req'[d].by = d /\ req'[d].n = calls'[d]
    BY <2>1, OneGoesOn
  <2> QED BY <2>2, <2>3, <2>4, CallKeepsOrder
<1>3. ASSUME NEW c \in Threads, Put(c) PROVE OrderInv'
  BY <1>3, PutKeepsOrder
<1>4. ASSUME NEW c \in Threads, ReturnFromCycle(c) PROVE OrderInv'
  <2>1. /\ ~Posting(c) /\ ~Posting(c)' /\ req' = req /\ calls' = calls
        /\ \A d \in Threads : d # c => pc'[d] = pc[d]
    BY <1>4 DEF ReturnFromCycle, Posting, TypeOK
  <2>2. UNCHANGED <<queue, seen, cev, cur, at, cpc, shardOrder, stale>>
    BY <1>4 DEF ReturnFromCycle, cycleVars, history
  <2>3. /\ \A d \in Threads : GoesOn(d)
        /\ \A d \in Threads : Posting(d)' => req'[d].by = d /\ req'[d].n = calls'[d]
    BY <2>1, OneGoesOn
  <2> QED BY <2>2, <2>3, CallKeepsOrder
<1>5. CASE NextShard(1)
  <2>1. CASE stale[1]
    <3>1. cpc'[1] # "signal" /\ UNCHANGED <<seen, callVars, queue>>
      BY <1>5, <2>1 DEF NextShard, history, TypeOK
    <3> QED BY <3>1, QuietKeepsOrder
  <2> QED BY <1>5, <2>1, NextShardKeepsOrder
<1>13. CASE Signal(1)
  <2>1. CASE at[1] \notin shards
    <3>1. /\ UNCHANGED <<queue, seen, shardOrder, callVars, cev, cur, stale>>
          /\ at'[1] = NoShard /\ (cpc' = cpc \/ cpc'[1] # "signal")
      BY <1>13, <2>1 DEF Signal, TypeOK
    <3> QED BY <3>1, PassKeepsOrder, QuietKeepsOrder
  <2> QED BY <1>13, <2>1, SignalKeepsOrder
<1>6. CASE Take(1) \/ Wake(1)
  <2>1. UNCHANGED <<seen, callVars, shardOrder>>
    BY <1>6 DEF Take, Wake, history
  <2>2. \/ queue[1] # <<>> /\ Poll(1, 1)
        \/ \E where \in {"abandoned", "waiting", "loop"} : GoTo(1, where)
    <3>1. eventQueue \in {0, 1}
      BY DEF TypeOK
    <3> QED BY <1>6, <3>1 DEF Take, Wake
  <2>3. ASSUME NEW where \in {"abandoned", "waiting", "loop"}, GoTo(1, where)
        PROVE  queue' = queue /\ cpc'[1] # "signal"
    BY <2>3 DEF GoTo, TypeOK
  <2> QED BY <2>1, <2>2, <2>3, PollKeepsOrder, QuietKeepsOrder
<1>7. CASE Loop(1) \/ EndSignal(1) \/ ReadQueueOut(1) \/ StartOut(1) \/ ClearQueue(1)
  <2>1. UNCHANGED <<queue, seen, callVars, shardOrder>>
    BY <1>7 DEF Loop, EndSignal, ReadQueueOut, StartOut, ClearQueue, history
  <2>2. cpc'[1] # "signal"
    BY <1>7 DEF Loop, EndSignal, ReadQueueOut, StartOut, ClearQueue, TypeOK
  <2> QED BY <2>1, <2>2, QuietKeepsOrder
<1>8. CASE StopOut(1)
  <2>1. UNCHANGED <<seen, callVars, shardOrder>>
    BY <1>8 DEF StopOut
  <2>2. cpc'[1] # "signal" /\ queue'[1] \in {queue[1], <<>>}
    <3>1. eventQueue \in {0, 1}
      BY DEF TypeOK
    <3> QED BY <1>8, <3>1 DEF StopOut, TypeOK
  <2> QED BY <2>1, <2>2, QuietKeepsOrder
<1>9. ASSUME NEW c \in Posters, Toggle(c) PROVE OrderInv'
  <2>1. c \in Threads
    BY DEF Threads
  <2>2. /\ ~Posting(c) /\ ~Posting(c)' /\ calls'[c] \in {calls[c], calls[c] + 1}
        /\ \A d \in Threads : d # c => pc'[d] = pc[d] /\ req'[d] = req[d] /\ calls'[d] = calls[d]
    BY <1>9, <2>1 DEF Toggle, ToggleRead, ToggleWrite, Posting, TypeOK
  <2>3. UNCHANGED <<queue, seen, cev, cur, at, cpc, shardOrder, stale>>
    BY <1>9 DEF Toggle, ToggleRead, ToggleWrite, cycleVars, history
  <2>4. /\ \A d \in Threads : GoesOn(d)
        /\ \A d \in Threads : Posting(d)' => req'[d].by = d /\ req'[d].n = calls'[d]
    BY <2>1, <2>2, OneGoesOn
  <2> QED BY <2>3, <2>4, CallKeepsOrder
<1>10. ASSUME NEW c \in Posters, NEW s \in Shards, CheckAddShard(c, s) \/ CheckRemoveShard(c, s)
       PROVE  OrderInv'
  <2>1. c \in Threads
    BY DEF Threads
  <2>2. PICK where \in EditPC : BeginEdit(c, where, s)
    BY <1>10 DEF CheckAddShard, CheckRemoveShard, EditPC
  <2>3. /\ ~Posting(c) /\ ~Posting(c)' /\ calls'[c] = calls[c] + 1
        /\ \A d \in Threads : d # c => pc'[d] = pc[d] /\ req'[d] = req[d] /\ calls'[d] = calls[d]
    BY <2>1, <2>2 DEF BeginEdit, Posting, EditPC, TypeOK
  <2>4. UNCHANGED <<queue, seen, cev, cur, at, cpc, shardOrder, stale>>
    BY <2>2 DEF BeginEdit, cycleVars, history
  <2>5. /\ \A d \in Threads : GoesOn(d)
        /\ \A d \in Threads : Posting(d)' => req'[d].by = d /\ req'[d].n = calls'[d]
    BY <2>1, <2>3, OneGoesOn
  <2> QED BY <2>4, <2>5, CallKeepsOrder
<1>11. ASSUME NEW c \in Posters,
              \/ CheckAbsent(c) \/ PutShard(c) \/ FindShard(c) \/ AppendShard(c)
              \/ RemoveFromOrder(c) \/ RemoveFromMap(c)
       PROVE  OrderInv'
  <2>1. c \in Threads
    BY DEF Threads
  <2>2. PICK where \in EditPC \cup {"idle"} : GoOnEdit(c, where)
    BY <1>11 DEF CheckAbsent, PutShard, FindShard, AppendShard, RemoveFromOrder, RemoveFromMap,
                 EditPC
  <2>3. pc[c] \in EditPC
    BY <1>11 DEF CheckAbsent, PutShard, FindShard, AppendShard, RemoveFromOrder, RemoveFromMap,
                 EditPC
  <2>4. /\ ~Posting(c) /\ ~Posting(c)' /\ calls' = calls /\ req' = req
        /\ \A d \in Threads : d # c => pc'[d] = pc[d]
    BY <2>1, <2>2, <2>3 DEF GoOnEdit, Posting, EditPC, TypeOK
  <2>5. UNCHANGED <<queue, seen, cev, cur, at, cpc>>
    BY <2>2 DEF GoOnEdit, history
  <2>6. UNCHANGED <<shardOrder, stale>> \/ Invalidate
    BY <1>11 DEF CheckAbsent, PutShard, FindShard, AppendShard, RemoveFromOrder, RemoveFromMap
  <2>7. UNCHANGED <<shardOrder, stale>> \/ (cpc[1] = "signal" => stale'[1])
    BY <2>6 DEF Invalidate
  <2>8. /\ \A d \in Threads : GoesOn(d)
        /\ \A d \in Threads : Posting(d)' => req'[d].by = d /\ req'[d].n = calls'[d]
    BY <2>1, <2>4, OneGoesOn
  <2> QED BY <2>5, <2>7, <2>8, CallKeepsOrder
<1>12. CASE UNCHANGED vars
  BY <1>12 DEF vars, callVars, cycleVars, history, OrderInv, Numbered, Older, Posting, Follow,
               Before, Awaiting, NewTo, Ahead, Destructive
<1> QED
  BY <1>1, <1>2, <1>3, <1>4, <1>5, <1>6, <1>7, <1>8, <1>9, <1>10, <1>11, <1>12, <1>13
     DEF Next, CallStep, CycleStep, Edit

\* For any threads and shards, with one thread editing the list and others toggling the
\* state meanwhile, each shard sees the events of one thread in the order of its calls, none
\* twice.
THEOREM CallersInOrder ==
  ASSUME OneCycle, OneEditor PROVE Spec => []CallerOrder
<1>1. Init => OrderInv
  <2> SUFFICES ASSUME Init PROVE OrderInv
    OBVIOUS
  <2>1. queue[1] = <<>> /\ cpc[1] = "none"
    BY OneCycleFacts DEF Init
  <2>2. \A c \in Threads : ~Posting(c)
    BY DEF Init, Posting
  <2>3. \A s \in Shards : DOMAIN seen[s] = {}
    BY DEF Init
  <2> QED BY <2>1, <2>2, <2>3 DEF OrderInv, Numbered, Follow, Awaiting
<1>2. TypeOK /\ ListedInv /\ OrderInv /\ [Next]_vars => OrderInv'
  BY StepOrder DEF ListedInv
<1>3. OrderInv => CallerOrder
  <2>1. Kept \subseteq Shards
    BY OrderAssumption DEF Kept
  <2> QED BY <2>1 DEF OrderInv, Follow, Before, CallerOrder
<1> QED BY <1>1, <1>2, <1>3, TypeCorrect, ListHasEachOnce, PTL DEF Spec

=============================================================================
