---------------------------- MODULE Node_proofs -----------------------------
(***************************************************************************)
(* Proofs about Node: the types; how start() begins and whom it leaves     *)
(* out; what a round of the Timer has seen; where an agent is, and what it *)
(* remembers when it moves.                                                *)
(***************************************************************************)
EXTENDS Node, FiniteSetTheorems, TLAPS

-----------------------------------------------------------------------------
(* The operators on shards and lists.                                      *)

LEMMA RemovedAt ==
  ASSUME NEW S, NEW s \in Seq(S), NEW i \in DOMAIN s
  PROVE  RemoveAt(s, i) \in Seq(S) /\ Len(RemoveAt(s, i)) = Len(s) - 1
  BY DEF RemoveAt

LEMMA ListMade ==
  ASSUME NEW S, NEW k \in Nat, NEW f \in [1 .. k -> S]
  PROVE  f \in Seq(S)
  OBVIOUS

LEMMA ShardKinds ==
  /\ NoShards \in ShardSet
  /\ \A s \in ShardSet, d \in Designations : s[d] \in {"none", "ser", "non"}
  /\ \A s \in ShardSet, d \in Designations, k \in {"none", "ser", "non"} : [s EXCEPT ![d] = k] \in ShardSet
  BY DEF NoShards, ShardSet

LEMMA PackedBody ==
  ASSUME NEW b \in Body
  PROVE  /\ Packed(b) \in Body
         /\ Packed(b).shards = NoShards
         /\ \A d \in Designations : /\ d \in Packed(b).ser <=> d \in b.ser \/ b.shards[d] = "ser"
                                    /\ d \in Packed(b).non <=> d \in b.non \/ b.shards[d] = "non"
  BY ShardKinds DEF Body, Packed

LEMMA UnpackedBody ==
  ASSUME NEW b \in Body
  PROVE  /\ WithShards(b) \in Body
         /\ WithShards(b).ser = b.ser /\ WithShards(b).non = b.non
         /\ \A d \in Designations : WithShards(b).shards[d] =
               IF d \in b.ser THEN "ser" ELSE IF d \in b.non THEN "non" ELSE b.shards[d]
  <1> DEFINE s == [d \in Designations |-> IF d \in b.ser THEN "ser" ELSE IF d \in b.non THEN "non" ELSE b.shards[d]]
  <1>1. s \in ShardSet
    BY DEF Body, ShardSet
  <1>2. WithShards(b) = [b EXCEPT !.shards = s]
    BY DEF WithShards
  <1> HIDE DEF s
  <1>3. WithShards(b) = [shards |-> s, ser |-> b.ser, non |-> b.non]
    BY <1>2 DEF Body
  <1> QED BY <1>1, <1>3 DEF Body, s

LEMMA MessageFields ==
  /\ \A m \in Message : m.agent \in Agents /\ m.to \in Nodes /\ m.body \in Body /\ m.state \in States
  /\ \A a \in Agents, n \in Nodes, b \in Body, s \in States :
        [agent |-> a, to |-> n, body |-> b, state |-> s] \in Message
  BY DEF Message

LEMMA WayFields ==
  /\ Stays \in Way
  /\ \A w \in Way : /\ w.from \in Nodes \cup {Nobody} /\ w.to \in Nodes \cup {Nobody}
                    /\ w.step \in {"none", "asked", "exited", "packed"} /\ w.message \in Message \cup {Nobody}
  /\ \A n, q \in Nodes : [from |-> n, to |-> q, step |-> "asked", message |-> Nobody] \in Way
  BY DEF Way, Stays

LEMMA WayExited ==
  ASSUME NEW w \in Way, NEW x, x = [w EXCEPT !.step = "exited"]
  PROVE  x \in Way /\ x.from = w.from /\ x.to = w.to /\ x.step = "exited"
  BY DEF Way

-----------------------------------------------------------------------------
(* Types.                                                                  *)

\* An agent on its way out has an origin, a destination, and then a message.
Travels ==
    \A a \in Agents :
        /\ leaving[a].step # "none" => leaving[a].from \in Nodes /\ leaving[a].to \in Nodes
        /\ leaving[a].step = "packed" => leaving[a].message # Nobody /\ leaving[a].message.agent = a

TypeInv == TypeOK /\ Travels

LEMMA TypeParts ==
  /\ TypeInv <=> /\ StartTypes /\ ListTypes /\ StopTypes /\ NameTypes /\ StateTypes /\ BodyTypes
                 /\ LeavingTypes /\ TravelTypes /\ Travels
  /\ TypeInv' <=> /\ StartTypes' /\ ListTypes' /\ StopTypes' /\ NameTypes' /\ StateTypes' /\ BodyTypes'
                  /\ LeavingTypes' /\ TravelTypes' /\ Travels'
  BY DEF TypeInv, TypeOK

\* What a step leaves alone keeps its type.
LEMMA Alone ==
  /\ StartTypes /\ UNCHANGED startup /\ UNCHANGED <<timer, look, newKey>> => StartTypes'
  /\ ListTypes /\ UNCHANGED order => ListTypes'
  /\ StopTypes /\ UNCHANGED toStop => StopTypes'
  /\ NameTypes /\ UNCHANGED <<arrived, steady, revived, found, controls>> => NameTypes'
  /\ StateTypes /\ UNCHANGED state => StateTypes'
  /\ BodyTypes /\ UNCHANGED body => BodyTypes'
  /\ LeavingTypes /\ UNCHANGED leaving => LeavingTypes'
  /\ TravelTypes /\ UNCHANGED <<transit, moves, edits, left>> => TravelTypes'
  /\ Travels /\ UNCHANGED leaving => Travels'
  BY DEF StartTypes, ListTypes, StopTypes, NameTypes, StateTypes, BodyTypes, LeavingTypes, TravelTypes,
         Travels, startup

LEMMA GoesType ==
  ASSUME NEW n \in Nodes, NEW a \in Agents, NEW s \in States, Goes(n, a, s), StateTypes
  PROVE  /\ StateTypes'
         /\ state'[n][a] = s
         /\ \A m \in Nodes, b \in Agents : m # n \/ b # a => state'[m][b] = state[m][b]
  BY DEF Goes, StateTypes

LEMMA TypeInvInit == Init => TypeInv
  <1> SUFFICES ASSUME Init PROVE TypeInv
    OBVIOUS
  <1>1. StateTypes
    BY DEF Init, StateTypes, States
  <1>2. BodyTypes
    <2>1. \A a \in Agents : FirstShards[a] \in ShardSet
      BY ShardsAssumption
    <2> QED BY <2>1, ShardKinds DEF Init, BodyTypes, Body
  <1>3. LeavingTypes /\ Travels
    BY WayFields DEF Init, Stays, LeavingTypes, Travels
  <1>4. TravelTypes
    BY ShardKinds DEF Init, TravelTypes, Departure
  <1>5. ListTypes
    BY LoadedAssumption DEF Init, ListTypes
  <1>6. StopTypes
    <2>1. <<>> \in Seq(Copied)
      OBVIOUS
    <2> QED BY <2>1 DEF Init, StopTypes
  <1>7. \A n \in Nodes : Len(Loaded[n]) \in Nat
    BY LoadedAssumption
  <1>8. StartTypes
    BY <1>7 DEF Init, StartTypes, Phases, Times
  <1>9. NameTypes
    BY BoundsAssumption DEF Init, NameTypes
  <1> QED BY <1>1, <1>2, <1>3, <1>4, <1>5, <1>6, <1>8, <1>9, TypeParts

\* The choice in RECEIVE_AGENT.
Takes(n, m) ==
  LET a == m.agent IN
        /\ m.to = n
        /\ transit' = transit \ {m}
        /\ order' = [order EXCEPT ![n] = Append(@, a)]
        /\ modified' = IF phase[n] = "listing" THEN modified \cup {n} ELSE modified
        /\ newKey' = IF arrived[n] = {} THEN newKey \cup {n} ELSE newKey
        /\ arrived' = [arrived EXCEPT ![n] = @ \cup {a}]
        /\ IF m.state = "transient" /\ CanLoad(m.body)
           THEN /\ Goes(n, a, "starting")
                /\ body' = [body EXCEPT ![n][a] = WithShards(m.body)]
           ELSE /\ Goes(n, a, IF m.state = "transient" THEN "transient" ELSE "inert")
                /\ body' = [body EXCEPT ![n][a] = m.body]

LEMMA BodyGets ==
  ASSUME NEW n \in Nodes, NEW a \in Agents, NEW b \in Body, body' = [body EXCEPT ![n][a] = b], BodyTypes
  PROVE  /\ BodyTypes'
         /\ body'[n][a] = b
         /\ \A m \in Nodes, c \in Agents : m # n \/ c # a => body'[m][c] = body[m][c]
  BY DEF BodyTypes

\* RECEIVE_AGENT keeps the types.
LEMMA ReceiveTypes == ASSUME TypeInv, NEW n \in Nodes, Receive(n) PROVE TypeInv'
  <1> USE TypeParts
  <1> PICK m \in transit : Takes(n, m)
    BY DEF Receive, Takes
  <1>0. m.agent \in Agents /\ m.body \in Body
    BY MessageFields DEF TravelTypes
  <1>1. StateTypes'
    BY <1>0, GoesType DEF States, Takes
  <1>2. BodyTypes'
    <2>1. CASE m.state = "transient" /\ CanLoad(m.body)
      <3>1. WithShards(m.body) \in Body /\ body' = [body EXCEPT ![n][m.agent] = WithShards(m.body)]
        BY <1>0, <2>1, UnpackedBody DEF Takes
      <3> QED BY <1>0, <3>1, BodyGets
    <2>2. CASE ~(m.state = "transient" /\ CanLoad(m.body))
      <3>1. body' = [body EXCEPT ![n][m.agent] = m.body]
        BY <2>2 DEF Takes
      <3> QED BY <1>0, <3>1, BodyGets
    <2> QED BY <2>1, <2>2
  <1>3. ListTypes'
    BY <1>0 DEF ListTypes, Takes
  <1>4. NameTypes'
    BY <1>0 DEF NameTypes, Takes, Receive, control
  <1>5. TravelTypes'
    BY DEF TravelTypes, Takes, Receive
  <1>6. StartTypes'
    <2>1. UNCHANGED <<phase, cursor, leavers, timer, look>>
      BY DEF Receive
    <2>2. modified' \subseteq Nodes /\ newKey' \subseteq Nodes
      BY DEF Takes, StartTypes
    <2> QED BY <2>1, <2>2 DEF StartTypes
  <1> QED BY <1>1, <1>2, <1>3, <1>4, <1>5, <1>6, Alone DEF Receive

\* START keeps the types.
LEMMA StartFoundTypes == ASSUME TypeInv, NEW n \in Nodes, StartFound(n) PROVE TypeInv'
  <1> USE TypeParts
  <1> DEFINE a == found[n]
  <1>0. a \in Agents /\ body[n][a] \in Body
    BY DEF StartFound, NameTypes, BodyTypes
  <1>1. StateTypes'
    BY <1>0, GoesType, Alone DEF StartFound, States, objects
  <1>2. BodyTypes'
    BY <1>0, UnpackedBody, BodyGets, Alone DEF StartFound, objects
  <1>3. NameTypes'
    BY <1>0 DEF StartFound, NameTypes
  <1> QED BY <1>1, <1>2, <1>3, Alone DEF StartFound, startup, watch, travel

\* The steps of the Timer's thread keep the types.
LEMMA TimingTypes == ASSUME TypeInv, NEW n \in Nodes, Timing(n) PROVE TypeInv'
  <1> USE TypeParts
  <1>0. \A m \in Nodes : Len(Loaded[m]) \in Nat
    BY LoadedAssumption
  <1>1. CASE Tick(n)
    <2>1. StartTypes'
      BY <1>0, <1>1 DEF Tick, StartTypes, startup, Times
    <2>2. NameTypes'
      BY <1>1 DEF Tick, NameTypes, control
    <2> QED BY <1>1, <2>1, <2>2, Alone DEF Tick, control, objects, travel
  <1>2. CASE NextKey(n)
    <2>1. StartTypes'
      BY <1>2 DEF NextKey, StartTypes, startup, Times
    <2> QED BY <1>2, <2>1, Alone DEF NextKey, control, objects, travel
  <1>3. CASE Look(n)
    <2>1. StartTypes'
      <3>1. CASE LoadedRuns(n, Loaded[n][look[n] + 1])
        BY <1>3, <3>1 DEF Look, StartTypes, startup, Times
      <3>2. CASE ~LoadedRuns(n, Loaded[n][look[n] + 1])
        <4>1. look' = [look EXCEPT ![n] = @ + 1] /\ look[n] < Len(Loaded[n])
          BY <1>3, <3>2 DEF Look
        <4>2. UNCHANGED <<phase, cursor, modified, leavers, timer, newKey>>
          BY <1>3, <3>2 DEF Look, startup
        <4>3. look' \in [Nodes -> Nat] /\ \A m \in Nodes : look'[m] <= Len(Loaded[m])
          BY <1>0, <4>1 DEF StartTypes
        <4> QED BY <4>2, <4>3 DEF StartTypes
      <3> QED BY <3>1, <3>2
    <2> QED BY <1>3, <2>1, Alone DEF Look, control, objects, travel
  <1>4. CASE BeginStop(n)
    <2> DEFINE copy == [i \in DOMAIN order[n] |-> [agent |-> order[n][i], nr |-> moves[order[n][i]]]]
    <2>1. \A i \in DOMAIN order[n] : copy[i] \in Copied
      BY DEF ListTypes, TravelTypes, Copied
    <2>2. DOMAIN copy = 1 .. Len(order[n]) /\ Len(order[n]) \in Nat
      BY DEF ListTypes
    <2>3. copy \in Seq(Copied)
      <3>1. copy \in [1 .. Len(order[n]) -> Copied]
        BY <2>1, <2>2
      <3> QED BY <2>2, <3>1, ListMade
    <2> HIDE DEF copy
    <2>4. toStop' = [toStop EXCEPT ![n] = copy]
      BY <1>4 DEF BeginStop, copy
    <2>5. StopTypes'
      BY <2>3, <2>4 DEF StopTypes
    <2>6. StartTypes'
      BY <1>4 DEF BeginStop, StartTypes, startup, Times
    <2> QED BY <1>4, <2>5, <2>6, Alone DEF BeginStop, control, objects, travel
  <1>5. CASE StopNext(n)
    <2> DEFINE last == toStop[n][Len(toStop[n])]
    <2>1. toStop[n] \in Seq(Copied) /\ toStop[n] # <<>>
      BY <1>5 DEF StopNext, StopTypes
    <2>2. last \in Copied /\ SubSeq(toStop[n], 1, Len(toStop[n]) - 1) \in Seq(Copied)
      BY <2>1
    <2>3. StopTypes'
      BY <1>5, <2>2 DEF StopNext, StopTypes
    <2>4. last.agent \in Agents
      BY <2>2 DEF Copied
    <2>5. StateTypes'
      BY <1>5, <2>4, GoesType, Alone DEF StopNext, States
    <2>6. NameTypes'
      <3>1. steady' = [steady EXCEPT ![n] = @ \ {last.agent}] \/ steady' = steady
        BY <1>5 DEF StopNext
      <3>2. UNCHANGED <<arrived, revived, found, controls>>
        BY <1>5 DEF StopNext, control
      <3> QED BY <3>1, <3>2 DEF NameTypes
    <2> QED BY <1>5, <2>3, <2>5, <2>6, Alone DEF StopNext, control, travel
  <1>6. CASE Stopped(n)
    <2>1. StartTypes'
      BY <1>6 DEF Stopped, StartTypes, startup, Times
    <2> QED BY <1>6, <2>1, Alone DEF Stopped, control, objects, travel
  <1> QED BY <1>1, <1>2, <1>3, <1>4, <1>5, <1>6 DEF Timing

\* So do those of start(),
LEMMA MainTypes == ASSUME TypeInv, NEW n \in Nodes, Main(n) PROVE TypeInv'
  <1> USE TypeParts
  <1>1. CASE Start(n)
    <2>1. StartTypes'
      BY <1>1 DEF Start, StartTypes, watch, Phases, Times
    <2> QED BY <1>1, <2>1, Alone DEF Start, watch, control, objects, travel
  <1>2. CASE StartNext(n)
    <2>1. order[n][cursor[n] + 1] \in Agents
      BY <1>2 DEF StartNext, StartTypes, ListTypes
    <2>2. StateTypes'
      BY <1>2, <2>1, GoesType, Alone DEF StartNext, States
    <2>3. StartTypes'
      <3>1. CASE n \in modified
        BY <1>2, <3>1 DEF StartNext, StartTypes, watch, Phases, Times
      <3>2. CASE n \notin modified
        <4>1. cursor' = [cursor EXCEPT ![n] = @ + 1]
          BY <1>2, <3>2 DEF StartNext
        <4>2. UNCHANGED <<phase, timer, leavers, look, modified, newKey>>
          BY <1>2, <3>2 DEF StartNext, watch
        <4>3. cursor' \in [Nodes -> Nat]
          BY <4>1 DEF StartTypes
        <4> QED BY <4>2, <4>3 DEF StartTypes
      <3> QED BY <3>1, <3>2
    <2> QED BY <1>2, <2>2, <2>3, Alone DEF StartNext, watch, control, travel
  <1>3. CASE MessagingStarted(n)
    <2>1. StartTypes'
      BY <1>3 DEF MessagingStarted, StartTypes, watch, Phases, Times
    <2> QED BY <1>3, <2>1, Alone DEF MessagingStarted, watch, control, objects, travel
  <1>4. CASE Started(n)
    <2>1. UNCHANGED <<cursor, modified, leavers, newKey, look>> /\ phase[n] = "listing"
      BY <1>4 DEF Started
    <2>2. \/ phase' = [phase EXCEPT ![n] = "up"] /\ timer' = [timer EXCEPT ![n] = "idle"]
          \/ phase' = [phase EXCEPT ![n] = "unwatched"] /\ UNCHANGED timer
      BY <1>4 DEF Started
    <2>3. StartTypes'
      BY <2>1, <2>2 DEF StartTypes, Phases, Times
    <2> QED BY <1>4, <2>3, Alone DEF Started, control, objects, travel
  <1> QED BY <1>1, <1>2, <1>3, <1>4 DEF Main

\* and those of the agents.
LEMMA NoLongerTypes ==
  ASSUME TypeInv, NEW n \in Nodes, NEW a \in Agents, NoLonger(n, a), UNCHANGED <<arrived, control>>
  PROVE  StateTypes' /\ NameTypes'
  <1> USE TypeParts
  <1>1. StateTypes'
    BY GoesType DEF NoLonger, States
  <1>2. NameTypes'
    BY DEF NoLonger, NameTypes, control
  <1> QED BY <1>1, <1>2

LEMMA ThreadTypes == ASSUME TypeInv, NEW n \in Nodes, NEW a \in Agents, Thread(n, a) PROVE TypeInv'
  <1> USE TypeParts
  <1>1. CASE Runs(n, a)
    <2>1. StateTypes'
      BY <1>1, GoesType DEF Runs, States
    <2> QED BY <1>1, <2>1, Alone DEF Runs, watch, control, travel
  <1>2. CASE AskStop(n, a)
    <2>1. StateTypes' /\ NameTypes'
      BY <1>2, NoLongerTypes DEF AskStop
    <2> QED BY <1>2, <2>1, Alone DEF AskStop, watch, travel
  <1>3. CASE AskMove(n, a)
    <2>1. StateTypes' /\ NameTypes'
      BY <1>3, NoLongerTypes DEF AskMove
    <2>2. LeavingTypes'
      <3>1. PICK q \in Nodes : leaving' =
              [leaving EXCEPT ![a] = [from |-> n, to |-> q, step |-> "asked", message |-> Nobody]]
        BY <1>3 DEF AskMove
      <3>2. [from |-> n, to |-> q, step |-> "asked", message |-> Nobody] \in Way
        BY WayFields
      <3> QED BY <3>1, <3>2 DEF LeavingTypes
    <2>3. Travels'
      BY <1>3 DEF AskMove, LeavingTypes, Travels
    <2>4. TravelTypes'
      BY <1>3 DEF AskMove, TravelTypes
    <2> QED BY <1>3, <2>1, <2>2, <2>3, <2>4, Alone DEF AskMove, watch
  <1>4. CASE EditShard(n, a)
    <2> PICK d \in Designations, kind \in {"none", "ser", "non"} :
          body' = [body EXCEPT ![n][a].shards[d] = kind]
      BY <1>4 DEF EditShard
    <2> DEFINE b == [body[n][a] EXCEPT !.shards[d] = kind]
    <2>1. b \in Body
      <3>1. body[n][a] \in Body
        BY DEF BodyTypes
      <3>2. body[n][a].shards \in ShardSet
        BY <3>1 DEF Body
      <3>3. [body[n][a].shards EXCEPT ![d] = kind] \in ShardSet
        BY <3>2, ShardKinds
      <3> QED BY <3>1, <3>3 DEF Body
    <2>2. body' = [body EXCEPT ![n][a] = b]
      BY DEF BodyTypes
    <2> HIDE DEF b
    <2>3. BodyTypes'
      BY <2>1, <2>2 DEF BodyTypes
    <2>4. TravelTypes'
      BY <1>4 DEF EditShard, TravelTypes, travel
    <2> QED BY <1>4, <2>3, <2>4, Alone DEF EditShard, watch, control, travel
  <1>5. CASE Exit(n, a)
    <2>1. StateTypes'
      BY <1>5, GoesType DEF Exit, States
    <2>2. LeavingTypes' /\ Travels'
      <3>1. CASE Moving(n, a)
        <4> DEFINE x == [leaving[a] EXCEPT !.step = "exited"]
        <4>1. leaving[a] \in Way /\ leaving[a].step # "none"
          BY <3>1 DEF LeavingTypes, Moving
        <4>2. leaving' = [leaving EXCEPT ![a] = x]
          BY <1>5, <3>1 DEF Exit
        <4>3. x \in Way /\ x.from = leaving[a].from /\ x.to = leaving[a].to /\ x.step = "exited"
          BY <4>1, WayExited
        <4> HIDE DEF x
        <4>4. LeavingTypes' /\ Travels'
          BY <4>1, <4>2, <4>3 DEF Travels, LeavingTypes
        <4> QED BY <4>4
      <3>2. CASE ~Moving(n, a)
        BY <1>5, <3>2, Alone DEF Exit
      <3> QED BY <3>1, <3>2
    <2> QED BY <1>5, <2>1, <2>2, Alone DEF Exit, watch, control
  <1> QED BY <1>1, <1>2, <1>3, <1>4, <1>5 DEF Thread

\* What an agent that leaves packs is a message, and what it packed before stays with it.
LEMMA PackTypes == ASSUME TypeInv, NEW a \in Agents, Pack(a) PROVE TypeInv'
  <1> USE TypeParts
  <1> DEFINE n == leaving[a].from
             b == body[n][a]
             m == [agent |-> a, to |-> leaving[a].to, body |-> Packed(b), state |-> state[n][a]]
  <1>1. n \in Nodes /\ leaving[a].to \in Nodes /\ b \in Body /\ state[n][a] \in States
    BY DEF Pack, BodyTypes, StateTypes, Travels
  <1>2. m \in Message /\ m # Nobody /\ m.agent = a
    BY <1>1, PackedBody, MessageFields, NobodyAssumption
  <1>3. BodyTypes'
    BY <1>1, PackedBody, BodyGets DEF Pack
  <1>4. TravelTypes'
    <2>1. [shards |-> b.shards, edits |-> edits[a]] \in Departure
      BY <1>1 DEF TravelTypes, Body, Departure
    <2> QED BY <2>1 DEF Pack, TravelTypes
  <1> DEFINE x == [leaving[a] EXCEPT !.step = "packed", !.message = m]
  <1>5. leaving' = [leaving EXCEPT ![a] = x]
    BY DEF Pack
  <1> HIDE DEF m
  <1>6. leaving[a] \in Way
    BY DEF LeavingTypes
  <1>7. x \in Way /\ x.from = leaving[a].from /\ x.to = leaving[a].to /\ x.step = "packed" /\ x.message = m
    <2>1. x = [leaving[a] EXCEPT !.step = "packed", !.message = m]
      OBVIOUS
    <2> HIDE DEF x
    <2> QED BY <1>2, <1>6, <2>1 DEF Way
  <1> HIDE DEF x
  <1>8. LeavingTypes' /\ Travels'
    BY <1>1, <1>2, <1>5, <1>7 DEF Travels, LeavingTypes
  <1> QED BY <1>3, <1>4, <1>8, Alone DEF Pack, watch, control

LEMMA SendAgentTypes == ASSUME TypeInv, NEW a \in Agents, SendAgent(a) PROVE TypeInv'
  <1> USE TypeParts
  <1> DEFINE n == leaving[a].from
             here == {i \in DOMAIN order[n] : order[n][i] = a}
  <1>0. leaving[a] \in Way /\ leaving[a].step = "packed"
    BY DEF SendAgent, LeavingTypes
  <1>1. n \in Nodes /\ leaving[a].message \in Message
    BY <1>0, WayFields DEF Travels
  <1>2. ListTypes'
    <2>1. CASE here = {}
      BY <2>1, Alone DEF SendAgent
    <2>2. ASSUME NEW i \in here, order' = [order EXCEPT ![n] = RemoveAt(@, i)] PROVE ListTypes'
      <3>1. order[n] \in Seq(Agents) /\ i \in DOMAIN order[n]
        BY <1>1, <2>2 DEF ListTypes
      <3>2. RemoveAt(order[n], i) \in Seq(Agents)
        BY <3>1, RemovedAt
      <3> QED BY <2>2, <3>2 DEF ListTypes
    <2> QED BY <2>1, <2>2 DEF SendAgent
  <1>3. TravelTypes'
    BY <1>1 DEF SendAgent, TravelTypes
  <1>4. StartTypes'
    <2>1. UNCHANGED <<phase, cursor, newKey, timer, look>>
      BY DEF SendAgent, watch
    <2>2. leavers' \in [Nodes -> Nat]
      BY <1>1 DEF SendAgent, StartTypes
    <2>3. modified' \subseteq Nodes
      BY <1>1 DEF SendAgent, StartTypes
    <2> QED BY <2>1, <2>2, <2>3 DEF StartTypes
  <1>5. LeavingTypes'
    BY WayFields DEF SendAgent, LeavingTypes
  <1>6. Travels'
    BY DEF SendAgent, Stays, LeavingTypes, Travels
  <1> QED BY <1>2, <1>3, <1>4, <1>5, <1>6, Alone DEF SendAgent, watch, control, objects

LEMMA TypeInvNext == TypeInv /\ [Next]_vars => TypeInv'
  <1> SUFFICES ASSUME TypeInv, [Next]_vars PROVE TypeInv'
    OBVIOUS
  <1> USE TypeParts
  <1>1. CASE UNCHANGED vars
    BY <1>1, Alone DEF vars, watch, control, objects, travel
  <1>2. ASSUME NEW n \in Nodes, Find(n) PROVE TypeInv'
    <2>1. PICK i \in DOMAIN order[n] : found' = [found EXCEPT ![n] = order[n][i]]
      BY <1>2 DEF Find
    <2>2. order[n][i] \in Agents
      BY DEF ListTypes
    <2>3. controls' = [controls EXCEPT ![n] = @ + 1] /\ controls[n] < MaxControls[n]
      BY <1>2 DEF Find
    <2>4. UNCHANGED <<arrived, steady, revived>>
      BY <1>2 DEF Find
    <2>5. NameTypes'
      <3>1. found' \in [Nodes -> Agents \cup {Nobody}]
        BY <2>1, <2>2 DEF NameTypes
      <3>2. controls' \in [Nodes -> Nat] /\ \A m \in Nodes : controls'[m] <= MaxControls[m]
        <4>1. controls \in [Nodes -> Nat] /\ \A m \in Nodes : controls[m] <= MaxControls[m]
          BY DEF NameTypes
        <4>2. MaxControls[n] \in Nat
          BY BoundsAssumption
        <4> QED BY <2>3, <4>1, <4>2
      <3> QED BY <2>4, <3>1, <3>2 DEF NameTypes
    <2> QED BY <1>2, <2>5, Alone DEF Find, startup, watch, objects, travel
  <1> QED BY <1>1, <1>2, MainTypes, TimingTypes, StartFoundTypes, ReceiveTypes, ThreadTypes, PackTypes,
             SendAgentTypes DEF Next, Pylon

\* Types, origins, destinations and messages of all that Node keeps.
THEOREM NodeTypes == Spec => []TypeInv
  BY TypeInvInit, TypeInvNext, PTL DEF Spec

-----------------------------------------------------------------------------
(* How start() begins: until it is over no agent of the node is found by a *)
(* START operation, and what it has not come to is as it was loaded.       *)

Early == {"loaded", "starting"}
Past == {"listing", "up", "unwatched"}

Unstarted(n) == \A i \in DOMAIN Loaded[n] : i > cursor[n] => state[n][Loaded[n][i]] = "stopped"

Untouched(n) ==
    /\ cursor[n] = 0 /\ leavers[n] = 0 /\ order[n] = Loaded[n]
    /\ \A a \in Agents : state[n][a] \in {"none", "stopped"}
    /\ \A a \in Agents : leaving[a].step # "none" => leaving[a].from # n

StartsAt(n) ==
    /\ phase[n] \in Early => found[n] = Nobody /\ Unstarted(n)
    /\ phase[n] = "loaded" => Untouched(n)
    /\ phase[n] = "starting" => /\ Len(order[n]) + leavers[n] = Len(Loaded[n])
                                /\ n \notin modified => order[n] = Loaded[n]
    /\ phase[n] \in Past => Len(Loaded[n]) <= cursor[n] + leavers[n]

Startup == \A n \in Nodes : StartsAt(n)

LEMMA LoadedOnce ==
  /\ \A n \in Nodes : Len(Loaded[n]) \in Nat /\ DOMAIN Loaded[n] = 1 .. Len(Loaded[n])
  /\ \A n \in Nodes : \A i \in DOMAIN Loaded[n] : Loaded[n][i] \in Agents
  /\ \A n \in Nodes : \A i, j \in DOMAIN Loaded[n] : Loaded[n][i] = Loaded[n][j] => i = j
  BY LoadedAssumption

\* A step that leaves the lists of a node alone and changes no object there
\* that has not been started.
LEMMA StartsAlone ==
  ASSUME NEW n \in Nodes, StartsAt(n),
         phase'[n] = phase[n], cursor'[n] = cursor[n], leavers'[n] = leavers[n],
         phase[n] \in Early => /\ found'[n] = found[n] /\ order'[n] = order[n]
                               /\ n \in modified' <=> n \in modified
                               /\ \A a \in Agents : state[n][a] \in {"none", "stopped"} => state'[n][a] = state[n][a],
         phase[n] = "loaded" =>
             \A a \in Agents : leaving'[a].step # "none" => leaving'[a].from # n
  PROVE  StartsAt(n)'
  BY LoadedOnce DEF StartsAt, Early, Past, Unstarted, Untouched

LEMMA StartupInit == Init => Startup
  <1> SUFFICES ASSUME Init, NEW n \in Nodes PROVE StartsAt(n)
    BY DEF Startup
  <1>1. \A a \in Agents : state[n][a] = IF IsLoaded(n, a) THEN "stopped" ELSE "none"
    BY DEF Init
  <1>2. \A a \in Agents : leaving[a].step = "none"
    BY DEF Init, Stays
  <1>3. \A i \in DOMAIN Loaded[n] : state[n][Loaded[n][i]] = "stopped"
    BY <1>1, LoadedOnce DEF IsLoaded
  <1>4. phase[n] = "loaded" /\ cursor[n] = 0 /\ leavers[n] = 0 /\ order[n] = Loaded[n] /\ found[n] = Nobody
    BY DEF Init
  <1> QED BY <1>1, <1>2, <1>3, <1>4 DEF StartsAt, Past, Unstarted, Untouched

\* start() itself.
LEMMA StartupMain == ASSUME TypeInv, Startup, NEW m \in Nodes, Main(m) PROVE Startup'
  <1> SUFFICES ASSUME NEW n \in Nodes PROVE StartsAt(n)'
    BY DEF Startup
  <1>0. StartTypes /\ ListTypes /\ StateTypes /\ StartsAt(n)
    BY TypeParts DEF Startup
  <1>1. CASE Start(m)
    <2>1. UNCHANGED <<cursor, leavers, order, found, state, leaving>>
      BY <1>1 DEF Start, control, objects, travel
    <2>2. CASE n = m
      <3>1. phase[n] = "loaded" /\ phase'[n] = "starting"
        BY <1>0, <1>1, <2>2 DEF Start, StartTypes
      <3> QED BY <1>0, <2>1, <3>1, LoadedOnce DEF StartsAt, Early, Past, Unstarted, Untouched
    <2>3. CASE n # m
      <3>1. phase'[n] = phase[n] /\ (n \in modified' <=> n \in modified)
        BY <1>0, <1>1, <2>3 DEF Start, StartTypes
      <3> QED BY <1>0, <2>1, <3>1, StartsAlone DEF StartsAt, Untouched
    <2> QED BY <2>2, <2>3
  <1>2. CASE StartNext(m)
    <2>1. UNCHANGED <<modified, leavers, order, found, leaving>>
      BY <1>2 DEF StartNext, control, travel
    <2>2. CASE m \in modified
      <3>1. UNCHANGED <<cursor, state>> /\ phase' = [phase EXCEPT ![m] = "failed"]
        BY <1>2, <2>2 DEF StartNext
      <3>2. CASE n = m
        <4>1. phase'[n] = "failed"
          BY <1>0, <3>1, <3>2 DEF StartTypes
        <4> QED BY <4>1 DEF StartsAt, Early, Past
      <3>3. CASE n # m
        <4>1. phase'[n] = phase[n]
          BY <1>0, <3>1, <3>3 DEF StartTypes
        <4> QED BY <1>0, <2>1, <3>1, <4>1, StartsAlone DEF StartsAt, Untouched
      <3> QED BY <3>2, <3>3
    <2>3. CASE m \notin modified
      <3> DEFINE a == order[m][cursor[m] + 1]
      <3>1. /\ phase[m] = "starting" /\ cursor[m] < Len(order[m])
            /\ cursor' = [cursor EXCEPT ![m] = @ + 1] /\ Goes(m, a, "starting") /\ UNCHANGED phase
        BY <1>2, <2>3 DEF StartNext
      <3>2. order[m] = Loaded[m]
        BY <2>3, <3>1 DEF Startup, StartsAt
      <3>3. cursor[m] \in Nat /\ cursor[m] + 1 \in DOMAIN Loaded[m] /\ a = Loaded[m][cursor[m] + 1] /\ a \in Agents
        BY <1>0, <3>1, <3>2, LoadedOnce DEF StartTypes
      <3>4. \A k \in Nodes, b \in Agents : k # m \/ b # a => state'[k][b] = state[k][b]
        BY <1>0, <3>1, <3>3, GoesType DEF States
      <3>5. CASE n = m
        <4>1. cursor'[n] = cursor[n] + 1
          BY <1>0, <3>1, <3>5 DEF StartTypes
        <4>2. Unstarted(n)'
          BY <1>0, <3>1, <3>3, <3>4, <3>5, <4>1, LoadedOnce DEF StartsAt, Unstarted, Early
        <4> QED BY <1>0, <2>1, <3>1, <3>5, <4>2 DEF StartsAt, Early, Past
      <3>6. CASE n # m
        <4>1. cursor'[n] = cursor[n]
          BY <1>0, <3>1, <3>6 DEF StartTypes
        <4> QED BY <1>0, <2>1, <3>1, <3>4, <3>6, <4>1, StartsAlone DEF StartsAt, Untouched
      <3> QED BY <3>5, <3>6
    <2> QED BY <2>2, <2>3
  <1>3. CASE MessagingStarted(m)
    <2>1. UNCHANGED <<cursor, leavers, order, found, state, leaving>>
      BY <1>3 DEF MessagingStarted, control, objects, travel
    <2>2. CASE n = m
      <3>1. phase[n] = "starting" /\ phase'[n] = "listing" /\ cursor[n] >= Len(order[n])
        BY <1>0, <1>3, <2>2 DEF MessagingStarted, StartTypes
      <3>2. cursor[n] \in Nat /\ leavers[n] \in Nat /\ Len(order[n]) \in Nat
        BY <1>0 DEF StartTypes, ListTypes
      <3>3. Len(Loaded[n]) <= cursor[n] + leavers[n]
        BY <1>0, <3>1, <3>2 DEF StartsAt
      <3> QED BY <2>1, <3>1, <3>3 DEF StartsAt, Early, Past
    <2>3. CASE n # m
      <3>1. phase'[n] = phase[n] /\ (n \in modified' <=> n \in modified)
        BY <1>0, <1>3, <2>3 DEF MessagingStarted, StartTypes
      <3> QED BY <1>0, <2>1, <3>1, StartsAlone DEF StartsAt, Untouched
    <2> QED BY <2>2, <2>3
  <1>4. CASE Started(m)
    <2>1. UNCHANGED <<cursor, modified, leavers, order, found, state, leaving>>
      BY <1>4 DEF Started, control, objects, travel
    <2>2. CASE n = m
      <3>1. phase[n] = "listing" /\ phase'[n] \in {"up", "unwatched"}
        BY <1>0, <1>4, <2>2 DEF Started, StartTypes
      <3> QED BY <1>0, <2>1, <3>1 DEF StartsAt, Early, Past
    <2>3. CASE n # m
      <3>1. phase'[n] = phase[n]
        BY <1>0, <1>4, <2>3 DEF Started, StartTypes
      <3> QED BY <1>0, <2>1, <3>1, StartsAlone DEF StartsAt, Untouched
    <2> QED BY <2>2, <2>3
  <1> QED BY <1>1, <1>2, <1>3, <1>4 DEF Main

\* The Timer's thread stops what runs; what has not been started does not.
LEMMA StartupTiming == ASSUME TypeInv, Startup, NEW m \in Nodes, Timing(m) PROVE Startup'
  <1> SUFFICES ASSUME NEW n \in Nodes PROVE StartsAt(n)'
    BY DEF Startup
  <1>0. StateTypes /\ StopTypes /\ StartsAt(n)
    BY TypeParts DEF Startup
  <1>1. UNCHANGED <<phase, cursor, modified, leavers, order, found, leaving>>
    BY DEF Timing, Tick, NextKey, Look, BeginStop, StopNext, Stopped, startup, control, travel
  <1>2. \A a \in Agents : state[n][a] \in {"none", "stopped"} => state'[n][a] = state[n][a]
    <2>1. CASE StopNext(m)
      <3> DEFINE last == toStop[m][Len(toStop[m])]
      <3>1. last \in Copied
        BY <1>0, <2>1 DEF StopNext, StopTypes
      <3>2. state' = state \/ (state[m][last.agent] = "running" /\ Goes(m, last.agent, "stopping"))
        BY <2>1 DEF StopNext
      <3> HIDE DEF last
      <3> QED BY <1>0, <3>1, <3>2, GoesType DEF States, Copied
    <2>2. CASE ~StopNext(m)
      BY <2>2 DEF Timing, Tick, NextKey, Look, BeginStop, Stopped, objects
    <2> QED BY <2>1, <2>2
  <1> QED BY <1>0, <1>1, <1>2, StartsAlone DEF StartsAt, Untouched

\* The pylon's thread has no operation for a node whose messaging shard is
\* not started.
LEMMA StartupPylon == ASSUME TypeInv, Startup, NEW m \in Nodes, Pylon(m) PROVE Startup'
  <1> SUFFICES ASSUME NEW n \in Nodes PROVE StartsAt(n)'
    BY DEF Startup
  <1>0. StateTypes /\ ListTypes /\ NameTypes /\ TravelTypes /\ StartsAt(n) /\ StartsAt(m)
    BY TypeParts DEF Startup
  <1>1. UNCHANGED <<phase, cursor, leavers>> /\ (n # m => (n \in modified' <=> n \in modified))
    BY DEF Pylon, Find, StartFound, Receive, startup
  <1>2. phase[m] \notin Early
    BY <1>0 DEF Pylon, Find, StartFound, Receive, Listening, StartsAt, Early
  <1>3. UNCHANGED leaving
    BY DEF Pylon, Find, StartFound, Receive, travel
  <1>4. n # m => found'[n] = found[n] /\ order'[n] = order[n] /\ \A a \in Agents : state'[n][a] = state[n][a]
    <2> SUFFICES ASSUME n # m PROVE found'[n] = found[n] /\ order'[n] = order[n] /\ state'[n] = state[n]
      OBVIOUS
    <2>1. CASE Find(m)
      BY <1>0, <2>1 DEF Find, NameTypes, objects
    <2>2. CASE StartFound(m)
      BY <1>0, <2>2 DEF StartFound, NameTypes, StateTypes, Goes, objects
    <2>3. CASE Receive(m)
      BY <1>0, <2>3 DEF Receive, ListTypes, StateTypes, Goes, control
    <2> QED BY <2>1, <2>2, <2>3 DEF Pylon
  <1>5. CASE n = m
    BY <1>0, <1>1, <1>2, <1>5 DEF StartsAt, Early, Past
  <1>6. CASE n # m
    BY <1>0, <1>1, <1>3, <1>4, <1>6, StartsAlone DEF StartsAt, Untouched
  <1> QED BY <1>5, <1>6

\* The thread of an agent: there is one for what has been started.
LEMMA StartupThread ==
  ASSUME TypeInv, Startup, NEW m \in Nodes, NEW a \in Agents, Thread(m, a) PROVE Startup'
  <1> SUFFICES ASSUME NEW n \in Nodes PROVE StartsAt(n)'
    BY DEF Startup
  <1>0. StateTypes /\ LeavingTypes /\ StartsAt(n) /\ StartsAt(m)
    BY TypeParts DEF Startup
  <1>1. UNCHANGED <<phase, cursor, modified, leavers, order, found>>
    BY DEF Thread, Runs, AskStop, AskMove, EditShard, Exit, startup, control
  <1>2. state[m][a] \notin {"none", "stopped"}
    BY DEF Thread, Runs, AskStop, AskMove, EditShard, Exit, NoLonger
  <1>3. phase[m] # "loaded"
    BY <1>0, <1>2 DEF StartsAt, Untouched
  <1>4. \A b \in Agents : state[n][b] \in {"none", "stopped"} => state'[n][b] = state[n][b]
    <2>1. state' = state \/ \E s \in States : Goes(m, a, s)
      BY DEF Thread, Runs, AskStop, AskMove, EditShard, Exit, NoLonger, States
    <2> QED BY <1>0, <1>2, <2>1, GoesType
  <1>5. \A b \in Agents : leaving'[b] # leaving[b] => b = a /\ leaving'[b].from = m
    <2>1. CASE AskMove(m, a)
      BY <1>0, <2>1 DEF AskMove, LeavingTypes
    <2>2. CASE Exit(m, a)
      <3>1. CASE Moving(m, a)
        <4> DEFINE x == [leaving[a] EXCEPT !.step = "exited"]
        <4>1. leaving' = [leaving EXCEPT ![a] = x]
          BY <2>2, <3>1 DEF Exit
        <4>2. x.from = m
          BY <1>0, <3>1, WayExited DEF Moving, LeavingTypes
        <4> HIDE DEF x
        <4> QED BY <1>0, <4>1, <4>2 DEF LeavingTypes
      <3>2. CASE ~Moving(m, a)
        BY <2>2, <3>2 DEF Exit
      <3> QED BY <3>1, <3>2
    <2>3. CASE Runs(m, a) \/ AskStop(m, a) \/ EditShard(m, a)
      BY <2>3 DEF Runs, AskStop, EditShard, travel
    <2> QED BY <2>1, <2>2, <2>3 DEF Thread
  <1>6. phase[n] = "loaded" => \A b \in Agents : leaving'[b].step # "none" => leaving'[b].from # n
    BY <1>0, <1>3, <1>5 DEF StartsAt, Untouched
  <1> QED BY <1>0, <1>1, <1>4, <1>6, StartsAlone

LEMMA StartupPack == ASSUME TypeInv, Startup, NEW a \in Agents, Pack(a) PROVE Startup'
  <1> SUFFICES ASSUME NEW n \in Nodes PROVE StartsAt(n)'
    BY DEF Startup
  <1>0. LeavingTypes /\ StartsAt(n)
    BY TypeParts DEF Startup
  <1>1. UNCHANGED <<phase, cursor, modified, leavers, order, found, state>>
    BY DEF Pack, startup, control
  <1>2. leaving[a].step # "none" /\ \A b \in Agents : leaving'[b].from = leaving[b].from /\ (b # a => leaving'[b] = leaving[b])
    <2> DEFINE w == leaving[a]
               m == [agent |-> a, to |-> w.to, body |-> Packed(body[w.from][a]), state |-> state[w.from][a]]
               x == [w EXCEPT !.step = "packed", !.message = m]
    <2>1. leaving' = [leaving EXCEPT ![a] = x] /\ w.step = "exited"
      BY DEF Pack
    <2> HIDE DEF m
    <2>2. x.from = w.from
      BY <1>0 DEF LeavingTypes, Way
    <2> HIDE DEF x
    <2> QED BY <1>0, <2>1, <2>2 DEF LeavingTypes
  <1> QED BY <1>0, <1>1, <1>2, StartsAlone DEF StartsAt, Untouched

\* An agent that leaves while start() iterates is counted.
LEMMA StartupSend == ASSUME TypeInv, Startup, NEW a \in Agents, SendAgent(a) PROVE Startup'
  <1> SUFFICES ASSUME NEW n \in Nodes PROVE StartsAt(n)'
    BY DEF Startup
  <1> DEFINE m == leaving[a].from
             here == {i \in DOMAIN order[m] : order[m][i] = a}
  <1>0. StartTypes /\ ListTypes /\ LeavingTypes /\ StartsAt(n)
    BY TypeParts DEF Startup
  <1>1. UNCHANGED <<phase, cursor, found, state>>
    BY DEF SendAgent, control, objects
  <1>2. m \in Nodes /\ leaving[a].step = "packed"
    BY TypeParts DEF SendAgent, Travels
  <1>3. phase[m] # "loaded"
    BY <1>2 DEF Startup, StartsAt, Untouched
  <1>4. \A b \in Agents : leaving'[b].step # "none" => leaving'[b] = leaving[b]
    BY <1>0 DEF SendAgent, Stays, LeavingTypes
  <1>5. CASE n # m \/ here = {}
    <2>1. order'[n] = order[n] /\ leavers'[n] = leavers[n] /\ (n \in modified' <=> n \in modified)
      BY <1>0, <1>2, <1>5 DEF SendAgent, StartTypes, ListTypes
    <2> QED BY <1>0, <1>1, <1>4, <2>1, StartsAlone DEF StartsAt, Untouched
  <1>6. CASE n = m /\ here # {} /\ phase[m] = "starting"
    <2>1. PICK i \in here : order' = [order EXCEPT ![m] = RemoveAt(@, i)]
      BY <1>6 DEF SendAgent
    <2>2. order[m] \in Seq(Agents) /\ i \in DOMAIN order[m]
      BY <1>0, <1>2, <2>1 DEF ListTypes
    <2>3. Len(order'[m]) = Len(order[m]) - 1
      BY <1>0, <1>2, <2>1, <2>2, RemovedAt DEF ListTypes
    <2>4. leavers'[m] = leavers[m] + 1 /\ m \in modified'
      BY <1>0, <1>2, <1>6 DEF SendAgent, StartTypes
    <2>5. Len(order[m]) \in Nat /\ leavers[m] \in Nat
      BY <1>0, <1>2, <2>2 DEF StartTypes
    <2>6. Len(order'[m]) + leavers'[m] = Len(Loaded[m])
      <3>1. Len(order[m]) + leavers[m] = Len(Loaded[m])
        BY <1>0, <1>6 DEF StartsAt
      <3> QED BY <2>3, <2>4, <2>5, <3>1
    <2> QED BY <1>0, <1>1, <1>6, <2>4, <2>6 DEF StartsAt, Early, Past, Unstarted
  <1>7. CASE n = m /\ phase[m] # "starting"
    <2>1. UNCHANGED leavers
      BY <1>7 DEF SendAgent
    <2> QED BY <1>0, <1>1, <1>3, <1>7, <2>1 DEF StartsAt, Early
  <1> QED BY <1>5, <1>6, <1>7

LEMMA StartupNext == TypeInv /\ Startup /\ [Next]_vars => Startup'
  <1> SUFFICES ASSUME TypeInv, Startup, [Next]_vars PROVE Startup'
    OBVIOUS
  <1>1. CASE UNCHANGED vars
    BY <1>1 DEF vars, startup, control, objects, travel, Startup, StartsAt, Unstarted, Untouched
  <1> QED BY <1>1, StartupMain, StartupTiming, StartupPylon, StartupThread, StartupPack, StartupSend DEF Next

\* start() leaves out only as many of its last entities as have moved away
\* while it was starting them.
THEOREM SkipsAreLeavers == Spec => []SkipsOnlyForLeavers
  <1>1. Startup => SkipsOnlyForLeavers
    BY DEF Startup, StartsAt, Past, SkipsOnlyForLeavers
  <1> QED BY <1>1, TypeInvInit, TypeInvNext, StartupInit, StartupNext, PTL DEF Spec

-----------------------------------------------------------------------------
(* What a round of the Timer has seen.  An agent that runs and has not     *)
(* arrived is a loaded one, and as long as it has run since the round      *)
(* began it is not among those that the round has passed.                  *)

Watches(n) ==
    /\ timer[n] = "off" => steady[n] = {}
    /\ \A a \in Agents \ arrived[n] : state[n][a] # "none" => IsLoaded(n, a)
    /\ \A a \in steady[n] \ arrived[n] : state[n][a] = "running"
    /\ timer[n] = "begin" => look[n] = 0
    /\ timer[n] = "scan" => \A i \in 1 .. look[n] : Loaded[n][i] \notin steady[n] \ arrived[n]
    /\ timer[n] \in {"stopping", "over"} => steady[n] \subseteq arrived[n]

Watched == \A n \in Nodes : Watches(n)

\* A step that leaves the Timer of a node alone, and by which an agent that
\* has run since the round began either goes on or is no longer counted.
LEMMA WatchesAlone ==
  ASSUME NEW n \in Nodes, Watches(n), steady[n] \subseteq Agents,
         timer'[n] = timer[n], look'[n] = look[n],
         steady'[n] \subseteq steady[n], arrived[n] \subseteq arrived'[n],
         \A a \in Agents \ arrived'[n] :
             state'[n][a] # state[n][a] => state[n][a] # "none" /\ a \notin steady'[n]
  PROVE  Watches(n)'
  BY DEF Watches, IsLoaded

LEMMA WatchedInit == Init => Watched
  <1> SUFFICES ASSUME Init, NEW n \in Nodes PROVE Watches(n)
    BY DEF Watched
  <1>1. timer[n] = "off" /\ steady[n] = {} /\ arrived[n] = {} /\ look[n] = 0
    BY DEF Init
  <1>2. \A a \in Agents : state[n][a] = IF IsLoaded(n, a) THEN "stopped" ELSE "none"
    BY DEF Init
  <1> QED BY <1>1, <1>2 DEF Watches

LEMMA WatchedMain == ASSUME TypeInv, Startup, Watched, NEW m \in Nodes, Main(m) PROVE Watched'
  <1> SUFFICES ASSUME NEW n \in Nodes PROVE Watches(n)'
    BY DEF Watched
  <1>0. StartTypes /\ StateTypes /\ NameTypes /\ ListTypes /\ Watches(n) /\ StartsAt(m) /\ steady[n] \subseteq Agents
    BY TypeParts DEF Watched, Startup, NameTypes
  <1>1. UNCHANGED <<look, steady, arrived>>
    BY DEF Main, Start, StartNext, MessagingStarted, Started, watch
  <1>2. CASE Start(m)
    BY <1>0, <1>1, <1>2, WatchesAlone DEF Start, watch, objects
  <1>3. CASE StartNext(m)
    <2>1. UNCHANGED timer /\ phase[m] = "starting"
      BY <1>3 DEF StartNext, watch
    <2>2. CASE UNCHANGED state
      BY <1>0, <1>1, <2>1, <2>2, WatchesAlone
    <2>3. CASE m \notin modified
      <3> DEFINE a == order[m][cursor[m] + 1]
      <3>1. cursor[m] < Len(order[m]) /\ Goes(m, a, "starting")
        BY <1>3, <2>3 DEF StartNext
      <3>2. order[m] = Loaded[m]
        BY <1>0, <2>1, <2>3 DEF StartsAt
      <3>3. cursor[m] + 1 \in DOMAIN Loaded[m] /\ a = Loaded[m][cursor[m] + 1] /\ cursor[m] + 1 > cursor[m] /\ a \in Agents
        BY <1>0, <3>1, <3>2, LoadedOnce DEF StartTypes
      <3>4. state[m][a] = "stopped"
        BY <1>0, <2>1, <3>3 DEF StartsAt, Early, Unstarted
      <3>5. \A k \in Nodes, b \in Agents : k # m \/ b # a => state'[k][b] = state[k][b]
        BY <1>0, <3>1, <3>3, GoesType DEF States
      <3>6. timer[m] = "off"
        BY <1>0, <2>1 DEF StartTypes
      <3> QED BY <1>0, <1>1, <2>1, <3>4, <3>5, <3>6, WatchesAlone DEF Watches
    <2> QED BY <1>3, <2>2, <2>3 DEF StartNext
  <1>4. CASE MessagingStarted(m)
    BY <1>0, <1>1, <1>4, WatchesAlone DEF MessagingStarted, watch, objects
  <1>5. CASE Started(m)
    <2>0. UNCHANGED state
      BY <1>5 DEF Started, objects
    <2>1. CASE n = m /\ timer' # timer
      <3>1. timer[n] = "off" /\ timer'[n] = "idle"
        BY <1>0, <1>5, <2>1 DEF Started, StartTypes
      <3> QED BY <1>0, <1>1, <2>0, <3>1 DEF Watches
    <2>2. CASE n # m \/ UNCHANGED timer
      <3>1. timer'[n] = timer[n]
        BY <1>0, <1>5, <2>2 DEF Started, StartTypes
      <3> QED BY <1>0, <1>1, <2>0, <3>1, WatchesAlone
    <2> QED BY <2>1, <2>2
  <1> QED BY <1>2, <1>3, <1>4, <1>5 DEF Main

LEMMA WatchedTiming == ASSUME TypeInv, Watched, NEW m \in Nodes, Timing(m) PROVE Watched'
  <1> SUFFICES ASSUME NEW n \in Nodes PROVE Watches(n)'
    BY DEF Watched
  <1>0. StartTypes /\ StateTypes /\ NameTypes /\ StopTypes /\ Watches(n) /\ steady[n] \subseteq Agents
    BY TypeParts DEF Watched, NameTypes
  <1>1. UNCHANGED arrived
    BY DEF Timing, Tick, NextKey, Look, BeginStop, StopNext, Stopped
  <1>2. CASE n # m
    <2>1. timer'[n] = timer[n] /\ look'[n] = look[n]
      BY <1>0, <1>2 DEF Timing, Tick, NextKey, Look, BeginStop, StopNext, Stopped, StartTypes
    <2>2. steady'[n] = steady[n] /\ state'[n] = state[n]
      BY <1>0, <1>2 DEF Timing, Tick, NextKey, Look, BeginStop, StopNext, Stopped, NameTypes, StateTypes,
                        objects, Goes
    <2> QED BY <1>0, <1>1, <2>1, <2>2, WatchesAlone
  <1>3. CASE n = m
    <2>1. CASE Tick(m)
      <3>1. timer'[n] = "begin" /\ look'[n] = 0 /\ steady'[n] = {a \in Agents : state[n][a] = "running"}
        BY <1>0, <1>3, <2>1 DEF Tick, StartTypes, NameTypes
      <3> QED BY <1>0, <1>1, <2>1, <3>1 DEF Watches, Tick, objects
    <2>2. CASE NextKey(m)
      <3>1. timer[n] = "begin" /\ timer'[n] \in {"dead", "scan"}
        BY <1>0, <1>3, <2>2 DEF NextKey, StartTypes
      <3> QED BY <1>0, <1>1, <2>2, <3>1 DEF Watches, NextKey, objects
    <2>3. CASE Look(m)
      <3>0. UNCHANGED <<steady, state>> /\ timer[n] = "scan" /\ look[n] \in Nat /\ look[n] < Len(Loaded[n])
        BY <1>0, <1>3, <2>3 DEF Look, objects, StartTypes
      <3>1. CASE LoadedRuns(n, Loaded[n][look[n] + 1])
        <4>1. timer'[n] = "idle"
          BY <1>0, <1>3, <2>3, <3>1 DEF Look, StartTypes
        <4> QED BY <1>0, <1>1, <3>0, <4>1 DEF Watches
      <3>2. CASE ~LoadedRuns(n, Loaded[n][look[n] + 1])
        <4>1. timer'[n] = timer[n] /\ look'[n] = look[n] + 1
          BY <1>0, <1>3, <2>3, <3>2 DEF Look, StartTypes
        <4>2. Loaded[n][look[n] + 1] \notin steady[n] \ arrived[n]
          BY <1>0, <3>2 DEF Watches, LoadedRuns
        <4>3. \A i \in 1 .. look[n] + 1 : i \in 1 .. look[n] \/ i = look[n] + 1
          BY <3>0
        <4> QED BY <1>0, <1>1, <3>0, <4>1, <4>2, <4>3 DEF Watches
      <3> QED BY <3>1, <3>2
    <2>4. CASE BeginStop(m)
      <3>1. timer[n] = "scan" /\ timer'[n] = "stopping" /\ look[n] = Len(Loaded[n]) /\ UNCHANGED <<steady, state>>
        BY <1>0, <1>3, <2>4 DEF BeginStop, StartTypes, objects
      <3>2. ASSUME NEW a \in steady[n] \ arrived[n] PROVE FALSE
        <4>1. IsLoaded(n, a)
          BY <1>0 DEF Watches
        <4> QED BY <1>0, <3>1, <4>1, LoadedOnce DEF Watches, IsLoaded
      <3> QED BY <1>0, <1>1, <3>1, <3>2 DEF Watches
    <2>5. CASE StopNext(m)
      <3> DEFINE a == toStop[m][Len(toStop[m])].agent
      <3>0. a \in Agents
        <4>1. toStop[m][Len(toStop[m])] \in Copied
          BY <1>0, <2>5 DEF StopNext, StopTypes
        <4> QED BY <4>1 DEF Copied
      <3>1. UNCHANGED <<timer, look>>
        BY <2>5 DEF StopNext
      <3>2. \/ UNCHANGED <<state, steady>>
            \/ state[m][a] = "running" /\ Goes(m, a, "stopping") /\ steady' = [steady EXCEPT ![m] = @ \ {a}]
        BY <2>5 DEF StopNext
      <3> HIDE DEF a
      <3>3. CASE UNCHANGED <<state, steady>>
        BY <1>0, <1>1, <3>1, <3>3, WatchesAlone
      <3>4. CASE state[m][a] = "running" /\ Goes(m, a, "stopping") /\ steady' = [steady EXCEPT ![m] = @ \ {a}]
        <4>1. steady'[n] = steady[n] \ {a}
          BY <1>0, <1>3, <3>4 DEF NameTypes
        <4>2. \A b \in Agents : b # a => state'[n][b] = state[n][b]
          BY <1>0, <1>3, <3>0, <3>4, GoesType DEF States
        <4> QED BY <1>0, <1>1, <1>3, <3>1, <3>4, <4>1, <4>2, WatchesAlone
      <3> QED BY <3>2, <3>3, <3>4
    <2>6. CASE Stopped(m)
      <3>1. timer[n] = "stopping" /\ timer'[n] = "over"
        BY <1>0, <1>3, <2>6 DEF Stopped, StartTypes
      <3> QED BY <1>0, <1>1, <2>6, <3>1 DEF Watches, Stopped, objects
    <2> QED BY <2>1, <2>2, <2>3, <2>4, <2>5, <2>6 DEF Timing
  <1> QED BY <1>2, <1>3

LEMMA WatchedPylon == ASSUME TypeInv, Watched, NEW m \in Nodes, Pylon(m) PROVE Watched'
  <1> SUFFICES ASSUME NEW n \in Nodes PROVE Watches(n)'
    BY DEF Watched
  <1>0. StateTypes /\ NameTypes /\ TravelTypes /\ Watches(n) /\ steady[n] \subseteq Agents
    BY TypeParts DEF Watched, NameTypes
  <1>1. UNCHANGED <<timer, look, steady>>
    BY DEF Pylon, Find, StartFound, Receive, watch
  <1>2. CASE Find(m)
    BY <1>0, <1>1, <1>2, WatchesAlone DEF Find, objects
  <1>3. CASE StartFound(m)
    <2> DEFINE a == found[m]
    <2>1. a \in Agents /\ UNCHANGED arrived
      BY <1>0, <1>3 DEF StartFound, NameTypes
    <2>2. \/ UNCHANGED state
          \/ state[m][a] \in {"stopped", "transient"} /\ \E s \in {"starting", "inert"} : Goes(m, a, s)
      BY <1>3 DEF StartFound, objects
    <2> HIDE DEF a
    <2>3. \A k \in Nodes, b \in Agents : state'[k][b] # state[k][b] => state[k][b] \in {"stopped", "transient"}
      BY <1>0, <2>1, <2>2, GoesType DEF States
    <2> QED BY <1>0, <1>1, <2>1, <2>3, WatchesAlone DEF Watches
  <1>4. CASE Receive(m)
    <2> PICK p \in transit : Takes(m, p)
      BY <1>4 DEF Receive, Takes
    <2>1. p.agent \in Agents
      BY <1>0, MessageFields DEF TravelTypes
    <2>2. \E s \in {"starting", "transient", "inert"} : Goes(m, p.agent, s)
      BY DEF Takes
    <2>3. \A k \in Nodes, b \in Agents : k # m \/ b # p.agent => state'[k][b] = state[k][b]
      BY <1>0, <2>1, <2>2, GoesType DEF States
    <2>4. arrived[n] \subseteq arrived'[n] /\ (n = m => p.agent \in arrived'[n])
      BY <1>0 DEF Takes, NameTypes
    <2> QED BY <1>0, <1>1, <2>3, <2>4, WatchesAlone
  <1> QED BY <1>2, <1>3, <1>4 DEF Pylon

LEMMA WatchedThread == ASSUME TypeInv, Watched, NEW m \in Nodes, NEW a \in Agents, Thread(m, a) PROVE Watched'
  <1> SUFFICES ASSUME NEW n \in Nodes PROVE Watches(n)'
    BY DEF Watched
  <1>0. StateTypes /\ NameTypes /\ Watches(n) /\ steady[n] \subseteq Agents
    BY TypeParts DEF Watched, NameTypes
  <1>1. UNCHANGED <<timer, look, arrived>>
    BY DEF Thread, Runs, AskStop, AskMove, EditShard, Exit, watch
  <1>2. CASE NoLonger(m, a)
    <2>1. \A k \in Nodes, b \in Agents : k # m \/ b # a => state'[k][b] = state[k][b]
      BY <1>0, <1>2, GoesType DEF NoLonger, States
    <2>2. steady'[n] \subseteq steady[n] /\ (n = m => a \notin steady'[n])
      BY <1>0, <1>2 DEF NoLonger, NameTypes
    <2> QED BY <1>0, <1>1, <1>2, <2>1, <2>2, WatchesAlone DEF NoLonger
  <1>3. CASE Runs(m, a) \/ Exit(m, a) \/ EditShard(m, a)
    <2>1. UNCHANGED steady
      BY <1>3 DEF Runs, Exit, EditShard
    <2>2. UNCHANGED state \/ (state[m][a] \in {"starting", "stopping"} /\ \E s \in States : Goes(m, a, s))
      BY <1>3 DEF Runs, Exit, EditShard, States
    <2>3. \A k \in Nodes, b \in Agents : state'[k][b] # state[k][b] => state[k][b] \in {"starting", "stopping"}
      BY <1>0, <2>2, GoesType
    <2> QED BY <1>0, <1>1, <2>1, <2>3, WatchesAlone DEF Watches
  <1> QED BY <1>2, <1>3 DEF Thread, AskStop, AskMove

LEMMA WatchedNext == TypeInv /\ Startup /\ Watched /\ [Next]_vars => Watched'
  <1> SUFFICES ASSUME TypeInv, Startup, Watched, [Next]_vars PROVE Watched'
    OBVIOUS
  <1>1. CASE UNCHANGED <<timer, look, steady, arrived, state>>
    BY <1>1 DEF Watched, Watches, IsLoaded
  <1>2. ASSUME NEW a \in Agents, Pack(a) \/ SendAgent(a) PROVE Watched'
    BY <1>1, <1>2 DEF Pack, SendAgent, watch, objects
  <1> QED BY <1>1, <1>2, WatchedMain, WatchedTiming, WatchedPylon, WatchedThread
          DEF Next, vars, watch, objects

\* A node does not stop by itself while an agent that was loaded on it has
\* run ever since the round of the Timer began.
THEOREM LoadedAreWatched == Spec => []LoadedKeepNode
  <1>1. Watched => LoadedKeepNode
    BY DEF Watched, Watches, LoadedKeepNode
  <1> QED BY <1>1, TypeInvInit, TypeInvNext, StartupInit, StartupNext, WatchedInit, WatchedNext, PTL DEF Spec

-----------------------------------------------------------------------------
(* Where an agent is: as an object that lives or has not been started, or  *)
(* between such objects, in the hands of its thread or in transit.         *)

Present(n, a) == state[n][a] \in Alive \cup {"stopped"}

OnePlace(a) ==
    /\ \A n, m \in Nodes : Present(n, a) /\ Present(m, a) => n = m
    /\ leaving[a].step = "asked" => state[leaving[a].from][a] = "stopping"
    /\ leaving[a].step \in {"exited", "packed"} =>
          (\A n \in Nodes : ~Present(n, a)) /\ \A m \in transit : m.agent # a
    /\ \A m \in transit : m.agent = a =>
          /\ leaving[a].step = "none"
          /\ \A n \in Nodes : ~Present(n, a)
          /\ \A k \in transit : k.agent = a => k = m

Placed == \A a \in Agents \ revived : OnePlace(a)

\* A step that neither moves an agent nor lets it leave.
LEMMA PlaceAlone ==
  ASSUME NEW a \in Agents, OnePlace(a), Travels, leaving'[a] = leaving[a],
         \A m \in transit' : m.agent = a => m \in transit,
         \A n \in Nodes : (Present(n, a)' <=> Present(n, a)) /\ (state[n][a] = "stopping" => state'[n][a] = "stopping")
  PROVE  OnePlace(a)'
  BY DEF OnePlace, Travels

LEMMA PlacedInit == Init => Placed
  <1> SUFFICES ASSUME Init, NEW a \in Agents PROVE OnePlace(a)
    BY DEF Placed
  <1>1. \A n \in Nodes : state[n][a] = IF IsLoaded(n, a) THEN "stopped" ELSE "none"
    BY DEF Init
  <1>2. \A n, m \in Nodes : IsLoaded(n, a) /\ IsLoaded(m, a) => n = m
    BY LoadedAssumption DEF IsLoaded
  <1>3. leaving[a].step = "none" /\ transit = {}
    BY DEF Init, Stays
  <1> QED BY <1>1, <1>2, <1>3 DEF OnePlace, Present, Alive

LEMMA PlacedMain == ASSUME TypeInv, Startup, Placed, NEW m \in Nodes, Main(m) PROVE Placed'
  <1>0. StateTypes /\ StartTypes /\ ListTypes /\ StartsAt(m) /\ Travels
    BY TypeParts DEF Startup
  <1>1. UNCHANGED <<leaving, transit, revived>>
    BY DEF Main, Start, StartNext, MessagingStarted, Started, travel, control
  <1> SUFFICES ASSUME NEW b \in Agents \ revived PROVE OnePlace(b)'
    BY <1>1 DEF Placed
  <1>2. CASE UNCHANGED state
    BY <1>0, <1>1, <1>2, PlaceAlone DEF Placed, Present
  <1>3. CASE StartNext(m) /\ m \notin modified
    <2> DEFINE a == order[m][cursor[m] + 1]
    <2>1. cursor[m] < Len(order[m]) /\ Goes(m, a, "starting") /\ phase[m] = "starting"
      BY <1>3 DEF StartNext
    <2>2. order[m] = Loaded[m]
      BY <1>0, <1>3, <2>1 DEF StartsAt
    <2>3. cursor[m] + 1 \in DOMAIN Loaded[m] /\ a = Loaded[m][cursor[m] + 1] /\ cursor[m] + 1 > cursor[m] /\ a \in Agents
      BY <1>0, <2>1, <2>2, LoadedOnce DEF StartTypes
    <2>4. state[m][a] = "stopped"
      BY <1>0, <2>1, <2>3 DEF StartsAt, Early, Unstarted
    <2>5. state'[m][a] = "starting" /\ \A k \in Nodes, c \in Agents : k # m \/ c # a => state'[k][c] = state[k][c]
      BY <1>0, <2>1, <2>3, GoesType DEF States
    <2> HIDE DEF a
    <2> QED BY <1>0, <1>1, <2>4, <2>5, PlaceAlone DEF Placed, Present, Alive
  <1> QED BY <1>2, <1>3 DEF Main, Start, StartNext, MessagingStarted, Started, objects

LEMMA PlacedTiming == ASSUME TypeInv, Placed, NEW m \in Nodes, Timing(m) PROVE Placed'
  <1>0. StateTypes /\ StopTypes /\ Travels
    BY TypeParts
  <1>1. UNCHANGED <<leaving, transit, revived>>
    BY DEF Timing, Tick, NextKey, Look, BeginStop, StopNext, Stopped, travel, control
  <1> SUFFICES ASSUME NEW b \in Agents \ revived PROVE OnePlace(b)'
    BY <1>1 DEF Placed
  <1>2. CASE UNCHANGED state
    BY <1>0, <1>1, <1>2, PlaceAlone DEF Placed, Present
  <1>3. CASE StopNext(m)
    <2> DEFINE a == toStop[m][Len(toStop[m])].agent
    <2>1. a \in Agents
      <3>1. toStop[m][Len(toStop[m])] \in Copied
        BY <1>0, <1>3 DEF StopNext, StopTypes
      <3> QED BY <3>1 DEF Copied
    <2>2. UNCHANGED state \/ (state[m][a] = "running" /\ Goes(m, a, "stopping"))
      BY <1>3 DEF StopNext
    <2> HIDE DEF a
    <2>3. CASE state[m][a] = "running" /\ Goes(m, a, "stopping")
      <3>1. state'[m][a] = "stopping" /\ \A k \in Nodes, c \in Agents : k # m \/ c # a => state'[k][c] = state[k][c]
        BY <1>0, <2>1, <2>3, GoesType DEF States
      <3> QED BY <1>0, <1>1, <2>3, <3>1, PlaceAlone DEF Placed, Present, Alive
    <2> QED BY <1>2, <2>2, <2>3
  <1> QED BY <1>2, <1>3 DEF Timing, Tick, NextKey, Look, BeginStop, Stopped, objects

LEMMA PlacedPylon == ASSUME TypeInv, Placed, NEW m \in Nodes, Pylon(m) PROVE Placed'
  <1>0. StateTypes /\ NameTypes /\ TravelTypes /\ Travels
    BY TypeParts
  <1>1. UNCHANGED leaving /\ revived \subseteq revived'
    BY DEF Pylon, Find, StartFound, Receive, travel, control
  <1> SUFFICES ASSUME NEW b \in Agents \ revived' PROVE OnePlace(b)'
    BY DEF Placed
  <1>o. OnePlace(b)
    BY <1>1 DEF Placed
  <1>2. CASE UNCHANGED <<state, transit>>
    BY <1>0, <1>1, <1>2, <1>o, PlaceAlone DEF Present
  <1>3. CASE StartFound(m)
    <2> DEFINE a == found[m]
    <2>1. a \in Agents /\ UNCHANGED transit
      BY <1>0, <1>3 DEF StartFound, NameTypes, travel
    <2>2. CASE UNCHANGED state
      BY <1>2, <2>1, <2>2
    <2>3. CASE state[m][a] = "stopped" /\ Goes(m, a, "starting")
      <3>1. state'[m][a] = "starting" /\ \A k \in Nodes, c \in Agents : k # m \/ c # a => state'[k][c] = state[k][c]
        BY <1>0, <2>1, <2>3, GoesType DEF States
      <3> QED BY <1>0, <1>1, <1>o, <2>1, <2>3, <3>1, PlaceAlone DEF Present, Alive
    <2>4. CASE a \in revived' /\ \E s \in {"starting", "inert"} : Goes(m, a, s)
      <3>1. \A k \in Nodes, c \in Agents : k # m \/ c # a => state'[k][c] = state[k][c]
        BY <1>0, <2>1, <2>4, GoesType DEF States
      <3> QED BY <1>0, <1>1, <1>o, <2>1, <2>4, <3>1, PlaceAlone DEF Present
    <2> QED BY <1>3, <2>2, <2>3, <2>4 DEF StartFound, objects
  <1>4. CASE Receive(m)
    <2> PICK p \in transit : Takes(m, p)
      BY <1>4 DEF Receive, Takes
    <2>1. p.agent \in Agents /\ transit' = transit \ {p}
      BY <1>0, MessageFields DEF TravelTypes, Takes
    <2>2. \E s \in {"starting", "transient", "inert"} : Goes(m, p.agent, s)
      BY DEF Takes
    <2>3. \A k \in Nodes, c \in Agents : k # m \/ c # p.agent => state'[k][c] = state[k][c]
      BY <1>0, <2>1, <2>2, GoesType DEF States
    <2>4. CASE b = p.agent
      BY <1>1, <1>o, <2>1, <2>3, <2>4 DEF OnePlace, Present
    <2>5. CASE b # p.agent
      BY <1>0, <1>1, <1>o, <2>1, <2>3, <2>5, PlaceAlone DEF Present
    <2> QED BY <2>4, <2>5
  <1> QED BY <1>2, <1>3, <1>4 DEF Pylon, Find, objects, travel

LEMMA PlacedThread == ASSUME TypeInv, Placed, NEW m \in Nodes, NEW a \in Agents, Thread(m, a) PROVE Placed'
  <1>0. StateTypes /\ LeavingTypes /\ Travels
    BY TypeParts
  <1>1. UNCHANGED <<transit, revived>>
    BY DEF Thread, Runs, AskStop, AskMove, EditShard, Exit, travel, control
  <1> SUFFICES ASSUME NEW b \in Agents \ revived PROVE OnePlace(b)'
    BY <1>1 DEF Placed
  <1>o. OnePlace(b)
    BY DEF Placed
  <1>2. UNCHANGED state \/ \E s \in States : Goes(m, a, s)
    BY DEF Thread, Runs, AskStop, AskMove, EditShard, Exit, NoLonger, States
  <1>3. \A k \in Nodes, c \in Agents : k # m \/ c # a => state'[k][c] = state[k][c]
    BY <1>0, <1>2, GoesType
  <1>4. \A c \in Agents : c # a => leaving'[c] = leaving[c]
    BY <1>0 DEF Thread, Runs, AskStop, AskMove, EditShard, Exit, travel, LeavingTypes
  <1>5. CASE b # a
    BY <1>0, <1>1, <1>o, <1>3, <1>4, <1>5, PlaceAlone DEF Present
  <1>6. CASE b = a
    <2>1. CASE Runs(m, a)
      <3>1. state[m][a] = "starting" /\ state'[m][a] = "running" /\ UNCHANGED leaving
        BY <1>0, <2>1, GoesType DEF Runs, States, travel
      <3> QED BY <1>0, <1>1, <1>o, <1>3, <1>6, <3>1, PlaceAlone DEF Present, Alive
    <2>2. CASE AskStop(m, a)
      <3>1. state[m][a] = "running" /\ state'[m][a] = "stopping" /\ UNCHANGED leaving
        BY <1>0, <2>2, GoesType DEF AskStop, NoLonger, States, travel
      <3> QED BY <1>0, <1>1, <1>o, <1>3, <1>6, <3>1, PlaceAlone DEF Present, Alive
    <2>3. CASE AskMove(m, a)
      <3>1. state[m][a] = "running" /\ state'[m][a] = "stopping"
        BY <1>0, <2>3, GoesType DEF AskMove, NoLonger, States
      <3>2. leaving'[a].step = "asked" /\ leaving'[a].from = m
        BY <1>0, <2>3 DEF AskMove, LeavingTypes
      <3> QED BY <1>1, <1>o, <1>3, <1>6, <3>1, <3>2 DEF OnePlace, Present, Alive
    <2>4. CASE EditShard(m, a)
      <3>1. UNCHANGED <<state, leaving>>
        BY <2>4 DEF EditShard, travel
      <3> QED BY <1>0, <1>1, <1>o, <1>6, <3>1, PlaceAlone DEF Present
    <2>5. CASE Exit(m, a)
      <3>0. state[m][a] = "stopping"
        BY <2>5 DEF Exit
      <3>1. CASE Moving(m, a)
        <4> DEFINE x == [leaving[a] EXCEPT !.step = "exited"]
        <4>1. leaving' = [leaving EXCEPT ![a] = x] /\ Goes(m, a, "transient")
          BY <2>5, <3>1 DEF Exit
        <4>2. x.from = m /\ x.step = "exited"
          BY <1>0, <3>1, WayExited DEF Moving, LeavingTypes
        <4> HIDE DEF x
        <4>3. leaving'[a].step = "exited" /\ state'[m][a] = "transient"
          BY <1>0, <4>1, <4>2, GoesType DEF LeavingTypes, States
        <4> QED BY <1>1, <1>o, <1>3, <1>6, <3>0, <4>3 DEF OnePlace, Present, Alive
      <3>2. CASE ~Moving(m, a)
        <4>1. state'[m][a] = "stopped" /\ UNCHANGED leaving
          BY <1>0, <2>5, <3>2, GoesType DEF Exit, States
        <4>2. leaving[a].step = "none"
          <5>1. Present(m, a)
            BY <3>0 DEF Present, Alive
          <5>2. leaving[a].step # "asked"
            BY <1>0, <1>o, <1>6, <3>0, <3>2, <5>1 DEF OnePlace, Present, Alive, Moving, Travels
          <5>3. leaving[a].step \in {"none", "asked", "exited", "packed"}
            BY <1>0, WayFields DEF LeavingTypes
          <5> QED BY <1>o, <1>6, <5>1, <5>2, <5>3 DEF OnePlace
        <4> QED BY <1>1, <1>o, <1>3, <1>6, <3>0, <4>1, <4>2 DEF OnePlace, Present, Alive
      <3> QED BY <3>1, <3>2
    <2> QED BY <2>1, <2>2, <2>3, <2>4, <2>5 DEF Thread
  <1> QED BY <1>5, <1>6

LEMMA PlacedPack == ASSUME TypeInv, Placed, NEW a \in Agents, Pack(a) PROVE Placed'
  <1>0. LeavingTypes /\ Travels /\ Travels'
    BY TypeParts, PackTypes
  <1>1. UNCHANGED <<state, transit, revived>>
    BY DEF Pack, control
  <1> SUFFICES ASSUME NEW b \in Agents \ revived PROVE OnePlace(b)'
    BY <1>1 DEF Placed
  <1>2. leaving[a].step = "exited" /\ leaving'[a].step = "packed" /\ (b # a => leaving'[b] = leaving[b])
    <2> DEFINE n == leaving[a].from
               m == [agent |-> a, to |-> leaving[a].to, body |-> Packed(body[n][a]), state |-> state[n][a]]
               x == [leaving[a] EXCEPT !.step = "packed", !.message = m]
    <2>1. leaving' = [leaving EXCEPT ![a] = x] /\ leaving[a].step = "exited"
      BY DEF Pack
    <2> HIDE DEF m
    <2>2. x.step = "packed"
      BY <1>0 DEF LeavingTypes, Way
    <2> HIDE DEF x
    <2> QED BY <1>0, <2>1, <2>2 DEF LeavingTypes
  <1> QED BY <1>1, <1>2 DEF Placed, OnePlace, Present

LEMMA PlacedSend == ASSUME TypeInv, Placed, NEW a \in Agents, SendAgent(a) PROVE Placed'
  <1>0. LeavingTypes /\ Travels
    BY TypeParts
  <1>1. UNCHANGED <<state, revived>>
    BY DEF SendAgent, control, objects
  <1> SUFFICES ASSUME NEW b \in Agents \ revived PROVE OnePlace(b)'
    BY <1>1 DEF Placed
  <1>2. leaving[a].step = "packed" /\ leaving'[a].step = "none" /\ (b # a => leaving'[b] = leaving[b])
    BY <1>0 DEF SendAgent, Stays, LeavingTypes
  <1>3. transit' = transit \cup {leaving[a].message} /\ leaving[a].message.agent = a
    BY <1>0 DEF SendAgent, Travels
  <1> QED BY <1>1, <1>2, <1>3 DEF Placed, OnePlace, Present

LEMMA PlacedNext == TypeInv /\ Startup /\ Placed /\ [Next]_vars => Placed'
  <1> SUFFICES ASSUME TypeInv, Startup, Placed, [Next]_vars PROVE Placed'
    OBVIOUS
  <1>1. CASE UNCHANGED vars
    BY <1>1 DEF Placed, OnePlace, Present, vars, objects, travel, control
  <1> QED BY <1>1, PlacedMain, PlacedTiming, PlacedPylon, PlacedThread, PlacedPack, PlacedSend DEF Next

LEMMA AtMostOne ==
  ASSUME NEW S, NEW x, \A y \in S : y = x
  PROVE  Cardinality(S) \in {0, 1} /\ (S = {} => Cardinality(S) = 0)
  <1>1. S = {} \/ S = {x}
    OBVIOUS
  <1> QED BY <1>1, FS_EmptySet, FS_Singleton

LEMMA PlacedIsOneBody == TypeInv /\ Placed => OneBody
  <1> SUFFICES ASSUME TypeInv, Placed, NEW a \in Agents \ revived PROVE Bodies(a) <= 1
    BY DEF OneBody
  <1> DEFINE here == {n \in Nodes : state[n][a] \in Alive \/ Moving(n, a)}
             sent == {m \in transit : m.agent = a}
  <1>0. OnePlace(a) /\ Travels
    BY TypeParts DEF Placed
  <1>1. \A n \in here : Present(n, a)
    BY <1>0 DEF OnePlace, Present, Alive, Moving
  <1>2. CASE \E n \in Nodes : Present(n, a)
    <2> PICK n \in Nodes : Present(n, a)
      BY <1>2
    <2>1. \A k \in here : k = n
      BY <1>0, <1>1 DEF OnePlace
    <2>2. sent = {} /\ leaving[a].step \notin {"exited", "packed"}
      BY <1>0 DEF OnePlace
    <2> HIDE DEF here, sent
    <2>3. Cardinality(here) \in {0, 1} /\ Cardinality(sent) = 0
      BY <2>1, <2>2, AtMostOne, FS_EmptySet
    <2> QED BY <2>2, <2>3 DEF Bodies, here, sent
  <1>3. CASE \A n \in Nodes : ~Present(n, a)
    <2>1. here = {}
      BY <1>1, <1>3
    <2>2. CASE sent = {}
      <3> HIDE DEF here, sent
      <3>1. Cardinality(here) = 0 /\ Cardinality(sent) = 0
        BY <2>1, <2>2, FS_EmptySet
      <3> QED BY <3>1 DEF Bodies, here, sent
    <2>3. CASE sent # {}
      <3> PICK m \in sent : TRUE
        BY <2>3
      <3>1. leaving[a].step = "none" /\ \A k \in sent : k = m
        BY <1>0 DEF OnePlace
      <3> HIDE DEF here, sent
      <3>2. Cardinality(here) = 0 /\ Cardinality(sent) \in {0, 1}
        BY <2>1, <3>1, AtMostOne, FS_EmptySet
      <3> QED BY <3>1, <3>2 DEF Bodies, here, sent
    <2> QED BY <2>2, <2>3
  <1> QED BY <1>2, <1>3

\* An agent lives at one node, or is on its way, once, unless it was told to
\* start while it was leaving.
THEOREM AgentsHaveOneBody == Spec => []OneBody
  BY TypeInvInit, TypeInvNext, StartupInit, StartupNext, PlacedInit, PlacedNext, PlacedIsOneBody, PTL DEF Spec

-----------------------------------------------------------------------------
(* What an agent remembers: what it carries while it is on its way, and    *)
(* what it has where it is.  What it packed on an earlier stay is only     *)
(* added to, so it may come back; as long as it was never changed, all it  *)
(* can pack is what it was loaded with.                                    *)

Unedited(a, b) ==
    edits[a] = 0 => \A d \in Designations : /\ d \in b.ser => FirstShards[a][d] = "ser"
                                            /\ d \in b.non => FirstShards[a][d] = "non"

Carries(a, b) ==
    /\ Unedited(a, b)
    /\ left[a].edits = edits[a]
    /\ edits[a] = 0 => left[a].shards = FirstShards[a]
    /\ b.shards = NoShards
    /\ \A d \in Designations : /\ left[a].shards[d] = "ser" => d \in b.ser
                               /\ left[a].shards[d] = "non" => d \in b.non

Has(a, b) == Unedited(a, b) /\ (edits[a] = 0 => b.shards = FirstShards[a])

Kept(a, b) ==
    edits[a] = left[a].edits =>
        \A d \in Designations : left[a].shards[d] # "none" \/ edits[a] = 0 => b.shards[d] = left[a].shards[d]

Remembers(a) ==
    /\ left[a].edits <= edits[a]
    /\ \A m \in transit : m.agent = a => Carries(a, m.body)
    /\ leaving[a].step = "packed" => Carries(a, leaving[a].message.body)
    /\ leaving[a].step = "exited" => Has(a, body[leaving[a].from][a])
    /\ \A n \in Nodes : Present(n, a) =>
          Has(a, body[n][a]) /\ (a \in arrived[n] => Kept(a, body[n][a]))

Remembered == \A a \in Agents \ revived : Remembers(a)

\* Packing keeps what an agent has,
LEMMA PackedCarries ==
  ASSUME NEW a \in Agents, NEW b \in Body, Has(a, b), edits'[a] = edits[a],
         left'[a] = [shards |-> b.shards, edits |-> edits[a]]
  PROVE  \A p : p = Packed(b) => Carries(a, p)'
  <1>1. left'[a].shards = b.shards /\ left'[a].edits = edits[a]
    OBVIOUS
  <1> QED BY <1>1, PackedBody DEF Has, Unedited, Carries

\* and so does unpacking.
LEMMA UnpackedHas ==
  ASSUME NEW a \in Agents, NEW b \in Body, Carries(a, b), CanLoad(b), left[a].shards \in ShardSet
  PROVE  Has(a, WithShards(b)) /\ Kept(a, WithShards(b))
  <1> DEFINE w == WithShards(b)
  <1>1. /\ w \in Body /\ w.ser = b.ser /\ w.non = b.non
        /\ \A d \in Designations : w.shards[d] =
              IF d \in b.ser THEN "ser" ELSE IF d \in b.non THEN "non" ELSE b.shards[d]
    BY UnpackedBody
  <1> HIDE DEF w
  <1>2. w.shards \in ShardSet /\ FirstShards[a] \in ShardSet
    BY <1>1, ShardsAssumption DEF Body
  <1>3. \A d \in Designations : b.shards[d] = "none"
    BY DEF Carries, NoShards
  <1>4. \A d \in Designations : left[a].shards[d] \in {"none", "ser", "non"}
    BY ShardKinds
  <1>5. \A d \in Designations : ~(d \in b.ser /\ d \in b.non)
    BY DEF CanLoad
  <1>6. Kept(a, w)
    <2>1. ASSUME NEW d \in Designations, left[a].shards[d] # "none" PROVE w.shards[d] = left[a].shards[d]
      BY <1>1, <1>4, <1>5, <2>1 DEF Carries
    <2>2. ASSUME NEW d \in Designations, edits[a] = 0, left[a].shards[d] = "none" PROVE w.shards[d] = "none"
      BY <1>1, <1>3, <2>2 DEF Carries, Unedited
    <2> QED BY <2>1, <2>2 DEF Kept
  <1>7. ASSUME edits[a] = 0 PROVE w.shards = FirstShards[a]
    <2>1. \A d \in Designations : w.shards[d] = FirstShards[a][d]
      BY <1>6, <1>7 DEF Kept, Carries
    <2> QED BY <1>2, <2>1 DEF ShardSet
  <1>8. Unedited(a, w)
    BY <1>1 DEF Carries, Unedited
  <1> QED BY <1>6, <1>7, <1>8 DEF Has, w

\* A step that changes nothing an agent has.
LEMMA RemembersAlone ==
  ASSUME NEW a \in Agents, Remembers(a), Travels,
         leaving'[a] = leaving[a], edits'[a] = edits[a], left'[a] = left[a],
         \A m \in transit' : m.agent = a => m \in transit,
         leaving[a].step = "exited" => \A n \in Nodes : body'[n][a] = body[n][a],
         \A n \in Nodes : Present(n, a)' => /\ Present(n, a) /\ body'[n][a] = body[n][a]
                                            /\ a \in arrived'[n] => a \in arrived[n]
  PROVE  Remembers(a)'
  BY DEF Remembers, Travels, Carries, Has, Kept, Unedited

LEMMA RememberedInit == Init => Remembered
  <1> SUFFICES ASSUME Init, NEW a \in Agents PROVE Remembers(a)
    BY DEF Remembered
  <1>1. leaving[a].step = "none" /\ transit = {} /\ edits[a] = 0 /\ left[a].edits = 0
    BY DEF Init, Stays
  <1>2. \A n \in Nodes : state[n][a] = (IF IsLoaded(n, a) THEN "stopped" ELSE "none") /\ arrived[n] = {}
    BY DEF Init
  <1>3. \A n \in Nodes : IsLoaded(n, a) => /\ body[n][a].shards = FirstShards[a]
                                           /\ body[n][a].ser = {} /\ body[n][a].non = {}
    BY DEF Init
  <1>4. \A n \in Nodes : Present(n, a) => IsLoaded(n, a)
    BY <1>2 DEF Present, Alive
  <1>5. \A n \in Nodes : Present(n, a) => Has(a, body[n][a]) /\ a \notin arrived[n]
    BY <1>2, <1>3, <1>4 DEF Has, Unedited
  <1> QED BY <1>1, <1>5 DEF Remembers

\* The steps of start() and of the Timer's thread change states only, and
\* bring no object to where there was none.
LEMMA RememberedStarts ==
  ASSUME TypeInv, Startup, Remembered, NEW m \in Nodes, Main(m) \/ Timing(m) PROVE Remembered'
  <1>0. StateTypes /\ StartTypes /\ ListTypes /\ StopTypes /\ StartsAt(m) /\ Travels
    BY TypeParts DEF Startup
  <1>1. UNCHANGED <<leaving, transit, revived, left, edits, body, arrived>>
    BY DEF Main, Start, StartNext, MessagingStarted, Started, Timing, Tick, NextKey, Look, BeginStop, StopNext,
           Stopped, travel, control, objects
  <1>2. \A k \in Nodes, c \in Agents : Present(k, c)' => Present(k, c)
    <2>1. CASE UNCHANGED state
      BY <2>1 DEF Present
    <2>2. CASE StartNext(m) /\ m \notin modified
      <3> DEFINE a == order[m][cursor[m] + 1]
      <3>1. cursor[m] < Len(order[m]) /\ Goes(m, a, "starting") /\ phase[m] = "starting"
        BY <2>2 DEF StartNext
      <3>2. order[m] = Loaded[m]
        BY <1>0, <2>2, <3>1 DEF StartsAt
      <3>3. cursor[m] + 1 \in DOMAIN Loaded[m] /\ a = Loaded[m][cursor[m] + 1] /\ cursor[m] + 1 > cursor[m] /\ a \in Agents
        BY <1>0, <3>1, <3>2, LoadedOnce DEF StartTypes
      <3>4. state[m][a] = "stopped"
        BY <1>0, <3>1, <3>3 DEF StartsAt, Early, Unstarted
      <3>5. \A k \in Nodes, c \in Agents : k # m \/ c # a => state'[k][c] = state[k][c]
        BY <1>0, <3>1, <3>3, GoesType DEF States
      <3> HIDE DEF a
      <3> QED BY <3>4, <3>5 DEF Present
    <2>3. CASE StopNext(m)
      <3> DEFINE a == toStop[m][Len(toStop[m])].agent
      <3>1. a \in Agents
        <4>1. toStop[m][Len(toStop[m])] \in Copied
          BY <1>0, <2>3 DEF StopNext, StopTypes
        <4> QED BY <4>1 DEF Copied
      <3>2. UNCHANGED state \/ (state[m][a] = "running" /\ Goes(m, a, "stopping"))
        BY <2>3 DEF StopNext
      <3> HIDE DEF a
      <3>3. CASE state[m][a] = "running" /\ Goes(m, a, "stopping")
        <4>1. \A k \in Nodes, c \in Agents : k # m \/ c # a => state'[k][c] = state[k][c]
          BY <1>0, <3>1, <3>3, GoesType DEF States
        <4> QED BY <3>3, <4>1 DEF Present, Alive
      <3> QED BY <2>1, <3>2, <3>3
    <2> QED BY <2>1, <2>2, <2>3 DEF Main, Start, StartNext, MessagingStarted, Started, Timing, Tick, NextKey,
                                    Look, BeginStop, Stopped, objects
  <1> QED BY <1>0, <1>1, <1>2, RemembersAlone DEF Remembered

LEMMA RememberedPylon == ASSUME TypeInv, Placed, Remembered, NEW m \in Nodes, Pylon(m) PROVE Remembered'
  <1>0. StateTypes /\ BodyTypes /\ NameTypes /\ TravelTypes /\ Travels
    BY TypeParts
  <1>1. UNCHANGED <<leaving, left, edits>> /\ revived \subseteq revived'
    BY DEF Pylon, Find, StartFound, Receive, travel, control
  <1> SUFFICES ASSUME NEW b \in Agents \ revived' PROVE Remembers(b)'
    BY DEF Remembered
  <1>o. Remembers(b) /\ OnePlace(b)
    BY <1>1 DEF Remembered, Placed
  <1>2. CASE UNCHANGED <<state, body, transit, arrived>>
    BY <1>0, <1>1, <1>2, <1>o, RemembersAlone DEF Present
  <1>3. CASE StartFound(m)
    <2> DEFINE a == found[m]
    <2>1. a \in Agents /\ UNCHANGED <<transit, arrived>>
      BY <1>0, <1>3 DEF StartFound, NameTypes, travel
    <2>2. CASE UNCHANGED objects
      BY <1>2, <2>1, <2>2 DEF objects
    <2>3. CASE state[m][a] = "stopped" /\ Goes(m, a, "starting") /\ UNCHANGED body
      <3>1. \A k \in Nodes, c \in Agents : k # m \/ c # a => state'[k][c] = state[k][c]
        BY <1>0, <2>1, <2>3, GoesType DEF States
      <3> HIDE DEF a
      <3> QED BY <1>0, <1>1, <1>o, <2>1, <2>3, <3>1, RemembersAlone DEF Present
    <2>4. CASE /\ a \in revived' /\ \E s \in {"starting", "inert"} : Goes(m, a, s)
               /\ body' = [body EXCEPT ![m][a] = WithShards(@)]
      <3>1. \A k \in Nodes, c \in Agents : k # m \/ c # a => state'[k][c] = state[k][c]
        BY <1>0, <2>1, <2>4, GoesType DEF States
      <3>2. \A k \in Nodes, c \in Agents : k # m \/ c # a => body'[k][c] = body[k][c]
        BY <1>0, <2>1, <2>4 DEF BodyTypes
      <3> QED BY <1>0, <1>1, <1>o, <2>1, <2>4, <3>1, <3>2, RemembersAlone DEF Present
    <2> QED BY <1>3, <2>2, <2>3, <2>4 DEF StartFound
  <1>4. CASE Receive(m)
    <2> PICK p \in transit : Takes(m, p)
      BY <1>4 DEF Receive, Takes
    <2>1. p.agent \in Agents /\ p.body \in Body /\ transit' = transit \ {p}
      BY <1>0, MessageFields DEF TravelTypes, Takes
    <2>2. \E s \in {"starting", "transient", "inert"} : Goes(m, p.agent, s)
      BY DEF Takes
    <2>3. \A k \in Nodes, c \in Agents : k # m \/ c # p.agent => state'[k][c] = state[k][c]
      BY <1>0, <2>1, <2>2, GoesType DEF States
    <2>4. \A k \in Nodes, c \in Agents : k # m \/ c # p.agent => body'[k][c] = body[k][c]
      BY <1>0, <2>1 DEF BodyTypes, Takes
    <2>5. \A k \in Nodes, c \in Agents : c # p.agent /\ c \in arrived'[k] => c \in arrived[k]
      BY <1>0 DEF NameTypes, Takes
    <2>6. CASE b # p.agent
      BY <1>0, <1>1, <1>o, <2>1, <2>3, <2>4, <2>5, <2>6, RemembersAlone DEF Present
    <2>7. CASE b = p.agent
      <3>1. /\ leaving[b].step = "none" /\ \A n \in Nodes : ~Present(n, b)
            /\ \A k \in transit : k.agent = b => k = p
        BY <1>o, <2>7 DEF OnePlace
      <3>2. Carries(b, p.body)
        BY <1>o, <2>7 DEF Remembers
      <3>3. CASE p.state = "transient" /\ CanLoad(p.body)
        <4> DEFINE w == WithShards(p.body)
        <4>1. left[b].shards \in ShardSet
          BY <1>0 DEF TravelTypes, Departure
        <4>2. Has(b, w) /\ Kept(b, w)
          BY <2>1, <3>2, <3>3, <4>1, UnpackedHas
        <4>3. body' = [body EXCEPT ![m][b] = w]
          BY <2>7, <3>3 DEF Takes
        <4> HIDE DEF w
        <4>4. body'[m][b] = w
          BY <1>0, <2>1, <4>3 DEF BodyTypes
        <4>5. \A n \in Nodes : Present(n, b)' => n = m
          BY <2>3, <2>7, <3>1 DEF Present
        <4>6. Has(b, body[m][b])' /\ Kept(b, body[m][b])'
          BY <1>1, <4>2, <4>4 DEF Has, Kept, Unedited
        <4>7. \A k \in transit' : k.agent # b
          BY <2>1, <3>1
        <4>8. left'[b].edits <= edits'[b]
          BY <1>1, <1>o DEF Remembers
        <4> QED BY <1>1, <3>1, <4>5, <4>6, <4>7, <4>8 DEF Remembers
      <3>4. CASE ~(p.state = "transient" /\ CanLoad(p.body))
        <4>1. \E s \in {"transient", "inert"} : Goes(m, b, s)
          BY <2>7, <3>4 DEF Takes
        <4>2. state'[m][b] \in {"transient", "inert"}
          BY <1>0, <4>1, GoesType DEF States
        <4>3. \A n \in Nodes : ~Present(n, b)'
          BY <2>3, <2>7, <3>1, <4>2 DEF Present, Alive
        <4>4. \A k \in transit' : k.agent # b
          BY <2>1, <3>1
        <4> QED BY <1>1, <1>o, <3>1, <4>3, <4>4 DEF Remembers
      <3> QED BY <3>3, <3>4
    <2> QED BY <2>6, <2>7
  <1> QED BY <1>2, <1>3, <1>4 DEF Pylon, Find, objects, travel

LEMMA RememberedThread ==
  ASSUME TypeInv, Placed, Remembered, NEW m \in Nodes, NEW a \in Agents, Thread(m, a) PROVE Remembered'
  <1>0. StateTypes /\ BodyTypes /\ LeavingTypes /\ TravelTypes /\ Travels
    BY TypeParts
  <1>1. UNCHANGED <<transit, revived, left, arrived>>
    BY DEF Thread, Runs, AskStop, AskMove, EditShard, Exit, travel, control
  <1> SUFFICES ASSUME NEW b \in Agents \ revived PROVE Remembers(b)'
    BY <1>1 DEF Remembered
  <1>o. Remembers(b) /\ OnePlace(b)
    BY DEF Remembered, Placed
  <1>2. UNCHANGED state \/ \E s \in States : Goes(m, a, s)
    BY DEF Thread, Runs, AskStop, AskMove, EditShard, Exit, NoLonger, States
  <1>3. \A k \in Nodes, c \in Agents : k # m \/ c # a => state'[k][c] = state[k][c]
    BY <1>0, <1>2, GoesType
  <1>4. Present(m, a)
    BY DEF Thread, Runs, AskStop, AskMove, EditShard, Exit, NoLonger, Present, Alive
  <1>5. CASE EditShard(m, a)
    <2>1. UNCHANGED <<state, leaving>>
      BY <1>5 DEF EditShard, travel
    <2>2. edits' = [edits EXCEPT ![a] = @ + 1]
      BY <1>5 DEF EditShard
    <2>3. \A k \in Nodes, c \in Agents : c # a => body'[k][c] = body[k][c]
      BY <1>0, <1>5 DEF EditShard, BodyTypes
    <2>4. CASE b # a
      <3>1. edits'[b] = edits[b]
        BY <1>0, <2>2, <2>4 DEF TravelTypes
      <3> QED BY <1>0, <1>1, <1>o, <2>1, <2>3, <2>4, <3>1, RemembersAlone DEF Present
    <2>5. CASE b = a
      <3>1. edits'[b] = edits[b] + 1 /\ edits[b] \in Nat /\ left[b].edits \in Nat
        BY <1>0, <2>2, <2>5 DEF TravelTypes, Departure
      <3>2. edits'[b] # 0 /\ left'[b].edits < edits'[b]
        BY <1>1, <1>o, <3>1 DEF Remembers
      <3>3. edits'[b] # left'[b].edits
        BY <1>1, <3>1, <3>2
      <3>4. leaving[b].step \notin {"exited", "packed"} /\ \A k \in transit : k.agent # b
        BY <1>o, <1>4, <2>5 DEF OnePlace
      <3>5. left'[b].edits <= edits'[b]
        BY <1>1, <3>1, <3>2
      <3> QED BY <1>1, <2>1, <3>2, <3>3, <3>4, <3>5 DEF Remembers, Has, Kept, Unedited
    <2> QED BY <2>4, <2>5
  <1>6. CASE ~EditShard(m, a)
    <2>1. UNCHANGED <<body, edits>>
      BY <1>6 DEF Thread, Runs, AskStop, AskMove, Exit, objects
    <2>2. \A c \in Agents : c # a => leaving'[c] = leaving[c]
      BY <1>0, <1>6 DEF Thread, Runs, AskStop, AskMove, Exit, travel, LeavingTypes
    <2>3. \A n \in Nodes : Present(n, b)' => Present(n, b)
      BY <1>3, <1>4 DEF Present
    <2>4. CASE leaving'[b] = leaving[b]
      BY <1>0, <1>1, <1>o, <2>1, <2>3, <2>4, RemembersAlone
    <2>5. CASE b = a /\ AskMove(m, a)
      <3>1. leaving'[b].step = "asked"
        BY <1>0, <2>5 DEF AskMove, LeavingTypes
      <3> QED BY <1>1, <1>o, <2>1, <2>3, <3>1 DEF Remembers, Carries, Has, Kept, Unedited
    <2>6. CASE b = a /\ Exit(m, a) /\ Moving(m, a)
      <3> DEFINE x == [leaving[a] EXCEPT !.step = "exited"]
      <3>1. leaving' = [leaving EXCEPT ![a] = x]
        BY <2>6 DEF Exit
      <3>2. x.from = m /\ x.step = "exited"
        BY <1>0, <2>6, WayExited DEF Moving, LeavingTypes
      <3> HIDE DEF x
      <3>3. leaving'[b].step = "exited" /\ leaving'[b].from = m
        BY <1>0, <2>6, <3>1, <3>2 DEF LeavingTypes
      <3>4. Has(b, body[m][b])
        BY <1>o, <1>4, <2>6 DEF Remembers
      <3> QED BY <1>1, <1>o, <2>1, <2>3, <3>3, <3>4 DEF Remembers, Carries, Has, Kept, Unedited
    <2> QED BY <1>6, <2>2, <2>4, <2>5, <2>6 DEF Thread, Runs, AskStop, Exit, travel
  <1> QED BY <1>5, <1>6

LEMMA RememberedPack == ASSUME TypeInv, Placed, Remembered, NEW a \in Agents, Pack(a) PROVE Remembered'
  <1>0. LeavingTypes /\ BodyTypes /\ StateTypes /\ TravelTypes /\ Travels /\ Travels'
    BY TypeParts, PackTypes
  <1>1. UNCHANGED <<state, transit, revived, arrived, edits>>
    BY DEF Pack, control
  <1> SUFFICES ASSUME NEW b \in Agents \ revived PROVE Remembers(b)'
    BY <1>1 DEF Remembered
  <1>o. Remembers(b) /\ OnePlace(b)
    BY DEF Remembered, Placed
  <1> DEFINE n == leaving[a].from
             c == body[n][a]
             p == Packed(c)
             m == [agent |-> a, to |-> leaving[a].to, body |-> p, state |-> state[n][a]]
             x == [leaving[a] EXCEPT !.step = "packed", !.message = m]
  <1>2. leaving' = [leaving EXCEPT ![a] = x] /\ leaving[a].step = "exited"
    BY DEF Pack
  <1>3. n \in Nodes /\ c \in Body
    BY <1>0, <1>2 DEF Travels, BodyTypes
  <1>4. m.body = p
    OBVIOUS
  <1>5. left' = [left EXCEPT ![a] = [shards |-> c.shards, edits |-> edits[a]]] /\ body' = [body EXCEPT ![n][a] = p]
    BY DEF Pack
  <1> HIDE DEF c, p, m
  <1>6. x.step = "packed" /\ x.message = m
    BY <1>0 DEF LeavingTypes, Way
  <1> HIDE DEF x
  <1>7. CASE b # a
    <2>1. leaving'[b] = leaving[b] /\ left'[b] = left[b]
      BY <1>0, <1>2, <1>5, <1>7 DEF LeavingTypes, TravelTypes
    <2>2. \A k \in Nodes : body'[k][b] = body[k][b]
      BY <1>0, <1>3, <1>5, <1>7 DEF BodyTypes
    <2> QED BY <1>0, <1>1, <1>o, <2>1, <2>2, RemembersAlone DEF Present
  <1>8. CASE b = a
    <2>1. leaving'[b].step = "packed" /\ leaving'[b].message.body = p
      BY <1>0, <1>2, <1>4, <1>6, <1>8 DEF LeavingTypes
    <2>2. left'[b] = [shards |-> c.shards, edits |-> edits[b]]
      BY <1>0, <1>5, <1>8 DEF TravelTypes
    <2>3. Has(b, c)
      BY <1>o, <1>2, <1>8 DEF Remembers, c
    <2>4. Carries(b, leaving[b].message.body)'
      <3>1. \A q : q = Packed(c) => Carries(b, q)'
        BY <1>1, <1>3, <2>2, <2>3, PackedCarries
      <3>2. leaving'[b].message.body = Packed(c)
        BY <2>1 DEF p
      <3> QED BY <3>1, <3>2
    <2>5. (\A k \in Nodes : ~Present(k, b)') /\ \A k \in transit' : k.agent # b
      BY <1>1, <1>o, <1>2, <1>8 DEF OnePlace, Present
    <2>6. left'[b].edits <= edits'[b]
      <3>1. left'[b].edits = edits[b] /\ edits[b] \in Nat
        BY <1>0, <2>2 DEF TravelTypes
      <3> QED BY <1>1, <3>1
    <2> QED BY <2>1, <2>4, <2>5, <2>6 DEF Remembers
  <1> QED BY <1>7, <1>8

LEMMA RememberedSend == ASSUME TypeInv, Remembered, NEW a \in Agents, SendAgent(a) PROVE Remembered'
  <1>0. LeavingTypes /\ Travels
    BY TypeParts
  <1>1. UNCHANGED <<state, body, revived, arrived, edits, left>>
    BY DEF SendAgent, control, objects
  <1> SUFFICES ASSUME NEW b \in Agents \ revived PROVE Remembers(b)'
    BY <1>1 DEF Remembered
  <1>o. Remembers(b)
    BY DEF Remembered
  <1>2. leaving[a].step = "packed" /\ leaving'[a].step = "none" /\ (b # a => leaving'[b] = leaving[b])
    BY <1>0 DEF SendAgent, Stays, LeavingTypes
  <1>3. transit' = transit \cup {leaving[a].message} /\ leaving[a].message.agent = a
    BY <1>0 DEF SendAgent, Travels
  <1>4. CASE b # a
    BY <1>0, <1>1, <1>o, <1>2, <1>3, <1>4, RemembersAlone DEF Present
  <1>5. CASE b = a
    <2>1. \A m \in transit' : m.agent = b => Carries(b, m.body)
      BY <1>o, <1>2, <1>3, <1>5 DEF Remembers
    <2> QED BY <1>1, <1>o, <1>2, <1>5, <2>1 DEF Remembers, Carries, Has, Kept, Unedited, Present
  <1> QED BY <1>4, <1>5

LEMMA RememberedNext == TypeInv /\ Startup /\ Placed /\ Remembered /\ [Next]_vars => Remembered'
  <1> SUFFICES ASSUME TypeInv, Startup, Placed, Remembered, [Next]_vars PROVE Remembered'
    OBVIOUS
  <1>1. CASE UNCHANGED vars
    BY <1>1, TypeParts, RemembersAlone DEF Remembered, Present, vars, objects, travel, control
  <1> QED BY <1>1, RememberedStarts, RememberedPylon, RememberedThread, RememberedPack, RememberedSend DEF Next

\* An agent that has arrived has the shards it left with, until it is changed.
THEOREM AgentsRemember == Spec => []NothingForgotten
  <1>1. TypeInv /\ Remembered => NothingForgotten
    <2> SUFFICES ASSUME TypeInv, Remembered, NEW n \in Nodes, NEW a \in arrived[n] \ revived,
                        state[n][a] \in Alive, edits[a] = left[a].edits, NEW d \in Designations,
                        left[a].shards[d] # "none" \/ edits[a] = 0
                 PROVE  body[n][a].shards[d] = left[a].shards[d]
      BY DEF NothingForgotten
    <2>1. a \in Agents
      BY TypeParts DEF NameTypes
    <2>2. Present(n, a) /\ Remembers(a)
      BY <2>1 DEF Present, Remembered
    <2> QED BY <2>2 DEF Remembers, Kept
  <1> QED BY <1>1, TypeInvInit, TypeInvNext, StartupInit, StartupNext, PlacedInit, PlacedNext,
             RememberedInit, RememberedNext, PTL DEF Spec
=============================================================================
