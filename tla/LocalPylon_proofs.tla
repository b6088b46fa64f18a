-------------------------- MODULE LocalPylon_proofs --------------------------
(***************************************************************************)
(* Proofs about LocalPylon.                                                *)
(***************************************************************************)
EXTENDS LocalPylon, TLAPS

USE ReceiversAssumption, WavesAssumption, BoundsAssumption, UseThreadAssumption

Post == [wave : Wave, how : {"queued", "direct"}]

(* The message thread begins with a start and is over when a stop returns. *)
Threads ==
    /\ keeper = "down" \/ (keeper = "up" /\ ~useThread) => worker \in {"none", "over", "dead"}
    /\ keeper \in {"clear", "join"} => ~useThread

\* The fields of a wave.
LEMMA WaveFields ==
  ASSUME NEW w \in Wave
  PROVE  w.from \in Senders /\ w.nr \in Nat /\ w.to \in Names /\ w # NoWave
  <1>1. PICK s \in Senders : w \in [from : {s}, nr : 1 .. Quota[s], to : Names]
    BY DEF Wave
  <1> QED BY <1>1

\* What send() is given is a wave that was not there before.
LEMMA SendMakes ==
  ASSUME TypeOK, NEW s \in Senders, Send(s)
  PROVE  /\ out' \in [Senders -> Wave \cup {NoWave}]
         /\ out'[s] \in Wave
         /\ out'[s].from = s /\ out'[s].nr = count[s] + 1
         /\ \A t \in Senders \ {s} : out'[t] = out[t]
         /\ count' \in [Senders -> Nat]
         /\ \A t \in Senders : count'[t] <= Quota[t]
  <1>1. PICK n \in Names : out' = [out EXCEPT ![s] = [from |-> s, nr |-> count[s] + 1, to |-> n]]
    BY DEF Send
  <1>2. count[s] + 1 \in 1 .. Quota[s]
    BY DEF Send, TypeOK
  <1>3. [from |-> s, nr |-> count[s] + 1, to |-> n] \in [from : {s}, nr : 1 .. Quota[s], to : Names]
    BY <1>2
  <1>4. [from |-> s, nr |-> count[s] + 1, to |-> n] \in Wave
    BY <1>3 DEF Wave
  <1>5. out \in [Senders -> Wave \cup {NoWave}]
    BY DEF TypeOK
  <1>6. count' = [count EXCEPT ![s] = count[s] + 1]
    BY DEF Send
  <1>7. count' \in [Senders -> Nat] /\ \A t \in Senders : count'[t] <= Quota[t]
    BY <1>2, <1>6 DEF TypeOK
  <1> QED BY <1>1, <1>4, <1>5, <1>7

\* What deliver() does with a wave keeps the types of where waves end.
LEMMA EndsType ==
  ASSUME TypeOK, NEW w \in Wave, NEW r \in Receivers, NEW how \in {"queued", "direct"},
         Lose(w) \/ Take(w, r, how)
  PROVE  received' \in [Receivers -> Seq(Post)] /\ lost' \subseteq Wave
  <1>0. received \in [Receivers -> Seq(Post)] /\ lost \subseteq Wave
    BY DEF TypeOK, Post
  <1>1. CASE Lose(w)
    BY <1>0, <1>1 DEF Lose
  <1>2. CASE Take(w, r, how)
    <2>1. [wave |-> w, how |-> how] \in Post
      BY DEF Post
    <2>2. Append(received[r], [wave |-> w, how |-> how]) \in Seq(Post)
      BY <1>0, <2>1
    <2> QED BY <1>0, <1>2, <2>2 DEF Take
  <1> QED BY <1>1, <1>2

LEMMA LoseType ==
  ASSUME TypeOK, NEW w \in Wave, Lose(w)
  PROVE  received' \in [Receivers -> Seq(Post)] /\ lost' \subseteq Wave
  BY DEF Lose, TypeOK, Post

\* Where a sender is in send(), with what it has in its hands.
SenderType ==
    /\ pc \in [Senders -> {"idle", "flag", "enqueue", "check", "get", "receive"}]
    /\ out \in [Senders -> Wave \cup {NoWave}]
    /\ \A s \in Senders : out[s] # NoWave <=> pc[s] # "idle"
    /\ dest \in [Senders -> Receivers \cup {NoReceiver}]
    /\ \A s \in Senders : dest[s] # NoReceiver <=> pc[s] = "receive"

LEMMA SenderStep ==
  ASSUME TypeOK, NEW s \in Senders, NEW p \in {"idle", "flag", "enqueue", "check", "get", "receive"},
         NEW w \in Wave \cup {NoWave}, NEW d \in Receivers \cup {NoReceiver},
         pc' = [pc EXCEPT ![s] = p], out' = [out EXCEPT ![s] = w], dest' = [dest EXCEPT ![s] = d],
         w # NoWave <=> p # "idle", d # NoReceiver <=> p = "receive"
  PROVE  SenderType'
  <1>1. SenderType
    BY DEF TypeOK, SenderType
  <1>2. /\ pc' \in [Senders -> {"idle", "flag", "enqueue", "check", "get", "receive"}]
        /\ out' \in [Senders -> Wave \cup {NoWave}]
        /\ dest' \in [Senders -> Receivers \cup {NoReceiver}]
    BY <1>1 DEF SenderType
  <1>3. pc'[s] = p /\ out'[s] = w /\ dest'[s] = d
    BY <1>1 DEF SenderType
  <1>4. \A t \in Senders \ {s} : pc'[t] = pc[t] /\ out'[t] = out[t] /\ dest'[t] = dest[t]
    BY <1>1 DEF SenderType
  <1>5. ASSUME NEW t \in Senders
        PROVE  (out'[t] # NoWave <=> pc'[t] # "idle") /\ (dest'[t] # NoReceiver <=> pc'[t] = "receive")
    <2>1. CASE t = s
      BY <1>3, <2>1
    <2>2. CASE t # s
      BY <1>1, <1>4, <2>2 DEF SenderType
    <2> QED BY <2>1, <2>2
  <1> QED BY <1>2, <1>5 DEF SenderType

LEMMA ReturnType ==
  ASSUME TypeOK, NEW s \in Senders, Return(s)
  PROVE  SenderType'
  BY SenderStep DEF Return

LEMMA InitType == Init => TypeOK /\ Threads
  <1> SUFFICES ASSUME Init PROVE TypeOK /\ Threads
    OBVIOUS
  <1>1. running \in BOOLEAN /\ useThread \in BOOLEAN /\ queueNull \in BOOLEAN
    BY Zenon DEF Init
  <1>2. queue \in Seq(Wave) /\ received \in [Receivers -> Seq(Post)] /\ lost \subseteq Wave
    BY DEF Init
  <1>3. count \in [Senders -> Nat] /\ \A s \in Senders : count[s] <= Quota[s]
    BY DEF Init
  <1>4. starts \in 0 .. MaxStarts /\ lives \in [Receivers -> 0 .. MaxLives]
    BY DEF Init
  <1>5. held = NoWave /\ target = NoReceiver /\ worker = "none" /\ keeper = "down"
    BY DEF Init
  <1>6. /\ pc \in [Senders -> {"idle", "flag", "enqueue", "check", "get", "receive"}]
        /\ out \in [Senders -> Wave \cup {NoWave}]
        /\ \A s \in Senders : out[s] # NoWave <=> pc[s] # "idle"
        /\ dest \in [Senders -> Receivers \cup {NoReceiver}]
        /\ \A s \in Senders : dest[s] # NoReceiver <=> pc[s] = "receive"
    BY DEF Init
  <1>7. /\ receivers \in [Names -> Receivers \cup {NoReceiver}]
        /\ agent \in [Receivers -> {"out", "in", "stopping"}]
        /\ overtaken \subseteq Receivers
    BY DEF Init
  <1> QED BY <1>1, <1>2, <1>3, <1>4, <1>5, <1>6, <1>7 DEF TypeOK, Post, Threads

LEMMA StepType ==
  ASSUME TypeOK, Threads, [Next]_vars
  PROVE  TypeOK'
<1>1. CASE Start
  <2>1. starts' \in 0 .. MaxStarts
    BY <1>1 DEF Start, TypeOK
  <2>2. running' \in BOOLEAN
    BY <1>1, Zenon DEF Start
  <2>3. /\ worker' \in {"none", "loop", "look", "waiting", "poll", "check", "get", "receive",
                        "over", "dead"}
        /\ held' \in Wave \cup {NoWave}
        /\ held' # NoWave <=> worker' \in {"check", "get", "receive"}
        /\ target' \in Receivers \cup {NoReceiver}
        /\ target' # NoReceiver <=> worker' = "receive"
    <3>1. CASE useThread
      <4>1. worker # "check" /\ worker # "get" /\ worker # "receive"
        BY <1>1 DEF Start, Threads
      <4> QED BY <1>1, <3>1, <4>1 DEF Start, TypeOK
    <3>2. CASE ~useThread
      BY <1>1, <3>2 DEF Start, TypeOK
    <3> QED BY <3>1, <3>2
  <2> QED BY <1>1, <2>1, <2>2, <2>3 DEF Start, TypeOK, sender, ends, agents
<1>2. CASE StopFlag
  BY <1>2 DEF StopFlag, TypeOK, thread, sender, ends, agents
<1>3. CASE StopClear
  <2>1. lost' \subseteq Wave
    BY <1>3 DEF StopClear, TypeOK
  <2>2. queue' \in Seq(Wave) /\ keeper' \in {"down", "up", "clear", "join"}
    BY <1>3 DEF StopClear
  <2> QED BY <1>3, <2>1, <2>2 DEF StopClear, TypeOK, thread, sender, agents
<1>4. CASE StopJoin
  <2>1. lost' \subseteq Wave
    BY <1>4 DEF StopJoin, TypeOK
  <2>2. queue' \in Seq(Wave) /\ keeper' \in {"down", "up", "clear", "join"}
    BY <1>4 DEF StopJoin
  <2>3. queueNull' \in BOOLEAN
    BY <1>4, Zenon DEF StopJoin
  <2> QED BY <1>4, <2>1, <2>2, <2>3 DEF StopJoin, TypeOK, thread, sender, agents
<1>5. CASE Loop \/ Look \/ Wake
  BY <1>5 DEF Loop, Look, Wake, TypeOK, pylon, sender, ends, agents
<1>6. CASE Poll
  <2>1. queue # <<>> => Head(queue) \in Wave /\ Tail(queue) \in Seq(Wave)
    BY DEF TypeOK
  <2>2. held = NoWave
    BY <1>6 DEF Poll, TypeOK
  <2> QED BY <1>6, <2>1, <2>2 DEF Poll, TypeOK, pylon, sender, ends, agents
<1>7. CASE ThreadCheck
  <2>1. held \in Wave
    BY <1>7 DEF ThreadCheck, TypeOK
  <2>2. received' \in [Receivers -> Seq(Post)] /\ lost' \subseteq Wave
    <3>1. CASE Known(held)
      BY <1>7, <3>1 DEF ThreadCheck, TypeOK, Post, ends
    <3>2. CASE ~Known(held)
      BY <1>7, <3>2, <2>1, LoseType DEF ThreadCheck
    <3> QED BY <3>1, <3>2
  <2> QED BY <1>7, <2>1, <2>2 DEF ThreadCheck, TypeOK, Post, pylon, sender, agents
<1>8. CASE ThreadGet \/ ThreadReceive
  <2>1. held \in Wave /\ held.to \in Names
    BY <1>8, WaveFields DEF ThreadGet, ThreadReceive, TypeOK
  <2>2. CASE ThreadGet /\ Known(held)
    <3>1. receivers[held.to] \in Receivers
      BY <2>1, <2>2 DEF Known, TypeOK
    <3> QED BY <2>2, <3>1 DEF ThreadGet, TypeOK, pylon, sender, ends, agents
  <2>3. CASE ThreadGet /\ ~Known(held)
    <3>1. received' \in [Receivers -> Seq(Post)] /\ lost' \subseteq Wave
      BY <2>1, <2>3, LoseType DEF ThreadGet
    <3> QED BY <2>3, <3>1 DEF ThreadGet, TypeOK, Post, pylon, sender, agents
  <2>4. CASE ThreadReceive
    <3>1. target \in Receivers
      BY <2>4 DEF ThreadReceive, TypeOK
    <3>2. received' \in [Receivers -> Seq(Post)] /\ lost' \subseteq Wave
      BY <2>1, <2>4, <3>1, EndsType DEF ThreadReceive, Receive
    <3> QED BY <2>4, <3>2 DEF ThreadReceive, TypeOK, Post, pylon, sender, agents
  <2> QED BY <1>8, <2>2, <2>3, <2>4
<1>9. ASSUME NEW s \in Senders, Send(s) PROVE TypeOK'
  <2>1. SenderType'
    <3>1. PICK n \in Names : out' = [out EXCEPT ![s] = [from |-> s, nr |-> count[s] + 1, to |-> n]]
      BY <1>9 DEF Send
    <3>2. out'[s] \in Wave /\ out'[s] # NoWave
      BY <1>9, SendMakes, WaveFields
    <3>3. out'[s] = [from |-> s, nr |-> count[s] + 1, to |-> n]
      BY <3>1 DEF TypeOK
    <3>4. out' = [out EXCEPT ![s] = out'[s]]
      BY <3>1, <3>3
    <3>5. dest' = [dest EXCEPT ![s] = NoReceiver] /\ pc' = [pc EXCEPT ![s] = "flag"]
      BY <1>9 DEF Send, TypeOK
    <3> QED BY <3>2, <3>4, <3>5, SenderStep
  <2>2. count' \in [Senders -> Nat] /\ \A t \in Senders : count'[t] <= Quota[t]
    BY <1>9, SendMakes
  <2>3. UNCHANGED <<pylon, queue, thread, ends, agents>>
    BY <1>9 DEF Send
  <2> QED BY <2>1, <2>2, <2>3 DEF SenderType, TypeOK, pylon, thread, ends, agents
<1>10. ASSUME NEW s \in Senders, ReadFlag(s) PROVE TypeOK'
  BY <1>10 DEF ReadFlag, TypeOK, pylon, thread, ends, agents
<1>11. ASSUME NEW s \in Senders, Enqueue(s) PROVE TypeOK'
  <2>1. out[s] \in Wave
    BY <1>11 DEF Enqueue, TypeOK
  <2>2. Append(queue, out[s]) \in Seq(Wave)
    BY <2>1 DEF TypeOK
  <2>3. received' \in [Receivers -> Seq(Post)] /\ lost' \subseteq Wave
    <3>1. CASE queueNull
      BY <1>11, <3>1, <2>1, LoseType DEF Enqueue
    <3>2. CASE ~queueNull
      BY <1>11, <3>2 DEF Enqueue, TypeOK, Post, ends
    <3> QED BY <3>1, <3>2
  <2>4. SenderType'
    BY <1>11, ReturnType DEF Enqueue
  <2>5. queue' \in Seq(Wave)
    BY <1>11, <2>2 DEF Enqueue, TypeOK
  <2>6. UNCHANGED <<pylon, thread, agents, count>>
    BY <1>11 DEF Enqueue, Return
  <2> QED BY <2>3, <2>4, <2>5, <2>6 DEF SenderType, TypeOK, Post, pylon, thread, agents
<1>12. ASSUME NEW s \in Senders, SenderCheck(s) PROVE TypeOK'
  <2>1. out[s] \in Wave
    BY <1>12 DEF SenderCheck, TypeOK
  <2>2. UNCHANGED <<pylon, queue, thread, agents, count>>
    BY <1>12 DEF SenderCheck, Return
  <2>3. CASE Known(out[s])
    <3>1. out' = [out EXCEPT ![s] = out[s]] /\ dest' = [dest EXCEPT ![s] = NoReceiver]
      BY <1>12, <2>3 DEF SenderCheck, TypeOK
    <3>2. SenderType'
      BY <1>12, <2>1, <2>3, <3>1, SenderStep, WaveFields DEF SenderCheck
    <3>3. UNCHANGED ends
      BY <1>12, <2>3 DEF SenderCheck
    <3> QED BY <2>2, <3>2, <3>3 DEF SenderType, TypeOK, pylon, thread, ends, agents
  <2>4. CASE ~Known(out[s])
    <3>1. SenderType' /\ received' \in [Receivers -> Seq(Post)] /\ lost' \subseteq Wave
      BY <1>12, <2>1, <2>4, LoseType, ReturnType DEF SenderCheck
    <3> QED BY <2>2, <3>1 DEF SenderType, TypeOK, Post, pylon, thread, agents
  <2> QED BY <2>3, <2>4
<1>13. ASSUME NEW s \in Senders, SenderGet(s) \/ SenderReceive(s) PROVE TypeOK'
  <2>1. out[s] \in Wave /\ out[s].to \in Names
    BY <1>13, WaveFields DEF SenderGet, SenderReceive, TypeOK
  <2>2. UNCHANGED <<pylon, queue, thread, agents, count>>
    BY <1>13 DEF SenderGet, SenderReceive, Return
  <2>3. CASE SenderGet(s) /\ Known(out[s])
    <3>1. receivers[out[s].to] \in Receivers
      BY <2>1, <2>3 DEF Known, TypeOK
    <3>2. out' = [out EXCEPT ![s] = out[s]]
      BY <2>3 DEF SenderGet, TypeOK
    <3>3. SenderType'
      BY <2>1, <2>3, <3>1, <3>2, SenderStep, WaveFields DEF SenderGet
    <3>4. UNCHANGED ends
      BY <2>3 DEF SenderGet
    <3> QED BY <2>2, <3>3, <3>4 DEF SenderType, TypeOK, pylon, thread, ends, agents
  <2>4. CASE SenderGet(s) /\ ~Known(out[s])
    <3>1. SenderType' /\ received' \in [Receivers -> Seq(Post)] /\ lost' \subseteq Wave
      BY <2>1, <2>4, LoseType, ReturnType DEF SenderGet
    <3> QED BY <2>2, <3>1 DEF SenderType, TypeOK, Post, pylon, thread, agents
  <2>5. CASE SenderReceive(s)
    <3>1. dest[s] \in Receivers
      BY <2>5 DEF SenderReceive, TypeOK
    <3>2. SenderType' /\ received' \in [Receivers -> Seq(Post)] /\ lost' \subseteq Wave
      BY <2>1, <2>5, <3>1, EndsType, ReturnType DEF SenderReceive, Receive
    <3> QED BY <2>2, <3>2 DEF SenderType, TypeOK, Post, pylon, thread, agents
  <2> QED BY <1>13, <2>3, <2>4, <2>5
<1>14. ASSUME NEW r \in Receivers, Register(r) PROVE TypeOK'
  <2>1. NameOf[r] \in Names
    OBVIOUS
  <2>2. /\ receivers' \in [Names -> Receivers \cup {NoReceiver}]
        /\ overtaken' \subseteq Receivers
    BY <1>14, <2>1 DEF Register, OfSameName, TypeOK
  <2>3. agent' \in [Receivers -> {"out", "in", "stopping"}]
    BY <1>14 DEF Register, TypeOK
  <2>4. lives' \in [Receivers -> 0 .. MaxLives]
    <3>1. lives[r] + 1 \in 0 .. MaxLives
      BY <1>14 DEF Register, MayStart, TypeOK
    <3> QED BY <1>14, <3>1 DEF Register, TypeOK
  <2> QED BY <1>14, <2>2, <2>3, <2>4 DEF Register, TypeOK, pylon, thread, sender, ends
<1>15. ASSUME NEW r \in Receivers, PostStop(r) PROVE TypeOK'
  BY <1>15 DEF PostStop, TypeOK, pylon, thread, sender, ends
<1>16. ASSUME NEW r \in Receivers, Unregister(r) PROVE TypeOK'
  BY <1>16 DEF Unregister, TypeOK, pylon, thread, sender, ends
<1>17. CASE UNCHANGED vars
  BY <1>17 DEF vars, TypeOK, pylon, thread, sender, ends, agents
<1> QED
  BY <1>1, <1>2, <1>3, <1>4, <1>5, <1>6, <1>7, <1>8, <1>9, <1>10, <1>11, <1>12, <1>13,
<1>14, <1>15, <1>16, <1>17 DEF Next, Thread, Sending

LEMMA StepThreads ==
  ASSUME TypeOK, Threads, [Next]_vars
  PROVE  Threads'
<1>1. CASE Start \/ StopFlag \/ StopClear \/ StopJoin
  BY <1>1 DEF Start, StopFlag, StopClear, StopJoin, thread, TypeOK, Threads
<1>2. CASE Thread
  BY <1>2 DEF Thread, Loop, Look, Wake, Poll, ThreadCheck, ThreadGet, ThreadReceive, pylon, TypeOK, Threads
<1>3. ASSUME NEW s \in Senders, Send(s) \/ Sending(s) PROVE Threads'
  BY <1>3 DEF Send, Sending, ReadFlag, Enqueue, SenderCheck, SenderGet, SenderReceive,
              pylon, thread, Threads
<1>4. ASSUME NEW r \in Receivers, Register(r) \/ PostStop(r) \/ Unregister(r) PROVE Threads'
  BY <1>4 DEF Register, PostStop, Unregister, pylon, thread, Threads
<1>5. CASE UNCHANGED vars
  BY <1>5 DEF vars, pylon, thread, Threads
<1> QED BY <1>1, <1>2, <1>3, <1>4, <1>5 DEF Next

\* The type invariant: among others the message thread has a wave in its hands
\* exactly between its poll and the end of the delivery, whatever is stopped and
\* started meanwhile.
THEOREM PylonType == Spec => []TypeOK
<1>1. TypeOK /\ Threads /\ [Next]_vars => TypeOK' /\ Threads'
  BY StepType, StepThreads
<1> QED BY InitType, <1>1, PTL DEF Spec

-----------------------------------------------------------------------------
(* Where waves are.  OnlyOnce in three parts, and what it needs: a wave is  *)
(* only somewhere once it was sent, and a sender only sends its own.        *)
QueueOnce == \A i, j \in DOMAIN queue : queue[i] = queue[j] => i = j

ReceivedOnce ==
    \A r, q \in Receivers : \A i \in DOMAIN received[r], j \in DOMAIN received[q] :
        received[r][i].wave = received[q][j].wave => r = q /\ i = j

Ended(w) == Received(w) \/ Lost(w)
EndsOnce == \A w \in Wave : ~(Received(w) /\ Lost(w))

Apart ==
    \A w \in Wave :
        /\ InQueue(w) => held # w /\ out[w.from] # w /\ ~Ended(w)
        /\ held = w => out[w.from] # w /\ ~Ended(w)
        /\ out[w.from] = w => ~Ended(w)

Somewhere(w) == InQueue(w) \/ held = w \/ out[w.from] = w \/ Ended(w)
SentOnly == \A w \in Wave : Somewhere(w) => w.nr <= count[w.from]
OwnWaves == \A s \in Senders : out[s] # NoWave => out[s].from = s

Places == QueueOnce /\ ReceivedOnce /\ EndsOnce /\ Apart /\ SentOnly /\ OwnWaves

LEMMA PlacesFacts == Places => OnlyOnce
  BY DEF Places, QueueOnce, ReceivedOnce, EndsOnce, Apart, Ended, OnlyOnce

\* deliver() ends the journey of its wave and of no other.
EndOf(w) ==
    \/ Lose(w)
    \/ \E r \in Receivers, how \in {"queued", "direct"} : Take(w, r, how)

LEMMA EndEffect ==
  ASSUME TypeOK, NEW w \in Wave, ~Ended(w), ReceivedOnce, EndsOnce, EndOf(w)
  PROVE  /\ ReceivedOnce' /\ EndsOnce'
         /\ \A x \in Wave : Ended(x)' <=> Ended(x) \/ x = w
  <1>0. received \in [Receivers -> Seq(Post)] /\ lost \subseteq Wave
    BY DEF TypeOK, Post
  <1>1. ASSUME Lose(w)
        PROVE  /\ ReceivedOnce' /\ EndsOnce'
               /\ \A x \in Wave : Ended(x)' <=> Ended(x) \/ x = w
    <2>1. received' = received /\ lost' = lost \cup {w}
      BY <1>1 DEF Lose
    <2>2. ReceivedOnce'
      BY <2>1 DEF ReceivedOnce
    <2>3. \A x \in Wave : Received(x)' <=> Received(x)
      BY <2>1 DEF Received
    <2>4. \A x \in Wave : Lost(x)' <=> Lost(x) \/ x = w
      BY <2>1 DEF Lost
    <2> QED BY <2>2, <2>3, <2>4 DEF Ended, EndsOnce
  <1>2. ASSUME NEW r \in Receivers, NEW how \in {"queued", "direct"}, Take(w, r, how)
        PROVE  /\ ReceivedOnce' /\ EndsOnce'
               /\ \A x \in Wave : Ended(x)' <=> Ended(x) \/ x = w
    <2> DEFINE p == [wave |-> w, how |-> how]
    <2>2. received' = [received EXCEPT ![r] = Append(received[r], p)] /\ lost' = lost
      BY <1>2 DEF Take
    <2>3. p \in Post /\ p.wave = w
      BY DEF Post
    <2>4. \A q \in Receivers : q # r => received'[q] = received[q]
      BY <1>0, <2>2
    <2>5. /\ received'[r] = Append(received[r], p)
          /\ Len(received[r]) \in Nat
          /\ DOMAIN received[r] = 1 .. Len(received[r])
          /\ DOMAIN received'[r] = 1 .. (Len(received[r]) + 1)
          /\ \A i \in 1 .. Len(received[r]) : received'[r][i] = received[r][i]
          /\ received'[r][Len(received[r]) + 1] = p
      BY <1>0, <2>2, <2>3
    <2> DEFINE n == Len(received[r]) + 1
    <2>6. \A q \in Receivers : \A i \in DOMAIN received'[q] :
              \/ q = r /\ i = n /\ received'[q][i].wave = w
              \/ i \in DOMAIN received[q] /\ received'[q][i] = received[q][i]
      <3>1. \A i \in DOMAIN received'[r] : \/ i = n /\ received'[r][i].wave = w
                                           \/ i \in DOMAIN received[r] /\ received'[r][i] = received[r][i]
        BY <2>3, <2>5
      <3> QED BY <2>4, <3>1
    <2>7. \A q \in Receivers : \A i \in DOMAIN received[q] :
              i \in DOMAIN received'[q] /\ received'[q][i] = received[q][i]
      <3>1. ASSUME NEW q \in Receivers, NEW i \in DOMAIN received[q], q = r
            PROVE  i \in DOMAIN received'[q] /\ received'[q][i] = received[q][i]
        <4>1. i \in 1 .. Len(received[r])
          BY <2>5, <3>1
        <4>2. i \in 1 .. (Len(received[r]) + 1)
          BY <2>5, <4>1
        <4> QED BY <2>5, <3>1, <4>1, <4>2
      <3> QED BY <2>4, <3>1
    <2>8. \A q \in Receivers : \A i \in DOMAIN received[q] : received[q][i].wave # w
      BY DEF Ended, Received
    <2> HIDE DEF p, n
    <2>9. ReceivedOnce'
      <3> SUFFICES ASSUME NEW a \in Receivers, NEW b \in Receivers,
                          NEW i \in DOMAIN received'[a], NEW j \in DOMAIN received'[b],
                          received'[a][i].wave = received'[b][j].wave
                   PROVE  a = b /\ i = j
        BY DEF ReceivedOnce
      <3>1. CASE received'[a][i].wave = w
        <4>1. a = r /\ i = n
          BY <2>6, <2>8, <3>1
        <4>2. b = r /\ j = n
          <5>1. received'[b][j].wave = w
            BY <3>1
          <5> QED BY <2>6, <2>8, <5>1
        <4> QED BY <4>1, <4>2
      <3>2. CASE received'[a][i].wave # w
        <4>1. i \in DOMAIN received[a] /\ received'[a][i] = received[a][i]
          BY <2>6, <3>2
        <4>2. j \in DOMAIN received[b] /\ received'[b][j] = received[b][j]
          BY <2>6, <3>2
        <4> QED BY <4>1, <4>2 DEF ReceivedOnce
      <3> QED BY <3>1, <3>2
    <2>10. \A x \in Wave : Received(x)' <=> Received(x) \/ x = w
      <3>1. Received(w)'
        BY <2>3, <2>5 DEF Received, n, p
      <3>2. \A x \in Wave : Received(x) => Received(x)'
        BY <2>7 DEF Received
      <3>3. \A x \in Wave : Received(x)' => Received(x) \/ x = w
        BY <2>6 DEF Received
      <3> QED BY <3>1, <3>2, <3>3
    <2>11. \A x \in Wave : Lost(x)' <=> Lost(x)
      BY <2>2 DEF Lost
    <2> QED BY <2>9, <2>10, <2>11 DEF Ended, EndsOnce
  <1> QED BY <1>1, <1>2 DEF EndOf

\* What the steps of deliver() do with the wave.
LEMMA DeliveryEnds ==
  ASSUME TypeOK
  PROVE  /\ ThreadCheck \/ ThreadGet \/ ThreadReceive =>
               \/ UNCHANGED <<held, ends>>
               \/ held \in Wave /\ held' = NoWave /\ EndOf(held)
         /\ \A s \in Senders :
               SenderCheck(s) \/ SenderGet(s) \/ SenderReceive(s) =>
                  \/ UNCHANGED <<out, ends>>
                  \/ out[s] \in Wave /\ EndOf(out[s]) /\ out' = [out EXCEPT ![s] = NoWave]
  <1>1. ThreadCheck \/ ThreadGet => \/ UNCHANGED <<held, ends>>
                                    \/ held \in Wave /\ held' = NoWave /\ EndOf(held)
    BY DEF ThreadCheck, ThreadGet, TypeOK, EndOf
  <1>2. ThreadReceive => held \in Wave /\ held' = NoWave /\ EndOf(held)
    BY DEF ThreadReceive, Receive, TypeOK, EndOf
  <1>3. ASSUME NEW s \in Senders, SenderCheck(s) \/ SenderGet(s)
        PROVE  \/ UNCHANGED <<out, ends>>
               \/ out[s] \in Wave /\ EndOf(out[s]) /\ out' = [out EXCEPT ![s] = NoWave]
    BY <1>3 DEF SenderCheck, SenderGet, Return, TypeOK, EndOf
  <1>4. ASSUME NEW s \in Senders, SenderReceive(s)
        PROVE  out[s] \in Wave /\ EndOf(out[s]) /\ out' = [out EXCEPT ![s] = NoWave]
    BY <1>4 DEF SenderReceive, Receive, Return, TypeOK, EndOf
  <1> QED BY <1>1, <1>2, <1>3, <1>4

\* Only a change of where waves are can disturb Places.
LEMMA PlacesKept ==
  ASSUME Places, UNCHANGED <<queue, held, out, count, ends>>
  PROVE  Places' /\ \A w \in Wave : Somewhere(w)' <=> Somewhere(w)
  <1>1. queue' = queue /\ held' = held /\ out' = out /\ count' = count
        /\ received' = received /\ lost' = lost
    BY DEF ends
  <1>2. \A w \in Wave : InQueue(w)' <=> InQueue(w)
    BY <1>1 DEF InQueue
  <1>3. \A w \in Wave : (Received(w)' <=> Received(w)) /\ (Lost(w)' <=> Lost(w))
    BY <1>1 DEF Received, Lost
  <1>4. \A w \in Wave : Ended(w)' <=> Ended(w)
    BY <1>3 DEF Ended
  <1>5. \A w \in Wave : Somewhere(w)' <=> Somewhere(w)
    BY <1>1, <1>2, <1>4 DEF Somewhere
  <1>6. QueueOnce' /\ ReceivedOnce' /\ EndsOnce' /\ OwnWaves'
    BY <1>1, <1>3 DEF Places, QueueOnce, ReceivedOnce, EndsOnce, OwnWaves
  <1>7. Apart'
    BY <1>1, <1>2, <1>4 DEF Places, Apart
  <1>8. SentOnly'
    BY <1>1, <1>5 DEF Places, SentOnly
  <1> QED BY <1>5, <1>6, <1>7, <1>8 DEF Places

\* A wave whose journey ends leaves the hand it was in.
LEMMA EndKeepsPlaces ==
  ASSUME TypeOK, Places, NEW w \in Wave, EndOf(w), UNCHANGED <<queue, count>>,
         \/ held = w /\ held' = NoWave /\ UNCHANGED out
         \/ /\ \E s \in Senders : out[s] = w /\ out' = [out EXCEPT ![s] = NoWave]
            /\ UNCHANGED held
  PROVE  Places' /\ \A x \in Wave : Somewhere(x)' <=> Somewhere(x)
  <1> USE DEF Places
  <1>1. ~Ended(w)
    <2>1. w.from \in Senders
      BY WaveFields
    <2>2. held = w \/ out[w.from] = w
      BY WaveFields DEF OwnWaves
    <2> QED BY <2>2 DEF Apart
  <1>2. /\ ReceivedOnce' /\ EndsOnce'
        /\ \A x \in Wave : Ended(x)' <=> Ended(x) \/ x = w
    BY <1>1, EndEffect
  <1>3. QueueOnce' /\ \A x \in Wave : InQueue(x)' <=> InQueue(x)
    BY DEF QueueOnce, InQueue
  <1>4. \A x \in Wave : held' = x \/ out'[x.from] = x
            <=> (held = x \/ out[x.from] = x) /\ x # w
    <2> SUFFICES ASSUME NEW x \in Wave
                 PROVE  held' = x \/ out'[x.from] = x
                            <=> (held = x \/ out[x.from] = x) /\ x # w
      OBVIOUS
    <2>1. x.from \in Senders /\ x # NoWave /\ w # NoWave
      BY WaveFields
    <2>2. CASE held = w /\ held' = NoWave /\ UNCHANGED out
      BY <2>1, <2>2 DEF Apart
    <2>3. CASE (\E s \in Senders : out[s] = w /\ out' = [out EXCEPT ![s] = NoWave]) /\ UNCHANGED held
      <3>1. PICK s \in Senders : out[s] = w /\ out' = [out EXCEPT ![s] = NoWave]
        BY <2>3
      <3>2. s = w.from
        BY <2>1, <3>1 DEF OwnWaves
      <3>3. held # w
        BY <3>1, <3>2 DEF Apart
      <3>4. out'[x.from] = IF x.from = s THEN NoWave ELSE out[x.from]
        BY <2>1, <3>1 DEF TypeOK
      <3> QED BY <2>1, <2>3, <3>1, <3>2, <3>3, <3>4
    <2> QED BY <2>2, <2>3
  <1>5. \A x \in Wave : held' = x => held = x
    BY WaveFields
  <1>6. \A x \in Wave : out'[x.from] = x => out[x.from] = x
    BY WaveFields DEF TypeOK
  <1>7. Apart'
    <2> SUFFICES ASSUME NEW x \in Wave
                 PROVE  /\ InQueue(x)' => held' # x /\ out'[x.from] # x /\ ~Ended(x)'
                        /\ held' = x => out'[x.from] # x /\ ~Ended(x)'
                        /\ out'[x.from] = x => ~Ended(x)'
      BY DEF Apart
    <2>1. InQueue(w) => FALSE
      BY WaveFields DEF Apart, OwnWaves
    <2>2. InQueue(x)' => x # w /\ InQueue(x)
      BY <1>3, <2>1
    <2>3. held' = x => x # w /\ held = x
      BY <1>4, <1>5
    <2>4. out'[x.from] = x => x # w /\ out[x.from] = x
      BY <1>4, <1>6
    <2> QED BY <1>2, <2>2, <2>3, <2>4 DEF Apart
  <1>8. \A x \in Wave : Somewhere(x)' <=> Somewhere(x)
    BY <1>2, <1>3, <1>4 DEF Somewhere, OwnWaves, Apart
  <1>9. SentOnly'
    BY <1>8 DEF SentOnly
  <1>10. OwnWaves'
    BY DEF OwnWaves, TypeOK
  <1> QED BY <1>2, <1>3, <1>7, <1>8, <1>9, <1>10

\* A wave that is sent was nowhere before.
LEMMA SendKeepsPlaces ==
  ASSUME TypeOK, Places, NEW s \in Senders, Send(s)
  PROVE  /\ Places'
         /\ \A x \in Wave : Somewhere(x)' <=> Somewhere(x) \/ x = out'[s]
  <1> USE DEF Places
  <1>0. queue' = queue /\ held' = held /\ received' = received /\ lost' = lost
    BY DEF Send, thread, ends
  <1>1. \A x \in Wave : (InQueue(x)' <=> InQueue(x)) /\ (Ended(x)' <=> Ended(x))
    BY <1>0 DEF InQueue, Ended, Received, Lost
  <1>2. QueueOnce' /\ ReceivedOnce' /\ EndsOnce'
    <2>1. \A x \in Wave : (Received(x)' <=> Received(x)) /\ (Lost(x)' <=> Lost(x))
      BY <1>0 DEF Received, Lost
    <2> QED BY <1>0, <2>1 DEF QueueOnce, ReceivedOnce, EndsOnce
  <1>3. ~Somewhere(out'[s])
    <2>1. out'[s].nr = count[s] + 1 /\ out'[s].from = s /\ out'[s] \in Wave
      BY SendMakes
    <2>2. count[s] \in Nat
      BY DEF TypeOK
    <2>3. ~(out'[s].nr <= count[out'[s].from])
      BY <2>1, <2>2
    <2> QED BY <2>1, <2>3 DEF SentOnly
  <1>4. out[s] = NoWave
    BY DEF Send, TypeOK
  <1>5. OwnWaves'
    BY <1>4, SendMakes DEF OwnWaves
  <1>6. \A x \in Wave : out'[x.from] = x <=> out[x.from] = x \/ x = out'[s]
    <2> SUFFICES ASSUME NEW x \in Wave
                 PROVE  out'[x.from] = x <=> out[x.from] = x \/ x = out'[s]
      OBVIOUS
    <2>1. x.from \in Senders /\ x # NoWave
      BY WaveFields
    <2>2. CASE x.from = s
      BY <1>4, <2>1, <2>2
    <2>3. CASE x.from # s
      BY <2>1, <2>3, SendMakes
    <2> QED BY <2>2, <2>3
  <1>7. \A x \in Wave : Somewhere(x)' <=> Somewhere(x) \/ x = out'[s]
    BY <1>0, <1>1, <1>6 DEF Somewhere
  <1>8. Apart'
    BY <1>0, <1>1, <1>3, <1>6 DEF Apart, Somewhere
  <1>9. SentOnly'
    <2> SUFFICES ASSUME NEW x \in Wave, Somewhere(x)'
                 PROVE  x.nr <= count'[x.from]
      BY DEF SentOnly
    <2>1. x.from \in Senders /\ x.nr \in Nat /\ count[x.from] \in Nat /\ count[s] \in Nat
      BY WaveFields DEF TypeOK
    <2>2. count'[x.from] = IF x.from = s THEN count[s] + 1 ELSE count[x.from]
      BY <2>1 DEF Send, TypeOK
    <2>3. CASE x = out'[s]
      BY <2>1, <2>2, <2>3, SendMakes
    <2>4. CASE Somewhere(x)
      BY <2>1, <2>2, <2>4 DEF SentOnly
    <2> QED BY <1>7, <2>3, <2>4
  <1> QED BY <1>2, <1>5, <1>7, <1>8, <1>9

\* The wave polled leaves the queue.
LEMMA PollKeepsPlaces ==
  ASSUME TypeOK, Places, Poll
  PROVE  Places' /\ \A x \in Wave : Somewhere(x)' <=> Somewhere(x)
  <1> USE DEF Places
  <1>1. CASE queue = <<>>
    <2>1. UNCHANGED <<queue, held, out, count, ends>>
      BY <1>1 DEF Poll, sender
    <2> QED BY <2>1, PlacesKept
  <1>2. CASE queue # <<>>
    <2>1. /\ held = NoWave /\ held' = Head(queue) /\ queue' = Tail(queue) /\ out' = out
          /\ count' = count /\ received' = received /\ lost' = lost
      BY <1>2 DEF Poll, TypeOK, sender, ends
    <2>2. /\ queue \in Seq(Wave) /\ Len(queue) \in Nat /\ Len(queue) > 0
          /\ DOMAIN queue = 1 .. Len(queue)
          /\ held' = queue[1] /\ held' \in Wave
          /\ DOMAIN queue' = 1 .. (Len(queue) - 1)
          /\ \A i \in 1 .. (Len(queue) - 1) : queue'[i] = queue[i + 1]
      BY <1>2, <2>1 DEF TypeOK
    <2>3. QueueOnce'
      <3> SUFFICES ASSUME NEW i \in 1 .. (Len(queue) - 1), NEW j \in 1 .. (Len(queue) - 1),
                          queue'[i] = queue'[j]
                   PROVE  i = j
        BY <2>2 DEF QueueOnce
      <3>1. i + 1 \in DOMAIN queue /\ j + 1 \in DOMAIN queue
        BY <2>2
      <3>2. i + 1 = j + 1
        BY <2>2, <3>1 DEF QueueOnce
      <3> QED BY <3>2
    <2>4. \A x \in Wave : InQueue(x)' <=> InQueue(x) /\ x # held'
      <3> SUFFICES ASSUME NEW x \in Wave PROVE InQueue(x)' <=> InQueue(x) /\ x # held'
        OBVIOUS
      <3>1. ASSUME InQueue(x)' PROVE InQueue(x) /\ x # held'
        <4>1. PICK i \in 1 .. (Len(queue) - 1) : queue'[i] = x
          BY <2>2, <3>1 DEF InQueue
        <4>2. i + 1 \in DOMAIN queue /\ 1 \in DOMAIN queue /\ i + 1 # 1 /\ queue[i + 1] = x
          BY <2>2, <4>1
        <4> QED BY <2>2, <4>2 DEF InQueue, QueueOnce
      <3>2. ASSUME InQueue(x), x # held' PROVE InQueue(x)'
        <4>1. PICK i \in 1 .. Len(queue) : queue[i] = x
          BY <2>2, <3>2 DEF InQueue
        <4>2. i # 1
          BY <2>2, <3>2, <4>1
        <4>3. i - 1 \in 1 .. (Len(queue) - 1) /\ queue'[i - 1] = queue[(i - 1) + 1] /\ (i - 1) + 1 = i
          BY <2>2, <4>2
        <4> QED BY <2>2, <4>1, <4>3 DEF InQueue
      <3> QED BY <3>1, <3>2
    <2>5. InQueue(held')
      <3>1. 1 \in DOMAIN queue
        BY <2>2
      <3> QED BY <2>2, <3>1 DEF InQueue
    <2>6. \A x \in Wave : (Received(x)' <=> Received(x)) /\ (Lost(x)' <=> Lost(x))
      BY <2>1 DEF Received, Lost
    <2>7. \A x \in Wave : held # x
      BY <2>1, WaveFields
    <2>8. \A x \in Wave : Somewhere(x)' <=> Somewhere(x)
      BY <2>1, <2>4, <2>5, <2>6, <2>7 DEF Somewhere, Ended
    <2>9. Apart'
      BY <2>1, <2>2, <2>4, <2>5, <2>6 DEF Apart, Ended
    <2>10. SentOnly'
      BY <2>1, <2>8 DEF SentOnly
    <2>11. ReceivedOnce' /\ EndsOnce' /\ OwnWaves'
      BY <2>1, <2>6 DEF ReceivedOnce, EndsOnce, OwnWaves
    <2> QED BY <2>3, <2>8, <2>9, <2>10, <2>11
  <1> QED BY <1>1, <1>2

\* The wave enqueued leaves the hands of its sender.
LEMMA EnqueueKeepsPlaces ==
  ASSUME TypeOK, Places, NEW s \in Senders, Enqueue(s)
  PROVE  Places' /\ \A x \in Wave : Somewhere(x)' <=> Somewhere(x)
  <1> USE DEF Places
  <1>0. PICK w : w = out[s]
    OBVIOUS
  <1>1. w \in Wave /\ w.from = s /\ w # NoWave
    BY <1>0, WaveFields DEF Enqueue, TypeOK, OwnWaves
  <1>2. out' = [out EXCEPT ![s] = NoWave] /\ count' = count /\ held' = held
    BY DEF Enqueue, Return, thread
  <1>3. CASE queueNull
    <2>1. EndOf(w) /\ queue' = queue
      BY <1>0, <1>3 DEF Enqueue, EndOf
    <2> QED BY <1>0, <1>1, <1>2, <2>1, EndKeepsPlaces
  <1>4. CASE ~queueNull
    <2>1. queue' = Append(queue, w) /\ received' = received /\ lost' = lost
      BY <1>0, <1>4 DEF Enqueue, ends
    <2>2. /\ queue \in Seq(Wave) /\ Len(queue) \in Nat
          /\ DOMAIN queue = 1 .. Len(queue)
          /\ DOMAIN queue' = 1 .. (Len(queue) + 1)
          /\ queue'[Len(queue) + 1] = w
          /\ \A i \in 1 .. Len(queue) : queue'[i] = queue[i]
      BY <1>1, <2>1 DEF TypeOK
    <2>3. ~InQueue(w) /\ held # w /\ ~Ended(w)
      BY <1>0, <1>1 DEF Apart
    <2>4. \A i \in DOMAIN queue : queue[i] # w
      BY <2>3 DEF InQueue
    <2>5. QueueOnce'
      <3> SUFFICES ASSUME NEW i \in 1 .. (Len(queue) + 1), NEW j \in 1 .. (Len(queue) + 1),
                          queue'[i] = queue'[j]
                   PROVE  i = j
        BY <2>2 DEF QueueOnce
      <3>1. \A k \in 1 .. (Len(queue) + 1) : k = Len(queue) + 1 \/ k \in 1 .. Len(queue)
        BY <2>2
      <3> QED BY <2>2, <2>4, <3>1 DEF QueueOnce
    <2>6. \A x \in Wave : InQueue(x)' <=> InQueue(x) \/ x = w
      <3>1. InQueue(w)'
        <4>1. Len(queue) + 1 \in 1 .. (Len(queue) + 1)
          BY <2>2
        <4> QED BY <2>2, <4>1 DEF InQueue
      <3>2. \A x \in Wave : InQueue(x) => InQueue(x)'
        <4>1. \A k \in 1 .. Len(queue) : k \in 1 .. (Len(queue) + 1)
          BY <2>2
        <4> QED BY <2>2, <4>1 DEF InQueue
      <3>3. \A x \in Wave : InQueue(x)' => InQueue(x) \/ x = w
        <4>1. \A k \in 1 .. (Len(queue) + 1) : k = Len(queue) + 1 \/ k \in 1 .. Len(queue)
          BY <2>2
        <4> QED BY <2>2, <4>1 DEF InQueue
      <3> QED BY <3>1, <3>2, <3>3
    <2>7. \A x \in Wave : out'[x.from] = x <=> out[x.from] = x /\ x # w
      <3> SUFFICES ASSUME NEW x \in Wave
                   PROVE  out'[x.from] = x <=> out[x.from] = x /\ x # w
        OBVIOUS
      <3>1. x.from \in Senders /\ x # NoWave
        BY WaveFields
      <3>2. out'[x.from] = IF x.from = s THEN NoWave ELSE out[x.from]
        BY <1>2, <3>1 DEF TypeOK
      <3> QED BY <1>0, <1>1, <3>1, <3>2
    <2>8. \A x \in Wave : (Received(x)' <=> Received(x)) /\ (Lost(x)' <=> Lost(x))
      BY <2>1 DEF Received, Lost
    <2>9. out[w.from] = w
      BY <1>0, <1>1
    <2>10. \A x \in Wave : Somewhere(x)' <=> Somewhere(x)
      BY <1>2, <2>6, <2>7, <2>8, <2>9 DEF Somewhere, Ended
    <2>11. Apart'
      BY <1>1, <1>2, <2>3, <2>6, <2>7, <2>8 DEF Apart, Ended
    <2>12. SentOnly'
      BY <1>2, <2>10 DEF SentOnly
    <2>13. ReceivedOnce' /\ EndsOnce'
      BY <2>1, <2>8 DEF ReceivedOnce, EndsOnce
    <2>14. OwnWaves'
      BY <1>2 DEF OwnWaves, TypeOK
    <2> QED BY <2>5, <2>10, <2>11, <2>12, <2>13, <2>14
  <1> QED BY <1>3, <1>4

\* The waves that stop() finds in the queue are lost, every one.
LEMMA StopKeepsPlaces ==
  ASSUME TypeOK, Places, StopClear \/ StopJoin
  PROVE  Places' /\ \A x \in Wave : Somewhere(x)' <=> Somewhere(x)
  <1> USE DEF Places
  <1>1. /\ queue' = <<>> /\ held' = held /\ out' = out /\ count' = count /\ received' = received
        /\ lost' = lost \cup {queue[i] : i \in DOMAIN queue}
    BY DEF StopClear, StopJoin, thread, sender
  <1>3. \A x \in Wave : ~InQueue(x)' /\ (Received(x)' <=> Received(x))
    BY <1>1 DEF InQueue, Received
  <1>4. \A x \in Wave : Lost(x)' <=> Lost(x) \/ InQueue(x)
    BY <1>1 DEF Lost, InQueue
  <1>5. \A x \in Wave : Somewhere(x)' <=> Somewhere(x)
    BY <1>1, <1>3, <1>4 DEF Somewhere, Ended
  <1>6. QueueOnce' /\ ReceivedOnce' /\ OwnWaves'
    BY <1>1 DEF QueueOnce, ReceivedOnce, OwnWaves
  <1>7. EndsOnce' /\ Apart'
    BY <1>1, <1>3, <1>4 DEF EndsOnce, Apart, Ended
  <1>8. SentOnly'
    BY <1>1, <1>5 DEF SentOnly
  <1> QED BY <1>5, <1>6, <1>7, <1>8

LEMMA InitPlaces ==
  ASSUME Init
  PROVE  Places
  <1>1. \A w \in Wave : ~InQueue(w) /\ ~Received(w) /\ ~Lost(w)
    BY DEF Init, InQueue, Received, Lost
  <1>2. \A w \in Wave : held # w /\ out[w.from] # w
    BY WaveFields DEF Init
  <1>3. QueueOnce /\ ReceivedOnce /\ OwnWaves
    BY DEF Init, QueueOnce, ReceivedOnce, OwnWaves
  <1> QED BY <1>1, <1>2, <1>3 DEF Places, EndsOnce, Apart, SentOnly, Somewhere, Ended

LEMMA StepPlaces ==
  ASSUME TypeOK, Places, [Next]_vars
  PROVE  Places' /\ \A x \in Wave : Somewhere(x) => Somewhere(x)'
<1>1. CASE Start \/ StopFlag
  BY <1>1, PlacesKept DEF Start, StopFlag, thread, sender
<1>2. CASE StopClear \/ StopJoin
  BY <1>2, StopKeepsPlaces
<1>3. CASE Loop \/ Look \/ Wake
  BY <1>3, PlacesKept DEF Loop, Look, Wake, sender
<1>4. CASE Poll
  BY <1>4, PollKeepsPlaces
<1>5. CASE ThreadCheck \/ ThreadGet \/ ThreadReceive
  <2>1. UNCHANGED <<queue, out, count>>
    BY <1>5 DEF ThreadCheck, ThreadGet, ThreadReceive, sender
  <2>2. CASE UNCHANGED <<held, ends>>
    BY <2>1, <2>2, PlacesKept
  <2>3. CASE held \in Wave /\ held' = NoWave /\ EndOf(held)
    <3>1. PICK w \in Wave : w = held
      BY <2>3
    <3>2. EndOf(w)
      BY <2>3, <3>1
    <3> QED BY <2>1, <2>3, <3>1, <3>2, EndKeepsPlaces
  <2> QED BY <1>5, <2>2, <2>3, DeliveryEnds
<1>6. ASSUME NEW s \in Senders, Send(s) PROVE Places' /\ \A x \in Wave : Somewhere(x) => Somewhere(x)'
  BY <1>6, SendKeepsPlaces
<1>7. ASSUME NEW s \in Senders, ReadFlag(s) PROVE Places' /\ \A x \in Wave : Somewhere(x) => Somewhere(x)'
  BY <1>7, PlacesKept DEF ReadFlag, thread
<1>8. ASSUME NEW s \in Senders, Enqueue(s) PROVE Places' /\ \A x \in Wave : Somewhere(x) => Somewhere(x)'
  BY <1>8, EnqueueKeepsPlaces
<1>9. ASSUME NEW s \in Senders, SenderCheck(s) \/ SenderGet(s) \/ SenderReceive(s)
      PROVE  Places' /\ \A x \in Wave : Somewhere(x) => Somewhere(x)'
  <2>1. UNCHANGED <<queue, held, count>>
    BY <1>9 DEF SenderCheck, SenderGet, SenderReceive, Return, thread
  <2>2. CASE UNCHANGED <<out, ends>>
    BY <2>1, <2>2, PlacesKept
  <2>3. CASE out[s] \in Wave /\ EndOf(out[s]) /\ out' = [out EXCEPT ![s] = NoWave]
    <3>1. PICK w \in Wave : w = out[s]
      BY <2>3
    <3>2. EndOf(w)
      BY <2>3, <3>1
    <3> QED BY <2>1, <2>3, <3>1, <3>2, EndKeepsPlaces
  <2> QED BY <1>9, <2>2, <2>3, DeliveryEnds
<1>10. ASSUME NEW r \in Receivers, Register(r) \/ PostStop(r) \/ Unregister(r)
       PROVE  Places' /\ \A x \in Wave : Somewhere(x) => Somewhere(x)'
  BY <1>10, PlacesKept DEF Register, PostStop, Unregister, thread, sender
<1>11. CASE UNCHANGED vars
  BY <1>11, PlacesKept DEF vars, thread, sender
<1> QED
  BY <1>1, <1>2, <1>3, <1>4, <1>5, <1>6, <1>7, <1>8, <1>9, <1>10, <1>11 DEF Next, Thread, Sending

\* No wave is doubled, for any senders, inboxes, starts and stops.
THEOREM WavesOnlyOnce == Spec => []OnlyOnce
<1>1. Init => Places
  BY InitPlaces
<1>2. TypeOK /\ Places /\ [Next]_vars => Places'
  BY StepPlaces
<1> QED BY <1>1, <1>2, PylonType, PlacesFacts, PTL DEF Spec

\* No wave disappears: every wave a sender has sent is in one of these places.
THEOREM WavesAreSomewhere == Spec => []NothingVanishes
<1> DEFINE All == \A s \in Senders : \A n \in 1 .. count[s] : \E m \in Names :
                      Somewhere([from |-> s, nr |-> n, to |-> m])
<1>0. TypeOK => \A s \in Senders : \A n \in 1 .. count[s] : \A m \in Names :
                    [from |-> s, nr |-> n, to |-> m] \in Wave
  <2> SUFFICES ASSUME TypeOK, NEW s \in Senders, NEW n \in 1 .. count[s], NEW m \in Names
               PROVE  [from |-> s, nr |-> n, to |-> m] \in [from : {s}, nr : 1 .. Quota[s], to : Names]
    BY DEF Wave
  <2>1. count[s] \in Nat /\ count[s] <= Quota[s] /\ Quota[s] \in Nat
    BY DEF TypeOK
  <2> QED BY <2>1
<1>1. Init => Places /\ All
  <2>1. Init => Places
    BY InitPlaces
  <2>2. Init => \A s \in Senders : 1 .. count[s] = {}
    BY DEF Init
  <2> QED BY <2>1, <2>2
<1>2. TypeOK /\ Places /\ All /\ [Next]_vars => Places' /\ All'
  <2> SUFFICES ASSUME TypeOK, Places, All, [Next]_vars PROVE All'
    BY StepPlaces
  <2> SUFFICES ASSUME NEW s \in Senders, NEW n \in 1 .. count'[s]
               PROVE  \E m \in Names : Somewhere([from |-> s, nr |-> n, to |-> m])'
    OBVIOUS
  <2>1. CASE n \in 1 .. count[s]
    <3>1. PICK m \in Names : Somewhere([from |-> s, nr |-> n, to |-> m])
      BY <2>1
    <3>2. [from |-> s, nr |-> n, to |-> m] \in Wave
      BY <1>0, <2>1
    <3> QED BY <3>1, <3>2, StepPlaces
  <2>2. CASE n \notin 1 .. count[s]
    <3>1. Send(s)
      <4>1. PICK u \in Senders : Send(u)
        <5>1. count' # count
          BY <2>2
        <5> QED BY <5>1 DEF Next, Start, StopFlag, StopClear, StopJoin, Thread, Loop, Look, Wake,
              Poll, ThreadCheck, ThreadGet, ThreadReceive, Sending, ReadFlag, Enqueue, SenderCheck,
              SenderGet, SenderReceive, Return, Register, PostStop, Unregister, vars, sender
      <4>2. u = s
        BY <2>2, <4>1 DEF Send, TypeOK
      <4> QED BY <4>1, <4>2
    <3>2. PICK m \in Names : out' = [out EXCEPT ![s] = [from |-> s, nr |-> count[s] + 1, to |-> m]]
      BY <3>1 DEF Send
    <3>3. n = count[s] + 1
      BY <2>2, <3>1 DEF Send, TypeOK
    <3>4. out'[s] = [from |-> s, nr |-> n, to |-> m]
      BY <3>2, <3>3 DEF TypeOK
    <3> QED BY <3>4 DEF Somewhere
  <2> QED BY <2>1, <2>2
<1>3. All => NothingVanishes
  BY DEF Somewhere, Ended, NothingVanishes
<1> QED BY <1>1, <1>2, <1>3, PylonType, PTL DEF Spec

\* A wave that was sent is with its sender, in the queue, with the message thread,
\* received or lost, and in one of these places only.
THEOREM WavesInOnePlace == Spec => []OnePlace
BY WavesOnlyOnce, WavesAreSomewhere, PTL DEF OnePlace

-----------------------------------------------------------------------------
\* What the table of receivers means, for any number of inboxes of a name: an agent
\* that nobody of its name has registered after is the one that is reached, however
\* late the others are signalled their stop, and nobody who has left is.
THEOREM RegisteredIsReached == Spec => []RunningIsReached
<1>1. Init => RunningIsReached
  BY DEF Init, RunningIsReached
<1>2. TypeOK /\ RunningIsReached /\ [Next]_vars => RunningIsReached'
  <2> SUFFICES ASSUME TypeOK, RunningIsReached, [Next]_vars PROVE RunningIsReached'
    OBVIOUS
  <2>1. CASE UNCHANGED <<receivers, agent, overtaken>>
    BY <2>1 DEF RunningIsReached
  <2>2. ASSUME NEW r \in Receivers, Register(r) PROVE RunningIsReached'
    <3>1. /\ agent' = [agent EXCEPT ![r] = "in"] /\ overtaken' = overtaken \cup OfSameName(r)
          /\ receivers' = [receivers EXCEPT ![NameOf[r]] = r] /\ agent[r] = "out"
      BY <2>2 DEF Register, MayStart
    <3>2. ASSUME NEW q \in Receivers, agent'[q] # "out", q \notin overtaken'
          PROVE  receivers'[NameOf[q]] = q
      <4>1. q = r \/ NameOf[q] # NameOf[r]
        BY <3>1, <3>2 DEF OfSameName, TypeOK
      <4> QED BY <3>1, <3>2, <4>1 DEF RunningIsReached, TypeOK
    <3>3. ASSUME NEW n \in Names, receivers'[n] # NoReceiver
          PROVE  agent'[receivers'[n]] # "out" /\ NameOf[receivers'[n]] = n
      BY <3>1, <3>3 DEF RunningIsReached, TypeOK
    <3> QED BY <3>2, <3>3 DEF RunningIsReached
  <2>3. ASSUME NEW r \in Receivers, PostStop(r) PROVE RunningIsReached'
    <3>1. /\ agent' = [agent EXCEPT ![r] = "stopping"] /\ agent[r] = "in"
          /\ receivers' = receivers /\ overtaken' = overtaken
      BY <2>3 DEF PostStop
    <3>2. \A q \in Receivers : agent'[q] # "out" <=> agent[q] # "out"
      BY <3>1 DEF TypeOK
    <3>3. \A n \in Names : receivers[n] # NoReceiver => receivers[n] \in Receivers
      BY DEF TypeOK
    <3> QED BY <3>1, <3>2, <3>3 DEF RunningIsReached
  <2>4. ASSUME NEW r \in Receivers, Unregister(r) PROVE RunningIsReached'
    <3>1. /\ agent' = [agent EXCEPT ![r] = "out"] /\ overtaken' = overtaken \ {r}
          /\ receivers' = IF receivers[NameOf[r]] = r
                          THEN [receivers EXCEPT ![NameOf[r]] = NoReceiver] ELSE receivers
      BY <2>4 DEF Unregister
    <3>2. ASSUME NEW q \in Receivers, agent'[q] # "out", q \notin overtaken'
          PROVE  receivers'[NameOf[q]] = q
      <4>1. q # r /\ agent[q] # "out" /\ q \notin overtaken
        BY <3>1, <3>2 DEF TypeOK
      <4>2. receivers[NameOf[q]] = q
        BY <4>1 DEF RunningIsReached
      <4> QED BY <3>1, <4>1, <4>2 DEF TypeOK
    <3>3. ASSUME NEW n \in Names, receivers'[n] # NoReceiver
          PROVE  agent'[receivers'[n]] # "out" /\ NameOf[receivers'[n]] = n
      <4>1. receivers'[n] = receivers[n] /\ receivers[n] \in Receivers
        BY <3>1, <3>3 DEF TypeOK
      <4>2. agent[receivers[n]] # "out" /\ NameOf[receivers[n]] = n
        BY <3>3, <4>1 DEF RunningIsReached
      <4>3. receivers[n] # r
        BY <3>1, <3>3, <4>1, <4>2 DEF TypeOK
      <4> QED BY <3>1, <4>1, <4>2, <4>3 DEF TypeOK
    <3> QED BY <3>2, <3>3 DEF RunningIsReached
  <2> QED
    BY <2>1, <2>2, <2>3, <2>4 DEF Next, Start, StopFlag, StopClear, StopJoin, Thread, Loop, Look,
       Wake, Poll, ThreadCheck, ThreadGet, ThreadReceive, Send, Sending, ReadFlag, Enqueue,
       SenderCheck, SenderGet, SenderReceive, vars, agents
<1> QED BY <1>1, <1>2, PylonType, PTL DEF Spec

\* poll() only comes back with null, and the message thread only dies of it, after
\* a stop.
THEOREM PollFinds == Spec => []PollFindsUnlessStopped
<1>1. Init => PollFindsUnlessStopped
  BY DEF Init, PollFindsUnlessStopped
<1>2. TypeOK /\ Threads /\ PollFindsUnlessStopped /\ [Next]_vars => PollFindsUnlessStopped'
  <2> SUFFICES ASSUME TypeOK, Threads, PollFindsUnlessStopped, [Next]_vars
               PROVE  PollFindsUnlessStopped'
    OBVIOUS
  <2>1. CASE Start \/ StopFlag \/ StopClear \/ StopJoin
    BY <2>1 DEF Start, StopFlag, StopClear, StopJoin, thread, TypeOK, Threads, PollFindsUnlessStopped
  <2>2. CASE Thread
    BY <2>2 DEF Thread, Loop, Look, Wake, Poll, ThreadCheck, ThreadGet, ThreadReceive, pylon,
               PollFindsUnlessStopped
  <2>3. ASSUME NEW s \in Senders,
               Send(s) \/ ReadFlag(s) \/ SenderCheck(s) \/ SenderGet(s) \/ SenderReceive(s)
        PROVE  PollFindsUnlessStopped'
    BY <2>3 DEF Send, ReadFlag, SenderCheck, SenderGet, SenderReceive, pylon, thread,
               PollFindsUnlessStopped
  <2>4. ASSUME NEW s \in Senders, Enqueue(s) PROVE PollFindsUnlessStopped'
    <3>1. out[s] \in Wave
      BY <2>4 DEF Enqueue, TypeOK
    <3>2. Append(queue, out[s]) # <<>>
      <4>1. queue \in Seq(Wave)
        BY DEF TypeOK
      <4>2. \A q \in Seq(Wave), w \in Wave : Append(q, w) # <<>>
        OBVIOUS
      <4> QED BY <3>1, <4>1, <4>2
    <3> QED BY <2>4, <3>2 DEF Enqueue, pylon, thread, PollFindsUnlessStopped
  <2>5. ASSUME NEW r \in Receivers, Register(r) \/ PostStop(r) \/ Unregister(r)
        PROVE  PollFindsUnlessStopped'
    BY <2>5 DEF Register, PostStop, Unregister, pylon, thread, PollFindsUnlessStopped
  <2>6. CASE UNCHANGED vars
    BY <2>6 DEF vars, pylon, thread, PollFindsUnlessStopped
  <2> QED BY <2>1, <2>2, <2>3, <2>4, <2>5, <2>6 DEF Next, Sending
<1>3. TypeOK /\ Threads /\ [Next]_vars => TypeOK' /\ Threads'
  BY StepType, StepThreads
<1> QED BY InitType, <1>1, <1>2, <1>3, PTL DEF Spec

\* When stop() has returned, the message thread delivers nothing, in any run.
THEOREM StoppedDelivers == Spec => StoppedIsOver
<1> DEFINE Own == keeper = "down" => \A r \in Receivers : \A i \in DOMAIN received'[r] :
                      i > Len(received[r]) => received'[r][i].how = "direct"
<1>1. TypeOK /\ Threads /\ [Next]_vars => [Own]_vars
  <2> SUFFICES ASSUME TypeOK, Threads, [Next]_vars, keeper = "down",
                      NEW r \in Receivers, NEW i \in DOMAIN received'[r], i > Len(received[r])
               PROVE  received'[r][i].how = "direct"
    OBVIOUS
  <2>1. received' # received
    BY DEF TypeOK
  <2>2. ~Thread
    BY <2>1 DEF Threads, Thread, Loop, Look, Wake, Poll, ThreadCheck, ThreadGet, ThreadReceive
  <2>3. \E s \in Senders : SenderReceive(s) /\ ~Lose(out[s])
    BY <2>1, <2>2 DEF Next, Start, StopFlag, StopClear, StopJoin, Send, Sending, ReadFlag, Enqueue,
       SenderCheck, SenderGet, Lose, Register, PostStop, Unregister, vars, ends, TypeOK
  <2>4. PICK s \in Senders : SenderReceive(s) /\ ~Lose(out[s])
    BY <2>3
  <2>5. PICK w \in Wave, q \in Receivers : w = out[s] /\ q = dest[s]
    BY <2>4 DEF SenderReceive, TypeOK
  <2>6. received' = [received EXCEPT ![q] = Append(received[q], [wave |-> w, how |-> "direct"])]
    BY <2>4, <2>5 DEF SenderReceive, Receive, Take
  <2>7. r = q
    BY <2>6 DEF TypeOK
  <2>8. received'[r] = Append(received[r], [wave |-> w, how |-> "direct"])
    BY <2>6, <2>7 DEF TypeOK
  <2>9. received[r] \in Seq(Post) /\ [wave |-> w, how |-> "direct"] \in Post
    BY DEF TypeOK, Post
  <2>10. i = Len(received[r]) + 1
    BY <2>8, <2>9
  <2> QED BY <2>8, <2>9, <2>10
<1>2. TypeOK /\ Threads /\ [Next]_vars => TypeOK' /\ Threads'
  BY StepType, StepThreads
<1> QED BY InitType, <1>1, <1>2, PTL DEF Spec, StoppedIsOver

-----------------------------------------------------------------------------
(* Proof of the order of LocalPylon.  A sender numbers its waves: Numbers  *)
(* says that what has left its hands is older than what is in them, InLine *)
(* that received, held and queued waves follow each other, and Direct that *)
(* the message thread has at most one wave left when a sender delivers by  *)
(* itself.                                                                 *)

Older(w) == w.nr <= count[w.from] /\ (out[w.from] # NoWave => w.nr < count[w.from])

Numbers ==
    /\ \A s \in Senders : out[s] # NoWave => out[s].from = s /\ out[s].nr = count[s]
    /\ \A i \in DOMAIN queue : Older(queue[i])
    /\ held # NoWave => Older(held)
    /\ \A r \in Receivers : \A i \in DOMAIN received[r] : Older(received[r][i].wave)

Before(v, w) == v.from = w.from => v.nr < w.nr

InLine ==
    /\ \A i, j \in DOMAIN queue : i < j => Before(queue[i], queue[j])
    /\ held # NoWave => \A i \in DOMAIN queue : Before(held, queue[i])
    /\ \A r \in Receivers : \A k \in DOMAIN received[r] : received[r][k].how = "queued" =>
          /\ held # NoWave => Before(received[r][k].wave, held)
          /\ \A i \in DOMAIN queue : Before(received[r][k].wave, queue[i])

Direct ==
    /\ useThread =>
          /\ \A s \in Senders : pc[s] \notin {"check", "get", "receive"}
          /\ \A r \in Receivers : \A i \in DOMAIN received[r] : received[r][i].how = "queued"
    /\ \A r \in Receivers : \A i, k, l \in DOMAIN received[r] :
          received[r][i].how = "direct" /\ k > i /\ l > i
             /\ received[r][k].how = "queued" /\ received[r][l].how = "queued" => k = l
    /\ worker \in {"look", "poll", "check", "get", "receive"} =>
          \A r \in Receivers : \A i, k \in DOMAIN received[r] :
              received[r][i].how = "direct" /\ k > i => received[r][k].how # "queued"

Ordered ==
    \A r \in Receivers : \A i, j \in DOMAIN received[r] :
        i < j => \/ Before(received[r][i].wave, received[r][j].wave)
                 \/ received[r][i].how = "direct" /\ received[r][j].how = "queued"

OrderInv == Numbers /\ InLine /\ Direct /\ Ordered

\* What an inbox has.
LEMMA ReceivedFields ==
  ASSUME TypeOK, NEW r \in Receivers
  PROVE  /\ received[r] \in Seq(Post) /\ Len(received[r]) \in Nat
         /\ DOMAIN received[r] = 1 .. Len(received[r])
         /\ \A i \in DOMAIN received[r] :
                /\ i \in Nat
                /\ received[r][i].wave \in Wave
                /\ received[r][i].how \in {"queued", "direct"}
  <1>1. received[r] \in Seq(Post)
    BY DEF TypeOK, Post
  <1>2. \A i \in DOMAIN received[r] : received[r][i] \in Post
    BY <1>1
  <1>3. \A i \in DOMAIN received[r] : received[r][i].wave \in Wave /\ received[r][i].how \in {"queued", "direct"}
    BY <1>2 DEF Post
  <1> QED BY <1>1, <1>3

LEMMA QueueFields ==
  ASSUME TypeOK
  PROVE  /\ queue \in Seq(Wave) /\ Len(queue) \in Nat
         /\ DOMAIN queue = 1 .. Len(queue)
         /\ \A i \in DOMAIN queue : i \in Nat /\ queue[i] \in Wave
  <1>1. queue \in Seq(Wave)
    BY DEF TypeOK
  <1> QED BY <1>1

LEMMA OrderedFacts == TypeOK /\ Ordered /\ Direct => SenderOrder
  <1> SUFFICES ASSUME TypeOK, Ordered, Direct, NEW r \in Receivers,
                      NEW i \in DOMAIN received[r], NEW j \in DOMAIN received[r], i < j,
                      received[r][i].wave.from = received[r][j].wave.from,
                      received[r][i].wave.nr > received[r][j].wave.nr
               PROVE  /\ received[r][i].how = "direct" /\ received[r][j].how = "queued"
                      /\ \A k \in DOMAIN received[r] :
                             k > i /\ received[r][k].how = "queued" => k = j
    BY DEF SenderOrder
  <1>1. i \in Nat /\ j \in Nat /\ received[r][i].wave \in Wave /\ received[r][j].wave \in Wave
    BY ReceivedFields
  <1>2. received[r][i].wave.nr \in Nat /\ received[r][j].wave.nr \in Nat
    BY <1>1, WaveFields
  <1>3. ~Before(received[r][i].wave, received[r][j].wave)
    BY <1>2 DEF Before
  <1>4. received[r][i].how = "direct" /\ received[r][j].how = "queued"
    BY <1>3 DEF Ordered
  <1>5. j > i
    BY <1>1
  <1> QED BY <1>4, <1>5 DEF Direct

-----------------------------------------------------------------------------
(* Numbers.  A wave that was older stays older while its sender begins no  *)
(* other, and the wave that leaves a hand becomes older.                   *)
Left(w) == Older(w) \/ \E s \in Senders : out[s] = w /\ out'[s] = NoWave

\* No sender begins a wave, and the waves outside the hands were there or leave one.
Settles ==
    /\ \A s \in Senders : count'[s] = count[s] /\ out'[s] \in {NoWave, out[s]}
    /\ \A i \in DOMAIN queue' : queue'[i] \in Wave /\ Left(queue'[i])
    /\ held' # NoWave => held' \in Wave /\ Left(held')
    /\ \A r \in Receivers : \A i \in DOMAIN received'[r] :
           received'[r][i].wave \in Wave /\ Left(received'[r][i].wave)

LEMMA NumbersKept ==
  ASSUME TypeOK, Numbers, Settles
  PROVE  Numbers'
  <1>1. ASSUME NEW w \in Wave, Left(w) PROVE Older(w)'
    <2>0. w.from \in Senders /\ w.nr \in Nat /\ w # NoWave /\ count[w.from] \in Nat
      BY WaveFields DEF TypeOK
    <2>1. count'[w.from] = count[w.from] /\ out'[w.from] \in {NoWave, out[w.from]}
      BY <2>0 DEF Settles
    <2>2. CASE Older(w)
      BY <2>1, <2>2 DEF Older
    <2>3. ASSUME NEW s \in Senders, out[s] = w, out'[s] = NoWave PROVE Older(w)'
      <3>1. w.from = s /\ w.nr = count[s]
        BY <2>0, <2>3 DEF Numbers
      <3>2. out'[w.from] = NoWave /\ w.nr = count'[w.from]
        BY <2>1, <2>3, <3>1
      <3>3. w.nr <= count'[w.from]
        BY <2>0, <3>2
      <3> QED BY <3>2, <3>3 DEF Older
    <2> QED BY <1>1, <2>2, <2>3 DEF Left
  <1>2. \A s \in Senders : out'[s] # NoWave => out'[s].from = s /\ out'[s].nr = count'[s]
    <2> SUFFICES ASSUME NEW s \in Senders, out'[s] # NoWave
                 PROVE  out'[s].from = s /\ out'[s].nr = count'[s]
      OBVIOUS
    <2>1. out'[s] = out[s] /\ count'[s] = count[s]
      BY DEF Settles
    <2> QED BY <2>1 DEF Numbers
  <1>3. \A i \in DOMAIN queue' : Older(queue[i])'
    BY <1>1 DEF Settles
  <1>4. held' # NoWave => Older(held)'
    BY <1>1 DEF Settles
  <1>5. \A r \in Receivers : \A i \in DOMAIN received'[r] : Older(received[r][i].wave)'
    BY <1>1 DEF Settles
  <1> QED BY <1>2, <1>3, <1>4, <1>5 DEF Numbers

\* What is outside the hands and stays there.
LEMMA Stays ==
  ASSUME TypeOK, Numbers
  PROVE  /\ \A i \in DOMAIN queue : queue[i] \in Wave /\ Left(queue[i])
         /\ held # NoWave => held \in Wave /\ Left(held)
         /\ \A r \in Receivers : \A i \in DOMAIN received[r] :
                received[r][i].wave \in Wave /\ Left(received[r][i].wave)
  <1>1. \A i \in DOMAIN queue : queue[i] \in Wave
    BY QueueFields
  <1>2. held # NoWave => held \in Wave
    BY DEF TypeOK
  <1>3. \A r \in Receivers : \A i \in DOMAIN received[r] : received[r][i].wave \in Wave
    BY ReceivedFields
  <1> QED BY <1>1, <1>2, <1>3 DEF Numbers, Left

-----------------------------------------------------------------------------
\* What the actions that move no wave keep.
LEMMA OrderKept ==
  ASSUME Numbers, InLine, Ordered, UNCHANGED <<queue, held, out, count, received>>
  PROVE  Numbers' /\ InLine' /\ Ordered'
  BY DEF Numbers, InLine, Ordered, Older, Before

\* A wave that ends elsewhere than in an inbox leaves a hand, or the queue is emptied.
LEMMA LoseKeepsOrder ==
  ASSUME TypeOK, OrderInv, UNCHANGED <<count, received, useThread>>,
         queue' \in {queue, <<>>}, held' \in {NoWave, held},
         \A s \in Senders : out'[s] \in {NoWave, out[s]} /\ pc'[s] \in {"idle", pc[s]},
         worker' = worker \/ worker' \notin {"look", "poll", "check", "get", "receive"}
  PROVE  OrderInv'
  <1> USE DEF OrderInv
  <1>1. Settles
    <2>1. \A i \in DOMAIN queue' : i \in DOMAIN queue /\ queue'[i] = queue[i]
      OBVIOUS
    <2> QED BY <2>1, Stays DEF Settles
  <1>2. InLine'
    <2>1. \A i \in DOMAIN queue' : i \in DOMAIN queue /\ queue'[i] = queue[i]
      OBVIOUS
    <2> QED BY <2>1 DEF InLine, Before
  <1>3. Ordered'
    BY DEF Ordered, Before
  <1>4. Direct'
    BY DEF Direct
  <1> QED BY <1>1, <1>2, <1>3, <1>4, NumbersKept

\* What an append to the waves of one inbox changes.
LEMMA AppendEffect ==
  ASSUME TypeOK, NEW r \in Receivers, NEW p \in Post,
         received' = [received EXCEPT ![r] = Append(@, p)]
  PROVE  /\ \A q \in Receivers : \A i \in DOMAIN received'[q] :
                \/ q = r /\ i = Len(received[r]) + 1 /\ received'[q][i] = p
                \/ i \in DOMAIN received[q] /\ received'[q][i] = received[q][i]
         /\ \A i \in DOMAIN received[r] : i \in Nat /\ i < Len(received[r]) + 1
         /\ Len(received[r]) + 1 \in Nat
  <1>1. received \in [Receivers -> Seq(Post)]
    BY DEF TypeOK, Post
  <1>2. /\ \A q \in Receivers \ {r} : received'[q] = received[q]
        /\ received'[r] = Append(received[r], p)
    BY <1>1
  <1>3. /\ Len(received[r]) \in Nat
        /\ DOMAIN received[r] = 1 .. Len(received[r])
        /\ DOMAIN received'[r] = 1 .. (Len(received[r]) + 1)
        /\ \A i \in 1 .. Len(received[r]) : received'[r][i] = received[r][i]
        /\ received'[r][Len(received[r]) + 1] = p
    BY <1>1, <1>2
  <1> QED BY <1>2, <1>3

\* The message thread delivers the wave it holds: it is newer than what the thread
\* has delivered, and the last one it delivers if a sender has begun to.
LEMMA ThreadDelivers ==
  ASSUME TypeOK, OrderInv, NEW r \in Receivers, held # NoWave, Take(held, r, "queued"),
         UNCHANGED <<queue, out, pc, count, useThread>>, held' = NoWave,
         worker = "receive", worker' = "loop"
  PROVE  OrderInv'
  <1> USE DEF OrderInv
  <1> DEFINE p == [wave |-> held, how |-> "queued"]
             n == Len(received[r]) + 1
  <1>1. held \in Wave /\ r \in Receivers /\ p \in Post
    BY DEF TypeOK, Post
  <1>2. received' = [received EXCEPT ![r] = Append(@, p)]
    BY DEF Take
  <1>3. \A q \in Receivers : \A i \in DOMAIN received'[q] :
            \/ q = r /\ i = n /\ received'[q][i].wave = held /\ received'[q][i].how = "queued"
            \/ i \in DOMAIN received[q] /\ received'[q][i] = received[q][i]
    BY <1>1, <1>2, AppendEffect
  <1>4. n \in Nat /\ \A i \in DOMAIN received[r] : i \in Nat /\ i < n
    BY <1>1, <1>2, AppendEffect
  <1>5. Settles
    BY <1>1, <1>3, Stays DEF Settles
  <1>6. InLine'
    <2> SUFFICES ASSUME NEW q \in Receivers, NEW k \in DOMAIN received'[q],
                        received'[q][k].how = "queued", NEW i \in DOMAIN queue
                 PROVE  Before(received'[q][k].wave, queue[i])
      BY DEF InLine, Before
    <2> QED BY <1>3 DEF InLine
  <1>7. Ordered'
    <2> SUFFICES ASSUME NEW q \in Receivers, NEW i \in DOMAIN received'[q],
                        NEW j \in DOMAIN received'[q], i < j
                 PROVE  \/ Before(received'[q][i].wave, received'[q][j].wave)
                        \/ received'[q][i].how = "direct" /\ received'[q][j].how = "queued"
      BY DEF Ordered, Before
    <2>1. i \in DOMAIN received[q] /\ received'[q][i] = received[q][i]
      BY <1>3, <1>4
    <2>2. CASE j \in DOMAIN received[q] /\ received'[q][j] = received[q][j]
      BY <2>1, <2>2 DEF Ordered
    <2>3. CASE received'[q][j].wave = held /\ received'[q][j].how = "queued"
      <3>1. received[q][i].how \in {"queued", "direct"}
        BY <2>1, ReceivedFields
      <3> QED BY <2>1, <2>3, <3>1 DEF InLine
    <2> QED BY <1>3, <2>2, <2>3
  <1>8. Direct'
    <2>1. useThread' => \A q \in Receivers : \A i \in DOMAIN received'[q] : received'[q][i].how = "queued"
      BY <1>3 DEF Direct
    <2>2. ASSUME NEW q \in Receivers, NEW i \in DOMAIN received'[q], NEW k \in DOMAIN received'[q],
                 received'[q][i].how = "direct", k > i, received'[q][k].how = "queued"
          PROVE  q = r /\ k = n
      <3>1. i \in DOMAIN received[q] /\ received'[q][i] = received[q][i]
        BY <1>3, <2>2
      <3>2. ~ (k \in DOMAIN received[q] /\ received'[q][k] = received[q][k])
        BY <2>2, <3>1 DEF Direct
      <3> QED BY <1>3, <3>2
    <2> QED BY <2>1, <2>2 DEF Direct
  <1> QED BY <1>5, <1>6, <1>7, <1>8, NumbersKept

\* A sender delivers the wave in its hands: it is newer than all that left them.
LEMMA SenderDelivers ==
  ASSUME TypeOK, OrderInv, NEW s \in Senders, NEW r \in Receivers,
         out[s] # NoWave, Take(out[s], r, "direct"),
         pc[s] = "receive", pc' = [pc EXCEPT ![s] = "idle"], out' = [out EXCEPT ![s] = NoWave],
         UNCHANGED <<queue, held, count, useThread, worker>>
  PROVE  OrderInv'
  <1> USE DEF OrderInv
  <1> DEFINE w == out[s]
             p == [wave |-> w, how |-> "direct"]
             n == Len(received[r]) + 1
  <1>1. w \in Wave /\ r \in Receivers /\ p \in Post
    BY DEF TypeOK, Post
  <1>2. received' = [received EXCEPT ![r] = Append(@, p)]
    BY DEF Take
  <1>3. \A q \in Receivers : \A i \in DOMAIN received'[q] :
            \/ q = r /\ i = n /\ received'[q][i].wave = w /\ received'[q][i].how = "direct"
            \/ i \in DOMAIN received[q] /\ received'[q][i] = received[q][i]
    BY <1>1, <1>2, AppendEffect
  <1>4. n \in Nat /\ \A i \in DOMAIN received[r] : i \in Nat /\ i < n
    BY <1>1, <1>2, AppendEffect
  <1>5. ~useThread
    BY DEF Direct
  <1>6. w.from = s /\ w.nr = count[s]
    BY DEF Numbers
  <1>7. Settles
    <2>1. out[s] = w /\ out'[s] = NoWave
      BY DEF TypeOK
    <2>2. \A t \in Senders : out'[t] \in {NoWave, out[t]}
      BY DEF TypeOK
    <2>3. \A q \in Receivers : \A i \in DOMAIN received'[q] :
              received'[q][i].wave \in Wave /\ Left(received'[q][i].wave)
      <3>1. Left(w)
        BY <2>1 DEF Left
      <3>2. \A q \in Receivers : \A i \in DOMAIN received[q] :
                received[q][i].wave \in Wave /\ Left(received[q][i].wave)
        BY Stays
      <3> HIDE DEF w, n, p
      <3> QED BY <1>1, <1>3, <3>1, <3>2
    <2> QED BY <2>2, <2>3, Stays DEF Settles
  <1>8. InLine'
    BY <1>3 DEF InLine, Before
  <1>9. Ordered'
    <2> SUFFICES ASSUME NEW q \in Receivers, NEW i \in DOMAIN received'[q],
                        NEW j \in DOMAIN received'[q], i < j
                 PROVE  \/ Before(received'[q][i].wave, received'[q][j].wave)
                        \/ received'[q][i].how = "direct" /\ received'[q][j].how = "queued"
      BY DEF Ordered, Before
    <2>1. i \in DOMAIN received[q] /\ received'[q][i] = received[q][i]
      BY <1>3, <1>4
    <2>2. CASE j \in DOMAIN received[q] /\ received'[q][j] = received[q][j]
      BY <2>1, <2>2 DEF Ordered
    <2>3. CASE received'[q][j].wave = w
      <3>1. Older(received[q][i].wave)
        BY <2>1 DEF Numbers
      <3>2. received[q][i].wave.from = s => received[q][i].wave.nr < w.nr
        BY <1>6, <3>1 DEF Older
      <3> QED BY <1>6, <2>1, <2>3, <3>2 DEF Before
    <2> QED BY <1>3, <2>2, <2>3
  <1>10. Direct'
    <2>1. ASSUME NEW q \in Receivers, NEW i \in DOMAIN received'[q], NEW k \in DOMAIN received'[q],
                 received'[q][i].how = "direct", k > i, received'[q][k].how = "queued"
          PROVE  /\ i \in DOMAIN received[q] /\ received'[q][i] = received[q][i]
                 /\ k \in DOMAIN received[q] /\ received'[q][k] = received[q][k]
      <3>1. k \in DOMAIN received[q] /\ received'[q][k] = received[q][k]
        BY <1>3, <2>1
      <3>2. i # n \/ q # r
        BY <1>4, <2>1, <3>1
      <3> QED BY <1>3, <3>1, <3>2
    <2> QED BY <1>5, <2>1 DEF Direct
  <1> QED BY <1>7, <1>8, <1>9, <1>10, NumbersKept

\* The head of the queue passes into the hands of the message thread.
LEMMA PollKeepsOrder ==
  ASSUME TypeOK, OrderInv, Poll
  PROVE  OrderInv'
  <1> USE DEF OrderInv
  <1>1. UNCHANGED <<out, pc, count, received, useThread>>
    BY DEF Poll, pylon, sender, ends
  <1>2. CASE queue = <<>>
    <2>1. worker' = "dead" /\ queue' = queue /\ held' = held
      BY <1>2 DEF Poll
    <2> QED BY <1>1, <2>1, OrderKept DEF Direct
  <1>3. CASE queue # <<>>
    <2>1. worker = "poll" /\ worker' = "check" /\ held' = Head(queue) /\ queue' = Tail(queue)
      BY <1>3 DEF Poll
    <2>2. /\ Len(queue) \in Nat \ {0} /\ held' = queue[1] /\ 1 \in DOMAIN queue
          /\ \A i \in DOMAIN queue' : i \in Nat /\ i + 1 \in DOMAIN queue /\ 1 < i + 1
                                       /\ queue'[i] = queue[i + 1]
      BY <1>3, <2>1, QueueFields
    <2>3. Settles
      BY <1>1, <2>2, Stays DEF Settles
    <2>4. InLine'
      <3>1. \A i, j \in DOMAIN queue' : i < j => Before(queue'[i], queue'[j])
        <4> SUFFICES ASSUME NEW i \in DOMAIN queue', NEW j \in DOMAIN queue', i < j
                     PROVE  Before(queue'[i], queue'[j])
          OBVIOUS
        <4>1. i + 1 < j + 1
          BY <2>2
        <4> QED BY <2>2, <4>1 DEF InLine
      <3>2. \A i \in DOMAIN queue' : Before(held', queue'[i])
        BY <2>2 DEF InLine
      <3>3. \A r \in Receivers : \A k \in DOMAIN received[r] : received[r][k].how = "queued" =>
                /\ Before(received[r][k].wave, held')
                /\ \A i \in DOMAIN queue' : Before(received[r][k].wave, queue'[i])
        BY <2>2 DEF InLine
      <3> QED BY <1>1, <3>1, <3>2, <3>3 DEF InLine, Before
    <2>5. Ordered'
      BY <1>1 DEF Ordered, Before
    <2>6. Direct'
      BY <1>1, <2>1 DEF Direct
    <2> QED BY <2>3, <2>4, <2>5, <2>6, NumbersKept
  <1> QED BY <1>2, <1>3

\* The wave enqueued is newer than all its sender has sent before.
LEMMA EnqueueKeepsOrder ==
  ASSUME TypeOK, OrderInv, NEW s \in Senders, Enqueue(s)
  PROVE  OrderInv'
  <1> USE DEF OrderInv
  <1>1. /\ UNCHANGED <<held, worker, count, useThread, received>>
        /\ pc' = [pc EXCEPT ![s] = "idle"] /\ out' = [out EXCEPT ![s] = NoWave]
    BY DEF Enqueue, Return, pylon, thread, ends, Lose
  <1>2. \A t \in Senders : out'[t] \in {NoWave, out[t]} /\ pc'[t] \in {"idle", pc[t]}
    BY <1>1 DEF TypeOK
  <1>3. CASE queueNull
    <2>1. queue' = queue
      BY <1>3 DEF Enqueue
    <2> QED BY <1>1, <1>2, <2>1, LoseKeepsOrder
  <1>4. CASE ~queueNull
    <2> DEFINE w == out[s]
               n == Len(queue) + 1
    <2>1. w \in Wave /\ w # NoWave /\ out'[s] = NoWave
      BY <1>1, WaveFields DEF Enqueue, TypeOK
    <2>2. queue' = Append(queue, w)
      BY <1>4 DEF Enqueue
    <2>3. /\ \A i \in DOMAIN queue' : \/ i = n /\ queue'[i] = w
                                      \/ i \in DOMAIN queue /\ queue'[i] = queue[i]
          /\ n \in Nat /\ \A i \in DOMAIN queue : i \in Nat /\ i < n
      BY <2>1, <2>2, QueueFields
    <2>4. w.from = s /\ w.nr = count[s]
      BY <2>1 DEF Numbers
    <2>5. Settles
      <3>1. Left(w)
        BY <2>1 DEF Left
      <3> QED BY <1>1, <1>2, <2>1, <2>3, <3>1, Stays DEF Settles
    <2>6. ASSUME NEW v, Older(v) PROVE Before(v, w)
      BY <2>1, <2>4, <2>6 DEF Older, Before
    <2>7. InLine'
      <3>1. \A i, j \in DOMAIN queue' : i < j => Before(queue'[i], queue'[j])
        <4> SUFFICES ASSUME NEW i \in DOMAIN queue', NEW j \in DOMAIN queue', i < j
                     PROVE  Before(queue'[i], queue'[j])
          OBVIOUS
        <4>1. i \in DOMAIN queue /\ queue'[i] = queue[i]
          BY <2>3
        <4>2. Older(queue[i])
          BY <4>1 DEF Numbers
        <4> QED BY <2>3, <2>6, <4>1, <4>2 DEF InLine
      <3>2. held # NoWave => \A i \in DOMAIN queue' : Before(held, queue'[i])
        BY <2>3, <2>6 DEF InLine, Numbers
      <3>3. \A r \in Receivers : \A k \in DOMAIN received[r] : received[r][k].how = "queued" =>
                /\ held # NoWave => Before(received[r][k].wave, held)
                /\ \A i \in DOMAIN queue' : Before(received[r][k].wave, queue'[i])
        BY <2>3, <2>6 DEF InLine, Numbers
      <3> QED BY <1>1, <3>1, <3>2, <3>3 DEF InLine, Before
    <2>8. Ordered'
      BY <1>1 DEF Ordered, Before
    <2>9. Direct'
      BY <1>1, <1>2 DEF Direct
    <2> QED BY <2>5, <2>7, <2>8, <2>9, NumbersKept
  <1> QED BY <1>3, <1>4

\* A sender begins a wave: what it has sent is older.
LEMMA SendKeepsOrder ==
  ASSUME TypeOK, OrderInv, NEW s \in Senders, Send(s)
  PROVE  OrderInv'
  <1> USE DEF OrderInv
  <1>1. UNCHANGED <<queue, held, worker, received, useThread>>
    BY DEF Send, pylon, thread, ends
  <1>2. /\ out[s] = NoWave /\ out'[s].from = s /\ out'[s].nr = count[s] + 1
        /\ \A t \in Senders \ {s} : out'[t] = out[t]
        /\ count' = [count EXCEPT ![s] = count[s] + 1]
        /\ count \in [Senders -> Nat]
    BY SendMakes DEF Send, TypeOK
  <1>3. count'[s] = count[s] + 1 /\ \A t \in Senders \ {s} : count'[t] = count[t]
    BY <1>2
  <1>4. ASSUME NEW w \in Wave, Older(w) PROVE Older(w)'
    <2>1. w.from \in Senders /\ w.nr \in Nat /\ count[w.from] \in Nat
      BY <1>2, WaveFields
    <2>2. CASE w.from = s
      <3>1. w.nr <= count[s]
        BY <1>4, <2>2 DEF Older
      <3>2. w.nr < count[s] + 1 /\ w.nr <= count[s] + 1
        BY <2>1, <2>2, <3>1
      <3> QED BY <1>3, <2>2, <3>2 DEF Older
    <2>3. CASE w.from # s
      BY <1>2, <1>3, <1>4, <2>1, <2>3 DEF Older
    <2> QED BY <2>2, <2>3
  <1>5. Numbers'
    <2>1. \A t \in Senders : out'[t] # NoWave => out'[t].from = t /\ out'[t].nr = count'[t]
      BY <1>2, <1>3 DEF Numbers
    <2>2. \A i \in DOMAIN queue' : Older(queue[i])'
      BY <1>1, <1>4, QueueFields DEF Numbers
    <2>3. held' # NoWave => Older(held)'
      BY <1>1, <1>4, Stays DEF Numbers
    <2>4. \A r \in Receivers : \A i \in DOMAIN received'[r] : Older(received[r][i].wave)'
      BY <1>1, <1>4, ReceivedFields DEF Numbers
    <2> QED BY <2>1, <2>2, <2>3, <2>4 DEF Numbers
  <1>6. InLine' /\ Ordered'
    BY <1>1 DEF InLine, Ordered, Before
  <1>7. Direct'
    BY <1>1 DEF Send, Direct, TypeOK
  <1> QED BY <1>5, <1>6, <1>7

\* deliver() by the message thread and by a sender, with what comes of it.
LEMMA ThreadDeliveryKeepsOrder ==
  ASSUME TypeOK, OrderInv, ThreadCheck \/ ThreadGet \/ ThreadReceive
  PROVE  OrderInv'
  <1>1. UNCHANGED <<queue, out, pc, count, useThread>> /\ held # NoWave /\ held \in Wave
    BY DEF ThreadCheck, ThreadGet, ThreadReceive, pylon, sender, TypeOK
  <1>2. CASE UNCHANGED <<held, received>> /\ worker \in {"check", "get"} /\ worker' \in {"get", "receive"}
    BY <1>1, <1>2, OrderKept DEF OrderInv, Direct
  <1>3. CASE UNCHANGED received /\ held' = NoWave /\ worker' \in {"loop", "dead"}
    BY <1>1, <1>3, LoseKeepsOrder
  <1>4. ASSUME NEW r \in Receivers, Take(held, r, "queued"),
               held' = NoWave, worker = "receive", worker' = "loop"
        PROVE  OrderInv'
    BY <1>1, <1>4, ThreadDelivers
  <1>5. CASE ThreadReceive
    <2>1. target \in Receivers
      BY <1>5 DEF ThreadReceive, TypeOK
    <2> QED BY <1>3, <1>4, <1>5, <2>1 DEF ThreadReceive, Receive, Lose
  <1> QED BY <1>2, <1>3, <1>5 DEF ThreadCheck, ThreadGet, Lose, ends

LEMMA SenderDeliveryKeepsOrder ==
  ASSUME TypeOK, OrderInv, NEW s \in Senders, SenderCheck(s) \/ SenderGet(s) \/ SenderReceive(s)
  PROVE  OrderInv'
  <1>1. UNCHANGED <<queue, held, worker, count, useThread>> /\ out[s] # NoWave
    BY DEF SenderCheck, SenderGet, SenderReceive, Return, pylon, thread, TypeOK
  <1>2. ASSUME UNCHANGED <<out, received>>, pc[s] \in {"check", "get"},
               NEW at \in {"get", "receive"}, pc' = [pc EXCEPT ![s] = at]
        PROVE  OrderInv'
    <2>1. ~useThread
      BY <1>2 DEF OrderInv, Direct
    <2> QED BY <1>1, <1>2, <2>1, OrderKept DEF OrderInv, Direct
  <1>3. CASE UNCHANGED received /\ Return(s)
    <2>1. \A t \in Senders : out'[t] \in {NoWave, out[t]} /\ pc'[t] \in {"idle", pc[t]}
      BY <1>3 DEF Return, TypeOK
    <2> QED BY <1>1, <1>3, <2>1, LoseKeepsOrder
  <1>4. ASSUME NEW r \in Receivers, Take(out[s], r, "direct"), Return(s), pc[s] = "receive"
        PROVE  OrderInv'
    BY <1>1, <1>4, SenderDelivers DEF Return
  <1>5. CASE SenderReceive(s)
    <2>1. dest[s] \in Receivers
      BY <1>5 DEF SenderReceive, TypeOK
    <2> QED BY <1>3, <1>4, <1>5, <2>1 DEF SenderReceive, Receive, Lose
  <1> QED BY <1>2, <1>3, <1>5 DEF SenderCheck, SenderGet, Lose, ends

LEMMA StepOrder ==
  ASSUME TypeOK, Threads, OrderInv, [Next]_vars
  PROVE  OrderInv'
<1>1. CASE Start
  <2>1. UNCHANGED <<queue, held, out, pc, count, received, useThread>> /\ worker' \in {worker, "loop"}
    BY <1>1 DEF Start, sender, ends
  <2> QED BY <2>1, OrderKept DEF OrderInv, Direct
<1>2. CASE StopFlag
  <2>1. UNCHANGED <<queue, held, out, pc, count, received, worker>> /\ useThread' = FALSE
    BY <1>2 DEF StopFlag, thread, sender, ends
  <2> QED BY <2>1, OrderKept DEF OrderInv, Direct
<1>3. CASE StopClear \/ StopJoin
  <2>1. UNCHANGED <<held, out, pc, count, received, useThread, worker>> /\ queue' = <<>>
    BY <1>3 DEF StopClear, StopJoin, thread, sender
  <2> QED BY <2>1, LoseKeepsOrder
<1>4. CASE Loop \/ Look \/ Wake
  <2>1. UNCHANGED <<queue, held, out, pc, count, received, useThread>>
    BY <1>4 DEF Loop, Look, Wake, pylon, sender, ends
  <2>2. CASE worker = "loop" /\ useThread
    <3>1. \A r \in Receivers : \A i \in DOMAIN received[r] : received[r][i].how = "queued"
      BY <2>2 DEF OrderInv, Direct
    <3> QED BY <2>1, <3>1, OrderKept DEF OrderInv, Direct
  <2>3. CASE worker' \in {"over", "loop", "waiting"}
    BY <2>1, <2>3, OrderKept DEF OrderInv, Direct
  <2>4. CASE worker = "look" /\ worker' = "poll"
    BY <2>1, <2>4, OrderKept DEF OrderInv, Direct
  <2> QED BY <1>4, <2>2, <2>3, <2>4 DEF Loop, Look, Wake
<1>5. CASE Poll
  BY <1>5, PollKeepsOrder
<1>6. CASE ThreadCheck \/ ThreadGet \/ ThreadReceive
  BY <1>6, ThreadDeliveryKeepsOrder
<1>7. ASSUME NEW s \in Senders, Send(s) PROVE OrderInv'
  BY <1>7, SendKeepsOrder
<1>8. ASSUME NEW s \in Senders, ReadFlag(s) PROVE OrderInv'
  <2>1. UNCHANGED <<queue, held, out, count, received, useThread, worker>>
    BY <1>8 DEF ReadFlag, pylon, thread, ends
  <2>2. useThread => \A t \in Senders : pc'[t] \in {pc[t], "enqueue"}
    BY <1>8 DEF ReadFlag, TypeOK
  <2> QED BY <2>1, <2>2, OrderKept DEF OrderInv, Direct
<1>9. ASSUME NEW s \in Senders, Enqueue(s) PROVE OrderInv'
  BY <1>9, EnqueueKeepsOrder
<1>10. ASSUME NEW s \in Senders, SenderCheck(s) \/ SenderGet(s) \/ SenderReceive(s)
       PROVE  OrderInv'
  BY <1>10, SenderDeliveryKeepsOrder
<1>11. ASSUME NEW r \in Receivers, Register(r) \/ PostStop(r) \/ Unregister(r) PROVE OrderInv'
  <2>1. UNCHANGED <<queue, held, out, pc, count, received, useThread, worker>>
    BY <1>11 DEF Register, PostStop, Unregister, pylon, thread, sender, ends
  <2> QED BY <2>1, OrderKept DEF OrderInv, Direct
<1>12. CASE UNCHANGED vars
  <2>1. UNCHANGED <<queue, held, out, pc, count, received, useThread, worker>>
    BY <1>12 DEF vars, pylon, thread, sender, ends
  <2> QED BY <2>1, OrderKept DEF OrderInv, Direct
<1> QED
  BY <1>1, <1>2, <1>3, <1>4, <1>5, <1>6, <1>7, <1>8, <1>9, <1>10, <1>11, <1>12 DEF Next, Thread, Sending

\* For any senders and inboxes, waves of one sender come to an inbox in the order of
\* sending; if a sender overtakes the message thread, which only a stop lets it do,
\* then by one wave, the last that the thread delivers there.
THEOREM WavesInOrder == Spec => []SenderOrder
<1>1. Init => OrderInv
  <2> SUFFICES ASSUME Init PROVE OrderInv
    OBVIOUS
  <2>1. queue = <<>> /\ held = NoWave /\ worker = "none"
    BY DEF Init
  <2>2. \A s \in Senders : out[s] = NoWave /\ pc[s] = "idle"
    BY DEF Init
  <2>3. \A r \in Receivers : DOMAIN received[r] = {}
    BY DEF Init
  <2> QED BY <2>1, <2>2, <2>3 DEF OrderInv, Numbers, InLine, Direct, Ordered
<1>2. TypeOK /\ Threads /\ OrderInv /\ [Next]_vars => OrderInv'
  BY StepOrder
<1>3. TypeOK /\ Threads /\ [Next]_vars => TypeOK' /\ Threads'
  BY StepType, StepThreads
<1>4. TypeOK /\ OrderInv => SenderOrder
  BY OrderedFacts DEF OrderInv
<1> QED BY InitType, <1>1, <1>2, <1>3, <1>4, PTL DEF Spec

=============================================================================
