----------------------------- MODULE LocalPylon -----------------------------
(***************************************************************************)
(* local/LocalPylon.java: the default pylon, which hands waves to agents   *)
(* of the same node.  While useThread holds, send() puts a wave into a     *)
(* queue that one message thread serves; otherwise the sender delivers it  *)
(* itself.  The messaging shard of an agent (AbstractMessagingShard)       *)
(* registers its inbox when the agent starts and unregisters it when the   *)
(* agent stops, and posts what it receives to the agent, which refuses it  *)
(* once a stop has been posted.                                            *)
(*                                                                         *)
(* One action is one step another thread can see: a read of useThread, a   *)
(* synchronized block, a look at the queue or at the table of receivers,   *)
(* the call of an inbox.                                                   *)
(* The wait of the message thread ends after GLOBAL_WAITING_TIME whether   *)
(* it is notified or not: Wake may happen at any time, and notify() needs  *)
(* no state.  The keeper is the node, whose start() and stop() of a pylon  *)
(* do not overlap.                                                         *)
(***************************************************************************)
EXTENDS Naturals, Sequences, FiniteSets

CONSTANTS Senders,       \* the threads that send waves
          Names,         \* the names of agents
          Receivers,     \* the inboxes of messaging shards
          NameOf,        \* inbox -> the name of its agent
          NoReceiver,    \* null, in the table of receivers
          NoWave,        \* null, in place of a wave
          UseThread,     \* the configured value of use-thread
          Quota,         \* bound: sender -> the waves it sends
          MaxStarts,     \* bound: the starts of the pylon
          MaxLives       \* bound: the starts of each agent

Wave == UNION {[from : {s}, nr : 1 .. Quota[s], to : Names] : s \in Senders}

ASSUME ReceiversAssumption == NameOf \in [Receivers -> Names] /\ NoReceiver \notin Receivers
ASSUME WavesAssumption == NoWave \notin Wave
ASSUME BoundsAssumption == Quota \in [Senders -> Nat] /\ MaxStarts \in Nat /\ MaxLives \in Nat
ASSUME UseThreadAssumption == UseThread \in BOOLEAN

VARIABLES
    running,     \* EntityCore.running
    useThread,   \* useThread, reset by stop()
    queue,       \* messageQueue
    queueNull,   \* messageQueue is null, after stop()
    receivers,   \* messageReceivers: name -> inbox or NoReceiver
    keeper,      \* where the node is in start() or stop()
    worker,      \* where the message thread is
    held,        \* the wave in the hands of the message thread
    target,      \* the inbox the message thread got for it
    pc,          \* sender -> where it is in send()
    out,         \* sender -> the wave it is sending
    dest,        \* sender -> the inbox it got for the wave
    agent,       \* inbox -> whether its agent is out, in or stopping
    count,       \* history: sender -> the waves it has sent
    received,    \* history: inbox -> the waves its agent took, and who delivered them
    lost,        \* history: the waves that ended elsewhere
    overtaken,   \* history: the registered inboxes whose name another one registered after them
    starts,      \* history: the starts of the pylon
    lives        \* history: inbox -> the starts of its agent

pylon  == <<running, useThread, queueNull, keeper, starts>>
thread == <<worker, held, target>>
sender == <<pc, out, dest, count>>
ends   == <<received, lost>>
agents == <<receivers, agent, overtaken, lives>>
vars == <<pylon, queue, thread, sender, ends, agents>>

TypeOK ==
    /\ running \in BOOLEAN /\ useThread \in BOOLEAN /\ queueNull \in BOOLEAN
    /\ queue \in Seq(Wave)
    /\ receivers \in [Names -> Receivers \cup {NoReceiver}]
    /\ keeper \in {"down", "up", "clear", "join"}
    /\ worker \in {"none", "loop", "look", "waiting", "poll", "check", "get", "receive",
                   "over", "dead"}
    /\ held \in Wave \cup {NoWave}
    /\ held # NoWave <=> worker \in {"check", "get", "receive"}
    /\ target \in Receivers \cup {NoReceiver}
    /\ target # NoReceiver <=> worker = "receive"
    /\ pc \in [Senders -> {"idle", "flag", "enqueue", "check", "get", "receive"}]
    /\ out \in [Senders -> Wave \cup {NoWave}]
    /\ \A s \in Senders : out[s] # NoWave <=> pc[s] # "idle"
    /\ dest \in [Senders -> Receivers \cup {NoReceiver}]
    /\ \A s \in Senders : dest[s] # NoReceiver <=> pc[s] = "receive"
    /\ agent \in [Receivers -> {"out", "in", "stopping"}]
    /\ count \in [Senders -> Nat] /\ \A s \in Senders : count[s] <= Quota[s]
    /\ received \in [Receivers -> Seq([wave : Wave, how : {"queued", "direct"}])]
    /\ lost \subseteq Wave
    /\ overtaken \subseteq Receivers
    /\ starts \in 0 .. MaxStarts
    /\ lives \in [Receivers -> 0 .. MaxLives]

Init ==
    /\ running = FALSE
    /\ useThread = UseThread
    /\ queue = <<>>
    /\ queueNull = FALSE
    /\ receivers = [n \in Names |-> NoReceiver]
    /\ keeper = "down"
    /\ worker = "none"
    /\ held = NoWave
    /\ target = NoReceiver
    /\ pc = [s \in Senders |-> "idle"]
    /\ out = [s \in Senders |-> NoWave]
    /\ dest = [s \in Senders |-> NoReceiver]
    /\ agent = [r \in Receivers |-> "out"]
    /\ count = [s \in Senders |-> 0]
    /\ received = [r \in Receivers |-> <<>>]
    /\ lost = {}
    /\ overtaken = {}
    /\ starts = 0
    /\ lives = [r \in Receivers |-> 0]

-----------------------------------------------------------------------------
(* start() and stop(). *)

(* After a stop useThread is FALSE and stays so: a pylon that is started   *)
(* again has no thread and no queue.                                       *)
Start ==
    /\ keeper = "down"
    /\ ~running
    /\ starts < MaxStarts
    /\ running' = TRUE
    /\ worker' = IF useThread THEN "loop" ELSE worker
    /\ keeper' = "up"
    /\ starts' = starts + 1
    /\ UNCHANGED <<useThread, queueNull, queue, held, target, sender, ends, agents>>

(* The node stops the entities that are running. *)
StopFlag ==
    /\ keeper = "up"
    /\ running
    /\ running' = FALSE
    /\ useThread' = FALSE
    /\ keeper' = IF useThread THEN "clear" ELSE "down"
    /\ UNCHANGED <<queueNull, starts, queue, thread, sender, ends, agents>>

StopClear ==
    /\ keeper = "clear"
    /\ keeper' = "join"
    /\ lost' = lost \cup {queue[i] : i \in DOMAIN queue}
    /\ queue' = <<>>
    /\ UNCHANGED <<running, useThread, queueNull, starts, thread, sender, received, agents>>

(* Mutant: the message thread is not joined. *)
StopJoinNot ==
    /\ keeper = "join"
    /\ keeper' = "down"
    /\ queueNull' = TRUE
    /\ lost' = lost \cup {queue[i] : i \in DOMAIN queue}
    /\ queue' = <<>>
    /\ UNCHANGED <<running, useThread, starts, thread, sender, received, agents>>

(* The queue that is discarded may have got waves since it was emptied. *)
StopJoin ==
    /\ keeper = "join"
    /\ worker \in {"over", "dead"}
    /\ keeper' = "down"
    /\ queueNull' = TRUE
    /\ lost' = lost \cup {queue[i] : i \in DOMAIN queue}
    /\ queue' = <<>>
    /\ UNCHANGED <<running, useThread, starts, thread, sender, received, agents>>

-----------------------------------------------------------------------------
(* deliver(), by the message thread or by a sender: the table is looked at *)
(* twice, and then the inbox that was got is called, whatever became of    *)
(* its agent since.  An agent that is stopped or has been told to stop     *)
(* refuses the wave (CompositeAgent.canPostEvent), one that is out may     *)
(* have been told to start; receiveWave does not look at the answer.       *)

Known(w) == receivers[w.to] # NoReceiver

Lose(w) == lost' = lost \cup {w} /\ UNCHANGED received

Take(w, r, how) ==
    received' = [received EXCEPT ![r] = Append(@, [wave |-> w, how |-> how])] /\ UNCHANGED lost

MayStart(r) == agent[r] = "out" /\ lives[r] < MaxLives

Receive(w, r, how) ==
    \/ (agent[r] = "in" \/ MayStart(r)) /\ Take(w, r, how)
    \/ agent[r] # "in" /\ Lose(w)

(* The message thread: processQueue(). *)

(* Mutant: while(true). *)
LoopNever ==
    /\ worker = "loop"
    /\ worker' = "look"
    /\ UNCHANGED <<pylon, queue, held, target, sender, ends, agents>>

Loop ==
    /\ worker = "loop"
    /\ worker' = IF useThread THEN "look" ELSE "over"
    /\ UNCHANGED <<pylon, queue, held, target, sender, ends, agents>>

(* Mutant: the condition is the wrong way round. *)
LookInverted ==
    /\ worker = "look"
    /\ worker' = IF queue # <<>> THEN "waiting" ELSE "poll"
    /\ UNCHANGED <<pylon, queue, held, target, sender, ends, agents>>

Look ==
    /\ worker = "look"
    /\ worker' = IF queue = <<>> THEN "waiting" ELSE "poll"
    /\ UNCHANGED <<pylon, queue, held, target, sender, ends, agents>>

Wake ==
    /\ worker = "waiting"
    /\ worker' = "loop"
    /\ UNCHANGED <<pylon, queue, held, target, sender, ends, agents>>

(* Mutant: the wave is looked at and not taken out. *)
PollPeek ==
    /\ worker = "poll"
    /\ IF queue = <<>>
       THEN worker' = "dead" /\ UNCHANGED <<queue, held>>
       ELSE worker' = "check" /\ held' = Head(queue) /\ UNCHANGED queue
    /\ UNCHANGED <<pylon, target, sender, ends, agents>>

(* Mutant: the wave put in last is taken out first. *)
PollLast ==
    /\ worker = "poll"
    /\ IF queue = <<>>
       THEN worker' = "dead" /\ UNCHANGED <<queue, held>>
       ELSE worker' = "check" /\ held' = queue[Len(queue)]
            /\ queue' = SubSeq(queue, 1, Len(queue) - 1)
    /\ UNCHANGED <<pylon, target, sender, ends, agents>>

(* A poll that comes back with null ends the thread in deliver(). *)
Poll ==
    /\ worker = "poll"
    /\ IF queue = <<>>
       THEN worker' = "dead" /\ UNCHANGED <<queue, held>>
       ELSE worker' = "check" /\ held' = Head(queue) /\ queue' = Tail(queue)
    /\ UNCHANGED <<pylon, target, sender, ends, agents>>

ThreadCheck ==
    /\ worker = "check"
    /\ IF Known(held)
       THEN worker' = "get" /\ UNCHANGED <<held, ends>>
       ELSE worker' = "loop" /\ held' = NoWave /\ Lose(held)
    /\ UNCHANGED <<pylon, queue, target, sender, agents>>

(* The receiver may have unregistered since the check: the thread dies of  *)
(* the NullPointerException.                                               *)
ThreadGet ==
    /\ worker = "get"
    /\ IF Known(held)
       THEN worker' = "receive" /\ target' = receivers[held.to] /\ UNCHANGED <<held, ends>>
       ELSE worker' = "dead" /\ held' = NoWave /\ Lose(held) /\ UNCHANGED target
    /\ UNCHANGED <<pylon, queue, sender, agents>>

(* Mutant: the reference to the wave outlives its delivery. *)
ThreadReceiveKeeps ==
    /\ worker = "receive"
    /\ worker' = "loop" /\ target' = NoReceiver
    /\ Receive(held, target, "queued")
    /\ UNCHANGED <<pylon, queue, held, sender, agents>>

ThreadReceive ==
    /\ worker = "receive"
    /\ worker' = "loop" /\ held' = NoWave /\ target' = NoReceiver
    /\ Receive(held, target, "queued")
    /\ UNCHANGED <<pylon, queue, sender, agents>>

Thread == Loop \/ Look \/ Wake \/ Poll \/ ThreadCheck \/ ThreadGet \/ ThreadReceive

-----------------------------------------------------------------------------
(* send(), by a sender. *)

Send(s) ==
    /\ pc[s] = "idle"
    /\ count[s] < Quota[s]
    /\ pc' = [pc EXCEPT ![s] = "flag"]
    /\ count' = [count EXCEPT ![s] = @ + 1]
    /\ \E n \in Names : out' = [out EXCEPT ![s] = [from |-> s, nr |-> count[s] + 1, to |-> n]]
    /\ UNCHANGED <<pylon, queue, thread, dest, ends, agents>>

ReadFlag(s) ==
    /\ pc[s] = "flag"
    /\ pc' = [pc EXCEPT ![s] = IF useThread THEN "enqueue" ELSE "check"]
    /\ UNCHANGED <<pylon, queue, thread, out, dest, count, ends, agents>>

Return(s) ==
    /\ pc' = [pc EXCEPT ![s] = "idle"]
    /\ out' = [out EXCEPT ![s] = NoWave]
    /\ dest' = [dest EXCEPT ![s] = NoReceiver]
    /\ UNCHANGED count

(* A null queue is a NullPointerException in the sender's thread. *)
Enqueue(s) ==
    /\ pc[s] = "enqueue"
    /\ Return(s)
    /\ IF queueNull
       THEN Lose(out[s]) /\ UNCHANGED queue
       ELSE queue' = Append(queue, out[s]) /\ UNCHANGED ends
    /\ UNCHANGED <<pylon, thread, agents>>

SenderCheck(s) ==
    /\ pc[s] = "check"
    /\ IF Known(out[s])
       THEN pc' = [pc EXCEPT ![s] = "get"] /\ UNCHANGED <<out, dest, count, ends>>
       ELSE Return(s) /\ Lose(out[s])
    /\ UNCHANGED <<pylon, queue, thread, agents>>

SenderGet(s) ==
    /\ pc[s] = "get"
    /\ IF Known(out[s])
       THEN /\ pc' = [pc EXCEPT ![s] = "receive"]
            /\ dest' = [dest EXCEPT ![s] = receivers[out[s].to]]
            /\ UNCHANGED <<out, count, ends>>
       ELSE Return(s) /\ Lose(out[s])
    /\ UNCHANGED <<pylon, queue, thread, agents>>

SenderReceive(s) ==
    /\ pc[s] = "receive"
    /\ Return(s)
    /\ Receive(out[s], dest[s], "direct")
    /\ UNCHANGED <<pylon, queue, thread, agents>>

Sending(s) ==
    ReadFlag(s) \/ Enqueue(s) \/ SenderCheck(s) \/ SenderGet(s) \/ SenderReceive(s)

-----------------------------------------------------------------------------
(* The life of an agent, as its messaging shard and this pylon see it. *)

OfSameName(r) == {q \in Receivers \ {r} : agent[q] # "out" /\ NameOf[q] = NameOf[r]}

(* AGENT_START: register, which puts the inbox whatever was there. *)
Register(r) ==
    /\ MayStart(r)
    /\ agent' = [agent EXCEPT ![r] = "in"]
    /\ lives' = [lives EXCEPT ![r] = @ + 1]
    /\ receivers' = [receivers EXCEPT ![NameOf[r]] = r]
    /\ overtaken' = overtaken \cup OfSameName(r)
    /\ UNCHANGED <<pylon, queue, thread, sender, ends>>

(* A stop is posted; the shard is not signalled yet. *)
PostStop(r) ==
    /\ agent[r] = "in"
    /\ agent' = [agent EXCEPT ![r] = "stopping"]
    /\ UNCHANGED <<pylon, queue, thread, sender, ends, receivers, overtaken, lives>>

(* Mutant: the name is removed whoever has it. *)
UnregisterName(r) ==
    /\ agent[r] = "stopping"
    /\ agent' = [agent EXCEPT ![r] = "out"]
    /\ receivers' = [receivers EXCEPT ![NameOf[r]] = NoReceiver]
    /\ overtaken' = overtaken \ {r}
    /\ UNCHANGED <<pylon, queue, thread, sender, ends, lives>>

(* AGENT_STOP: unregister, which removes the name only with this inbox. *)
Unregister(r) ==
    /\ agent[r] = "stopping"
    /\ agent' = [agent EXCEPT ![r] = "out"]
    /\ receivers' = IF receivers[NameOf[r]] = r
                    THEN [receivers EXCEPT ![NameOf[r]] = NoReceiver] ELSE receivers
    /\ overtaken' = overtaken \ {r}
    /\ UNCHANGED <<pylon, queue, thread, sender, ends, lives>>

-----------------------------------------------------------------------------
Next ==
    \/ Start \/ StopFlag \/ StopClear \/ StopJoin
    \/ Thread
    \/ \E s \in Senders : Send(s) \/ Sending(s)
    \/ \E r \in Receivers : Register(r) \/ PostStop(r) \/ Unregister(r)

Spec == Init /\ [][Next]_vars

(* A call that has begun goes on, the message thread runs and its wait is  *)
(* bounded by GLOBAL_WAITING_TIME.  Nobody has to call anything.           *)
FairSpec ==
    /\ Spec
    /\ WF_vars(StopClear) /\ WF_vars(StopJoin)
    /\ WF_vars(Thread)
    /\ \A s \in Senders : WF_vars(Sending(s))

-----------------------------------------------------------------------------
(* Properties. *)

InQueue(w) == \E i \in DOMAIN queue : queue[i] = w
Received(w) == \E r \in Receivers : \E i \in DOMAIN received[r] : received[r][i].wave = w
Lost(w) == w \in lost

(* A wave is in one place at most: with its sender, in the queue, with the *)
(* message thread, received, or lost.                                      *)
OnlyOnce ==
    /\ \A i, j \in DOMAIN queue : queue[i] = queue[j] => i = j
    /\ \A r \in Receivers : \A i, j \in DOMAIN received[r] :
           received[r][i].wave = received[r][j].wave => i = j
    /\ \A r, q \in Receivers : \A i \in DOMAIN received[r], j \in DOMAIN received[q] :
           received[r][i].wave = received[q][j].wave => r = q
    /\ \A w \in Wave :
           /\ InQueue(w) => held # w /\ out[w.from] # w /\ ~Received(w) /\ ~Lost(w)
           /\ held = w => out[w.from] # w /\ ~Received(w) /\ ~Lost(w)
           /\ out[w.from] = w => ~Received(w) /\ ~Lost(w)
           /\ Received(w) => ~Lost(w)

(* What a sender has sent is somewhere. *)
NothingVanishes ==
    \A s \in Senders : \A n \in 1 .. count[s] : \E m \in Names :
        LET w == [from |-> s, nr |-> n, to |-> m]
        IN  InQueue(w) \/ held = w \/ out[s] = w \/ Received(w) \/ Lost(w)

(* A wave that was sent is in one place: none comes twice, and none        *)
(* disappears, whatever stop() does to the queue meanwhile (239-287).      *)
OnePlace == OnlyOnce /\ NothingVanishes

(* Waves of one sender to one inbox are received in the order of sending.  *)
(* Only a stop breaks it: a sender that delivers by itself after the flag  *)
(* is down can overtake the one wave the message thread has in its hands   *)
(* (lines 208, 240-247, 283).                                              *)
SenderOrder ==
    \A r \in Receivers : \A i, j \in DOMAIN received[r] :
        LET a == received[r][i]
            b == received[r][j]
        IN  i < j /\ a.wave.from = b.wave.from /\ a.wave.nr > b.wave.nr
            => /\ a.how = "direct" /\ b.how = "queued"
               /\ \A k \in DOMAIN received[r] : k > i /\ received[r][k].how = "queued" => k = j

(* A registered inbox is reached under its name until it unregisters or    *)
(* another agent of that name registers, however late agents that had the  *)
(* name before are signalled their stop; and nobody else is reached under  *)
(* the name: the table keeps no inbox of an agent that is gone (lines      *)
(* 95-103).                                                                *)
RunningIsReached ==
    /\ \A r \in Receivers :
           agent[r] # "out" /\ r \notin overtaken => receivers[NameOf[r]] = r
    /\ \A n \in Names : receivers[n] # NoReceiver =>
           agent[receivers[n]] # "out" /\ NameOf[receivers[n]] = n

(* The message thread only meets an empty queue at poll() when stop() has  *)
(* emptied it since the look (lines 208-210, 274, 283).                    *)
PollFindsUnlessStopped == worker = "poll" /\ queue = <<>> => ~useThread

(* Once stop() has returned the message thread delivers nothing: what      *)
(* arrives later was delivered by its sender (lines 213-220).              *)
StoppedIsOver ==
    [][keeper = "down" => \A r \in Receivers : \A i \in DOMAIN received'[r] :
           i > Len(received[r]) => received'[r][i].how = "direct"]_vars

(* stop() returns: the message thread always comes back to its flag, or    *)
(* is dead (lines 205-224).                                                *)
StopReturns == keeper = "clear" ~> keeper = "down"

(* A wave in the queue of a pylon that has been started leaves it, unless  *)
(* the message thread has died (lines 205-219, 271-287).                   *)
QueuedIsTaken ==
    \A w \in Wave : InQueue(w) /\ worker # "none" ~> ~InQueue(w) \/ worker = "dead"

(* What a reader of the class may take for granted and the code does not   *)
(* keep: the message thread lives as long as the pylon (lines 259-264).    *)
ThreadSurvives == worker # "dead"

(* And a name with a registered inbox answers: it does not, when the later *)
(* of two agents of one name leaves first (lines 96, 102).                 *)
NameAnswers == \A r \in Receivers : agent[r] = "in" => receivers[NameOf[r]] # NoReceiver

=============================================================================
