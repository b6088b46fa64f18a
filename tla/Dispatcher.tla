----------------------------- MODULE Dispatcher -----------------------------
(***************************************************************************)
(* core/util/Dispatcher.java: several queues, each with its processor, and *)
(* one worker thread that serves them round robin and waits on a lock when *)
(* a whole round found nothing.  WebSocketPylon sends and receives all its *)
(* waves through one.                                                      *)
(*                                                                         *)
(* One action is one step another thread can see: a read or a write of the *)
(* lists, of a flag or of a queue, or a whole synchronized block.  The     *)
(* monitor needs no variable of its own: the worker's block only waits and *)
(* the others' only notify, so each block is one step.  The creator calls  *)
(* addProcessor, always from one thread (the class demands it), clients    *)
(* call the rest.  Nobody interrupts the worker and wait() has no spurious *)
(* return.  Plain reads see the last write: the volatile reads of          *)
(* running.get() and of the queue's counter stand between any two of them. *)
(***************************************************************************)
EXTENDS Naturals, Sequences, FiniteSets

CONSTANTS NumQueues,       \* how often addProcessor is called
          StartSuspended,  \* the queues created with startSuspended
          Clients,         \* the threads that use the dispatcher
          Stoppers,        \* the clients that may call stop()
          MaxAdds,         \* bound: the items offered in a behaviour
          MaxToggles       \* bound: the calls of suspend and resume

Queues == 0 .. NumQueues - 1
NoQueue == NumQueues
Items == 1 .. MaxAdds

ASSUME SizesAssumption == NumQueues \in Nat \ {0} /\ MaxAdds \in Nat /\ MaxToggles \in Nat
ASSUME SetsAssumption == StartSuspended \subseteq Queues /\ Stoppers \subseteq Clients

VARIABLES
    queues,      \* queue -> its content, for the indexes below size.queues
    suspended,   \* queue -> its flag
    size,        \* the sizes of the three parallel ArrayLists
    running,     \* the AtomicBoolean
    creator,     \* where the creator is in addProcessor
    worker,      \* where the worker thread is
    cur,         \* currentQueueIndex
    round,       \* i, the queues looked at in this round
    processed,   \* processedAny
    pc,          \* client -> the step it is at
    arg,         \* client -> the queue its call is about
    adds,        \* history: the items offered so far; items are numbered
    toggles,     \* history: the calls of suspend and resume so far
    taken,       \* history: queue -> the items given to its processor
    passed,      \* history: queue -> the items taken from other queues
                 \* while it was active and had an item
    late         \* history: the items taken since running was reset

creation == <<size, creator>>
contents == <<queues, taken, adds>>
thread   == <<worker, cur, round, processed>>
calls    == <<pc, arg, toggles>>
vars == <<creation, contents, thread, calls, suspended, running, passed, late>>

TypeOK ==
    /\ queues \in [Queues -> Seq(Items)]
    /\ suspended \in [Queues -> BOOLEAN]
    /\ size \in [queues : 0 .. NumQueues, processors : 0 .. NumQueues, suspended : 0 .. NumQueues]
    /\ running \in BOOLEAN
    /\ creator \in {"queue", "processor", "flag", "index", "done"}
    /\ worker \in {"new", "check", "next", "skip", "poll", "accept", "lock", "wait", "notified",
                   "done", "dead"}
    /\ cur \in Queues
    /\ round \in 0 .. NumQueues
    /\ processed \in BOOLEAN
    /\ pc \in [Clients -> {"idle", "notify", "suspend", "resume", "shutdown", "join"}]
    /\ arg \in [Clients -> Queues]
    /\ adds \in 0 .. MaxAdds
    /\ toggles \in 0 .. MaxToggles
    /\ taken \in [Queues -> Seq(Items)]
    /\ passed \in [Queues -> Nat]
    /\ late \in Nat

Init ==
    /\ queues = [q \in Queues |-> <<>>]
    /\ suspended = [q \in Queues |-> q \in StartSuspended]
    /\ size = [queues |-> 0, processors |-> 0, suspended |-> 0]
    /\ running = FALSE
    /\ creator = "queue"
    /\ worker = "new"
    /\ cur = 0
    /\ round = 0
    /\ processed = FALSE
    /\ pc = [c \in Clients |-> "idle"]
    /\ arg = [c \in Clients |-> 0]
    /\ adds = 0
    /\ toggles = 0
    /\ taken = [q \in Queues |-> <<>>]
    /\ passed = [q \in Queues |-> 0]
    /\ late = 0

-----------------------------------------------------------------------------
(* addProcessor: the lists grow one after the other.  The flag of a queue  *)
(* has its value from the start here and can be read once the list has it. *)

Grow(list, from, to) ==
    /\ creator = from
    /\ creator' = to
    /\ size' = [size EXCEPT ![list] = @ + 1]
    /\ UNCHANGED <<contents, thread, calls, suspended, running, passed, late>>

AddQueue     == size.queues < NumQueues /\ Grow("queues", "queue", "processor")
AddProcessor == size.processors < NumQueues /\ Grow("processors", "processor", "flag")
AddFlag      == size.suspended < NumQueues /\ Grow("suspended", "flag", "index")

(* The call returns the index; the first one starts the worker. *)
ReturnIndex ==
    /\ creator = "index"
    /\ creator' = IF size.queues = NumQueues THEN "done" ELSE "queue"
    /\ IF size.queues = 1
       THEN running' = TRUE /\ worker' = "check"
       ELSE UNCHANGED <<running, worker>>
    /\ UNCHANGED <<size, contents, cur, round, processed, calls, suspended, passed, late>>

(* A client can only name a queue whose index addProcessor has returned. *)
Known == {q \in Queues : q < size.suspended /\ ~(creator = "index" /\ q = size.suspended - 1)}

-----------------------------------------------------------------------------
(* The worker: processQueues. *)

(* Mutant: stop is not looked at between rounds. *)
CheckRunningNever ==
    /\ worker = "check"
    /\ worker' = "next"
    /\ round' = 0
    /\ processed' = FALSE
    /\ UNCHANGED <<creation, contents, cur, calls, suspended, running, passed, late>>

CheckRunning ==
    /\ worker = "check"
    /\ worker' = IF running THEN "next" ELSE "done"
    /\ round' = 0
    /\ processed' = FALSE
    /\ UNCHANGED <<creation, contents, cur, calls, suspended, running, passed, late>>

(* Mutant: the cursor stays on a queue that gave an item. *)
NextQueueGreedy ==
    /\ worker = "next"
    /\ IF round < size.queues
       THEN /\ cur' = IF processed THEN cur ELSE (cur + 1) % size.queues
            /\ round' = round + 1
            /\ worker' = "skip"
       ELSE /\ worker' = IF processed THEN "check" ELSE "lock"
            /\ UNCHANGED <<cur, round>>
    /\ UNCHANGED <<creation, contents, processed, calls, suspended, running, passed, late>>

(* The for loop: the size is read again before every turn. *)
NextQueue ==
    /\ worker = "next"
    /\ IF round < size.queues
       THEN /\ cur' = (cur + 1) % size.queues
            /\ round' = round + 1
            /\ worker' = "skip"
       ELSE /\ worker' = IF processed THEN "check" ELSE "lock"
            /\ UNCHANGED <<cur, round>>
    /\ UNCHANGED <<creation, contents, processed, calls, suspended, running, passed, late>>

(* Mutant: a flag that is not listed yet counts as reset. *)
SkipSuspendedUnlisted ==
    /\ worker = "skip"
    /\ worker' = IF suspended[cur] THEN "next" ELSE "poll"
    /\ UNCHANGED <<creation, contents, cur, round, processed, calls, suspended, running, passed, late>>

(* suspended.get throws, outside any try, when the flag is not listed yet. *)
SkipSuspended ==
    /\ worker = "skip"
    /\ worker' = IF cur >= size.suspended THEN "dead"
                 ELSE IF suspended[cur] THEN "next"
                 ELSE "poll"
    /\ UNCHANGED <<creation, contents, cur, round, processed, calls, suspended, running, passed, late>>

(* Mutant: the item stays in the queue. *)
PollPeeks ==
    /\ worker = "poll"
    /\ IF queues[cur] = <<>>
       THEN /\ worker' = "next"
            /\ UNCHANGED <<contents, processed, passed, late>>
       ELSE /\ worker' = "accept"
            /\ processed' = TRUE
            /\ taken' = [taken EXCEPT ![cur] = Append(@, Head(queues[cur]))]
            /\ UNCHANGED <<queues, adds, passed, late>>
    /\ UNCHANGED <<creation, cur, round, calls, suspended, running>>

(* Mutant: processedAny is that of the last queue only. *)
PollForgets ==
    /\ worker = "poll"
    /\ IF queues[cur] = <<>>
       THEN /\ worker' = "next"
            /\ processed' = FALSE
            /\ UNCHANGED <<contents, passed, late>>
       ELSE /\ worker' = "accept"
            /\ processed' = TRUE
            /\ queues' = [queues EXCEPT ![cur] = Tail(@)]
            /\ taken' = [taken EXCEPT ![cur] = Append(@, Head(queues[cur]))]
            /\ UNCHANGED <<adds, passed, late>>
    /\ UNCHANGED <<creation, cur, round, calls, suspended, running>>

Poll ==
    /\ worker = "poll"
    /\ IF queues[cur] = <<>>
       THEN /\ worker' = "next"
            /\ UNCHANGED <<contents, processed, passed, late>>
       ELSE /\ worker' = "accept"
            /\ processed' = TRUE
            /\ queues' = [queues EXCEPT ![cur] = Tail(@)]
            /\ taken' = [taken EXCEPT ![cur] = Append(@, Head(queues[cur]))]
            /\ passed' = [q \in Queues |->
                            IF q # cur /\ queues[q] # <<>> /\ ~suspended[q]
                            THEN passed[q] + 1 ELSE 0]
            /\ late' = IF running THEN late ELSE late + 1
            /\ UNCHANGED adds
    /\ UNCHANGED <<creation, cur, round, calls, suspended, running>>

Offer(q) ==
    /\ adds < MaxAdds
    /\ adds' = adds + 1
    /\ queues' = [queues EXCEPT ![q] = Append(@, adds + 1)]
    /\ UNCHANGED taken

(* The processor returns or throws, which is caught; before that it may    *)
(* offer an item itself, as a receiver that answers a wave does.  Its      *)
(* notify finds no waiter: the only thread that waits is this one.         *)
Accept ==
    /\ worker = "accept"
    /\ \/ worker' = "next" /\ UNCHANGED contents
       \/ worker' = worker /\ \E q \in Known : Offer(q)
    /\ UNCHANGED <<creation, cur, round, processed, calls, suspended, running, passed, late>>

(* The synchronized block: nothing is looked at again before the wait. *)
Wait ==
    /\ worker = "lock"
    /\ worker' = "wait"
    /\ UNCHANGED <<creation, contents, cur, round, processed, calls, suspended, running, passed, late>>

Wake ==
    /\ worker = "notified"
    /\ worker' = "check"
    /\ UNCHANGED <<creation, contents, cur, round, processed, calls, suspended, running, passed, late>>

Worker == CheckRunning \/ NextQueue \/ SkipSuspended \/ Poll \/ Accept \/ Wait \/ Wake

-----------------------------------------------------------------------------
(* The clients. *)

Notified == worker' = IF worker = "wait" THEN "notified" ELSE worker

Add(c, q) ==
    /\ pc[c] = "idle"
    /\ Offer(q)
    /\ pc' = [pc EXCEPT ![c] = "notify"]
    /\ UNCHANGED <<creation, thread, arg, toggles, suspended, running, passed, late>>

(* The synchronized block that ends add and resume. *)
NotifyWorker(c) ==
    /\ pc[c] = "notify"
    /\ pc' = [pc EXCEPT ![c] = "idle"]
    /\ Notified
    /\ UNCHANGED <<creation, contents, cur, round, processed, arg, toggles, suspended, running, passed, late>>

(* suspend and resume read the flag first and write it in another step. *)
ReadFlag(c, q) ==
    /\ pc[c] = "idle"
    /\ toggles < MaxToggles
    /\ toggles' = toggles + 1
    /\ arg' = [arg EXCEPT ![c] = q]
    /\ \E call \in {"suspend", "resume"} :
          pc' = [pc EXCEPT ![c] = IF suspended[q] = (call = "resume") THEN call ELSE "idle"]
    /\ UNCHANGED <<creation, contents, thread, suspended, running, passed, late>>

Suspend(c) ==
    /\ pc[c] = "suspend"
    /\ pc' = [pc EXCEPT ![c] = "idle"]
    /\ suspended' = [suspended EXCEPT ![arg[c]] = TRUE]
    /\ passed' = [passed EXCEPT ![arg[c]] = 0]
    /\ UNCHANGED <<creation, contents, thread, arg, toggles, running, late>>

Resume(c) ==
    /\ pc[c] = "resume"
    /\ pc' = [pc EXCEPT ![c] = "notify"]
    /\ suspended' = [suspended EXCEPT ![arg[c]] = FALSE]
    /\ UNCHANGED <<creation, contents, thread, arg, toggles, running, passed, late>>

Stop(c) ==
    /\ pc[c] = "idle"
    /\ Known # {}
    /\ running' = FALSE
    /\ pc' = [pc EXCEPT ![c] = "shutdown"]
    /\ UNCHANGED <<creation, contents, thread, arg, toggles, suspended, passed, late>>

NotifyStop(c) ==
    /\ pc[c] = "shutdown"
    /\ pc' = [pc EXCEPT ![c] = "join"]
    /\ Notified
    /\ UNCHANGED <<creation, contents, cur, round, processed, arg, toggles, suspended, running, passed, late>>

Join(c) ==
    /\ pc[c] = "join"
    /\ worker \in {"done", "dead"}
    /\ pc' = [pc EXCEPT ![c] = "idle"]
    /\ UNCHANGED <<creation, contents, thread, arg, toggles, suspended, running, passed, late>>

Inside(c) == NotifyWorker(c) \/ Suspend(c) \/ Resume(c) \/ NotifyStop(c) \/ Join(c)

Creator == AddQueue \/ AddProcessor \/ AddFlag \/ ReturnIndex

Next ==
    \/ Creator
    \/ Worker
    \/ \E c \in Clients :
          \/ Inside(c)
          \/ \E q \in Known : Add(c, q) \/ ReadFlag(c, q)
    \/ \E c \in Stoppers : Stop(c)

Spec == Init /\ [][Next]_vars

(* A thread that is inside a call, the creator and the worker go on when   *)
(* they can; nobody is bound to call anything.                             *)
FairSpec ==
    /\ Spec
    /\ WF_vars(Creator)
    /\ WF_vars(CheckRunning \/ NextQueue \/ SkipSuspended \/ Poll \/ Wait \/ Wake)
    /\ WF_vars(Accept /\ worker' = "next")
    /\ \A c \in Clients : WF_vars(Inside(c))

-----------------------------------------------------------------------------
(* Properties.                                                             *)

(* The dispatcher is a bank of FIFO queues: nothing offered is lost,       *)
(* doubled or overtaken inside its queue, and suspending a queue lets at   *)
(* most one more of its items be processed (lines 289-309).                *)
Bank == INSTANCE QueueBank WITH
            pending <- queues,
            open <- [q \in Queues |-> ~suspended[q]],
            turn <- IF worker = "poll" THEN cur ELSE NoQueue
BankSpec == Bank!BankSpec

(* "The processor uses a round-robin strategy to fairly process items from *)
(* all queues": an active queue that has an item sees at most one item of  *)
(* every other queue go first (the cursor is kept from round to round).    *)
FairRounds == \A q \in Queues : passed[q] < NumQueues

(* stop() resets the flag while the worker is anywhere in its round; the   *)
(* flag is read only between rounds, so a round's worth of items can still *)
(* be processed, and no more.                                              *)
StopIsBounded == late <= size.queues

(* The three lists grow one after the other while the worker reads them:   *)
(* a turn only begins on a queue whose processor is already listed.        *)
ListsReady == worker = "poll" => cur < size.processors /\ cur < size.suspended

(* A worker that starts a round serves everything it can see: an item in   *)
(* an active queue at that time is processed, unless its queue is          *)
(* suspended or the dispatcher stopped, or dead, in the meantime.          *)
RoundsServe ==
    \A q \in Queues, x \in Items :
        (worker = "check" /\ \E i \in DOMAIN queues[q] : queues[q][i] = x)
            ~> \/ \E i \in DOMAIN taken[q] : taken[q][i] = x
               \/ suspended[q]
               \/ ~running
               \/ worker = "dead"

(* "the thread waits on the lock object until notified that new items have *)
(* been added": what is added to an active queue is processed.             *)
AddedIsServed ==
    \A q \in Queues, x \in Items :
        (\E i \in DOMAIN queues[q] : queues[q][i] = x)
            ~> \/ \E i \in DOMAIN taken[q] : taken[q][i] = x
               \/ suspended[q]
               \/ ~running
               \/ worker = "dead"

(* "This method blocks until the worker thread has fully terminated": a    *)
(* call of stop() returns.                                                 *)
StopReturns == \A c \in Clients : pc[c] = "join" ~> pc[c] = "idle"

(* The worker "is created when the first processor is added and runs until *)
(* shutdown() is called".                                                  *)
WorkerSurvives == worker # "dead"

(* "Items can still be added to a suspended queue, but they will not be    *)
(* processed until the queue is resumed."                                  *)
SuspendedIsNotServed ==
    [][\A q \in Queues : taken'[q] # taken[q] => ~suspended[q]]_vars

(* stop(): "The worker thread will finish processing any items currently   *)
(* being processed before stopping. Items remaining in queues will not be  *)
(* processed."                                                             *)
NothingTakenAfterStop == late = 0

=============================================================================
