-------------------------- MODULE Dispatcher_proofs --------------------------
(***************************************************************************)
(* Proofs about Dispatcher.                                                *)
(***************************************************************************)
EXTENDS Dispatcher, TLAPS

USE SizesAssumption

\* What the actions on one queue need: its content keeps its type.
LEMMA OfferType ==
  ASSUME TypeOK, NEW q \in Queues, Offer(q)
  PROVE  /\ queues' \in [Queues -> Seq(Items)]
         /\ adds' \in 0 .. MaxAdds
  <1>1. adds + 1 \in Items
    BY DEF TypeOK, Offer, Items
  <1>2. \A s \in Seq(Items) : Append(s, adds + 1) \in Seq(Items)
    BY <1>1
  <1> QED BY <1>1, <1>2 DEF TypeOK, Offer, Items

\* The head of a queue that is not empty moves to the items taken.
LEMMA PollType ==
  ASSUME TypeOK, Poll, queues[cur] # <<>>
  PROVE  /\ queues' \in [Queues -> Seq(Items)]
         /\ taken' \in [Queues -> Seq(Items)]
         /\ passed' \in [Queues -> Nat]
         /\ late' \in Nat
  <1>1. Head(queues[cur]) \in Items /\ Tail(queues[cur]) \in Seq(Items)
    BY DEF TypeOK
  <1>2. \A s \in Seq(Items) : Append(s, Head(queues[cur])) \in Seq(Items)
    BY <1>1
  <1>3. queues' \in [Queues -> Seq(Items)]
    BY <1>1 DEF TypeOK, Poll
  <1>4. taken' \in [Queues -> Seq(Items)]
    <2>1. taken' = [taken EXCEPT ![cur] = Append(@, Head(queues[cur]))]
      BY DEF Poll
    <2> QED BY <1>2, <2>1 DEF TypeOK
  <1>5. late' \in Nat
    BY DEF TypeOK, Poll
  <1>6. \A q \in Queues : passed[q] + 1 \in Nat
    BY DEF TypeOK
  <1>7. passed' \in [Queues -> Nat]
    BY <1>6 DEF Poll
  <1> QED BY <1>3, <1>4, <1>5, <1>7

\* The type invariant: every list, flag, cursor and program counter keeps its
\* type; among others the cursor stays inside the lists of queues.
THEOREM DispatcherType == Spec => []TypeOK
<1>1. Init => TypeOK
  <2> SUFFICES ASSUME Init PROVE TypeOK
    OBVIOUS
  <2>1. suspended \in [Queues -> BOOLEAN]
    <3>1. suspended = [q \in Queues |-> q \in StartSuspended]
      BY DEF Init
    <3>2. \A q \in Queues : (q \in StartSuspended) \in BOOLEAN
      OBVIOUS
    <3> QED BY <3>1, <3>2, Zenon
  <2>2. size \in [queues : 0 .. NumQueues, processors : 0 .. NumQueues, suspended : 0 .. NumQueues]
    BY DEF Init
  <2>3. 0 \in Queues /\ <<>> \in Seq(Items)
    BY DEF Queues
  <2> QED BY <2>1, <2>2, <2>3 DEF Init, TypeOK
<1>2. TypeOK /\ [Next]_vars => TypeOK'
  <2> SUFFICES ASSUME TypeOK, [Next]_vars PROVE TypeOK'
    OBVIOUS
  <2> USE DEF TypeOK
  <2>1. CASE AddQueue
    <3>1. size.queues + 1 \in 0 .. NumQueues
      BY <2>1 DEF AddQueue
    <3>2. size' \in [queues : 0 .. NumQueues, processors : 0 .. NumQueues, suspended : 0 .. NumQueues]
      BY <2>1, <3>1 DEF AddQueue, Grow
    <3> QED BY <2>1, <3>2 DEF AddQueue, Grow, contents, thread, calls
  <2>2. CASE AddProcessor
    <3>1. size.processors + 1 \in 0 .. NumQueues
      BY <2>2 DEF AddProcessor
    <3>2. size' \in [queues : 0 .. NumQueues, processors : 0 .. NumQueues, suspended : 0 .. NumQueues]
      BY <2>2, <3>1 DEF AddProcessor, Grow
    <3> QED BY <2>2, <3>2 DEF AddProcessor, Grow, contents, thread, calls
  <2>3. CASE AddFlag
    <3>1. size.suspended + 1 \in 0 .. NumQueues
      BY <2>3 DEF AddFlag
    <3>2. size' \in [queues : 0 .. NumQueues, processors : 0 .. NumQueues, suspended : 0 .. NumQueues]
      BY <2>3, <3>1 DEF AddFlag, Grow
    <3> QED BY <2>3, <3>2 DEF AddFlag, Grow, contents, thread, calls
  <2>4. CASE ReturnIndex
    BY <2>4 DEF ReturnIndex, contents, calls
  <2>5. CASE CheckRunning
    <3>1. worker' \in {"next", "done"} /\ round' = 0 /\ processed' = FALSE
      BY <2>5 DEF CheckRunning
    <3>2. UNCHANGED <<queues, suspended, size, running, creator, cur, pc, arg, adds, toggles, taken, passed, late>>
      BY <2>5 DEF CheckRunning, creation, contents, calls
    <3>3. round' \in 0 .. NumQueues
      BY <3>1
    <3>4. processed' \in BOOLEAN
      BY <3>1, Zenon
    <3> QED BY <3>1, <3>2, <3>3, <3>4
  <2>6. CASE NextQueue
    <3>1. round < size.queues => (cur + 1) % size.queues \in Queues /\ round + 1 \in 0 .. NumQueues
      <4> SUFFICES ASSUME round < size.queues
                   PROVE (cur + 1) % size.queues \in Queues /\ round + 1 \in 0 .. NumQueues
        OBVIOUS
      <4>1. size.queues \in 1 .. NumQueues /\ cur + 1 \in Nat
        BY DEF Queues
      <4>2. \A m \in Nat, n \in 1 .. NumQueues : m % n \in 0 .. NumQueues - 1
        OBVIOUS
      <4>3. (cur + 1) % size.queues \in 0 .. NumQueues - 1
        BY <4>1, <4>2
      <4> QED BY <4>1, <4>3 DEF Queues
    <3> QED BY <2>6, <3>1 DEF NextQueue, creation, contents, calls
  <2>7. CASE SkipSuspended
    BY <2>7 DEF SkipSuspended, creation, contents, calls
  <2>8. CASE Poll
    BY <2>8, PollType DEF Poll, creation, contents, calls
  <2>9. CASE Accept
    <3>1. CASE UNCHANGED contents
      BY <2>9, <3>1 DEF Accept, creation, contents, calls
    <3>2. CASE \E q \in Known : Offer(q)
      <4> PICK q \in Known : Offer(q)
        BY <3>2
      <4>1. q \in Queues
        BY DEF Known
      <4>2. taken' = taken
        BY DEF Offer
      <4> QED BY <2>9, <4>1, <4>2, OfferType DEF Accept, creation, calls
    <3> QED BY <2>9, <3>1, <3>2 DEF Accept
  <2>10. CASE Wait \/ Wake
    BY <2>10 DEF Wait, Wake, creation, contents, calls
  <2>11. ASSUME NEW c \in Clients, NEW q \in Known, Add(c, q) PROVE TypeOK'
    <3>1. q \in Queues
      BY <2>11 DEF Known
    <3>2. taken' = taken
      BY <2>11 DEF Add, Offer
    <3> QED BY <2>11, <3>1, <3>2, OfferType DEF Add, creation, thread
  <2>12. ASSUME NEW c \in Clients, NEW q \in Known, ReadFlag(c, q) PROVE TypeOK'
    BY <2>12 DEF ReadFlag, Known, creation, contents, thread
  <2>13. ASSUME NEW c \in Clients, NotifyWorker(c) \/ NotifyStop(c) PROVE TypeOK'
    BY <2>13 DEF NotifyWorker, NotifyStop, Notified, creation, contents
  <2>14. ASSUME NEW c \in Clients, Suspend(c) \/ Resume(c) PROVE TypeOK'
    <3>1. suspended' \in [Queues -> BOOLEAN]
      BY <2>14, Zenon DEF Suspend, Resume
    <3>2. passed' \in [Queues -> Nat]
      <4>1. passed' = [passed EXCEPT ![arg[c]] = 0] \/ passed' = passed
        BY <2>14 DEF Suspend, Resume
      <4>2. passed \in [Queues -> Nat] /\ 0 \in Nat
        OBVIOUS
      <4> HIDE DEF TypeOK, Queues
      <4> QED BY <4>1, <4>2
    <3>3. pc' \in [Clients -> {"idle", "notify", "suspend", "resume", "shutdown", "join"}]
      BY <2>14 DEF Suspend, Resume
    <3> QED BY <2>14, <3>1, <3>2, <3>3 DEF Suspend, Resume, creation, contents, thread
  <2>15. ASSUME NEW c \in Clients, Stop(c) \/ Join(c) PROVE TypeOK'
    BY <2>15 DEF Stop, Join, creation, contents, thread
  <2>16. CASE UNCHANGED vars
    BY <2>16 DEF vars, creation, contents, thread, calls
  <2> QED
    BY <2>1, <2>2, <2>3, <2>4, <2>5, <2>6, <2>7, <2>8, <2>9, <2>10, <2>11, <2>12, <2>13,
       <2>14, <2>15, <2>16, SetsAssumption DEF Next, Creator, Worker, Inside
<1> QED BY <1>1, <1>2, PTL DEF Spec

-----------------------------------------------------------------------------
(* The lists never disagree by more than the call that is being made. *)
Lists ==
    /\ size.queues = 0 => worker = "new"
    /\ creator = "queue" => size.processors = size.queues /\ size.suspended = size.queues
    /\ creator = "processor" => size.processors + 1 = size.queues /\ size.suspended + 1 = size.queues
    /\ creator = "flag" => size.processors = size.queues /\ size.suspended + 1 = size.queues
    /\ creator \in {"index", "done"} => size.processors = size.queues /\ size.suspended = size.queues
    /\ worker # "new" => size.suspended > 0
    /\ worker = "new" => running = FALSE
    /\ size.queues = 1 /\ creator = "index" => worker = "new"
    /\ worker = "new" /\ size.queues > 0 => size.queues = 1 /\ creator \notin {"queue", "done"}

(* Items taken after stop() are items of the round stop() found. *)
LastRound ==
    /\ worker = "new" => round = 0 /\ ~processed /\ late = 0
    /\ round <= size.queues
    /\ worker \in {"skip", "poll"} => round > 0
    /\ running => late = 0
    /\ ~processed /\ worker # "done" => late = 0
    /\ worker \notin {"done", "skip", "poll"} => late <= round
    /\ worker \in {"skip", "poll"} => late < round
    /\ worker \in {"lock", "wait", "notified"} => ~processed

Inv == ListsReady /\ Lists /\ LastRound /\ StopIsBounded

LEMMA InvInit == Init => Inv
  BY DEF Init, Inv, ListsReady, Lists, LastRound, StopIsBounded

LEMMA InvNext == TypeOK /\ Inv /\ [Next]_vars => Inv'
  <1> SUFFICES ASSUME TypeOK, Inv, [Next]_vars PROVE Inv'
    OBVIOUS
  <1> USE DEF Inv, ListsReady, Lists, LastRound, StopIsBounded
  <1>0. /\ size.queues \in Nat /\ size.processors \in Nat /\ size.suspended \in Nat
        /\ round \in Nat /\ late \in Nat /\ cur \in Nat
    BY DEF TypeOK, Queues
  <1>1. CASE AddQueue
    BY <1>0, <1>1 DEF AddQueue, Grow, contents, thread, calls, TypeOK
  <1>2. CASE AddProcessor
    BY <1>0, <1>2 DEF AddProcessor, Grow, contents, thread, calls, TypeOK
  <1>3. CASE AddFlag
    BY <1>0, <1>3 DEF AddFlag, Grow, contents, thread, calls, TypeOK
  <1>4. CASE ReturnIndex
    BY <1>0, <1>4 DEF ReturnIndex, contents, calls, TypeOK
  <1>5. CASE CheckRunning
    BY <1>0, <1>5 DEF CheckRunning, creation, contents, calls, TypeOK
  <1>6. CASE NextQueue
    BY <1>0, <1>6 DEF NextQueue, creation, contents, calls
  <1>7. CASE SkipSuspended
    BY <1>0, <1>7 DEF SkipSuspended, creation, contents, calls, TypeOK
  <1>8. CASE Poll
    BY <1>0, <1>8 DEF Poll, creation, contents, calls
  <1>9. CASE Accept
    BY <1>0, <1>9 DEF Accept, creation, calls
  <1>10. CASE Wait \/ Wake
    BY <1>0, <1>10 DEF Wait, Wake, creation, contents, calls
  <1>11. ASSUME NEW c \in Clients, NEW q \in Known, Add(c, q) \/ ReadFlag(c, q) PROVE Inv'
    BY <1>0, <1>11 DEF Add, ReadFlag, creation, thread
  <1>12. ASSUME NEW c \in Clients, Inside(c) PROVE Inv'
    BY <1>0, <1>12 DEF Inside, NotifyWorker, NotifyStop, Suspend, Resume, Join, Notified, creation, thread
  <1>13. ASSUME NEW c \in Clients, Stop(c) PROVE Inv'
    BY <1>0, <1>13 DEF Stop, creation, thread
  <1>14. CASE UNCHANGED vars
    BY <1>14 DEF vars, creation, thread
  <1> QED
    BY <1>1, <1>2, <1>3, <1>4, <1>5, <1>6, <1>7, <1>8, <1>9, <1>10, <1>11, <1>12, <1>13,
       <1>14, SetsAssumption DEF Next, Creator, Worker

\* For any number of queues, clients and calls, a turn begins only on a queue
\* that is entirely listed, and stop() is followed by at most one item of each
\* queue.
THEOREM DispatcherSafe == Spec => [](ListsReady /\ StopIsBounded)
<1>1. Init => Inv
  BY InvInit
<1>2. TypeOK /\ Inv /\ [Next]_vars => Inv'
  BY InvNext
<1>3. Inv => ListsReady /\ StopIsBounded
  BY DEF Inv
<1> QED BY <1>1, <1>2, <1>3, DispatcherType, PTL DEF Spec

\* The worker never takes a turn on a queue whose processor or flag has not been added
\* yet: the order in which addProcessor() fills the lists is enough.
THEOREM TurnsAreReady == Spec => []ListsReady
<1>1. ListsReady /\ StopIsBounded => ListsReady
  OBVIOUS
<1> QED BY <1>1, DispatcherSafe, PTL

-----------------------------------------------------------------------------
\* The dispatcher implements the bank of queues: every behaviour of the worker,
\* the creator and the clients is one of QueueBank.
THEOREM DispatcherIsBank == Spec => BankSpec
<1> DEFINE opened == [q \in Queues |-> ~suspended[q]]
           turned == IF worker = "poll" THEN cur ELSE NoQueue
           stutter == UNCHANGED <<queues, taken, opened, turned>>
<1> USE DEF Bank!BankNext, Bank!bankVars
<1>1. Init => Bank!BankInit
  BY DEF Init, Bank!BankInit
<1>2. TypeOK /\ Inv /\ [Next]_vars => [Bank!BankNext]_(Bank!bankVars)
  <2> SUFFICES ASSUME TypeOK, Inv, [Next]_vars PROVE Bank!BankNext \/ UNCHANGED Bank!bankVars
    OBVIOUS
  <2>0. cur \in Queues /\ NoQueue \notin Queues
    BY DEF TypeOK, Queues, NoQueue
  <2>1. CASE AddQueue \/ AddProcessor \/ AddFlag
    BY <2>1 DEF AddQueue, AddProcessor, AddFlag, Grow, contents, thread, calls
  <2>2. CASE ReturnIndex \/ CheckRunning \/ Wait \/ Wake
    <3>1. worker # "poll" \/ worker' = worker
      BY <2>2 DEF ReturnIndex, CheckRunning, Wait, Wake, Inv, Lists
    <3>2. worker' = "poll" => worker = "poll"
      BY <2>2 DEF ReturnIndex, CheckRunning, Wait, Wake
    <3> QED BY <2>2, <3>1, <3>2 DEF ReturnIndex, CheckRunning, Wait, Wake, contents, creation, calls
  <2>3. CASE NextQueue
    BY <2>3 DEF NextQueue, creation, contents, calls
  <2>4. CASE SkipSuspended
    <3>1. CASE worker' = "poll"
      <4>1. Bank!TurnBegins(cur)
        BY <2>0, <2>4, <3>1 DEF SkipSuspended, Bank!TurnBegins, contents
      <4> QED BY <2>0, <4>1
    <3>2. CASE worker' # "poll"
      BY <2>4, <3>2 DEF SkipSuspended, contents
    <3> QED BY <3>1, <3>2
  <2>5. CASE Poll
    <3>1. CASE queues[cur] = <<>>
      <4>1. Bank!TurnEndsEmpty(cur)
        BY <2>0, <2>5, <3>1 DEF Poll, Bank!TurnEndsEmpty, contents
      <4> QED BY <2>0, <4>1
    <3>2. CASE queues[cur] # <<>>
      <4>1. Bank!Taken(cur)
        BY <2>0, <2>5, <3>2 DEF Poll, Bank!Taken
      <4> QED BY <2>0, <4>1
    <3> QED BY <3>1, <3>2
  <2>6. ASSUME NEW q \in Known, Offer(q), UNCHANGED <<worker, cur, suspended>>
        PROVE Bank!BankNext
    <3>1. q \in Queues /\ adds + 1 \in Items
      BY <2>6 DEF Known, Offer, Items, TypeOK
    <3>2. Bank!Offered(q, adds + 1)
      BY <2>6 DEF Offer, Bank!Offered
    <3> QED BY <3>1, <3>2
  <2>7. CASE Accept
    <3>1. CASE worker' = "next" /\ UNCHANGED contents
      BY <2>7, <3>1 DEF Accept, contents
    <3>2. CASE worker' = worker /\ \E q \in Known : Offer(q)
      BY <2>6, <2>7, <3>2 DEF Accept
    <3> QED BY <2>7, <3>1, <3>2 DEF Accept
  <2>8. ASSUME NEW c \in Clients, NEW q \in Known, Add(c, q) PROVE Bank!BankNext
    BY <2>6, <2>8 DEF Add, thread
  <2>9. ASSUME NEW c \in Clients, NEW q \in Known, ReadFlag(c, q) PROVE UNCHANGED Bank!bankVars
    BY <2>9 DEF ReadFlag, contents, thread
  <2>10. ASSUME NEW c \in Clients, NotifyWorker(c) \/ NotifyStop(c) PROVE UNCHANGED Bank!bankVars
    BY <2>10 DEF NotifyWorker, NotifyStop, Notified, contents
  <2>11. ASSUME NEW c \in Clients, Suspend(c) \/ Resume(c)
         PROVE Bank!BankNext \/ UNCHANGED Bank!bankVars
    <3> DEFINE o1 == [q \in Queues |-> ~suspended[q]]
               o2 == [q \in Queues |-> ~suspended'[q]]
    <3> PICK r \in Queues : r = arg[c]
      BY DEF TypeOK
    <3>1. /\ suspended \in [Queues -> BOOLEAN]
          /\ \E b \in BOOLEAN : suspended' = [suspended EXCEPT ![r] = b]
      BY <2>11, Zenon DEF TypeOK, Suspend, Resume
    <3>2. UNCHANGED <<queues, taken, worker, cur>>
      BY <2>11 DEF Suspend, Resume, contents, thread
    <3>3. CASE suspended' = suspended
      BY <3>2, <3>3
    <3>4. CASE suspended' # suspended
      <4>1. suspended' = [suspended EXCEPT ![r] = ~suspended[r]]
        <5> HIDE DEF Queues
        <5> PICK b \in BOOLEAN : suspended' = [suspended EXCEPT ![r] = b]
          BY <3>1
        <5>1. b # suspended[r]
          BY <3>1, <3>4
        <5>2. suspended[r] \in BOOLEAN
          BY <3>1
        <5>3. b = ~suspended[r]
          BY <5>1, <5>2, Zenon
        <5> QED BY <5>3
      <4>2. o2 = [o1 EXCEPT ![r] = ~o1[r]]
        <5> HIDE DEF Queues
        <5> QED BY <3>1, <4>1
      <4>3. Bank!Toggled(r)
        BY <3>2, <4>2 DEF Bank!Toggled
      <4> QED BY <4>3
    <3> QED BY <3>3, <3>4
  <2>12. ASSUME NEW c \in Clients, Stop(c) \/ Join(c) PROVE UNCHANGED Bank!bankVars
    BY <2>12 DEF Stop, Join, contents, thread
  <2>13. CASE UNCHANGED vars
    BY <2>13 DEF vars, contents, thread
  <2> QED
    BY <2>1, <2>2, <2>3, <2>4, <2>5, <2>7, <2>8, <2>9, <2>10, <2>11, <2>12, <2>13,
       SetsAssumption DEF Next, Creator, Worker, Inside
<1>3. Init => Inv
  BY InvInit
<1>4. TypeOK /\ Inv /\ [Next]_vars => Inv'
  BY InvNext
<1> QED BY <1>1, <1>2, <1>3, <1>4, DispatcherType, PTL DEF Spec, BankSpec, Bank!BankSpec

-----------------------------------------------------------------------------
(* The round robin of Dispatcher is fair: how many items overtake one that *)
(* waits is bounded by the turns the cursor has taken since that queue's.  *)

(* The turn on the queue under the cursor has begun and took nothing yet. *)
InTurn == worker \in {"skip", "poll"}

(* The items taken since the last turn of q are no more than the turns that *)
(* the cursor has finished since then, as it goes round the listed queues.  *)
Waited(q) ==
    /\ q < cur => passed[q] <= cur - q /\ (InTurn => passed[q] < cur - q)
    /\ q > cur => /\ passed[q] <= size.queues - q + cur
                  /\ InTurn => passed[q] < size.queues - q + cur
    /\ q = cur => passed[q] < size.queues /\ (~InTurn => passed[q] = 0)

FairInv ==
    /\ worker = "new" => cur = 0
    /\ size.queues > 0 => cur < size.queues
    /\ \A q \in Queues :
          /\ queues[q] # <<>> => q < size.suspended
          /\ queues[q] = <<>> \/ suspended[q] => passed[q] = 0
          /\ worker = "new" => passed[q] = 0
          /\ q < size.queues => Waited(q)
          /\ q >= size.queues => passed[q] = 0

\* What was added is there.
LEMMA AppendIsLonger ==
  ASSUME NEW S, NEW s \in Seq(S), NEW x \in S PROVE Append(s, x) # <<>>
  <1>1. Len(Append(s, x)) = Len(s) + 1 /\ Len(s) \in Nat
    OBVIOUS
  <1>2. Len(<<>>) = 0
    OBVIOUS
  <1> QED BY <1>1, <1>2

\* One more item is taken: the worker's turn ends, every queue that still has an
\* item and is active has waited for one item more, the others for none.
LEMMA TakenFair ==
  ASSUME TypeOK, FairInv, Poll, queues[cur] # <<>>, Inv
  PROVE  FairInv'
  <1>0. cur \in Nat /\ size.queues \in Nat /\ size.suspended \in Nat /\ cur \in Queues
    BY DEF TypeOK, Queues
  <1>1. /\ worker = "poll" /\ worker' = "accept" /\ cur' = cur
        /\ size' = size /\ suspended' = suspended
        /\ queues' = [queues EXCEPT ![cur] = Tail(@)]
        /\ passed' = [q \in Queues |->
                        IF q # cur /\ queues[q] # <<>> /\ ~suspended[q]
                        THEN passed[q] + 1 ELSE 0]
    BY DEF Poll, creation
  <1>2. ASSUME NEW q \in Queues
        PROVE  /\ queues'[q] # <<>> => q < size.suspended
               /\ queues'[q] = <<>> \/ suspended[q] => passed'[q] = 0
               /\ q < size.queues => Waited(q)'
               /\ q >= size.queues => passed'[q] = 0
    <2>0. q \in Nat /\ passed[q] \in Nat
      BY DEF TypeOK, Queues
    <2>1. CASE q = cur
      <3>1. passed'[q] = 0
        BY <1>1, <2>1
      <3>2. cur < size.suspended /\ size.suspended <= size.queues
        BY <1>0, <1>1 DEF Inv, ListsReady, Lists, TypeOK
      <3> QED BY <1>0, <1>1, <2>0, <2>1, <3>1, <3>2 DEF Waited, InTurn
    <2>2. CASE q # cur
      <3>1. queues'[q] = queues[q]
        BY <1>0, <1>1, <2>2 DEF TypeOK
      <3>2. passed'[q] = IF queues[q] # <<>> /\ ~suspended[q] THEN passed[q] + 1 ELSE 0
        BY <1>1, <2>2
      <3>3. size.suspended <= size.queues
        BY <1>0 DEF Inv, Lists, TypeOK
      <3>4. /\ queues[q] # <<>> => q < size.suspended
            /\ q < size.queues => Waited(q)
        BY DEF FairInv
      <3> QED BY <1>0, <1>1, <2>0, <2>2, <3>1, <3>2, <3>3, <3>4 DEF Waited, InTurn
    <2> QED BY <2>1, <2>2
  <1> QED BY <1>0, <1>1, <1>2 DEF FairInv

\* The cursor goes on: the queue it left has waited for nothing, the queue it
\* comes to for one turn less than there are queues.
LEMMA NextFair ==
  ASSUME TypeOK, FairInv, NextQueue, round < size.queues, Inv
  PROVE  FairInv'
  <1>0. cur \in Nat /\ size.queues \in Nat /\ round \in Nat /\ Queues \subseteq Nat
    BY DEF TypeOK, Queues
  <1>1. /\ worker = "next" /\ worker' = "skip" /\ cur' = (cur + 1) % size.queues
        /\ UNCHANGED <<size, suspended, queues, passed>>
    BY DEF NextQueue, creation, contents
  <1>2. size.queues > 0 /\ cur < size.queues
    BY <1>0 DEF FairInv
  <1>3. \/ cur + 1 < size.queues /\ cur' = cur + 1
        \/ cur + 1 = size.queues /\ cur' = 0
    <2>1. \A m, n \in Nat : m < n => m % n = m
      OBVIOUS
    <2>2. \A n \in Nat : n > 0 => n % n = 0
      OBVIOUS
    <2> QED BY <1>0, <1>1, <1>2, <2>1, <2>2
  <1>4. ASSUME NEW q \in Queues, q < size.queues
        PROVE  Waited(q)'
    <2>1. q \in Nat /\ passed[q] \in Nat
      BY <1>0 DEF TypeOK
    <2>2. Waited(q)
      BY <1>4 DEF FairInv
    <2> QED BY <1>0, <1>1, <1>2, <1>3, <1>4, <2>1, <2>2 DEF Waited, InTurn
  <1> QED BY <1>0, <1>1, <1>2, <1>3, <1>4 DEF FairInv

\* A step that leaves the lists, the flags, the cursor and the counts as they are
\* keeps the invariant, if a turn that ends without an item ends on an idle queue.
LEMMA QuietFair ==
  ASSUME TypeOK, FairInv,
         UNCHANGED <<size, cur, passed>>,
         \A q \in Queues : queues'[q] # <<>> => q < size.suspended,
         \A q \in Queues : queues'[q] = <<>> => queues[q] = <<>>,
         \A q \in Queues : suspended'[q] => suspended[q],
         worker' = "new" => worker = "new",
         InTurn' => InTurn,
         InTurn /\ ~InTurn' => \A q \in Queues : q = cur => passed[q] = 0
  PROVE  FairInv'
  BY DEF FairInv, Waited

LEMMA FairInit == Init => FairInv
  BY DEF Init, FairInv, Waited, Queues

LEMMA FairNext == TypeOK /\ Inv /\ FairInv /\ [Next]_vars => FairInv'
  <1> SUFFICES ASSUME TypeOK, Inv, FairInv, [Next]_vars PROVE FairInv'
    OBVIOUS
  <1>0. /\ cur \in Nat /\ size.queues \in Nat /\ size.suspended \in Nat /\ cur \in Queues
        /\ size.suspended <= size.queues /\ Queues \subseteq Nat
    BY DEF TypeOK, Queues, Inv, Lists
  <1>a. \A q \in Queues : /\ queues[q] # <<>> => q < size.suspended
                          /\ queues[q] = <<>> \/ suspended[q] => passed[q] = 0
    BY DEF FairInv
  <1>1. CASE Creator
    <2>1. CASE AddQueue \/ AddProcessor \/ AddFlag
      <3>1. /\ UNCHANGED <<queues, worker, cur, suspended, passed>>
            /\ size'.queues \in {size.queues, size.queues + 1}
            /\ size'.suspended \in {size.suspended, size.suspended + 1}
        BY <1>0, <2>1 DEF AddQueue, AddProcessor, AddFlag, Grow, TypeOK, contents, thread
      <3>2. size.queues = 0 => worker = "new" /\ cur = 0
        BY DEF Inv, Lists, FairInv
      <3>3. ASSUME NEW q \in Queues, q < size.queues + 1
            PROVE  q < size'.queues => Waited(q)'
        <4>1. q \in Nat /\ passed[q] \in Nat
          BY DEF TypeOK, Queues
        <4>2. q < size.queues => Waited(q)
          BY DEF FairInv
        <4>3. q >= size.queues => passed[q] = 0
          BY DEF FairInv
        <4>4. size.queues > 0 => cur < size.queues
          BY DEF FairInv
        <4> QED BY <1>0, <3>1, <3>2, <3>3, <4>1, <4>2, <4>3, <4>4 DEF Waited, InTurn
      <3>4. size'.queues > 0 => cur < size'.queues
        BY <1>0, <3>1, <3>2 DEF FairInv
      <3> QED BY <1>0, <3>1, <3>3, <3>4 DEF FairInv
    <2>2. CASE ReturnIndex
      <3>1. /\ UNCHANGED <<queues, size, cur, suspended, passed>>
            /\ worker' \in {worker, "check"}
        BY <2>2 DEF ReturnIndex, contents
      <3>2. worker' # worker => worker = "new"
        BY <2>2 DEF ReturnIndex, Inv, Lists
      <3> QED BY <1>a, <3>1, <3>2, QuietFair DEF InTurn
    <2> QED BY <1>1, <2>1, <2>2 DEF Creator
  <1>2. CASE CheckRunning \/ Wait \/ Wake
    BY <1>a, <1>2, QuietFair DEF CheckRunning, Wait, Wake, creation, contents, InTurn
  <1>3. CASE NextQueue
    <2>1. CASE round < size.queues
      BY <1>3, <2>1, NextFair
    <2>2. CASE ~(round < size.queues)
      BY <1>a, <1>3, <2>2, QuietFair DEF NextQueue, creation, contents, InTurn
    <2> QED BY <2>1, <2>2
  <1>4. CASE SkipSuspended
    <2>1. UNCHANGED <<queues, size, cur, suspended, passed>> /\ worker = "skip"
      BY <1>4 DEF SkipSuspended, creation, contents
    <2>2. worker' \in {"dead", "next", "poll"}
      BY <1>4 DEF SkipSuspended
    <2>3. worker' # "poll" => cur >= size.suspended \/ suspended[cur]
      BY <1>4 DEF SkipSuspended
    <2>4. worker' # "poll" => passed[cur] = 0
      BY <1>0, <1>a, <2>3
    <2> QED BY <1>a, <2>1, <2>2, <2>4, QuietFair DEF InTurn
  <1>5. CASE Poll
    <2>1. CASE queues[cur] = <<>>
      <3>1. passed[cur] = 0
        BY <1>0, <1>a, <2>1
      <3>2. UNCHANGED <<queues, size, cur, suspended, passed>> /\ worker = "poll" /\ worker' = "next"
        BY <1>5, <2>1 DEF Poll, creation, contents
      <3> QED BY <1>a, <3>1, <3>2, QuietFair DEF InTurn
    <2>2. CASE queues[cur] # <<>>
      BY <1>5, <2>2, TakenFair
    <2> QED BY <2>1, <2>2
  <1>6. ASSUME NEW q \in Known, Offer(q), UNCHANGED <<size, worker, cur, suspended, passed>>
        PROVE  FairInv'
    <2>1. q \in Queues /\ q < size.suspended
      BY DEF Known
    <2>2. queues' = [queues EXCEPT ![q] = Append(@, adds + 1)]
      BY <1>6 DEF Offer
    <2>3. \A p \in Queues : queues'[p] = queues[p] \/ (p = q /\ queues'[p] # <<>>)
      <3>1. queues[q] \in Seq(Items) /\ adds + 1 \in Items
        BY <1>6, <2>1, SizesAssumption DEF TypeOK, Offer, Items
      <3>2. Append(queues[q], adds + 1) # <<>>
        BY <3>1, AppendIsLonger
      <3>3. queues'[q] = Append(queues[q], adds + 1)
        BY <2>1, <2>2 DEF TypeOK
      <3>4. \A p \in Queues : p # q => queues'[p] = queues[p]
        BY <2>2 DEF TypeOK
      <3>5. queues'[q] # <<>>
        BY <3>1, <3>2, <3>3
      <3> QED BY <3>4, <3>5
    <2> QED BY <1>a, <1>6, <2>1, <2>3, QuietFair DEF InTurn
  <1>7. CASE Accept
    <2>1. UNCHANGED <<size, cur, suspended, passed>> /\ worker = "accept"
      BY <1>7 DEF Accept, creation
    <2>2. CASE worker' = "next" /\ UNCHANGED contents
      BY <1>a, <2>1, <2>2, QuietFair DEF contents, InTurn
    <2>3. CASE worker' = worker /\ \E q \in Known : Offer(q)
      BY <1>6, <2>1, <2>3
    <2> QED BY <1>7, <2>2, <2>3 DEF Accept
  <1>8. ASSUME NEW c \in Clients, NEW q \in Known, Add(c, q) PROVE FairInv'
    BY <1>6, <1>8 DEF Add, creation, thread
  <1>9. ASSUME NEW c \in Clients, NEW q \in Known, ReadFlag(c, q) PROVE FairInv'
    BY <1>a, <1>9, QuietFair DEF ReadFlag, creation, contents, thread, InTurn
  <1>10. ASSUME NEW c \in Clients, NotifyWorker(c) \/ NotifyStop(c) PROVE FairInv'
    BY <1>a, <1>10, QuietFair DEF NotifyWorker, NotifyStop, Notified, creation, contents, InTurn
  <1>11. ASSUME NEW c \in Clients, Resume(c) PROVE FairInv'
    <2>1. UNCHANGED <<queues, size, cur, passed, worker>>
      BY <1>11 DEF Resume, creation, contents, thread
    <2>2. suspended' = [suspended EXCEPT ![arg[c]] = FALSE]
      BY <1>11 DEF Resume
    <2>3. \A q \in Queues : suspended'[q] => suspended[q]
      BY <2>2, Zenon DEF TypeOK
    <2> QED BY <1>a, <2>1, <2>3, QuietFair DEF InTurn
  <1>12. ASSUME NEW c \in Clients, Suspend(c) PROVE FairInv'
    <2> PICK r \in Queues : r = arg[c]
      BY DEF TypeOK
    <2>1. UNCHANGED <<queues, size, cur, worker>>
      BY <1>12 DEF Suspend, creation, contents, thread
    <2>2. passed' = [passed EXCEPT ![r] = 0] /\ suspended' = [suspended EXCEPT ![r] = TRUE]
      BY <1>12 DEF Suspend
    <2>3. passed'[r] = 0
      BY <2>2 DEF TypeOK
    <2>4. \A q \in Queues : q # r => passed'[q] = passed[q] /\ suspended'[q] = suspended[q]
      BY <2>2 DEF TypeOK
    <2>5. ASSUME NEW q \in Queues, q < size.queues PROVE Waited(q)'
      <3>1. passed[q] \in Nat /\ q \in Nat /\ passed'[q] \in {0, passed[q]}
        BY <1>0, <2>3, <2>4 DEF TypeOK
      <3>2. Waited(q)
        BY <2>5 DEF FairInv
      <3> QED BY <1>0, <2>1, <2>5, <3>1, <3>2 DEF Waited, InTurn
    <2> QED BY <1>a, <2>1, <2>3, <2>4, <2>5 DEF FairInv
  <1>13. ASSUME NEW c \in Clients, Stop(c) \/ Join(c) PROVE FairInv'
    BY <1>a, <1>13, QuietFair DEF Stop, Join, creation, contents, thread, InTurn
  <1>14. CASE UNCHANGED vars
    BY <1>a, <1>14, QuietFair DEF vars, creation, contents, thread, InTurn
  <1> QED
    BY <1>1, <1>2, <1>3, <1>4, <1>5, <1>7, <1>8, <1>9, <1>10, <1>11, <1>12, <1>13,
       <1>14, SetsAssumption DEF Next, Worker, Inside

\* The round robin is fair for any number of queues, also while queues are being
\* added, suspended and resumed: an active queue that has an item sees less than one
\* round of items of others go first.
THEOREM RoundRobinIsFair == Spec => []FairRounds
<1>1. Init => FairInv
  BY FairInit
<1>2. TypeOK /\ Inv /\ FairInv /\ [Next]_vars => FairInv'
  BY FairNext
<1>3. TypeOK /\ FairInv => FairRounds
  <2> SUFFICES ASSUME TypeOK, FairInv, NEW q \in Queues PROVE passed[q] < NumQueues
    BY DEF FairRounds
  <2>1. /\ cur \in Nat /\ size.queues \in 0 .. NumQueues /\ q \in Nat /\ passed[q] \in Nat
    BY DEF TypeOK, Queues
  <2>2. /\ size.queues > 0 => cur < size.queues
        /\ q < size.queues => Waited(q)
        /\ q >= size.queues => passed[q] = 0
    BY DEF FairInv
  <2>3. passed[q] < size.queues \/ passed[q] = 0
    BY <2>1, <2>2 DEF Waited
  <2> QED BY <2>1, <2>3, SizesAssumption
<1>4. Init => Inv
  BY InvInit
<1>5. TypeOK /\ Inv /\ [Next]_vars => Inv'
  BY InvNext
<1> QED BY <1>1, <1>2, <1>3, <1>4, <1>5, DispatcherType, PTL DEF Spec

=============================================================================
