----------------------------- MODULE QueueBank -----------------------------
(***************************************************************************)
(* What core/util/Dispatcher.java promises to the code that uses it: a     *)
(* bank of first-in-first-out queues served by one thread.  An item is in  *)
(* the queue it was offered to until it is taken, once, in its turn.  A    *)
(* queue gets a turn only while it is open; closing it (suspend) does not  *)
(* take back a turn that has begun, so at most one more item is taken from *)
(* a queue that was closed.  A turn may also end with nothing taken.       *)
(***************************************************************************)
EXTENDS Sequences

CONSTANTS Queues,   \* the indexes of the queues
          Items,    \* what can be offered
          NoQueue   \* no queue has the turn

VARIABLES pending,  \* queue -> the items offered and not yet taken
          taken,    \* queue -> the items taken, in the order of taking
          open,     \* queue -> it may be given the turn
          turn      \* the queue whose turn has begun, or NoQueue

bankVars == <<pending, taken, open, turn>>

BankInit ==
    /\ pending = [q \in Queues |-> <<>>]
    /\ taken = [q \in Queues |-> <<>>]
    /\ open \in [Queues -> BOOLEAN]
    /\ turn = NoQueue

Offered(q, x) ==
    /\ pending' = [pending EXCEPT ![q] = Append(@, x)]
    /\ UNCHANGED <<taken, open, turn>>

Toggled(q) ==
    /\ open' = [open EXCEPT ![q] = ~@]
    /\ UNCHANGED <<pending, taken, turn>>

TurnBegins(q) ==
    /\ turn = NoQueue
    /\ open[q]
    /\ turn' = q
    /\ UNCHANGED <<pending, taken, open>>

Taken(q) ==
    /\ turn = q
    /\ turn' = NoQueue
    /\ pending[q] # <<>>
    /\ taken' = [taken EXCEPT ![q] = Append(@, Head(pending[q]))]
    /\ pending' = [pending EXCEPT ![q] = Tail(@)]
    /\ UNCHANGED open

TurnEndsEmpty(q) ==
    /\ turn = q
    /\ turn' = NoQueue
    /\ pending[q] = <<>>
    /\ UNCHANGED <<pending, taken, open>>

BankNext ==
    \E q \in Queues :
        \/ \E x \in Items : Offered(q, x)
        \/ Toggled(q)
        \/ TurnBegins(q)
        \/ Taken(q)
        \/ TurnEndsEmpty(q)

BankSpec == BankInit /\ [][BankNext]_bankVars

=============================================================================
