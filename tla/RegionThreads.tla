--------------------------- MODULE RegionThreads ---------------------------
(***************************************************************************)
(* The WS Regions protocol when the servers run on several processors:     *)
(* Java-WebSocket then has a decoder thread for each connection, and the   *)
(* handlers of RegionServer interleave.  They share the AgentStatus        *)
(* objects and guestAgents without any lock (the two synchronized maps     *)
(* only protect themselves).                                               *)
(*                                                                         *)
(* A handler's message stays at the head of its wire until the handler     *)
(* returns.  Its steps are the reads and writes of what is shared and the  *)
(* sending; a list or map operation is one step.  What is looked up only   *)
(* to be sent or sent on to (a saved message, a connection) is read in the *)
(* step that sends; the look at the tables with which a handler begins and *)
(* the lines that then say where the agent is are one step.                *)
(* Shards, pylons and connections are those of RegionServers.              *)
(***************************************************************************)
EXTENDS RegionServers

VARIABLES
    at,    \* wire -> the step its handler is at, "idle" when there is none
    seen   \* wire -> the connection of the AgentStatus it holds, or NoNode

threadVars == <<at, seen>>
allVars == <<vars, threadVars>>

Steps == {"idle", "HOME", "OFFLINE", "REMOTE", "guest", "unknown",
          "located", "accept", "drain", "more", "pop", "tell", "remove"}

ThreadTypeOK ==
    /\ TypeOK
    /\ at \in [Wires -> Steps]
    /\ seen \in [Wires -> Nodes \cup {NoNode}]

ThreadInit ==
    /\ Init
    /\ at = [w \in Wires |-> "idle"]
    /\ seen = [w \in Wires |-> NoNode]

-----------------------------------------------------------------------------
(* The handler of the message of type t at the head of w, at step x. *)
In(s, w, t, x) == Handles(s, w, t) /\ at[w] = x
Goto(w, x) == at' = [at EXCEPT ![w] = x] /\ UNCHANGED seen
Done(w) == Goto(w, "idle")

(* The handlers that take several steps; the others find nothing to do, or *)
(* write one thing, and are whole.                                         *)
TakesSteps(s, m) ==
    \/ m.type = "WAVE"
    \/ m.type = "CONNECT" /\ IF AtHome(s, m.agent) THEN status[m.agent] = "OFFLINE"
                              ELSE guests[s][m.agent] = NoNode
    \/ m.type \in {"REQ_LEAVE", "REQ_BUFFER", "AGENT_UPDATE"} /\ AtHome(s, m.agent)
    \/ m.type = "REQ_ACCEPT" /\ guests[s][m.agent] # NoNode

Whole(s, w) ==
    /\ at[w] = "idle"
    /\ w[2] = s
    /\ chan[w] # <<>>
    /\ ~TakesSteps(s, Head(chan[w]))
    /\ Serve(s, w)
    /\ UNCHANGED threadVars

(* Mutant of Pop: what is sent stays saved. *)
PopPeeks(w, a, v, hop) ==
    /\ at[w] = "pop"
    /\ saved[a] # <<>>
    /\ Send(v, [Head(saved[a]) EXCEPT !.hops = @ + hop])
    /\ Goto(w, "drain")
    /\ UNCHANGED saved

Pop(w, a, v, hop) ==
    /\ at[w] = "pop"
    /\ saved[a] # <<>>
    /\ Send(v, [Head(saved[a]) EXCEPT !.hops = @ + hop])
    /\ saved' = [saved EXCEPT ![a] = Tail(@)]
    /\ Goto(w, "drain")

(* while(status is as it was set and something is saved) pop and send: the *)
(* status is read first, then the list.  One that another handler has      *)
(* emptied before pop() throws, which ends this one.                       *)
Drain(w, a, expected, v, hop) ==
    \/ at[w] = "drain" /\ status[a] = expected /\ Goto(w, "more") /\ UNCHANGED <<chan, saved>>
    \/ at[w] = "more" /\ saved[a] # <<>> /\ Goto(w, "pop") /\ UNCHANGED <<chan, saved>>
    \/ Pop(w, a, v, hop)
    \/ /\ \/ at[w] = "drain" /\ status[a] # expected
          \/ at[w] \in {"more", "pop"} /\ saved[a] = <<>>
       /\ Drop(w) /\ Done(w) /\ UNCHANGED saved

ConnectHomeSteps(s, w) ==
    LET a == Head(chan[w]).agent IN
    \/ /\ In(s, w, "CONNECT", "idle") /\ AtHome(s, a) /\ status[a] = "OFFLINE"
       /\ conn' = [conn EXCEPT ![a] = w[1]]
       /\ last' = [last EXCEPT ![a] = s]
       /\ Goto(w, "located")
       /\ UNCHANGED <<shardVars, status, saved, guests, chan, waves, moves>>
    \/ /\ In(s, w, "CONNECT", "located")
       /\ status' = [status EXCEPT ![a] = "HOME"]
       /\ Goto(w, "drain")
       /\ UNCHANGED <<shardVars, conn, last, saved, guests, chan, waves, moves>>
    \/ /\ Handles(s, w, "CONNECT")
       /\ Drain(w, a, "HOME", <<s, conn[a]>>, 0)
       /\ UNCHANGED <<shardVars, status, conn, last, guests, waves, moves>>

ConnectGuestSteps(s, w) ==
    LET a == Head(chan[w]).agent IN
    \/ /\ In(s, w, "CONNECT", "idle") /\ ~AtHome(s, a) /\ guests[s][a] = NoNode
       /\ guests' = [guests EXCEPT ![s][a] = w[1]]
       /\ Goto(w, "tell")
       /\ UNCHANGED <<shardVars, homeVars, chan, waves, moves>>
    \/ /\ In(s, w, "CONNECT", "tell")
       /\ IF Home(a) # s THEN Pass(w, <<s, Home(a)>>, <<Msg("AGENT_UPDATE", a)>>) ELSE Drop(w)
       /\ Done(w)
       /\ UNCHANGED <<shardVars, homeVars, guests, waves, moves>>

(* Mutant of LeaveSteps: the acceptance first, OFFLINE after. *)
LeaveAcceptsFirst(s, w) ==
    LET a == Head(chan[w]).agent IN
    \/ /\ In(s, w, "REQ_LEAVE", "idle")
       /\ AtHome(s, a)
       /\ Send(<<s, conn[a]>>, Msg("REQ_ACCEPT", a))
       /\ Goto(w, "accept")
       /\ UNCHANGED <<shardVars, homeVars, guests, waves, moves>>
    \/ /\ In(s, w, "REQ_LEAVE", "accept")
       /\ status' = [status EXCEPT ![a] = "OFFLINE"]
       /\ Drop(w)
       /\ Done(w)
       /\ UNCHANGED <<shardVars, conn, last, saved, guests, waves, moves>>

(* reqLeave and reqBuffer: OFFLINE first, the acceptance after. *)
LeaveSteps(s, w) ==
    LET a == Head(chan[w]).agent IN
    \/ /\ \E t \in {"REQ_LEAVE", "REQ_BUFFER"} : In(s, w, t, "idle")
       /\ AtHome(s, a)
       /\ status' = [status EXCEPT ![a] = "OFFLINE"]
       /\ Goto(w, "accept")
       /\ UNCHANGED <<shardVars, conn, last, saved, guests, chan, waves, moves>>
    \/ /\ In(s, w, "REQ_LEAVE", "accept")
       /\ Pass(w, <<s, conn[a]>>, <<Msg("REQ_ACCEPT", a)>>)
       /\ Done(w)
       /\ UNCHANGED <<shardVars, homeVars, guests, waves, moves>>
    \/ /\ In(s, w, "REQ_BUFFER", "accept")
       /\ IF last[a] # s THEN Pass(w, <<s, last[a]>>, <<Msg("REQ_ACCEPT", a)>>) ELSE Drop(w)
       /\ Done(w)
       /\ UNCHANGED <<shardVars, homeVars, guests, waves, moves>>

(* The acceptance is sent before the guest is removed. *)
AcceptSteps(s, w) ==
    LET a == Head(chan[w]).agent IN
    \/ /\ In(s, w, "REQ_ACCEPT", "idle") /\ guests[s][a] # NoNode
       /\ Send(<<s, guests[s][a]>>, Msg("REQ_ACCEPT", a))
       /\ Goto(w, "remove")
       /\ UNCHANGED <<shardVars, homeVars, guests, waves, moves>>
    \/ /\ In(s, w, "REQ_ACCEPT", "remove")
       /\ guests' = [guests EXCEPT ![s][a] = NoNode]
       /\ Drop(w)
       /\ Done(w)
       /\ UNCHANGED <<shardVars, homeVars, waves, moves>>

UpdateSteps(s, w) ==
    LET a == Head(chan[w]).agent IN
    \/ /\ In(s, w, "AGENT_UPDATE", "idle") /\ AtHome(s, a)
       /\ last' = [last EXCEPT ![a] = w[1]]
       /\ Goto(w, "located")
       /\ UNCHANGED <<shardVars, status, conn, saved, guests, chan, waves, moves>>
    \/ /\ In(s, w, "AGENT_UPDATE", "located")
       /\ status' = [status EXCEPT ![a] = "REMOTE"]
       /\ Goto(w, "drain")
       /\ UNCHANGED <<shardVars, conn, last, saved, guests, chan, waves, moves>>
    \/ /\ Handles(s, w, "AGENT_UPDATE")
       /\ Drain(w, a, "REMOTE", <<s, w[1]>>, 1)
       /\ UNCHANGED <<shardVars, status, conn, last, guests, waves, moves>>

(* contentMessageHandler looks both maps and the status up, then acts; the *)
(* connection or the location of an agent of the region is read then.      *)
ContentLooks(s, w) ==
    /\ In(s, w, "WAVE", "idle")
    /\ LET a == waves[Head(chan[w]).id].to IN
       /\ at' = [at EXCEPT ![w] = IF AtHome(s, a) THEN status[a]
                                  ELSE IF guests[s][a] # NoNode THEN "guest"
                                  ELSE "unknown"]
       /\ seen' = [seen EXCEPT ![w] = guests[s][a]]
    /\ UNCHANGED vars

ContentActs(s, w) ==
    /\ Handles(s, w, "WAVE")
    /\ LET m == Head(chan[w])
           a == waves[m.id].to
           Forward(t) == Pass(w, <<s, t>>, <<Wave(m.id, m.hops + 1)>>)
           Deliver(n) == Pass(w, <<s, n>>, <<m>>)
       IN \/ at[w] = "HOME" /\ Deliver(conn[a]) /\ UNCHANGED saved
          \/ at[w] = "OFFLINE" /\ saved' = [saved EXCEPT ![a] = Append(@, m)] /\ Drop(w)
          \/ /\ at[w] = "REMOTE" /\ UNCHANGED saved
             /\ IF last[a] # s THEN Forward(last[a]) ELSE Drop(w)
          \/ at[w] = "guest" /\ Deliver(seen[w]) /\ UNCHANGED saved
          \/ /\ at[w] = "unknown" /\ UNCHANGED saved
             /\ IF Home(a) # s THEN Forward(Home(a)) ELSE Drop(w)
    /\ Done(w)
    /\ UNCHANGED <<shardVars, status, conn, last, guests, waves, moves>>

-----------------------------------------------------------------------------
Decoder(s, w) ==
    \/ Whole(s, w) \/ ConnectHomeSteps(s, w) \/ ConnectGuestSteps(s, w) \/ LeaveSteps(s, w)
    \/ AcceptSteps(s, w) \/ UpdateSteps(s, w) \/ ContentLooks(s, w) \/ ContentActs(s, w)

ThreadNext ==
    \/ /\ \/ \E a \in Agents : Start(a) \/ Depart(a) \/ Arrive(a)
          \/ \E a, b \in Agents : a # b /\ SendWave(b, a)
          \/ \E a \in Movers, n \in Nodes : Move(a, n)
          \/ \E n \in Nodes : Receive(n)
       /\ UNCHANGED threadVars
    \/ \E s \in Servers, w \in Wires : Decoder(s, w)

ThreadSpec == ThreadInit /\ [][ThreadNext]_allVars

-----------------------------------------------------------------------------
(* Properties.                                                             *)

(* However the handlers interleave, no wave is ever in two places.         *)
NothingDoubled ==
    \A i \in DOMAIN waves :
        LET a == waves[i].to
        IN Cardinality(OnWires(i)) + Copies(i, saved[a]) + InShard(i, inQueue[a])
           + InShard(i, got[a]) <= 1

(* The acceptances are not confused: an agent stops only for the home      *)
(* server's OFFLINE, and stays OFFLINE there until it has arrived.         *)
StopsOffline ==
    \A a \in Agents : phase[a] \in {"stopping", "transit"} => status[a] = "OFFLINE"

(* "Saved messages for the agents that are OFFLINE": when no handler is at *)
(* work, nothing is saved for an agent that is not OFFLINE.                *)
NothingStaysSaved ==
    (\A w \in Wires : at[w] = "idle") => SavedWhileOffline

(* OFFLINE: "The agent is disconnected and the messages will be saved for  *)
(* it": moving loses no wave.                                              *)
KnownIsKept == NothingLost

(* The same, after the move: an agent that has arrived is not left OFFLINE.*)
ArrivedIsConnected ==
    (\A w \in Wires : at[w] = "idle") => OfflineIsDisconnected

=============================================================================
