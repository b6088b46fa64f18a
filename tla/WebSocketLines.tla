--------------------------- MODULE WebSocketLines ---------------------------
(***************************************************************************)
(* What the proofs about WebSocketPylon say of its states and of its       *)
(* steps.  What a pylon has to say to the server is one line, whose front  *)
(* has been written to the socket, and what comes to it is another, whose  *)
(* front the thread of the Dispatcher has in hand.  The invariants are     *)
(* about the places on the lines: TypeInv, Copies, Named, Announced,       *)
(* Followed, Owed and Marches.  A step keeps all but a few of the places,  *)
(* in their order (Kept, Flow and Runs).                                   *)
(***************************************************************************)
EXTENDS WebSocketPylon

-----------------------------------------------------------------------------
(* Sequences: one sequence is another without a piece, or with one more.   *)

Skip(i, c, d) == IF i <= c THEN i ELSE i + (d - c)

\* t is s without the elements c + 1 .. d.
Cut(s, t, c, d) ==
    /\ c \in Nat /\ d \in Nat /\ c <= d /\ d <= Len(s)
    /\ Len(t) = Len(s) - (d - c)
    /\ \A i \in 1 .. Len(t) : t[i] = s[Skip(i, c, d)]

-----------------------------------------------------------------------------
(* Types.                                                                  *)

\* An agent that is about to go has been told to, at least once.
Movers == \A a \in Agents : where[a].step \in {"stopping", "removed"} => moved[a] >= 1

TypeInv == TypeOK /\ Movers

-----------------------------------------------------------------------------
(* The two lines of a pylon, and what a step does to them.                 *)

\* What the pylon has to say, the part before Served(p) written to the socket.
Stream(p) == toServer[p] \o outbound[p]
Served(p) == Len(toServer[p])

\* What comes to the pylon, the first Held(p) of it with the thread.
Hand(p) == IF serving[p] = Nobody THEN <<>> ELSE <<serving[p]>>
Held(p) == Len(Hand(p))
Pipe(p) == (Hand(p) \o inbound[p]) \o toPylon[p]

SameStream(p) == Stream(p)' = Stream(p) /\ Served(p)' = Served(p)
SamePipe(p) == Pipe(p)' = Pipe(p) /\ Held(p)' = Held(p)

-----------------------------------------------------------------------------
(* The places on the lines, what a step keeps of them and in what order.   *)

Kinds == {"stream", "pipe"}
Line(k, p) == IF k = "stream" THEN Stream(p) ELSE Pipe(p)
Spots == {s \in Kinds \X Pylons \X Nat : s[3] \in 1 .. Len(Line(s[1], s[2]))}
Item(s) == Line(s[1], s[2])[s[3]]

\* Every place has its message from one place before the step, each from another.
Carried(f) ==
    /\ f \in [Spots' -> Spots]
    /\ \A s \in Spots' : Item(s)' = Item(f[s])
    /\ \A s, t \in Spots' : f[s] = f[t] => s = t

SameLine(k, p) == Line(k, p)' = Line(k, p)

\* All but the new places N have their message from a place of the same line,
\* in the same order, and all messages but those in G stay.
Kept(f, N, G) ==
    /\ f \in [Spots' \ N -> Spots \ G]
    /\ \A s \in Spots' \ N : Item(s)' = Item(f[s]) /\ f[s][1] = s[1] /\ f[s][2] = s[2]
    /\ \A s, t \in Spots' \ N : s[1] = t[1] /\ s[2] = t[2] => (s[3] < t[3] <=> f[s][3] < f[t][3])
    /\ \A t \in Spots \ G : \E s \in Spots' \ N : f[s] = t

\* The inverse of Skip.
Back(i, c, d) == IF i <= c THEN i ELSE i - (d - c)

\* The same of one line, where g gives the numbers of the places.
KeepsLine(g, N, G, k, p) ==
    /\ \A i \in 1 .. Len(Line(k, p)') : <<k, p, i>> \notin N =>
           /\ g[<<k, p, i>>] \in 1 .. Len(Line(k, p)) /\ <<k, p, g[<<k, p, i>>]>> \notin G
           /\ (Line(k, p)')[i] = Line(k, p)[g[<<k, p, i>>]]
    /\ \A i, j \in 1 .. Len(Line(k, p)') : <<k, p, i>> \notin N /\ <<k, p, j>> \notin N =>
           (i < j <=> g[<<k, p, i>>] < g[<<k, p, j>>])
    /\ \A j \in 1 .. Len(Line(k, p)) : <<k, p, j>> \notin G =>
           \E i \in 1 .. Len(Line(k, p)') : <<k, p, i>> \notin N /\ g[<<k, p, i>>] = j

\* Where a place is: on which line, and in which piece of it.
On(s, k, p) == s[1] = k /\ s[2] = p
Piece(s, k, p, c, d) == On(s, k, p) /\ s[3] > c /\ s[3] <= d
Gone(k, p, c, d) == {t \in Spots : Piece(t, k, p, c, d)}
Grown(k, p, c, d) == {s \in Spots' : Piece(s, k, p, c, d)}
Pieces(k, p, c, d, l, q, e, h) == {t \in Spots : Piece(t, k, p, c, d) \/ Piece(t, l, q, e, h)}

-----------------------------------------------------------------------------
(* No wave and no agent is doubled.                                        *)

\* Two copies of what was sent once.
Same(m, n) == m.kind = n.kind /\ m.from = n.from /\ m.nr = n.nr

\* It has been sent: the sender has counted it.
Known(m) ==
    /\ m.kind = "wave" => m.nr <= count[m.from]
    /\ m.kind = "agent" => /\ m.nr <= moved[m.from]
                           /\ m.nr = moved[m.from] => where[m.from].step \notin {"stopping", "removed"}

\* An agent on its way runs nowhere, and this is its last move.
Underway(m) == m.kind = "agent" => m.nr = moved[m.from] /\ where[m.from].step = "away"

Once == \A s, t \in Spots : Item(s) \in Content /\ Item(t) \in Content /\ Same(Item(s), Item(t)) => s = t

\* What is on a line is neither dropped nor received.
Fresh(m) ==
    /\ \A n \in lost : ~Same(m, n)
    /\ \A b \in Agents : \A j \in DOMAIN received[b] : ~Same(m, received[b][j].wave)

Sent == \A s \in Spots : Item(s) \in Content => Known(Item(s)) /\ Underway(Item(s)) /\ Fresh(Item(s))

LostKnown == \A n \in lost : Known(n)

Taken ==
    \A b \in Agents : \A j \in DOMAIN received[b] :
        /\ Known(received[b][j].wave)
        /\ received[b][j].wave.to = b
        /\ \A n \in lost : ~Same(received[b][j].wave, n)
        /\ \A c \in Agents : \A k \in DOMAIN received[c] :
               Same(received[b][j].wave, received[c][k].wave) => b = c /\ j = k

Copies == Once /\ Sent /\ LostKnown /\ Taken

-----------------------------------------------------------------------------
(* What each step does to the order on the lines.                          *)

\* Written to the socket; in the hand of the thread.
Written(s) == s[1] = "stream" /\ s[3] <= Served(s[2])
Flow(f, N, G) ==
    /\ Kept(f, N, G)
    /\ \A s \in Spots' \ N : /\ Written(s)' <=> Written(f[s])
                             /\ s[1] = "pipe" /\ s[3] > Held(s[2])' => f[s][3] > Held(s[2])

\* One message leaves a line, and one comes to another line, or none.
MovesOne(k, p, c, l, q, e, h) ==
    /\ Cut(Line(k, p), Line(k, p)', c, c + 1) /\ Cut(Line(l, q)', Line(l, q), e, h)
    /\ \A m \in Kinds, r \in Pylons : (m # k \/ r # p) /\ (m # l \/ r # q) => SameLine(m, r)
    /\ \/ k = "stream" /\ c = Served(p) /\ Served(p)' = Served(p)
       \/ k = "stream" /\ c = 0 /\ Served(p)' = Served(p) - 1
       \/ k = "pipe" /\ Served(p)' = Served(p)
    /\ \A r \in Pylons : r # p => Served(r)' = Served(r)
    /\ l = "stream" => h = e
    /\ \A r \in Pylons : ~(k = "pipe" /\ r = p) /\ ~(l = "pipe" /\ r = q /\ h # e) => Held(r)' = Held(r)
    /\ k = "pipe" => c = 0 /\ (Held(p)' = Held(p) - 1 \/ (Held(p)' = 0 /\ Held(p) = 0))
    /\ l = "pipe" /\ h # e => \/ e = 0 /\ Held(q) = 0 /\ Held(q)' = 1
                              \/ e >= Held(q) /\ Held(q)' = Held(q)

\* A line grows: the old places stay, the new ones follow.
Ends(p, t) == {<<"stream", p, i>> : i \in Len(Stream(p)) + 1 .. Len(Stream(p)) + Len(t)}

\* An agent leaves: u and then m come to the end of the stream, at the places x and n.
Farewell(p, u, m) == outbound' = [outbound EXCEPT ![p] = @ \o <<u, m>>] /\ UNCHANGED <<thread, network>>
FarewellAt(p, u, m, x, n) ==
    /\ On(n, "stream", p) /\ ~Written(n)' /\ Item(n)' = m
    /\ On(x, "stream", p) /\ ~Written(x)' /\ Item(x)' = u /\ x[3] + 1 = n[3]
    /\ \A s \in Spots' : On(s, "stream", p) => s[3] <= n[3]
    /\ Spots' = Spots \cup {x, n} /\ \E f : Flow(f, {x, n}, {})

-----------------------------------------------------------------------------
(* Who is registered with which pylon.                                     *)

\* The connection has gone, and the pylon says nothing any more.
Dead(p) == conn[p] = "closed" /\ p \in suspended

\* A name is registered where the entity runs; only of an agent that was
\* started anew there may be an old copy, behind a connection that is gone.
Listed ==
    \A p \in Pylons : \A e \in receivers[p] :
        \/ p = where[e].node /\ where[e].step \in {"adding", "in", "stopping"}
        \/ e \in restarted /\ Dead(p)

Present ==
    \A e \in Entities : /\ where[e].step \in {"adding", "in", "stopping"} => e \in receivers[where[e].node]
                        /\ where[e].step = "putting" => e \notin receivers[where[e].node]

\* An agent that comes is not registered.
Strangers == \A s \in Spots : s[1] = "pipe" /\ Item(s) \in Transit => Item(s).from \notin receivers[s[2]]

Started == \A e \in Entities : where[e].step # "putting" => conn[where[e].node] # "connecting"

Named == Listed /\ Present /\ Strangers /\ Started

\* An entity of its own accord: the others stay where they are.
Alike(e) ==
    /\ \A f \in Entities : f # e => where'[f] = where[f]
    /\ \A p \in Pylons : \A f \in Entities : f # e => (f \in receivers'[p] <=> f \in receivers[p])
    /\ restarted \subseteq restarted'

-----------------------------------------------------------------------------
(* What is on the way to the server about an entity.                       *)

\* It may still reach the server: it is written, or the pylon speaks.
Active(s) == s[1] = "stream" /\ (Written(s) \/ ~Dead(s[2]))
Carries(s, a) == Item(s) \in Transit /\ Item(s).from = a
Reg(s) == Item(s).kind = "reg" /\ Active(s)

\* A registration comes from where the entity is, and before the entity itself:
\* it is told before the agent goes, and nothing overtakes on a line.
Registers ==
    \A s \in Spots : Reg(s) =>
        /\ s[2] = where[Item(s).from].node
        /\ \A t \in Spots : Carries(t, Item(s).from) => t[2] = s[2] /\ (t[1] = "stream" => s[3] < t[3])

\* An agent that has left before it is registered follows on the line.
Waits ==
    \A s \in Spots : Reg(s) /\ ~Written(s) /\ where[Item(s).from].step = "away" =>
        \E t \in Spots : t[1] = "stream" /\ Carries(t, Item(s).from)

Announced == Registers /\ Waits

\* The new carriers follow the registrations; a new registration is of an
\* entity that runs there.
Follow(f, N) ==
    \A n \in N, s \in Spots' \ N : Reg(f[s]) /\ Item(n)' \in Transit /\ Item(n)'.from = Item(f[s]).from =>
        n[2] = s[2] /\ (n[1] = "stream" => s[3] < n[3])
Rightly(N) ==
    \A n \in N : Item(n)'.kind = "reg" =>
        /\ n[2] = where'[Item(n)'.from].node /\ where'[Item(n)'.from].step # "away"
        /\ \A t \in Spots' : ~(Item(t)' \in Transit /\ Item(t)'.from = Item(n)'.from)

-----------------------------------------------------------------------------
(* The server follows.                                                     *)

Tells(s, e, p) == On(s, "stream", p) /\ Item(s).kind \in {"reg", "unreg"} /\ Item(s).from = e

\* The last thing that the pylon has to say of the entity is that it is here,
\* or it has nothing to say and the server knows.
Follows(e, p) ==
    \/ \E s \in Spots : /\ Tells(s, e, p) /\ Item(s).kind = "reg"
                        /\ \A t \in Spots : Tells(t, e, p) => t[3] <= s[3]
    \/ table[e] = p /\ \A t \in Spots : ~Tells(t, e, p)

Followed ==
    \A e \in Entities : \A p \in Pylons :
        where[e].step = "in" /\ where[e].node = p /\ Connected(p) => Follows(e, p)

\* What a step must show of an entity that runs after it.
Unsaid(N, G, e, p) ==
    /\ where[e].step = "in" /\ where[e].node = p /\ Connected(p) /\ table'[e] = table[e]
    /\ \A n \in N : ~(Tells(n, e, p)')
    /\ \A g \in G : ~Tells(g, e, p)
Running(e, p) == where[e].step = "in" /\ where[e].node = p /\ Connected(p)

-----------------------------------------------------------------------------
(* What is sent in a calm arrives.                                         *)

Reached(m) == \E i \in DOMAIN received[m.to] : received[m.to][i].wave = m

\* What has a place there: it is on its way to p, or behind a connection.
Fits(s, p) == /\ s[1] = "pipe" => s[2] = p
              /\ s[1] = "stream" /\ ~Written(s) => Connected(s[2])

\* The entity runs at p, the server knows, and nothing else is said.
Awaits(m, p) ==
    /\ Known(m) /\ m \notin lost /\ Running(m.to, p) /\ table[m.to] = p
    /\ \A t \in Spots : ~Tells(t, m.to, p)
    /\ \A s \in Spots : Item(s) = m => Fits(s, p)
    /\ m \in Wave => Reached(m) \/ \E s \in Spots : Item(s) = m

Calms == \A m \in calm : \E p \in Pylons : Awaits(m, p)

-----------------------------------------------------------------------------
(* The waves from one agent to another stay in order, as long as nobody is *)
(* told to move to where it is.                                            *)

\* What an entity has said and the server has not read: its entering, its leaving, its waves, itself.
Speaks(s, e) == s[1] = "stream" /\ Item(s).from = e
Enters(s, e) == Speaks(s, e) /\ Item(s).kind = "reg"
Quits(s, e)  == Speaks(s, e) /\ Item(s).kind = "unreg"

\* It has said it where it is, or where it was before it went away; and since it came it has only
\* spoken when it was registered.
Speaker(e) ==
    \A s \in Spots : Speaks(s, e) => s[2] = where[e].node /\ where[e].step \notin {"putting", "adding"}

\* The last thing on the line is the agent itself, and it is not sent to where it is.
LastWord(e) ==
    \A t \in Spots : Carries(t, e) =>
        /\ \A s \in Spots : Speaks(s, e) => t[1] = "stream" /\ s[3] <= t[3]
        /\ t[1] = "stream" => Item(t).to # t[2]

\* It enters once, and then the server knows it where it is, until it is on its way from the server.
Entered(e) ==
    /\ \A r, s \in Spots : Enters(r, e) /\ Enters(s, e) => r = s
    /\ table[e] # Nobody => /\ table[e] = where[e].node /\ where[e].step \notin {"putting", "adding"}
                            /\ \A t \in Spots : Carries(t, e) => t[1] = "stream"
                            /\ \A r \in Spots : ~Enters(r, e)

\* An agent that will get to the server has first said that it leaves, and before that entered.
Alive(s) == s[1] = "stream" /\ (Written(s) \/ conn[s[2]] # "closed")
SignsOff(e) ==
    \A t \in Spots : Carries(t, e) /\ Alive(t) =>
        /\ table[e] # Nobody => \E u \in Spots : Quits(u, e) /\ u[3] < t[3]
        /\ \A r \in Spots : Enters(r, e) => \E u \in Spots : Quits(u, e) /\ r[3] < u[3] /\ u[3] < t[3]

Journey(e) == Speaker(e) /\ LastWord(e) /\ Entered(e) /\ SignsOff(e)

\* A wave on its way to the server for an agent that has come to the same node since it was written:
\* the server reads it before it reads of the agent, and drops it.
Doomed(s, e) ==
    /\ Written(s) /\ table[e] = Nobody /\ where[e].node = s[2] /\ where[e].step # "putting"
    /\ \A u \in Spots : Enters(u, e) => s[3] < u[3]
    /\ \A u \in Spots : Carries(u, e) => u[1] = "stream" /\ s[3] < u[3]

WaveTo(s, e) == Item(s) \in Wave /\ Item(s).to = e
Missed(e) ==
    \A s \in Spots : Written(s) /\ WaveTo(s, e) /\ e \in receivers[s[2]] => Doomed(s, e)

\* The waves from and to an agent are ahead of it, and when it arrives there are none for it.
Ahead(e) ==
    \A t, s \in Spots : Carries(t, e) /\ t[1] = "pipe" /\ s[1] = "pipe" /\ s[2] = t[2] =>
        (WaveTo(s, e) \/ (Item(s) \in Wave /\ Item(s).from = e) => s[3] < t[3])
Cleared(e) ==
    where[e].step = "putting" => \A s \in Spots : s[1] = "pipe" /\ WaveTo(s, e) => s[2] # where[e].node

\* It may be received.
Live(s, e) == IF s[1] = "stream" THEN ~Doomed(s, e) ELSE e \in receivers[s[2]]

Between(s, a, b) == WaveTo(s, b) /\ Item(s).from = a
\* What comes from the server to the node of its sender is not received there, for its receiver
\* came later.
Elsewhere(a, b) ==
    \A s \in Spots : s[1] = "pipe" /\ Between(s, a, b) /\ s[2] = where[a].node /\ s[3] > Held(s[2]) =>
        b \notin receivers[s[2]]

\* The waves that may be received stand in the order of sending, those in pipes before those in streams.
Before(s, t) == \/ s[1] = "pipe" /\ t[1] = "stream"
                \/ s[1] = t[1] /\ s[2] = t[2] /\ s[3] < t[3]
Queued(a, b) ==
    \A s, t \in Spots : Between(s, a, b) /\ Between(t, a, b) /\ Live(s, b) /\ Live(t, b) /\ Before(s, t) =>
        Item(s).nr < Item(t).nr
Heard(a, b) ==
    \A i \in DOMAIN received[b], s \in Spots :
        received[b][i].wave.from = a /\ Between(s, a, b) /\ Live(s, b) => received[b][i].wave.nr < Item(s).nr
InTurn(a, b) ==
    \A i, j \in DOMAIN received[b] :
        i < j /\ received[b][i].wave.from = a /\ received[b][j].wave.from = a =>
            received[b][i].wave.nr < received[b][j].wave.nr

InOrder(a, b) == Queued(a, b) /\ Heard(a, b) /\ InTurn(a, b)

Coming(e) == Journey(e) /\ Missed(e) /\ Ahead(e) /\ Cleared(e)
Comings == \A e \in Entities \ restarted : Coming(e)
Ordered == \A a, b \in Agents \ restarted : Elsewhere(a, b) /\ InOrder(a, b)

-----------------------------------------------------------------------------
(* What a step keeps, whatever it writes to a socket.                      *)

Runs(f, N, G) ==
    /\ Kept(f, N, G)
    /\ \A s \in Spots' \ N : /\ Written(f[s]) => Written(s)'
                             /\ Alive(s)' => Alive(f[s])
                             /\ s[1] = "pipe" /\ s[3] > Held(s[2])' => f[s][3] > Held(s[2])

-----------------------------------------------------------------------------
(* What an entity says of itself.                                          *)

\* Nothing happens to it but that it goes on where it is, or puts its receiver there.
Stays(e) ==
    /\ where'[e].node = where[e].node
    /\ where'[e].step \in {"putting", "adding"} => where[e].step \in {"putting", "adding"}
Steady(e) ==
    /\ Stays(e) /\ table'[e] = table[e]
    /\ where'[e].step = "putting" => where[e].step = "putting"
    /\ \A p \in Pylons : e \in receivers'[p] =>
           e \in receivers[p] \/ (where[e].step = "putting" /\ where[e].node = p)

\* What is lost of a line is lost with all that is behind it and could still get to the server.
Trims(f, N, G, e) ==
    \A g \in G, s \in Spots' \ N :
        On(g, "stream", s[2]) /\ Speaks(g, e) /\ Item(g) \notin Content /\ s[1] = "stream" /\ Alive(s)' => f[s][3] < g[3]

\* The messages that come are not its own, or waves.
Waving(N, e) ==
    \A n \in N : /\ ~Carries(n, e)'
                 /\ Speaks(n, e)' => /\ Item(n)'.kind = "wave" /\ n[2] = where'[e].node
                                     /\ where'[e].step \notin {"putting", "adding"} /\ where[e].step # "away"

-----------------------------------------------------------------------------
(* What becomes of the waves to an entity, of those from it, and of their order. *)

\* The waves that the server will drop stay so, and what may be received might have been before.
Dooms(f, N, e) == \A s \in Spots' \ N : Doomed(f[s], e) => Doomed(s, e)'
Lives(f, N, e) == \A s \in Spots' \ N : WaveTo(s, e)' /\ Live(s, e)' => Live(f[s], e)

\* What it says of its coming or going it says after all the rest.
Behind(N, e) ==
    \A n \in N : Enters(n, e)' \/ Carries(n, e)' =>
        n[1] = "stream" /\ \A s \in Spots' \ N : s[1] = "stream" /\ s[2] = n[2] => s[3] < n[3]

\* It is registered where it was, or comes to be where no wave for it has come.
Comes(e) ==
    \A p \in Pylons : e \in receivers'[p] => e \in receivers[p] \/ (where[e].step = "putting" /\ where[e].node = p)

\* What is written now is written for nobody who is registered there.
Writes(f, N, e) ==
    /\ \A s \in Spots' \ N : Written(s)' /\ ~Written(f[s]) /\ WaveTo(s, e)' => e \notin receivers'[s[2]]
    /\ \A n \in N : ~Written(n)'

\* What comes into a pipe was on a stream, and goes to where its receiver is registered or known.
Forwards(N) ==
    \A n \in N : n[1] = "pipe" =>
        \E o \in Spots : /\ o[1] = "stream" /\ Item(o) = Item(n)'
                         /\ Item(o).to \in receivers[n[2]] \/ (table[Item(o).to] = n[2] /\ n[2] # Nobody)

\* What is routed was written, and goes to where its receiver is known.
Routed(N) ==
    \A n \in N : n[1] = "pipe" /\ n[3] > Held(n[2])' =>
        \E o \in Spots : Written(o) /\ Item(o) = Item(n)' /\ table[Item(o).to] = n[2] /\ n[2] # Nobody

\* Each wave that may be received is one that was, and they stand as they stood.
Sources(h, a, b) ==
    /\ \A s \in Spots' : Between(s, a, b)' /\ Live(s, b)' =>
           h[s] \in Spots /\ Item(h[s]) = Item(s)' /\ Between(h[s], a, b) /\ Live(h[s], b)
    /\ \A s, t \in Spots' : Between(s, a, b)' /\ Between(t, a, b)' /\ Live(s, b)' /\ Live(t, b)' /\ Before(s, t) =>
           Before(h[s], h[t])

\* A message that is sent on takes the place of the one it was: it is still in order with the rest.
Replaces(f, n, o, a, b) ==
    /\ n \in Spots' /\ o \in Spots /\ Item(n)' = Item(o) /\ (Live(n, b)' => Live(o, b))
    /\ \A s \in Spots' \ {n} : Between(s, a, b)' /\ Live(s, b)' =>
           /\ Before(n, s) => Before(o, f[s])
           /\ Before(s, n) => Before(f[s], o)

-----------------------------------------------------------------------------
(* What a step does to those who do not take it.                           *)

\* What is known of the system before a step and after it.
Footing == TypeInv /\ TypeInv' /\ Copies /\ Copies' /\ Named /\ Named' /\ Comings /\ Ordered /\ restarted \subseteq restarted'

-----------------------------------------------------------------------------
(* What the thread of the Dispatcher does.                                 *)

\* A node is where it is called, and a pylon that is not connected yet is suspended.
Rooted == \A q \in Pylons : where[q].node = q
Opens == \A p \in Pylons : conn[p] = "connecting" => p \in suspended

\* The wave that stood before the others is taken.
Takes(f, o, r, a, b) ==
    /\ received[b] \in Seq(Receipt) /\ r \in Receipt /\ received'[b] = Append(received[b], r) /\ o \in Spots
    /\ r.wave.from = a => /\ r.wave = Item(o) /\ Between(o, a, b) /\ Live(o, b)
                          /\ \A s \in Spots' : Between(s, a, b)' /\ Live(s, b)' => Before(o, f[s])

-----------------------------------------------------------------------------
(* What the order of the waves rests on.                                   *)

\* What is ahead of the waves, and the waves.
Marches == Rooted /\ Opens /\ Comings /\ Ordered

=============================================================================
