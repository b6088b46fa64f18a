-------------------------- MODULE RegionWaves_proofs --------------------------
(***************************************************************************)
(* Proofs about the waves in RegionServers, for agents that do not call    *)
(* moveTo again while they wait to leave: none is lost or doubled, and     *)
(* those from an agent that stays in the home region of the agent they are *)
(* for arrive in the order of sending.  And in RegionThreads, whatever the *)
(* agents do and however the handlers interleave: none is doubled.         *)
(*                                                                         *)
(* A wave stands in a line: that of a wire, of what is saved for an agent, *)
(* of what its shard queues or of what the agent got.  Every step takes    *)
(* the heads of some lines, or a whole line, and puts them at the end of   *)
(* one line; what the three parts of LineInv say of the lines follows from *)
(* where that line is.  A step of a handler in RegionThreads takes at most *)
(* one head.                                                               *)
(***************************************************************************)
EXTENDS RegionServers_proofs, FiniteSetTheorems

-----------------------------------------------------------------------------
(* Where the waves are: the lines they stand in, and their numbers there.  *)

\* The wires, and for each agent what is saved, what its shard queues and what it got.
Lines == ({0} \X Wires) \cup ({1, 2, 3} \X Agents)

Num(m) == IF m.type = "WAVE" THEN m.id ELSE 0   \* a message about an agent has no number
Nums(ms) == [k \in DOMAIN ms |-> Num(ms[k])]

LineOf(ch, sv, iq, gt) ==
    [x \in Lines |-> IF x[1] = 0 THEN Nums(ch[x[2]])
                     ELSE IF x[1] = 1 THEN Nums(sv[x[2]])
                     ELSE IF x[1] = 2 THEN iq[x[2]] ELSE gt[x[2]]]

Line == LineOf(chan, saved, inQueue, got)

\* A number stands in one place.
OnceIn(L) ==
    \A x, y \in Lines : \A k \in DOMAIN L[x], l \in DOMAIN L[y] :
        L[x][k] # 0 /\ L[x][k] = L[y][l] => x = y /\ k = l

\* The waves for registered agents stand somewhere, and their agents stay registered.
KeptIn(L) ==
    \A i \in DOMAIN waves :
        waves[i].known => /\ status[waves[i].to] # "none"
                          /\ \E x \in Lines : \E k \in DOMAIN L[x] : L[x][k] = i

\* A wave from an agent that stays in the home region of the agent it is for.
Near(r) == r.from \notin Movers /\ Region[Origin[r.from]] = Home(r.to)

\* Two waves that are to arrive in the order of their numbers.
Pair(i, j) ==
    /\ i \in DOMAIN waves /\ j \in DOMAIN waves /\ i < j /\ Near(waves[i])
    /\ waves[i].from = waves[j].from /\ waves[i].to = waves[j].to

\* The way of a near wave: up to the home server, into what is saved, to the server its
\* agent is a guest of, down to the node, into inQueue and to the agent.
Rank(x) ==
    IF x[1] = 0 THEN IF x[2][1] \in Nodes THEN 6 ELSE IF x[2][2] \in Nodes THEN 3 ELSE 4
    ELSE IF x[1] = 1 THEN 5 ELSE IF x[1] = 2 THEN 2 ELSE 1

OrderIn(L) ==
    \A x, y \in Lines : \A k \in DOMAIN L[x], l \in DOMAIN L[y] :
        Pair(L[x][k], L[y][l]) => Rank(x) < Rank(y) \/ (x = y /\ k < l)

\* The agents that do not move are where they started.
Stays(b) == b \notin Movers => node[b] = Origin[b] /\ phase[b] \in {"new", "running"}

\* What the shard of agent b queued and got was for b, and it queues only while it leaves;
\* nothing is saved for an agent that is not OFFLINE.
Queued(b) ==
    /\ \A k \in DOMAIN inQueue[b] : inQueue[b][k] \in DOMAIN waves /\ waves[inQueue[b][k]].to = b
    /\ \A k \in DOMAIN got[b] : got[b][k] \in DOMAIN waves /\ waves[got[b][k]].to = b
    /\ phase[b] \in {"new", "running"} => inQueue[b] = <<>>
    /\ saved[b] # <<>> => status[b] = "OFFLINE"

\* The waves on their way down to agent b find it, and are there before it may stop.
Finds(b) ==
    \A w \in Wires : \A k \in DOMAIN chan[w] :
        w[2] \in Nodes /\ chan[w][k].type = "WAVE" /\ waves[chan[w][k].id].to = b =>
            /\ w[2] = node[b] /\ phase[b] \in {"running", "leaving"}
            /\ \A l \in DOMAIN chan[w] : Accepts(b, chan[w][l]) => k < l

\* The wires that near waves for agent b take.
Straight(b) ==
    \A w \in Wires : \A k \in DOMAIN chan[w] :
        chan[w][k].type = "WAVE" /\ waves[chan[w][k].id].to = b /\ Near(waves[chan[w][k].id]) =>
            /\ w[1] \in Nodes => w[1] = Origin[waves[chan[w][k].id].from]
            /\ w[1] \in Servers /\ w[2] \in Servers => w[2] # Home(b)

WayInv(b) == Stays(b) /\ Queued(b) /\ Finds(b) /\ Straight(b)
EachWay == \A b \in Agents : WayInv(b)

-----------------------------------------------------------------------------
(* Lines that lose their heads and get some numbers at their ends.         *)

\* Sequence m is l without its first n numbers and with those of e behind, but for zeros.
Slides(l, m, n, e) ==
    /\ \A k \in DOMAIN m : m[k] # 0 =>
          \/ k + n \in DOMAIN l /\ m[k] = l[k + n]
          \/ \E j \in DOMAIN e : k + n = j + Len(l) /\ m[k] = e[j]
    /\ \A k \in DOMAIN l : l[k] # 0 /\ k > n => k - n \in DOMAIN m /\ m[k - n] = l[k]
    /\ \A k \in DOMAIN e : e[k] # 0 => k + Len(l) - n \in DOMAIN m /\ m[k + Len(l) - n] = e[k]

\* The step from L to M takes the first sh[x] numbers from each line x, appends those of e
\* to line dst, and these are the ones taken from line src.
Shifts(L, M, sh, dst, e) ==
    \A x \in Lines : sh[x] \in Nat /\ Slides(L[x], M[x], sh[x], IF x = dst THEN e ELSE <<>>)
Takes(L, sh, src, e) ==
    \A j \in DOMAIN e : e[j] # 0 =>
        src \in Lines /\ j \in DOMAIN L[src] /\ j <= sh[src] /\ e[j] = L[src][j]

Goes(L, M, sh, src, dst, e) ==
    /\ L \in [Lines -> Seq(Nat)] /\ M \in [Lines -> Seq(Nat)] /\ e \in Seq(Nat)
    /\ Shifts(L, M, sh, dst, e) /\ Takes(L, sh, src, e)

\* Number k of line x was k + sh[x] of that line, or it is new there and was taken from src.
Old(L, M, x, k, p) == p \in DOMAIN L[x] /\ M[x][k] = L[x][p]
New(L, M, sh, src, dst, e, x, k, j) ==
    /\ x = dst /\ j \in DOMAIN e /\ M[x][k] = e[j]
    /\ src \in Lines /\ j \in DOMAIN L[src] /\ j <= sh[src] /\ M[x][k] = L[src][j]

Came(L, M, sh, src, dst, e, x, k, p) ==
    /\ p \in Nat /\ p = k + sh[x] /\ p > sh[x] /\ k \in Nat /\ k > 0 /\ sh[x] \in Nat /\ Len(L[x]) \in Nat
    /\ Old(L, M, x, k, p) \/ \E j \in Nat : p = j + Len(L[x]) /\ New(L, M, sh, src, dst, e, x, k, j)

\* Where a number was before the step.
LEMMA ComesFrom ==
  ASSUME NEW L, NEW M, NEW sh, NEW src, NEW dst, NEW e, Goes(L, M, sh, src, dst, e),
         NEW x \in Lines, NEW k \in DOMAIN M[x], M[x][k] # 0
  PROVE  \E p : Came(L, M, sh, src, dst, e, x, k, p)
  <1>1. k \in Nat /\ k > 0 /\ sh[x] \in Nat /\ Len(L[x]) \in Nat
    <2>1. M[x] \in Seq(Nat) /\ L[x] \in Seq(Nat) /\ sh[x] \in Nat
      BY DEF Goes, Shifts
    <2> QED BY <2>1
  <1>2. Slides(L[x], M[x], sh[x], IF x = dst THEN e ELSE <<>>)
    BY DEF Goes, Shifts
  <1>3. PICK p : p = k + sh[x]
    OBVIOUS
  <1>4. p \in Nat /\ p > sh[x]
    BY <1>1, <1>3
  <1>5. CASE p \in DOMAIN L[x] /\ M[x][k] = L[x][p]
    BY <1>1, <1>3, <1>4, <1>5 DEF Old, Came
  <1>6. CASE ~(p \in DOMAIN L[x] /\ M[x][k] = L[x][p])
    <2> DEFINE f == IF x = dst THEN e ELSE <<>>
    <2>1. PICK j \in DOMAIN f : p = j + Len(L[x]) /\ M[x][k] = f[j]
      <3>1. Slides(L[x], M[x], sh[x], f)
        BY <1>2
      <3>2. PICK l, m, n : l = L[x] /\ m = M[x] /\ n = sh[x]
        OBVIOUS
      <3> HIDE DEF f
      <3>3. \/ k + n \in DOMAIN l /\ m[k] = l[k + n]
            \/ \E j \in DOMAIN f : k + n = j + Len(l) /\ m[k] = f[j]
        BY <3>1, <3>2 DEF Slides
      <3> QED BY <1>3, <1>6, <3>2, <3>3
    <2>2. x = dst
      <3>1. DOMAIN <<>> = {}
        OBVIOUS
      <3> QED BY <2>1, <3>1
    <2>3. j \in Nat
      BY <2>1, <2>2 DEF Goes
    <2>4. New(L, M, sh, src, dst, e, x, k, j)
      BY <2>1, <2>2 DEF Goes, Takes, New
    <2> QED BY <1>1, <1>3, <1>4, <2>1, <2>3, <2>4 DEF Came
  <1> QED BY <1>5, <1>6

\* Nothing is doubled.
LEMMA OnceStays ==
  ASSUME NEW L, NEW M, NEW sh, NEW src, NEW dst, NEW e, Goes(L, M, sh, src, dst, e), OnceIn(L)
  PROVE  OnceIn(M)
  <1> SUFFICES ASSUME NEW x \in Lines, NEW y \in Lines, NEW k \in DOMAIN M[x], NEW l \in DOMAIN M[y],
                      M[x][k] # 0, M[x][k] = M[y][l]
               PROVE  x = y /\ k = l
    BY DEF OnceIn
  <1>1. PICK p : Came(L, M, sh, src, dst, e, x, k, p)
    BY ComesFrom
  <1>2. PICK q : Came(L, M, sh, src, dst, e, y, l, q)
    <2>1. M[y][l] # 0
      OBVIOUS
    <2> QED BY <2>1, ComesFrom
  <1>3. /\ p \in Nat /\ p = k + sh[x] /\ p > sh[x] /\ k \in Nat /\ sh[x] \in Nat /\ Len(L[x]) \in Nat
        /\ q \in Nat /\ q = l + sh[y] /\ q > sh[y] /\ l \in Nat /\ sh[y] \in Nat /\ Len(L[y]) \in Nat
    BY <1>1, <1>2 DEF Came
  <1>4. (x = y /\ p = q) => k = l
    BY <1>3
  <1>5. \A z, v \in Lines : \A i \in DOMAIN L[z], j \in DOMAIN L[v] :
           L[z][i] = M[x][k] /\ L[v][j] = M[x][k] => z = v /\ i = j
    BY DEF OnceIn
  <1>6. CASE Old(L, M, x, k, p) /\ Old(L, M, y, l, q)
    BY <1>4, <1>5, <1>6 DEF Old
  <1>7. ASSUME NEW i \in Nat, p = i + Len(L[x]), New(L, M, sh, src, dst, e, x, k, i),
               NEW j \in Nat, q = j + Len(L[y]), New(L, M, sh, src, dst, e, y, l, j)
        PROVE  x = y /\ k = l
    <2>1. i = j /\ x = y
      BY <1>5, <1>7 DEF New
    <2> QED BY <1>4, <1>7, <2>1
  <1>8. ASSUME Old(L, M, x, k, p),
               NEW j \in Nat, q = j + Len(L[y]), New(L, M, sh, src, dst, e, y, l, j)
        PROVE  FALSE
    <2>1. p \in DOMAIN L[x] /\ L[x][p] = M[x][k]
      BY <1>8 DEF Old
    <2>2. src \in Lines /\ j \in DOMAIN L[src] /\ j <= sh[src] /\ L[src][j] = M[x][k]
      BY <1>8 DEF New
    <2>3. x = src /\ p = j
      BY <1>5, <2>1, <2>2
    <2> QED BY <1>3, <2>2, <2>3
  <1>9. ASSUME NEW i \in Nat, p = i + Len(L[x]), New(L, M, sh, src, dst, e, x, k, i),
               Old(L, M, y, l, q)
        PROVE  FALSE
    <2>1. y = src /\ q = i /\ i <= sh[src]
      BY <1>5, <1>9 DEF Old, New
    <2> QED BY <1>3, <2>1
  <1> QED BY <1>1, <1>2, <1>6, <1>7, <1>8, <1>9 DEF Came

\* Nothing that is not taken, or that is appended, is lost.
LEMMA StandsStill ==
  ASSUME NEW L, NEW M, NEW sh, NEW dst, NEW e, Shifts(L, M, sh, dst, e), dst \in Lines \/ e = <<>>,
         NEW x \in Lines, NEW k \in DOMAIN L[x], L[x][k] # 0,
         k > sh[x] \/ (k \in DOMAIN e /\ e[k] = L[x][k])
  PROVE  \E y \in Lines : \E l \in DOMAIN M[y] : M[y][l] = L[x][k]
  <1>1. CASE k > sh[x]
    BY <1>1 DEF Shifts, Slides
  <1>2. CASE k \in DOMAIN e /\ e[k] = L[x][k]
    <2>1. dst \in Lines
      BY <1>2
    <2>2. Slides(L[dst], M[dst], sh[dst], e)
      BY <2>1 DEF Shifts
    <2>3. k + Len(L[dst]) - sh[dst] \in DOMAIN M[dst] /\ M[dst][k + Len(L[dst]) - sh[dst]] = e[k]
      BY <1>2, <2>2 DEF Slides
    <2> QED BY <1>2, <2>1, <2>3
  <1> QED BY <1>1, <1>2

\* What is taken overtakes nothing it is in order with: it goes on, and what it follows
\* is at least as far on as it comes.
LEMMA OrderStays ==
  ASSUME TypeOK, NEW L, NEW M, NEW sh, NEW src, NEW dst, NEW e, Goes(L, M, sh, src, dst, e), OrderIn(L),
         \A k \in DOMAIN e : (\E j : Pair(e[k], j)) => Rank(dst) < Rank(src),
         \A k \in DOMAIN e : \A x \in Lines : \A l \in DOMAIN L[x] :
            Pair(L[x][l], e[k]) /\ Rank(x) < Rank(src) => Rank(x) < Rank(dst) \/ x = dst
  PROVE  OrderIn(M)
  <1> SUFFICES ASSUME NEW x \in Lines, NEW y \in Lines, NEW k \in DOMAIN M[x], NEW l \in DOMAIN M[y],
                      Pair(M[x][k], M[y][l])
               PROVE  Rank(x) < Rank(y) \/ (x = y /\ k < l)
    BY DEF OrderIn
  <1>0. M[x][k] # 0 /\ M[y][l] # 0
    <2>1. 0 \notin DOMAIN waves
      BY DEF TypeOK
    <2> QED BY <2>1 DEF Pair
  <1>r. \A z : Rank(z) \in Nat
    BY DEF Rank
  <1>1. PICK p : Came(L, M, sh, src, dst, e, x, k, p)
    BY <1>0, ComesFrom
  <1>2. PICK q : Came(L, M, sh, src, dst, e, y, l, q)
    BY <1>0, ComesFrom
  <1>3. /\ p \in Nat /\ p = k + sh[x] /\ p > sh[x] /\ k \in Nat /\ sh[x] \in Nat /\ Len(L[x]) \in Nat
        /\ q \in Nat /\ q = l + sh[y] /\ q > sh[y] /\ l \in Nat /\ sh[y] \in Nat /\ Len(L[y]) \in Nat
    BY <1>1, <1>2 DEF Came
  <1>4. (x = y /\ p < q) => k < l
    BY <1>3
  <1>5. \A z, v \in Lines : \A i \in DOMAIN L[z], j \in DOMAIN L[v] :
           L[z][i] = M[x][k] /\ L[v][j] = M[y][l] => Rank(z) < Rank(v) \/ (z = v /\ i < j)
    BY DEF OrderIn
  <1>6. CASE Old(L, M, x, k, p) /\ Old(L, M, y, l, q)
    BY <1>4, <1>5, <1>6 DEF Old
  <1>7. ASSUME NEW i \in Nat, p = i + Len(L[x]), New(L, M, sh, src, dst, e, x, k, i),
               NEW j \in Nat, q = j + Len(L[y]), New(L, M, sh, src, dst, e, y, l, j)
        PROVE  x = y /\ k < l
    <2>1. x = y /\ (Rank(src) < Rank(src) \/ i < j)
      BY <1>5, <1>7 DEF New
    <2>2. p < q
      BY <1>r, <1>3, <1>7, <2>1
    <2> QED BY <1>4, <2>1, <2>2
  <1>8. ASSUME Old(L, M, x, k, p),
               NEW j \in Nat, q = j + Len(L[y]), New(L, M, sh, src, dst, e, y, l, j)
        PROVE  Rank(x) < Rank(y) \/ (x = y /\ k < l)
    <2>1. Rank(x) < Rank(src) \/ (x = src /\ p < j /\ j <= sh[src])
      BY <1>5, <1>8 DEF Old, New
    <2>2. Rank(x) < Rank(src)
      BY <1>3, <1>8, <2>1
    <2>3. Pair(L[x][p], e[j]) /\ j \in DOMAIN e /\ p \in DOMAIN L[x] /\ y = dst
      BY <1>8 DEF Old, New
    <2>4. Rank(x) < Rank(dst) \/ x = dst
      BY <2>2, <2>3
    <2>5. x = y => p < q
      <3>1. L[x] \in Seq(Nat) /\ e \in Seq(Nat)
        BY DEF Goes
      <3>2. p <= Len(L[x]) /\ j > 0
        BY <2>3, <3>1
      <3> QED BY <1>3, <1>8, <3>2
    <2> QED BY <1>4, <2>3, <2>4, <2>5
  <1>9. ASSUME NEW i \in Nat, p = i + Len(L[x]), New(L, M, sh, src, dst, e, x, k, i),
               Old(L, M, y, l, q)
        PROVE  Rank(x) < Rank(y)
    <2>1. Rank(src) < Rank(y) \/ src = y
      BY <1>5, <1>9 DEF Old, New
    <2>2. Pair(e[i], M[y][l]) /\ i \in DOMAIN e /\ x = dst
      BY <1>9 DEF New
    <2>3. Rank(dst) < Rank(src)
      BY <2>2
    <2> QED BY <1>r, <2>1, <2>2, <2>3
  <1> QED BY <1>1, <1>2, <1>6, <1>7, <1>8, <1>9 DEF Came

-----------------------------------------------------------------------------
(* What a step does to the lines.                                          *)

LEMMA NumsOf ==
  ASSUME NEW ms \in Seq(Message)
  PROVE  /\ Nums(ms) \in Seq(Nat) /\ DOMAIN Nums(ms) = DOMAIN ms /\ Len(Nums(ms)) = Len(ms)
         /\ \A k \in DOMAIN ms : Nums(ms)[k] = Num(ms[k])
  <1>1. DOMAIN ms = 1 .. Len(ms) /\ Len(ms) \in Nat
    OBVIOUS
  <1>2. ASSUME NEW k \in DOMAIN ms PROVE Num(ms[k]) \in Nat
    <2>1. ms[k] \in Message
      OBVIOUS
    <2> QED BY <2>1, MessageForms DEF Num, Ids
  <1>3. DOMAIN Nums(ms) = DOMAIN ms /\ \A k \in DOMAIN ms : Nums(ms)[k] = Num(ms[k])
    BY DEF Nums
  <1>4. Nums(ms) = [k \in 1 .. Len(ms) |-> Num(ms[k])]
    BY <1>1 DEF Nums
  <1>5. Nums(ms) \in [1 .. Len(ms) -> Nat]
    BY <1>1, <1>2, <1>4
  <1>6. \A n \in Nat : \A f \in [1 .. n -> Nat] : f \in Seq(Nat) /\ Len(f) = n
    OBVIOUS
  <1> QED BY <1>1, <1>3, <1>5, <1>6

\* The lines of the wires and of the agents.
Lined(L, ch, sv, iq, gt) ==
    /\ L \in [Lines -> Seq(Nat)]
    /\ \A u \in Wires : <<0, u>> \in Lines /\ L[<<0, u>>] = Nums(ch[u])
    /\ \A a \in Agents : /\ <<1, a>> \in Lines /\ L[<<1, a>>] = Nums(sv[a])
                         /\ <<2, a>> \in Lines /\ L[<<2, a>>] = iq[a]
                         /\ <<3, a>> \in Lines /\ L[<<3, a>>] = gt[a]
    /\ \A x \in Lines : \/ \E u \in Wires : x = <<0, u>>
                        \/ x[1] # 0 /\ \E a \in Agents : x \in {<<1, a>>, <<2, a>>, <<3, a>>}

LEMMA LineIs ==
  ASSUME NEW ch \in [Wires -> Seq(Message)], NEW sv \in [Agents -> Seq(Message)],
         NEW iq \in [Agents -> Seq(Ids)], NEW gt \in [Agents -> Seq(Ids)], NEW L, L = LineOf(ch, sv, iq, gt)
  PROVE  Lined(L, ch, sv, iq, gt)
  <1>1. /\ \A u \in Wires : <<0, u>> \in Lines
        /\ \A a \in Agents : <<1, a>> \in Lines /\ <<2, a>> \in Lines /\ <<3, a>> \in Lines
        /\ \A x \in Lines : \/ \E u \in Wires : x = <<0, u>>
                            \/ x[1] # 0 /\ \E a \in Agents : x \in {<<1, a>>, <<2, a>>, <<3, a>>}
    BY DEF Lines
  <1>2. /\ \A u \in Wires : L[<<0, u>>] = Nums(ch[u])
        /\ \A a \in Agents : /\ L[<<1, a>>] = Nums(sv[a])
                             /\ L[<<2, a>>] = iq[a] /\ L[<<3, a>>] = gt[a]
    BY <1>1 DEF LineOf
  <1>3. \A x \in Lines : L[x] \in Seq(Nat)
    <2>1. \A u \in Wires : Nums(ch[u]) \in Seq(Nat)
      BY NumsOf
    <2>2. \A a \in Agents : Nums(sv[a]) \in Seq(Nat)
      BY NumsOf
    <2>3. \A a \in Agents : iq[a] \in Seq(Nat) /\ gt[a] \in Seq(Nat)
      <3>1. ASSUME NEW q \in Seq(Ids) PROVE q \in Seq(Nat)
        <4>1. Len(q) \in Nat /\ q \in [1 .. Len(q) -> Ids]
          OBVIOUS
        <4>2. \A i \in Ids : i \in Nat
          BY DEF Ids
        <4>3. q \in [1 .. Len(q) -> Nat]
          BY <4>1, <4>2
        <4>4. \A n \in Nat : \A f \in [1 .. n -> Nat] : f \in Seq(Nat)
          OBVIOUS
        <4> QED BY <4>1, <4>3, <4>4
      <3> QED BY <3>1
    <2>4. ASSUME NEW x \in Lines PROVE L[x] \in Seq(Nat)
      <3>1. CASE \E u \in Wires : x = <<0, u>>
        BY <1>2, <2>1, <3>1
      <3>2. CASE \E a \in Agents : x \in {<<1, a>>, <<2, a>>, <<3, a>>}
        BY <1>2, <2>2, <2>3, <3>2
      <3> QED BY <1>1, <3>1, <3>2
    <2> QED BY <2>4
  <1>4. L = [x \in Lines |-> L[x]]
    BY DEF LineOf
  <1> QED BY <1>1, <1>2, <1>3, <1>4 DEF Lined

LEMMA SlidesForms ==
  ASSUME NEW l \in Seq(Nat), NEW e \in Seq(Nat)
  PROVE  /\ Slides(l, l, 0, <<>>)
         /\ Slides(l, <<>>, Len(l), <<>>)
         /\ Slides(l, l \o e, 0, e)
  <1>0. Len(l) \in Nat /\ DOMAIN l = 1 .. Len(l) /\ DOMAIN <<>> = {} /\ Len(e) \in Nat /\ DOMAIN e = 1 .. Len(e)
    OBVIOUS
  <1>1. Slides(l, l, 0, <<>>)
    BY <1>0 DEF Slides
  <1>2. Slides(l, <<>>, Len(l), <<>>)
    BY <1>0 DEF Slides
  <1>3. Slides(l, l \o e, 0, e)
    <2>1. /\ DOMAIN (l \o e) = 1 .. Len(l) + Len(e)
          /\ \A k \in 1 .. Len(l) : (l \o e)[k] = l[k]
          /\ \A k \in 1 .. Len(e) : (l \o e)[k + Len(l)] = e[k]
      OBVIOUS
    <2>2. PICK m : m = l \o e
      OBVIOUS
    <2>3. ASSUME NEW k \in DOMAIN m, k > Len(l)
          PROVE  \E j \in DOMAIN e : k + 0 = j + Len(l) /\ m[k] = e[j]
      <3>1. PICK j : j = k - Len(l)
        OBVIOUS
      <3>2. j \in DOMAIN e /\ k = j + Len(l) /\ k + 0 = j + Len(l)
        BY <1>0, <2>1, <2>2, <2>3, <3>1
      <3> QED BY <1>0, <2>1, <2>2, <3>2
    <2>4. \A k \in DOMAIN m : ~(k > Len(l)) => k + 0 \in DOMAIN l /\ m[k] = l[k + 0]
      BY <1>0, <2>1, <2>2
    <2>5. \A k \in DOMAIN l : k - 0 \in DOMAIN m /\ m[k - 0] = l[k]
      BY <1>0, <2>1, <2>2
    <2>6. \A k \in DOMAIN e : k + Len(l) - 0 \in DOMAIN m /\ m[k + Len(l) - 0] = e[k]
      BY <1>0, <2>1, <2>2
    <2>7. Slides(l, m, 0, e)
      BY <2>3, <2>4, <2>5, <2>6 DEF Slides
    <2> QED BY <2>2, <2>7
  <1> QED BY <1>1, <1>2, <1>3

LEMMA SlidesWire ==
  ASSUME TypeOK, NEW out, NEW in, NEW ms \in Seq(Message), Moved(out, in, ms), NEW u \in Wires,
         NEW e, IF u \in in /\ e # <<>> THEN e = Nums(ms)
                ELSE e = <<>> /\ (u \in in => \A k \in DOMAIN ms : Num(ms[k]) = 0)
  PROVE  Slides(Nums(chan[u]), Nums(chan'[u]), Shift(out, u), e)
  <1> DEFINE n == Shift(out, u)
  <1>1. PICK c, d : c = chan[u] /\ d = chan'[u]
    OBVIOUS
  <1>2. PICK l, m : l = Nums(c) /\ m = Nums(d)
    OBVIOUS
  <1>3. /\ c \in Seq(Message) /\ d \in Seq(Message)
    BY <1>1 DEF TypeOK, Moved
  <1>4. /\ DOMAIN l = DOMAIN c /\ Len(l) = Len(c) /\ \A k \in DOMAIN c : l[k] = Num(c[k])
        /\ DOMAIN m = DOMAIN d /\ \A k \in DOMAIN d : m[k] = Num(d[k])
        /\ DOMAIN Nums(ms) = DOMAIN ms /\ \A k \in DOMAIN ms : Nums(ms)[k] = Num(ms[k])
    BY <1>2, <1>3, NumsOf
  <1>5. /\ n \in {0, 1} /\ Len(c) \in Nat
        /\ \A k \in DOMAIN d :
              /\ k \in Nat /\ k > 0
              /\ \/ k + n \in DOMAIN c /\ d[k] = c[k + n]
                 \/ /\ u \in in /\ k + n - Len(c) \in DOMAIN ms /\ d[k] = ms[k + n - Len(c)]
        /\ \A k \in DOMAIN c :
              /\ k \in Nat /\ k > 0
              /\ \/ u \in out /\ k = 1
                 \/ k - n \in DOMAIN d /\ d[k - n] = c[k]
        /\ u \in in => \A k \in DOMAIN ms : k + Len(c) - n \in DOMAIN d /\ d[k + Len(c) - n] = ms[k]
    BY <1>1, OldOrNew
  <1>6. u \in out => n = 1
    BY DEF Shift
  <1> HIDE DEF n
  <1>7. ASSUME NEW k \in DOMAIN m, m[k] # 0
        PROVE  \/ k + n \in DOMAIN l /\ m[k] = l[k + n]
               \/ \E j \in DOMAIN e : k + n = j + Len(l) /\ m[k] = e[j]
    <2>1. CASE k + n \in DOMAIN c /\ d[k] = c[k + n]
      BY <1>4, <2>1
    <2>2. CASE u \in in /\ k + n - Len(c) \in DOMAIN ms /\ d[k] = ms[k + n - Len(c)]
      <3>1. PICK j : j = k + n - Len(c)
        OBVIOUS
      <3>2. j \in DOMAIN ms /\ m[k] = Num(ms[j]) /\ k + n = j + Len(l)
        BY SMTT(30), <1>4, <1>5, <2>2, <3>1
      <3>3. e = Nums(ms)
        BY <1>7, <2>2, <3>2
      <3> QED BY <1>4, <3>2, <3>3
    <2> QED BY <1>4, <1>5, <2>1, <2>2
  <1>8. ASSUME NEW k \in DOMAIN l, k > n PROVE k - n \in DOMAIN m /\ m[k - n] = l[k]
    <2>1. k - n \in DOMAIN d /\ d[k - n] = c[k]
      BY <1>4, <1>5, <1>6, <1>8
    <2> QED BY <1>4, <2>1
  <1>9. ASSUME NEW k \in DOMAIN e
        PROVE  k + Len(l) - n \in DOMAIN m /\ m[k + Len(l) - n] = e[k]
    <2>1. u \in in /\ e = Nums(ms) /\ k \in DOMAIN ms
      <3>1. DOMAIN <<>> = {}
        OBVIOUS
      <3> QED BY <1>4, <3>1
    <2>2. k + Len(c) - n \in DOMAIN d /\ d[k + Len(c) - n] = ms[k]
      BY <1>5, <2>1
    <2> QED BY <1>4, <2>1, <2>2
  <1>10. Slides(l, m, n, e)
    BY <1>7, <1>8, <1>9 DEF Slides
  <1> QED BY <1>1, <1>2, <1>10 DEF n

\* What a step sheds: the heads of the wires in out, and all of line c.
Shed(out, c) ==
    [x \in Lines |-> IF x = c THEN Len(Line[x]) ELSE IF x[1] = 0 /\ x[2] \in out THEN 1 ELSE 0]

LEMMA ShedIs ==
  ASSUME TypeInv, NEW out, NEW c
  PROVE  /\ \A u \in Wires : <<0, u>> # c => Shed(out, c)[<<0, u>>] = Shift(out, u)
         /\ \A x \in Lines : x[1] # 0 => Shed(out, c)[x] = IF x = c THEN Len(Line[x]) ELSE 0
         /\ c \in Lines => Shed(out, c)[c] = Len(Line[c])
  <1>1. \A u \in Wires : <<0, u>> \in Lines /\ <<0, u>>[1] = 0 /\ <<0, u>>[2] = u
    BY DEF Lines
  <1> QED BY <1>1 DEF Shed, Shift

\* What goes into the wires in has no number, but for line dst.
WiresGet(in, ms, dst, e) ==
    \A u \in Wires : IF <<0, u>> = dst THEN e = IF u \in in THEN Nums(ms) ELSE <<>>
                     ELSE u \in in => \A k \in DOMAIN ms : Num(ms[k]) = 0

\* The lines of the agents are as before, but for line c, which is cleared, and line dst.
AgentLines(M, c, dst, e) ==
    \A x \in Lines : x[1] # 0 =>
       \/ x # c /\ x # dst /\ M[x] = Line[x]
       \/ x = c /\ x # dst /\ M[x] = <<>>
       \/ x # c /\ x = dst /\ M[x] = Line[x] \o e

\* A step of the system as a step from line to line.
LEMMA StepShifts ==
  ASSUME TypeInv, TypeInv', NEW out, NEW in, NEW ms \in Seq(Message), Moved(out, in, ms),
         NEW c, NEW dst, NEW e \in Seq(Nat), NEW M, M = Line',
         \A u \in Wires : <<0, u>> # c, WiresGet(in, ms, dst, e), AgentLines(M, c, dst, e)
  PROVE  /\ M \in [Lines -> Seq(Nat)] /\ Line \in [Lines -> Seq(Nat)]
         /\ Shifts(Line, M, Shed(out, c), dst, e)
  <1>1. Lined(Line, chan, saved, inQueue, got) /\ Lined(M, chan', saved', inQueue', got')
    <2>1. /\ chan \in [Wires -> Seq(Message)] /\ saved \in [Agents -> Seq(Message)]
          /\ inQueue \in [Agents -> Seq(Ids)] /\ got \in [Agents -> Seq(Ids)]
      BY DEF TypeInv, TypeOK
    <2>2. /\ chan' \in [Wires -> Seq(Message)] /\ saved' \in [Agents -> Seq(Message)]
          /\ inQueue' \in [Agents -> Seq(Ids)] /\ got' \in [Agents -> Seq(Ids)]
      BY DEF TypeInv, TypeOK
    <2>3. Line = LineOf(chan, saved, inQueue, got) /\ M = LineOf(chan', saved', inQueue', got')
      BY DEF Line
    <2>4. Lined(Line, chan, saved, inQueue, got)
      BY <2>1, <2>3, LineIs
    <2>5. Lined(M, chan', saved', inQueue', got')
      BY <2>2, <2>3, LineIs
    <2> QED BY <2>4, <2>5
  <1>2. /\ Line \in [Lines -> Seq(Nat)] /\ M \in [Lines -> Seq(Nat)]
        /\ \A u \in Wires : Line[<<0, u>>] = Nums(chan[u]) /\ M[<<0, u>>] = Nums(chan'[u])
        /\ \A x \in Lines : x[1] # 0 \/ \E u \in Wires : x = <<0, u>>
    BY <1>1 DEF Lined
  <1>3. ASSUME NEW x \in Lines, x[1] # 0
        PROVE  /\ Shed(out, c)[x] \in Nat
               /\ Slides(Line[x], M[x], Shed(out, c)[x], IF x = dst THEN e ELSE <<>>)
    <2>1. Shed(out, c)[x] = IF x = c THEN Len(Line[x]) ELSE 0
      BY <1>3, ShedIs
    <2>2. PICK l \in Seq(Nat) : l = Line[x]
      BY <1>2
    <2>3. /\ Slides(l, l, 0, <<>>) /\ Slides(l, <<>>, Len(l), <<>>) /\ Slides(l, l \o e, 0, e)
          /\ Len(l) \in Nat
      BY SlidesForms
    <2>4. CASE x # c /\ x # dst /\ M[x] = l
      BY <2>1, <2>2, <2>3, <2>4
    <2>5. CASE x = c /\ x # dst /\ M[x] = <<>>
      BY <2>1, <2>2, <2>3, <2>5
    <2>6. CASE x # c /\ x = dst /\ M[x] = l \o e
      BY <2>1, <2>2, <2>3, <2>6
    <2> QED BY <1>3, <2>2, <2>4, <2>5, <2>6 DEF AgentLines
  <1>4. ASSUME NEW u \in Wires, NEW x, x = <<0, u>>
        PROVE  /\ Shed(out, c)[x] \in Nat
               /\ Slides(Line[x], M[x], Shed(out, c)[x], IF x = dst THEN e ELSE <<>>)
    <2>1. Shed(out, c)[x] = Shift(out, u) /\ Shift(out, u) \in Nat
      BY <1>4, ShedIs DEF Shift
    <2>2. PICK f : f = IF x = dst THEN e ELSE <<>>
      OBVIOUS
    <2>3. IF u \in in /\ f # <<>> THEN f = Nums(ms)
          ELSE f = <<>> /\ (u \in in => \A k \in DOMAIN ms : Num(ms[k]) = 0)
      <3>1. DOMAIN Nums(ms) = DOMAIN ms /\ DOMAIN <<>> = {}
        BY NumsOf
      <3>2. Nums(ms) = <<>> => DOMAIN ms = {}
        BY <3>1
      <3> QED BY <1>4, <2>2, <3>2 DEF WiresGet
    <2>4. Slides(Nums(chan[u]), Nums(chan'[u]), Shift(out, u), f)
      BY <2>3, SlidesWire DEF TypeInv
    <2> QED BY <1>2, <1>4, <2>1, <2>2, <2>4
  <1> QED BY <1>2, <1>3, <1>4 DEF Shifts

-----------------------------------------------------------------------------
(* The ways of the waves.                                                  *)

\* It is enough to look at what is new on the wires, and at where the agent is after the step.
LEMMA WayMoved ==
  ASSUME TypeOK, Kinds, NEW b \in Agents, Finds(b), Straight(b),
         NEW out, NEW in, NEW ms \in Seq(Message), Moved(out, in, ms),
         \A i \in 1 .. Len(waves) : waves'[i] = waves[i],
         \A w \in Wires : \A k \in DOMAIN chan[w] :
            /\ w[2] \in Nodes /\ chan[w][k].type = "WAVE" /\ waves[chan[w][k].id].to = b
            /\ ~(w \in out /\ k = 1)
            => w[2] = node'[b] /\ phase'[b] \in {"running", "leaving"},
         \A v \in Wires \cap in, i \in DOMAIN ms :
            ms[i].type = "WAVE" /\ waves'[ms[i].id].to = b =>
               /\ v[2] \in Nodes => /\ v[2] = node'[b] /\ phase'[b] \in {"running", "leaving"}
                                    /\ \A k \in DOMAIN chan[v] : ~Accepts(b, chan[v][k])
                                    /\ \A j \in DOMAIN ms : ~Accepts(b, ms[j])
               /\ Near(waves'[ms[i].id]) =>
                     /\ v[1] \in Nodes => v[1] = Origin[waves'[ms[i].id].from]
                     /\ v[1] \in Servers /\ v[2] \in Servers => v[2] # Home(b)
  PROVE  Finds(b)' /\ Straight(b)'
  <1> DEFINE d(u) == Shift(out, u)
             Was(u, j) == /\ j + d(u) \in DOMAIN chan[u] /\ chan'[u][j] = chan[u][j + d(u)]
             Is(u, j) == /\ u \in in /\ j + d(u) > Len(chan[u])
                         /\ j + d(u) - Len(chan[u]) \in DOMAIN ms
                         /\ chan'[u][j] = ms[j + d(u) - Len(chan[u])]
  <1>1. ASSUME NEW u \in Wires, NEW j \in DOMAIN chan'[u]
        PROVE  /\ d(u) \in {0, 1} /\ Len(chan[u]) \in Nat /\ j \in Nat /\ j > 0
               /\ Was(u, j) \/ Is(u, j)
    BY OldOrNew
  <1>2. ASSUME NEW u \in Wires, NEW j \in DOMAIN chan'[u], Was(u, j)
        PROVE  /\ ~(u \in out /\ j + d(u) = 1) /\ j + d(u) <= Len(chan[u])
               /\ chan'[u][j].type = "WAVE" =>
                     waves'[chan'[u][j].id] = waves[chan[u][j + d(u)].id]
    <2>1. u \in out => d(u) = 1
      BY DEF Shift
    <2>2. DOMAIN chan[u] = 1 .. Len(chan[u]) /\ chan[u] \in Seq(Message)
      BY DEF TypeOK
    <2>3. chan'[u][j].type = "WAVE" => chan'[u][j].id \in 1 .. Len(waves)
      <3>1. chan[u][j + d(u)] \in Message /\ Kind(chan[u][j + d(u)], u, Len(waves))
        BY <1>2, <2>2 DEF Kinds
      <3>2. Len(waves) \in Nat
        BY DEF TypeOK
      <3> QED BY <1>2, <3>1, <3>2, MessageForms DEF Kind, Ids
    <2> QED BY <1>1, <1>2, <2>1, <2>2, <2>3
  <1>3. ASSUME NEW w \in Wires, NEW k \in DOMAIN chan'[w], chan'[w][k].type = "WAVE",
               waves'[chan'[w][k].id].to = b
        PROVE  /\ w[2] \in Nodes => w[2] = node'[b] /\ phase'[b] \in {"running", "leaving"}
               /\ Near(waves'[chan'[w][k].id]) =>
                     /\ w[1] \in Nodes => w[1] = Origin[waves'[chan'[w][k].id].from]
                     /\ w[1] \in Servers /\ w[2] \in Servers => w[2] # Home(b)
    <2>1. CASE Was(w, k)
      <3>1. PICK p : p = k + d(w)
        OBVIOUS
      <3>2. /\ p \in DOMAIN chan[w] /\ chan'[w][k] = chan[w][p] /\ ~(w \in out /\ p = 1)
            /\ waves'[chan'[w][k].id] = waves[chan[w][p].id]
        BY <1>2, <1>3, <2>1, <3>1
      <3>3. chan[w][p].type = "WAVE" /\ waves[chan[w][p].id].to = b
        BY <1>3, <3>2
      <3>4. Near(waves[chan[w][p].id]) =>
                     /\ w[1] \in Nodes => w[1] = Origin[waves[chan[w][p].id].from]
                     /\ w[1] \in Servers /\ w[2] \in Servers => w[2] # Home(b)
        BY <3>2, <3>3 DEF Straight
      <3> HIDE DEF d
      <3> QED BY <3>2, <3>3, <3>4
    <2>2. CASE Is(w, k)
      <3>1. PICK i \in DOMAIN ms : chan'[w][k] = ms[i] /\ w \in in
        BY <2>2
      <3> QED BY <1>3, <3>1
    <2> QED BY <1>1, <2>1, <2>2
  <1>4. ASSUME NEW w \in Wires, NEW k \in DOMAIN chan'[w], NEW l \in DOMAIN chan'[w],
               w[2] \in Nodes, chan'[w][k].type = "WAVE", waves'[chan'[w][k].id].to = b,
               Accepts(b, chan'[w][l])
        PROVE  k < l
    <2>0. /\ d(w) \in Nat /\ Len(chan[w]) \in Nat /\ k \in Nat /\ l \in Nat
          /\ Was(w, k) \/ Is(w, k)
          /\ Was(w, l) \/ Is(w, l)
      BY <1>1
    <2>1. CASE Was(w, k) /\ Was(w, l)
      <3>1. k + d(w) < l + d(w)
        BY <1>2, <1>4, <2>1 DEF Finds
      <3> HIDE DEF d
      <3> QED BY <2>0, <3>1
    <2>2. CASE Was(w, k) /\ Is(w, l)
      <3>1. k + d(w) <= Len(chan[w]) /\ l + d(w) > Len(chan[w])
        BY <1>2, <2>2
      <3> HIDE DEF d
      <3> QED BY <2>0, <3>1
    <2>3. CASE Is(w, k)
      <3>1. PICK i \in DOMAIN ms : chan'[w][k] = ms[i] /\ w \in in
        BY <2>3
      <3>2. /\ \A j \in DOMAIN chan[w] : ~Accepts(b, chan[w][j])
            /\ \A j \in DOMAIN ms : ~Accepts(b, ms[j])
        BY <1>4, <3>1
      <3> QED BY <1>4, <2>0, <3>2
    <2> QED BY <2>0, <2>1, <2>2, <2>3
  <1>5. Finds(b)'
    BY <1>3, <1>4 DEF Finds, Accepts
  <1>6. Straight(b)'
    BY <1>3 DEF Straight, Near, Home
  <1> QED BY <1>5, <1>6

\* No wave is new on the wires, and the agent is where it was, in the same phase of its life.
LEMMA WayQuiet ==
  ASSUME TypeInv, NEW b \in Agents, Finds(b), Straight(b), NEW out, NEW v, NEW t \in ProtocolTypes,
         NEW a \in Agents, Moved(out, {}, <<>>) \/ Moved(out, {v}, <<Msg(t, a)>>), UNCHANGED waves,
         \A w \in Wires : \A k \in DOMAIN chan[w] :
            /\ w[2] \in Nodes /\ chan[w][k].type = "WAVE" /\ waves[chan[w][k].id].to = b
            /\ ~(w \in out /\ k = 1)
            => w[2] = node'[b] /\ phase'[b] \in {"running", "leaving"}
  PROVE  Finds(b)' /\ Straight(b)'
  <1>0. TypeOK /\ Kinds /\ \A i \in 1 .. Len(waves) : waves'[i] = waves[i]
    BY DEF TypeInv
  <1>1. CASE Moved(out, {}, <<>>)
    <2> DEFINE ms == <<>>
               in == {}
    <2>1. ms \in Seq(Message) /\ DOMAIN ms = {} /\ Moved(out, in, ms)
      BY <1>1
    <2> HIDE DEF ms, in
    <2> QED BY <1>0, <2>1, WayMoved
  <1>2. CASE Moved(out, {v}, <<Msg(t, a)>>)
    <2> DEFINE ms == <<Msg(t, a)>>
               in == {v}
    <2>1. Msg(t, a) \in Message /\ Msg(t, a).type # "WAVE"
      BY MessageForms
    <2>2. ms \in Seq(Message) /\ Moved(out, in, ms) /\ \A i \in DOMAIN ms : ms[i].type # "WAVE"
      BY <1>2, <2>1
    <2> HIDE DEF ms, in
    <2> QED BY <1>0, <2>2, WayMoved
  <1> QED BY <1>1, <1>2

\* The steps of the agents.
LEMMA WayAgents ==
  ASSUME ~Impatient, TypeInv, EachAgent, EachWay, NEW b \in Agents, NEW a \in Agents,
         Start(a) \/ Depart(a) \/ Arrive(a) \/ (a \in Movers /\ \E n \in Nodes : Move(a, n))
  PROVE  WayInv(b)'
  <1>0. /\ TypeOK /\ Stays(b) /\ Queued(b) /\ Finds(b) /\ Straight(b)
        /\ Stays(a) /\ Finds(a) /\ AgentInv(a)
    BY DEF TypeInv, EachAgent, EachWay, WayInv
  <1>t. phase \in [Agents -> {"new", "running", "leaving", "stopping", "transit"}] /\ node \in [Agents -> Nodes]
        /\ inQueue \in [Agents -> Seq(Ids)] /\ got \in [Agents -> Seq(Ids)]
    BY <1>0 DEF TypeOK
  <1>1. UNCHANGED <<homeVars, guests, waves>>
    BY DEF Start, Depart, Arrive, Move
  <1>2. status' = status /\ saved' = saved /\ waves' = waves
    BY <1>1 DEF homeVars
  <1>3. CASE Start(a)
    <2>1. /\ phase[a] = "new" /\ phase' = [phase EXCEPT ![a] = "running"]
          /\ node' = node /\ inQueue' = inQueue /\ got' = got
      BY <1>3 DEF Start
    <2>2. phase'[b] = IF b = a THEN "running" ELSE phase[b]
      BY <1>t, <2>1
    <2>3. Moved({}, {Up(a)}, <<Msg("REGISTER", a)>>) /\ "REGISTER" \in ProtocolTypes
      <3>1. "REGISTER" \in ProtocolTypes
        BY DEF ProtocolTypes
      <3> QED BY <1>0, <1>3, <3>1, SendMoves, MessageForms DEF Start
    <2>4. Finds(b)' /\ Straight(b)'
      <3>1. \A w \in Wires : \A k \in DOMAIN chan[w] :
               w[2] \in Nodes /\ chan[w][k].type = "WAVE" /\ waves[chan[w][k].id].to = b
               => w[2] = node'[b] /\ phase'[b] \in {"running", "leaving"}
        BY <1>0, <2>1, <2>2 DEF Finds
      <3> QED BY <1>0, <1>2, <2>3, <3>1, WayQuiet
    <2>5. Stays(b)'
      BY <1>0, <2>1, <2>2 DEF Stays
    <2>6. Queued(b)'
      BY <1>0, <1>2, <2>1, <2>2 DEF Queued
    <2> QED BY <2>4, <2>5, <2>6 DEF WayInv
  <1>4. CASE Depart(a)
    <2>1. /\ phase[a] = "stopping" /\ phase' = [phase EXCEPT ![a] = "transit"]
          /\ node' = node /\ inQueue' = inQueue /\ got' = got /\ chan' = chan
      BY <1>4 DEF Depart
    <2>2. phase'[b] = IF b = a THEN "transit" ELSE phase[b]
      BY <1>t, <2>1
    <2>3. Moved({}, {}, <<>>) /\ "REGISTER" \in ProtocolTypes
      BY <1>0, <2>1, StillMoves DEF ProtocolTypes
    <2>4. Finds(b)' /\ Straight(b)'
      <3>1. \A w \in Wires : \A k \in DOMAIN chan[w] :
               w[2] \in Nodes /\ chan[w][k].type = "WAVE" /\ waves[chan[w][k].id].to = b
               => w[2] = node'[b] /\ phase'[b] \in {"running", "leaving"}
        BY <1>0, <2>1, <2>2 DEF Finds
      <3> QED BY <1>0, <1>2, <2>3, <3>1, WayQuiet
    <2>5. Stays(b)'
      BY <1>0, <2>1, <2>2 DEF Stays
    <2>6. Queued(b)'
      BY <1>0, <1>2, <2>1, <2>2 DEF Queued
    <2> QED BY <2>4, <2>5, <2>6 DEF WayInv
  <1>5. CASE Arrive(a)
    <2>1. /\ phase[a] = "transit" /\ phase' = [phase EXCEPT ![a] = "running"]
          /\ node' = [node EXCEPT ![a] = target[a]]
          /\ inQueue' = [inQueue EXCEPT ![a] = <<>>] /\ got' = [got EXCEPT ![a] = @ \o inQueue[a]]
      BY <1>5 DEF Arrive
    <2>2. /\ phase'[b] = (IF b = a THEN "running" ELSE phase[b])
          /\ b # a => node'[b] = node[b] /\ inQueue'[b] = inQueue[b] /\ got'[b] = got[b]
          /\ b = a => inQueue'[b] = <<>> /\ got'[b] = got[b] \o inQueue[b]
      BY <1>t, <2>1
    <2>3. /\ Moved({}, {<<target[a], Region[target[a]]>>}, <<Msg("CONNECT", a)>>)
          /\ "CONNECT" \in ProtocolTypes
      BY <1>0, <1>5, SendMoves, MessageForms DEF Arrive, ProtocolTypes
    <2>4. Finds(b)' /\ Straight(b)'
      <3>1. \A w \in Wires : \A k \in DOMAIN chan[w] :
               w[2] \in Nodes /\ chan[w][k].type = "WAVE" /\ waves[chan[w][k].id].to = b
               => w[2] = node'[b] /\ phase'[b] \in {"running", "leaving"}
        BY <1>0, <2>1, <2>2 DEF Finds
      <3> QED BY <1>0, <1>2, <2>3, <3>1, WayQuiet
    <2>5. Stays(b)'
      BY <1>0, <2>1, <2>2 DEF Stays
    <2>6. Queued(b)'
      <3>1. CASE b = a
        <4>1. got[b] \in Seq(Ids) /\ inQueue[b] \in Seq(Ids)
          BY <1>t
        <4>2. \A k \in DOMAIN (got[b] \o inQueue[b]) :
                 \/ k \in DOMAIN got[b] /\ (got[b] \o inQueue[b])[k] = got[b][k]
                 \/ \E j \in DOMAIN inQueue[b] : (got[b] \o inQueue[b])[k] = inQueue[b][j]
          <5>1. PICK g \in Seq(Ids), q \in Seq(Ids) : g = got[b] /\ q = inQueue[b]
            BY <4>1
          <5>2. /\ Len(g) \in Nat /\ Len(q) \in Nat /\ DOMAIN g = 1 .. Len(g) /\ DOMAIN q = 1 .. Len(q)
                /\ DOMAIN (g \o q) = 1 .. Len(g) + Len(q)
                /\ \A k \in 1 .. Len(g) : (g \o q)[k] = g[k]
                /\ \A k \in 1 .. Len(q) : (g \o q)[k + Len(g)] = q[k]
            OBVIOUS
          <5>3. ASSUME NEW k \in DOMAIN (g \o q), ~(k <= Len(g))
                PROVE  \E j \in DOMAIN q : (g \o q)[k] = q[j]
            <6>1. PICK j : j = k - Len(g)
              OBVIOUS
            <6>2. j \in 1 .. Len(q) /\ k = j + Len(g)
              BY <5>2, <5>3, <6>1
            <6> QED BY <5>2, <6>2
          <5>4. ASSUME NEW k \in DOMAIN (g \o q), k <= Len(g)
                PROVE  k \in DOMAIN g /\ (g \o q)[k] = g[k]
            BY <5>2, <5>4
          <5> QED BY <5>1, <5>3, <5>4
        <4>3. ASSUME NEW k \in DOMAIN got'[b]
              PROVE  got'[b][k] \in DOMAIN waves /\ waves[got'[b][k]].to = b
          <5>1. got'[b] = got[b] \o inQueue[b]
            BY <2>2, <3>1
          <5>2. \/ k \in DOMAIN got[b] /\ got'[b][k] = got[b][k]
                \/ \E j \in DOMAIN inQueue[b] : got'[b][k] = inQueue[b][j]
            BY <4>2, <5>1
          <5> QED BY <1>0, <5>2 DEF Queued
        <4>4. DOMAIN inQueue'[b] = {} /\ inQueue'[b] = <<>>
          BY <2>2, <3>1
        <4> QED BY <1>0, <1>2, <4>3, <4>4 DEF Queued
      <3>2. CASE b # a
        BY <1>0, <1>2, <2>2, <3>2 DEF Queued
      <3> QED BY <3>1, <3>2
    <2> QED BY <2>4, <2>5, <2>6 DEF WayInv
  <1>6. CASE a \in Movers /\ \E n \in Nodes : Move(a, n)
    <2>1. /\ phase[a] = "running" /\ phase' = [phase EXCEPT ![a] = "leaving"]
          /\ node' = node /\ inQueue' = [inQueue EXCEPT ![a] = <<>>] /\ got' = got
      BY <1>6 DEF Move
    <2>2. /\ phase'[b] = (IF b = a THEN "leaving" ELSE phase[b])
          /\ b # a => inQueue'[b] = inQueue[b]
          /\ b = a => inQueue'[b] = <<>>
      BY <1>t, <2>1
    <2>3. Moved({}, {Up(a)}, <<Msg("REQ_LEAVE", a)>>) /\ "REQ_LEAVE" \in ProtocolTypes
      BY <1>0, <1>6, SendMoves, MessageForms DEF Move, ProtocolTypes
    <2>4. Finds(b)' /\ Straight(b)'
      <3>1. \A w \in Wires : \A k \in DOMAIN chan[w] :
               w[2] \in Nodes /\ chan[w][k].type = "WAVE" /\ waves[chan[w][k].id].to = b
               => w[2] = node'[b] /\ phase'[b] \in {"running", "leaving"}
        BY <1>0, <2>1, <2>2 DEF Finds
      <3> QED BY <1>0, <1>2, <2>3, <3>1, WayQuiet
    <2>5. Stays(b)'
      BY <1>0, <1>6, <2>1, <2>2 DEF Stays
    <2>6. Queued(b)'
      <3>1. b = a => DOMAIN inQueue'[b] = {}
        BY <2>2
      <3> QED BY <1>0, <1>2, <2>1, <2>2, <3>1 DEF Queued
    <2> QED BY <2>4, <2>5, <2>6 DEF WayInv
  <1> QED BY <1>3, <1>4, <1>5, <1>6

\* A wave that a pylon takes from its wire finds its agent there.
LEMMA Found ==
  ASSUME TypeInv, EachWay, NEW n \in Nodes, NEW w, w = <<Region[n], n>>, Incoming(w, "WAVE"),
         NEW i, i = Head(chan[w]).id, NEW a, a = waves[i].to
  PROVE  /\ w \in Wires /\ 1 \in DOMAIN chan[w] /\ chan[w][1].type = "WAVE" /\ chan[w][1].id = i
         /\ i \in Ids /\ i \in DOMAIN waves /\ a \in Agents
         /\ Registered(a, n) /\ phase[a] \in {"running", "leaving"}
  <1>1. w \in Wires /\ w[2] = n
    BY RegionAssumption DEF Wires
  <1>2. /\ 1 \in DOMAIN chan[w] /\ chan[w][1].type = "WAVE" /\ chan[w][1].id = i
        /\ i \in Ids /\ i \in DOMAIN waves /\ a \in Agents
    BY <1>1, HeadFacts
  <1>3. Finds(a)
    BY <1>2 DEF EachWay, WayInv
  <1>4. node[a] = n /\ phase[a] \in {"running", "leaving"}
    BY <1>1, <1>2, <1>3 DEF Finds
  <1> QED BY <1>1, <1>2, <1>4 DEF Registered

\* The steps of the pylons.
LEMMA WayReceives ==
  ASSUME TypeInv, EachAgent, EachWay, NEW b \in Agents, NEW n \in Nodes, Receive(n)
  PROVE  WayInv(b)'
  <1> DEFINE w == <<Region[n], n>>
  <1>0. /\ TypeOK /\ Stays(b) /\ Queued(b) /\ Finds(b) /\ Straight(b) /\ \A c \in Agents : AgentInv(c)
    BY DEF TypeInv, EachAgent, EachWay, WayInv
  <1>t. phase \in [Agents -> {"new", "running", "leaving", "stopping", "transit"}] /\ node \in [Agents -> Nodes]
        /\ inQueue \in [Agents -> Seq(Ids)] /\ got \in [Agents -> Seq(Ids)]
    BY <1>0 DEF TypeOK
  <1>1. /\ UNCHANGED <<node, homeVars, guests, waves>> /\ Drop(w) /\ chan[w] # <<>>
    BY DEF Receive, ReceiveWave, ReceiveAccept, Incoming
  <1>2. status' = status /\ saved' = saved /\ waves' = waves /\ node' = node
    BY <1>1 DEF homeVars
  <1>3. w \in Wires /\ w[2] = n /\ w[2] \in Nodes
    BY RegionAssumption DEF Wires
  <1>4. Moved({w}, {}, <<>>) /\ "REGISTER" \in ProtocolTypes
    BY <1>0, <1>1, <1>3, DropMoves DEF ProtocolTypes
  <1>5. CASE ReceiveWave(n)
    <2>1. phase' = phase /\ Incoming(w, "WAVE")
      BY <1>5 DEF ReceiveWave
    <2>2. Finds(b)' /\ Straight(b)'
      <3>1. \A u \in Wires : \A k \in DOMAIN chan[u] :
               u[2] \in Nodes /\ chan[u][k].type = "WAVE" /\ waves[chan[u][k].id].to = b
               => u[2] = node'[b] /\ phase'[b] \in {"running", "leaving"}
        BY <1>0, <1>2, <2>1 DEF Finds
      <3> HIDE DEF w
      <3> QED BY <1>0, <1>2, <1>4, <3>1, WayQuiet
    <2>3. Stays(b)'
      BY <1>0, <1>2, <2>1 DEF Stays
    <2>4. PICK i, a : i = Head(chan[w]).id /\ a = waves[i].to
      OBVIOUS
    <2>5. i \in Ids /\ i \in DOMAIN waves /\ a \in Agents /\ Registered(a, n) /\ phase[a] \in {"running", "leaving"}
      BY <2>1, <2>4, Found
    <2>6. \/ phase[a] = "running" /\ got' = [got EXCEPT ![a] = Append(@, i)] /\ inQueue' = inQueue
          \/ phase[a] = "leaving" /\ inQueue' = [inQueue EXCEPT ![a] = Append(@, i)] /\ got' = got
      BY <1>5, <2>4, <2>5 DEF ReceiveWave
    <2>7. \A s \in Seq(Ids) : \A k \in DOMAIN Append(s, i) :
             Append(s, i)[k] = i \/ (k \in DOMAIN s /\ Append(s, i)[k] = s[k])
      BY <2>5
    <2>8. Queued(b)'
      <3>1. CASE b # a
        <4>1. inQueue'[b] = inQueue[b] /\ got'[b] = got[b]
          BY <1>t, <2>6, <3>1
        <4> QED BY <1>0, <1>2, <2>1, <4>1 DEF Queued
      <3>2. CASE b = a /\ phase[a] = "running"
        <4>1. inQueue'[b] = inQueue[b] /\ got'[b] = Append(got[b], i)
          BY <1>t, <2>6, <3>2
        <4>2. ASSUME NEW k \in DOMAIN got'[b]
              PROVE  got'[b][k] \in DOMAIN waves /\ waves[got'[b][k]].to = b
          <5>1. got[b] \in Seq(Ids)
            BY <1>t
          <5>2. got'[b][k] = i \/ (k \in DOMAIN got[b] /\ got'[b][k] = got[b][k])
            BY <2>7, <4>1, <5>1
          <5> QED BY ZenonT(60), <1>0, <2>4, <2>5, <3>2, <5>2 DEF Queued
        <4> QED BY <1>0, <1>2, <2>1, <4>1, <4>2 DEF Queued
      <3>3. CASE b = a /\ phase[a] = "leaving"
        <4>1. got'[b] = got[b] /\ inQueue'[b] = Append(inQueue[b], i)
          BY <1>t, <2>6, <3>3
        <4>2. ASSUME NEW k \in DOMAIN inQueue'[b]
              PROVE  inQueue'[b][k] \in DOMAIN waves /\ waves[inQueue'[b][k]].to = b
          <5>1. inQueue[b] \in Seq(Ids)
            BY <1>t
          <5>2. inQueue'[b][k] = i \/ (k \in DOMAIN inQueue[b] /\ inQueue'[b][k] = inQueue[b][k])
            BY <2>7, <4>1, <5>1
          <5> QED BY ZenonT(60), <1>0, <2>4, <2>5, <3>3, <5>2 DEF Queued
        <4> QED BY <1>0, <1>2, <2>1, <3>3, <4>1, <4>2 DEF Queued
      <3> QED BY <2>5, <3>1, <3>2, <3>3
    <2> QED BY <2>2, <2>3, <2>8 DEF WayInv
  <1>6. CASE ReceiveAccept(n)
    <2>1. PICK a : a = Head(chan[w]).agent
      OBVIOUS
    <2>2. /\ Incoming(w, "REQ_ACCEPT") /\ inQueue' = inQueue /\ got' = got
          /\ phase' = [phase EXCEPT ![a] = IF Registered(a, n) /\ @ = "leaving" THEN "stopping" ELSE @]
      BY <1>6, <2>1 DEF ReceiveAccept
    <2>3. /\ a \in Agents /\ 1 \in DOMAIN chan[w] /\ Head(chan[w]) = chan[w][1]
          /\ chan[w][1].type = "REQ_ACCEPT" /\ "REQ_ACCEPT" \in ProtocolTypes
      BY <1>3, <2>1, <2>2, HeadFacts, MessageForms DEF ProtocolTypes
    <2>4. Accepts(a, chan[w][1]) /\ Token(a, chan[w][1])
      BY <2>1, <2>3 DEF Accepts, Token
    <2>5. Stage(a, "REQ_ACCEPT", w)
      <3>1. Staged(a)
        BY <1>0, <2>3 DEF AgentInv
      <3> QED BY <1>3, <2>3, <2>4, <3>1 DEF Staged
    <2>6. phase[a] = "leaving"
      BY <2>5 DEF Stage, Arriving
    <2>7. phase'[b] = phase[b] \/ (b = a /\ phase'[b] = "stopping")
      BY <1>t, <2>2
    <2>8. ASSUME NEW u \in Wires, NEW k \in DOMAIN chan[u],
                 u[2] \in Nodes, chan[u][k].type = "WAVE", waves[chan[u][k].id].to = b
          PROVE  u[2] = node'[b] /\ phase'[b] \in {"running", "leaving"}
      <3>1. u[2] = node[b] /\ phase[b] \in {"running", "leaving"}
        BY <1>0, <2>8 DEF Finds
      <3>2. CASE b # a
        BY <1>2, <2>7, <3>1, <3>2
      <3>3. CASE b = a
        <4>1. w = <<Region[node[b]], node[b]>>
          <5>1. n # Region[node[b]]
            BY <1>t, RegionAssumption
          <5> QED BY <2>5, <3>3, <5>1 DEF Stage
        <4>2. u = w
          BY <1>3, <2>8, <3>1, <4>1, WireEnds
        <4>3. k < 1
          BY <1>0, <1>3, <2>3, <2>4, <2>8, <3>3, <4>2 DEF Finds
        <4>4. k \in Nat /\ k > 0
          BY <1>0 DEF TypeOK
        <4> QED BY <4>3, <4>4
      <3> QED BY <3>2, <3>3
    <2>9. Finds(b)' /\ Straight(b)'
      <3> HIDE DEF w
      <3> QED BY <1>0, <1>2, <1>4, <2>8, WayQuiet
    <2>10. Stays(b)'
      BY <1>0, <1>2, <2>6, <2>7 DEF Stays
    <2>11. Queued(b)'
      BY <1>0, <1>2, <2>2, <2>7 DEF Queued
    <2> QED BY <2>9, <2>10, <2>11 DEF WayInv
  <1> QED BY <1>5, <1>6 DEF Receive

\* A wave is sent, up from the node of who sends it.
LEMMA WaySends ==
  ASSUME TypeInv, EachWay, NEW a \in Agents, NEW c \in Agents, SendWave(c, a), NEW b \in Agents
  PROVE  WayInv(b)'
  <1>0. /\ TypeOK /\ Kinds /\ Stays(b) /\ Queued(b) /\ Finds(b) /\ Straight(b) /\ Stays(c)
        /\ Len(waves) \in Nat /\ Len(waves) + 1 \in Ids
    BY BoundsAssumption DEF TypeInv, TypeOK, SendWave, Ids, EachWay, WayInv
  <1> DEFINE m == Wave(Len(waves) + 1, 0)
             ms == <<m>>
             in == {Up(c)}
  <1>1. m \in Message /\ m.id = Len(waves) + 1 /\ m.type = "WAVE"
    BY <1>0, MessageForms
  <1>2. ms \in Seq(Message) /\ Moved({}, in, ms) /\ \A i \in DOMAIN ms : ms[i] = m
    BY <1>0, <1>1, SendMoves DEF SendWave
  <1>3. /\ phase' = phase /\ node' = node /\ inQueue' = inQueue /\ got' = got /\ status' = status /\ saved' = saved
        /\ phase[c] \in {"running", "leaving", "stopping"}
    BY DEF SendWave, shardVars, homeVars
  <1>4. /\ \A i \in 1 .. Len(waves) : waves'[i] = waves[i]
        /\ waves'[Len(waves) + 1].from = c
        /\ DOMAIN waves = 1 .. Len(waves) /\ DOMAIN waves' = 1 .. Len(waves) + 1
    <2> DEFINE x == [from |-> c, to |-> a, known |-> status[a] # "none"]
    <2>1. waves' = Append(waves, x) /\ x.from = c
      BY DEF SendWave
    <2>2. waves \in Seq([from : Agents, to : Agents, known : BOOLEAN])
      BY <1>0 DEF TypeOK
    <2> HIDE DEF x
    <2> QED BY <2>1, <2>2
  <1>5. /\ Up(c)[1] = node[c] /\ node[c] \in Nodes /\ node[c] \notin Servers
        /\ Up(c)[2] \in Servers /\ Up(c)[2] \notin Nodes
    BY <1>0, RegionAssumption DEF Up, TypeOK
  <1>6. c \notin Movers => node[c] = Origin[c]
    BY <1>0 DEF Stays
  <1>7. Finds(b)' /\ Straight(b)'
    <2>1. \A w \in Wires : \A k \in DOMAIN chan[w] :
             w[2] \in Nodes /\ chan[w][k].type = "WAVE" /\ waves[chan[w][k].id].to = b
             => w[2] = node'[b] /\ phase'[b] \in {"running", "leaving"}
      BY <1>0, <1>3 DEF Finds
    <2>2. ASSUME NEW v \in Wires \cap in, NEW i \in DOMAIN ms
          PROVE  /\ v[2] \notin Nodes
                 /\ Near(waves'[ms[i].id]) =>
                       /\ v[1] \in Nodes => v[1] = Origin[waves'[ms[i].id].from]
                       /\ v[1] \notin Servers
      <3>1. v = Up(c) /\ ms[i].id = Len(waves) + 1
        BY <1>1, <1>2
      <3> HIDE DEF ms, in, m
      <3> QED BY <1>4, <1>5, <1>6, <3>1 DEF Near
    <2> HIDE DEF ms, in, m
    <2> QED BY <1>0, <1>2, <1>4, <2>1, <2>2, WayMoved
  <1>8. Stays(b)'
    BY <1>0, <1>3 DEF Stays
  <1>9. Queued(b)'
    BY <1>0, <1>3, <1>4 DEF Queued
  <1> QED BY <1>7, <1>8, <1>9 DEF WayInv

\* The wires when a server handles a message about an agent and sends nothing that it saved.
LEMMA ProtocolMoves ==
  ASSUME TypeInv, EachAgent, NEW s \in Servers, NEW w \in Wires,
         Register(s, w) \/ ConnectGuest(s, w) \/ ReqLeave(s, w) \/ ReqBuffer(s, w) \/ ReqAccept(s, w),
         NEW a, a = Head(chan[w]).agent
  PROVE  /\ UNCHANGED <<shardVars, waves>>
         /\ a \in Agents /\ 1 \in DOMAIN chan[w] /\ chan[w][1].type \in ProtocolTypes
         /\ \/ Moved({w}, {}, <<>>)
            \/ \E v : \E r \in ProtocolTypes : Moved({w}, {v}, <<Msg(r, a)>>)
         /\ saved' = saved \/ (saved' = [saved EXCEPT ![a] = <<>>] /\ status[a] = "none")
         /\ \/ status' = status
            \/ status' = [status EXCEPT ![a] = "OFFLINE"] /\ saved' = saved
            \/ status' = [status EXCEPT ![a] = "HOME"] /\ saved' = [saved EXCEPT ![a] = <<>>]
  <1>1. PICK t \in ProtocolTypes : Handles(s, w, t)
    BY DEF Register, ConnectGuest, ReqLeave, ReqBuffer, ReqAccept, ProtocolTypes
  <1>2. /\ a \in Agents /\ 1 \in DOMAIN chan[w] /\ chan[w][1].type = t /\ Stage(a, t, w)
    BY <1>1, OwnFacts DEF Handles, EachAgent
  <1>3. \/ Drop(w)
        \/ \E x : \E r \in {"AGENT_UPDATE", "REQ_BUFFER", "REQ_ACCEPT"} : Pass(w, <<s, x>>, <<Msg(r, a)>>)
    BY DEF Register, ConnectGuest, ReqLeave, ReqBuffer, ReqAccept
  <1>4. \/ Moved({w}, {}, <<>>)
        \/ \E v : \E r \in ProtocolTypes : Moved({w}, {v}, <<Msg(r, a)>>)
    <2>1. ASSUME NEW x, NEW r \in {"AGENT_UPDATE", "REQ_BUFFER", "REQ_ACCEPT"}, Pass(w, <<s, x>>, <<Msg(r, a)>>)
          PROVE  r \in ProtocolTypes /\ Moved({w}, {<<s, x>>}, <<Msg(r, a)>>)
      <3>1. r \in ProtocolTypes
        BY DEF ProtocolTypes
      <3>2. <<Msg(r, a)>> \in Seq(Message)
        BY <1>2, <3>1, MessageForms
      <3> QED BY <1>1, <2>1, <3>1, <3>2, ServerMoves
    <2>2. Drop(w) => Moved({w}, {}, <<>>)
      BY <1>1, ServerMoves
    <2> QED BY <1>3, <2>1, <2>2
  <1>5. UNCHANGED <<shardVars, waves>>
    BY DEF Register, ConnectGuest, ReqLeave, ReqBuffer, ReqAccept
  <1>6. CASE Register(s, w)
    <2>1. status' = [status EXCEPT ![a] = "HOME"] /\ saved' = [saved EXCEPT ![a] = <<>>]
      BY <1>6 DEF Register
    <2>2. t = "REGISTER"
      BY <1>1, <1>6 DEF Register, Handles, Incoming
    <2>3. status[a] = "none"
      BY <1>2, <2>2 DEF Stage
    <2> QED BY <1>2, <1>4, <1>5, <2>1, <2>3
  <1>7. CASE ConnectGuest(s, w) \/ ReqAccept(s, w)
    BY <1>2, <1>4, <1>5, <1>7 DEF ConnectGuest, ReqAccept, homeVars
  <1>8. CASE ReqLeave(s, w) \/ ReqBuffer(s, w)
    BY <1>2, <1>4, <1>5, <1>8 DEF ReqLeave, ReqBuffer
  <1> QED BY <1>6, <1>7, <1>8

LEMMA WayProtocol ==
  ASSUME TypeInv, EachAgent, EachWay, NEW s \in Servers, NEW w \in Wires, NEW b \in Agents,
         Register(s, w) \/ ConnectGuest(s, w) \/ ReqLeave(s, w) \/ ReqBuffer(s, w) \/ ReqAccept(s, w)
  PROVE  WayInv(b)'
  <1>0. TypeOK /\ Stays(b) /\ Queued(b) /\ Finds(b) /\ Straight(b)
    BY DEF TypeInv, EachWay, WayInv
  <1>1. PICK a : a = Head(chan[w]).agent
    OBVIOUS
  <1>2. /\ UNCHANGED <<shardVars, waves>>
        /\ a \in Agents
        /\ \/ Moved({w}, {}, <<>>)
           \/ \E v : \E r \in ProtocolTypes : Moved({w}, {v}, <<Msg(r, a)>>)
        /\ saved' = saved \/ (saved' = [saved EXCEPT ![a] = <<>>] /\ status[a] = "none")
        /\ \/ status' = status
           \/ status' = [status EXCEPT ![a] = "OFFLINE"] /\ saved' = saved
           \/ status' = [status EXCEPT ![a] = "HOME"] /\ saved' = [saved EXCEPT ![a] = <<>>]
    BY <1>1, ProtocolMoves
  <1>3. phase' = phase /\ node' = node /\ inQueue' = inQueue /\ got' = got /\ waves' = waves
    BY <1>2 DEF shardVars
  <1>4. \A u \in Wires : \A k \in DOMAIN chan[u] :
           u[2] \in Nodes /\ chan[u][k].type = "WAVE" /\ waves[chan[u][k].id].to = b
           => u[2] = node'[b] /\ phase'[b] \in {"running", "leaving"}
    BY <1>0, <1>3 DEF Finds
  <1>5. ASSUME NEW v, NEW r \in ProtocolTypes, Moved({w}, {}, <<>>) \/ Moved({w}, {v}, <<Msg(r, a)>>)
        PROVE  Finds(b)' /\ Straight(b)'
    <2> DEFINE out == {w}
    <2>1. Moved(out, {}, <<>>) \/ Moved(out, {v}, <<Msg(r, a)>>)
      BY <1>5
    <2> HIDE DEF out
    <2> QED BY <1>0, <1>2, <1>3, <1>4, <2>1, WayQuiet
  <1>6. "CONNECT" \in ProtocolTypes
    BY DEF ProtocolTypes
  <1>7. Finds(b)' /\ Straight(b)'
    BY <1>2, <1>5, <1>6
  <1>8. Stays(b)'
    BY <1>0, <1>3 DEF Stays
  <1>9. saved'[b] # <<>> => status'[b] = "OFFLINE"
    <2>1. saved \in [Agents -> Seq(Message)] /\ status \in [Agents -> {"none", "HOME", "OFFLINE", "REMOTE"}]
      BY <1>0 DEF TypeOK
    <2>2. saved[b] # <<>> => status[b] = "OFFLINE"
      BY <1>0 DEF Queued
    <2>3. CASE b = a
      BY <1>2, <2>1, <2>2, <2>3
    <2>4. CASE b # a
      BY <1>2, <2>1, <2>2, <2>4
    <2> QED BY <2>3, <2>4
  <1>10. Queued(b)'
    BY <1>0, <1>3, <1>9 DEF Queued
  <1> QED BY <1>7, <1>8, <1>10 DEF WayInv

\* A server sends what it saved for agent a on wire v: down to the agent, or to the server it
\* is a guest of.
Drains(w, a, v, ms) ==
    /\ phase' = phase /\ node' = node /\ inQueue' = inQueue /\ got' = got /\ waves' = waves
    /\ a \in Agents /\ v \in Wires /\ 1 \in DOMAIN chan[w] /\ chan[w][1].type \in ProtocolTypes
    /\ status[a] = "OFFLINE" /\ saved' = [saved EXCEPT ![a] = <<>>]
    /\ ms \in Seq(Message) /\ Moved({w}, {v}, ms) /\ DOMAIN ms = DOMAIN saved[a]
    /\ \A i \in DOMAIN ms : /\ ms[i].type = "WAVE" /\ ms[i].id = saved[a][i].id
                            /\ saved[a][i].type = "WAVE" /\ waves[ms[i].id].to = a
    /\ \/ /\ v = <<Region[node[a]], node[a]>> /\ ~Away(a) /\ phase[a] \in {"running", "leaving"}
          /\ \A k \in DOMAIN chan[v] : ~Accepts(a, chan[v][k])
          /\ status' = [status EXCEPT ![a] = "HOME"]
       \/ v = <<Home(a), Region[node[a]]>> /\ Away(a) /\ status' = [status EXCEPT ![a] = "REMOTE"]

LEMMA SavedSteps ==
  ASSUME TypeInv, EachAgent, EachWave, NEW s \in Servers, NEW w \in Wires,
         ConnectHome(s, w) \/ AgentUpdate(s, w), NEW a, a = Head(chan[w]).agent
  PROVE  \E v, ms : Drains(w, a, v, ms)
  <1>0. /\ TypeOK /\ \A c \in Agents : AgentInv(c)
        /\ phase' = phase /\ node' = node /\ inQueue' = inQueue /\ got' = got /\ waves' = waves
    BY DEF TypeInv, EachAgent, ConnectHome, AgentUpdate, shardVars
  <1>1. CASE ConnectHome(s, w)
    <2>1. Handles(s, w, "CONNECT") /\ "CONNECT" \in ProtocolTypes /\ Incoming(w, "CONNECT") /\ w[2] = s
      BY <1>1 DEF ConnectHome, ProtocolTypes, Handles
    <2>2. /\ a \in Agents /\ AgentInv(a) /\ 1 \in DOMAIN chan[w]
          /\ Token(a, chan[w][1]) /\ chan[w][1].type = "CONNECT" /\ Stage(a, "CONNECT", w) /\ SavedHops(a)
      BY <1>0, <2>1, OwnFacts DEF EachWave, WavesInv
    <2>3. /\ status[a] = "OFFLINE" /\ AtHome(s, a) /\ Home(a) = s
          /\ status' = [status EXCEPT ![a] = "HOME"] /\ saved' = [saved EXCEPT ![a] = <<>>]
          /\ Pass(w, <<s, w[1]>>, saved[a])
      BY <1>1, <2>2 DEF ConnectHome, AtHome, Stage
    <2>4. /\ w = <<node[a], Region[node[a]]>> /\ s = Region[node[a]] /\ ~Away(a)
          /\ phase[a] \in {"running", "leaving"}
      BY <2>1, <2>2, <2>3 DEF Stage, Up, Away
    <2>5. saved[a] \in Seq(Message)
      BY <1>0, <2>2 DEF TypeOK
    <2>6. Moved({w}, {<<s, w[1]>>}, saved[a])
      BY <2>1, <2>3, <2>5, ServerMoves
    <2>7. PICK v : v = <<s, w[1]>>
      OBVIOUS
    <2>12. v = <<Region[node[a]], node[a]>>
      <3>1. \A x, y : <<x, y>>[1] = x
        OBVIOUS
      <3>2. w[1] = node[a] /\ s = Region[node[a]]
        BY <2>4, <3>1
      <3> QED BY <2>7, <3>2
    <2>8. v \in Wires
      BY <1>0, <2>2, <2>12, GuestOrNone DEF Wires
    <2>9. \A i \in DOMAIN saved[a] : saved[a][i].type = "WAVE" /\ waves[saved[a][i].id].to = a
      BY <2>2 DEF TypeInv, SavedWaves, SavedHops
    <2>10. \A k \in DOMAIN chan[v] : ~Accepts(a, chan[v][k])
      <3> SUFFICES ASSUME NEW k \in DOMAIN chan[v], Accepts(a, chan[v][k]) PROVE FALSE
        OBVIOUS
      <3>1. Token(a, chan[v][k]) /\ chan[v][k].type = "REQ_ACCEPT"
        BY DEF Accepts, Token, ProtocolTypes
      <3>2. v # w
        <4>1. v[1] = s /\ w[2] = s /\ w[1] # w[2]
          BY <2>1, <2>7, WireEnds
        <4>2. v = w => v[1] = w[1]
          OBVIOUS
        <4> QED BY <4>1, <4>2
      <3>3. chan[v][k].type \in Left("CONNECT")
        BY <1>0, <2>2, <2>8, <3>1, <3>2, LeftBehind
      <3> QED BY <3>1, <3>3 DEF Left
    <2>11. Drains(w, a, v, saved[a])
      BY <1>0, <2>1, <2>2, <2>3, <2>4, <2>5, <2>6, <2>7, <2>8, <2>9, <2>10, <2>12 DEF Drains
    <2> QED BY <2>11
  <1>2. CASE AgentUpdate(s, w)
    <2>1. Handles(s, w, "AGENT_UPDATE") /\ "AGENT_UPDATE" \in ProtocolTypes /\ Incoming(w, "AGENT_UPDATE") /\ w[2] = s
      BY <1>2 DEF AgentUpdate, ProtocolTypes, Handles
    <2>2. /\ a \in Agents /\ AgentInv(a) /\ 1 \in DOMAIN chan[w]
          /\ Token(a, chan[w][1]) /\ chan[w][1].type = "AGENT_UPDATE" /\ Stage(a, "AGENT_UPDATE", w) /\ SavedHops(a)
      BY <1>0, <2>1, OwnFacts DEF EachWave, WavesInv
    <2>3. /\ w = <<Region[node[a]], Home(a)>> /\ w[1] = Region[node[a]] /\ s = Home(a)
          /\ Away(a) /\ AtHome(s, a) /\ status[a] = "OFFLINE"
      BY <2>1, <2>2 DEF Stage, AtHome
    <2>4. /\ Pass(w, <<s, w[1]>>, Forwarded(a))
          /\ status' = [status EXCEPT ![a] = "REMOTE"] /\ saved' = [saved EXCEPT ![a] = <<>>]
      BY <1>2, <2>3 DEF AgentUpdate, Forwarded
    <2>5. PICK ms : ms = Forwarded(a)
      OBVIOUS
    <2>6. /\ ms \in Seq(Message) /\ DOMAIN ms = DOMAIN saved[a]
          /\ \A i \in DOMAIN ms : ms[i].type = "WAVE" /\ ms[i].id = saved[a][i].id
      BY <2>2, <2>5, ForwardedWaves
    <2>7. PICK v : v = <<s, w[1]>> /\ v = <<Home(a), Region[node[a]]>>
      BY <2>3
    <2>8. Moved({w}, {v}, ms)
      BY <2>1, <2>4, <2>5, <2>6, <2>7, ServerMoves
    <2>9. v \in Wires
      <3>1. Home(a) \in Servers /\ Region[node[a]] \in Servers /\ Home(a) # Region[node[a]]
        BY <1>0, <2>2, <2>3, GuestOrNone DEF Away
      <3> QED BY <2>7, <3>1 DEF Wires
    <2>10. \A i \in DOMAIN ms : saved[a][i].type = "WAVE" /\ waves[ms[i].id].to = a
      BY <2>2, <2>6 DEF TypeInv, SavedWaves, SavedHops
    <2>11. Drains(w, a, v, ms)
      BY <1>0, <2>1, <2>2, <2>3, <2>4, <2>6, <2>7, <2>8, <2>9, <2>10 DEF Drains
    <2> QED BY <2>11
  <1> QED BY <1>1, <1>2

LEMMA WaySaved ==
  ASSUME TypeInv, EachWay, NEW b \in Agents, NEW w \in Wires, NEW a, NEW v, NEW ms, Drains(w, a, v, ms)
  PROVE  WayInv(b)'
  <1>0. TypeOK /\ Kinds /\ Stays(b) /\ Queued(b) /\ Finds(b) /\ Straight(b)
    BY DEF TypeInv, EachWay, WayInv
  <1>1. /\ phase' = phase /\ node' = node /\ inQueue' = inQueue /\ got' = got /\ waves' = waves
        /\ a \in Agents /\ v \in Wires /\ ms \in Seq(Message) /\ Moved({w}, {v}, ms)
        /\ saved' = [saved EXCEPT ![a] = <<>>]
        /\ status' = [status EXCEPT ![a] = "HOME"] \/ status' = [status EXCEPT ![a] = "REMOTE"]
        /\ \A i \in DOMAIN ms : ms[i].type = "WAVE" /\ waves[ms[i].id].to = a
    BY DEF Drains
  <1>2. v[1] \notin Nodes /\ node[a] \in Nodes /\ node[a] \notin Servers /\ Home(a) \in Servers /\ Region[node[a]] \in Servers
        /\ Region[node[a]] \notin Nodes /\ Home(a) \notin Nodes
    <2>1. node[a] \in Nodes /\ node[a] \notin Servers /\ Home(a) \in Servers /\ Region[node[a]] \in Servers
      BY <1>0, <1>1, GuestOrNone
    <2> QED BY <2>1, RegionAssumption DEF Drains
  <1>3. /\ v[2] \in Nodes => /\ v[2] = node[a] /\ phase[a] \in {"running", "leaving"}
                             /\ \A k \in DOMAIN chan[v] : ~Accepts(a, chan[v][k])
        /\ v[2] \in Servers => v[2] # Home(a)
    BY <1>2 DEF Drains, Away
  <1>4. \A u \in Wires : \A k \in DOMAIN chan[u] :
            u[2] \in Nodes /\ chan[u][k].type = "WAVE" /\ waves[chan[u][k].id].to = b
            => u[2] = node'[b] /\ phase'[b] \in {"running", "leaving"}
    BY <1>0, <1>1 DEF Finds
  <1>5. Finds(b)' /\ Straight(b)'
    <2> DEFINE out == {w}
               in == {v}
    <2>1. Moved(out, in, ms) /\ \A x \in in : x = v
      BY <1>1
    <2>2. \A j \in DOMAIN ms : ~Accepts(b, ms[j])
      BY <1>1 DEF Accepts
    <2>3. \A i \in 1 .. Len(waves) : waves'[i] = waves[i]
      BY <1>1
    <2>4. ASSUME NEW i \in DOMAIN ms, waves'[ms[i].id].to = b PROVE b = a
      BY <1>1, <2>4
    <2> HIDE DEF out, in
    <2>5. \A x \in Wires \cap in, i \in DOMAIN ms :
            ms[i].type = "WAVE" /\ waves'[ms[i].id].to = b =>
               /\ x[2] \in Nodes => /\ x[2] = node'[b] /\ phase'[b] \in {"running", "leaving"}
                                    /\ \A k \in DOMAIN chan[x] : ~Accepts(b, chan[x][k])
                                    /\ \A j \in DOMAIN ms : ~Accepts(b, ms[j])
               /\ Near(waves'[ms[i].id]) =>
                     /\ x[1] \in Nodes => x[1] = Origin[waves'[ms[i].id].from]
                     /\ x[1] \in Servers /\ x[2] \in Servers => x[2] # Home(b)
      BY <1>1, <1>2, <1>3, <2>1, <2>2, <2>4
    <2> QED BY <1>0, <1>1, <1>4, <2>1, <2>3, <2>5, WayMoved
  <1>6. Stays(b)'
    BY <1>0, <1>1 DEF Stays
  <1>7. saved'[b] # <<>> => status'[b] = "OFFLINE"
    <2>1. saved \in [Agents -> Seq(Message)] /\ status \in [Agents -> {"none", "HOME", "OFFLINE", "REMOTE"}]
      BY <1>0 DEF TypeOK
    <2>2. saved[b] # <<>> => status[b] = "OFFLINE"
      BY <1>0 DEF Queued
    <2> QED BY <1>1, <2>1, <2>2
  <1>8. Queued(b)'
    BY <1>0, <1>1, <1>7 DEF Queued
  <1> QED BY <1>5, <1>6, <1>8 DEF WayInv

\* A server passes wave i for agent a on, from wire w to wire v: down to the agent, to the
\* server it is a guest of, or to its home server.
Passes(w, i, a, v, e) ==
    /\ saved' = saved /\ v \in Wires
    /\ e \in Message /\ e.type = "WAVE" /\ e.id = i /\ Moved({w}, {v}, <<e>>)
    /\ \/ /\ v = <<Region[node[a]], node[a]>> /\ phase[a] \in {"running", "leaving"}
          /\ \A k \in DOMAIN chan[v] : ~Accepts(a, chan[v][k])
          /\ (status[a] = "HOME" /\ ~Away(a)) \/ w[2] # Home(a)
       \/ v = <<Home(a), Region[node[a]]>> /\ Away(a) /\ status[a] = "REMOTE" /\ w[2] = Home(a)
       \/ v = <<w[2], Home(a)>> /\ ~Near(waves[i])

\* What a server does with wave i for agent a.
Handled(w, i, a) ==
    /\ phase' = phase /\ node' = node /\ inQueue' = inQueue /\ got' = got /\ waves' = waves /\ status' = status
    /\ 1 \in DOMAIN chan[w] /\ chan[w][1].type = "WAVE" /\ chan[w][1].id = i /\ chan[w][1] \in Message
    /\ i \in Ids /\ i \in DOMAIN waves /\ a \in Agents /\ a = waves[i].to /\ w[2] \in Servers
    /\ \/ \E v, e : Passes(w, i, a, v, e)
       \/ /\ saved' = [saved EXCEPT ![a] = Append(@, chan[w][1])] /\ status[a] = "OFFLINE" /\ w[2] = Home(a)
          /\ Moved({w}, {}, <<>>)
       \/ saved' = saved /\ status[a] = "none" /\ Moved({w}, {}, <<>>)

LEMMA ContentSteps ==
  ASSUME TypeInv, EachAgent, EachWave, EachWay, NEW s \in Servers, NEW w \in Wires, Content(s, w),
         NEW i, i = Head(chan[w]).id, NEW a, a = waves[i].to
  PROVE  Handled(w, i, a)
  <1> DEFINE m == chan[w][1]
             fw == Wave(i, m.hops + 1)
  <1>1. /\ Handles(s, w, "WAVE") /\ w[2] = s /\ w[2] \in Servers
        /\ 1 \in DOMAIN chan[w] /\ Head(chan[w]) = m /\ m \in Message /\ m.type = "WAVE" /\ m.id = i
        /\ i \in Ids /\ m.hops \in Nat /\ i \in DOMAIN waves /\ a \in Agents
    <2>1. Handles(s, w, "WAVE") /\ w[2] = s /\ w[2] \in Servers /\ Incoming(w, "WAVE")
      BY DEF Content, Handles
    <2>2. /\ 1 \in DOMAIN chan[w] /\ Head(chan[w]) = m /\ m \in Message /\ m.type = "WAVE"
          /\ Head(chan[w]).id \in Ids /\ m.hops \in Nat /\ Head(chan[w]).id \in DOMAIN waves
          /\ waves[Head(chan[w]).id].to \in Agents
      BY <2>1, HeadFacts
    <2> HIDE DEF m
    <2> QED BY <2>1, <2>2
  <1>2. /\ phase' = phase /\ node' = node /\ inQueue' = inQueue /\ got' = got /\ waves' = waves /\ status' = status
    BY DEF Content, shardVars
  <1>3. fw \in Message /\ fw.type = "WAVE" /\ fw.id = i
    BY <1>1, MessageForms
  <1>4. /\ TypeOK /\ AgentInv(a) /\ Staged(a) /\ Hops(a) /\ Straight(a)
    BY <1>1 DEF TypeInv, EachAgent, AgentInv, EachWave, WavesInv, EachWay, WayInv
  <1>5. \/ AtHome(s, a) /\ status[a] = "HOME" /\ Pass(w, <<s, conn[a]>>, <<m>>) /\ saved' = saved
        \/ /\ AtHome(s, a) /\ status[a] = "OFFLINE"
           /\ saved' = [saved EXCEPT ![a] = Append(@, m)] /\ Drop(w)
        \/ AtHome(s, a) /\ status[a] = "REMOTE" /\ Pass(w, <<s, last[a]>>, <<fw>>) /\ saved' = saved
        \/ guests[s][a] # NoNode /\ Pass(w, <<s, guests[s][a]>>, <<m>>) /\ saved' = saved
        \/ guests[s][a] = NoNode /\ Home(a) # s /\ Pass(w, <<s, Home(a)>>, <<fw>>) /\ saved' = saved
        \/ ~AtHome(s, a) /\ Home(a) = s /\ Drop(w) /\ saved' = saved
    BY <1>1 DEF Content
  <1>6. /\ node[a] \in Nodes /\ Region[node[a]] \in Servers /\ Home(a) \in Servers /\ node[a] \notin Servers
        /\ GuestHere(a) => ~NoGuest(a)
        /\ <<Region[node[a]], node[a]>> \in Wires
        /\ Home(a) # Region[node[a]] => <<Home(a), Region[node[a]]>> \in Wires
        /\ s # Home(a) => <<s, Home(a)>> \in Wires
    <2>1. /\ node[a] \in Nodes /\ Region[node[a]] \in Servers /\ Home(a) \in Servers /\ node[a] \notin Servers
          /\ GuestHere(a) => ~NoGuest(a)
      BY <1>1, <1>4, GuestOrNone
    <2> QED BY <2>1 DEF Wires
  <1> HIDE DEF fw
  <1>7. ASSUME NEW x, NEW e \in {m, fw}, Pass(w, <<s, x>>, <<e>>)
        PROVE  e \in Message /\ e.type = "WAVE" /\ e.id = i /\ Moved({w}, {<<s, x>>}, <<e>>)
    <2>1. e \in Message /\ e.type = "WAVE" /\ e.id = i
      BY <1>1, <1>3
    <2>2. <<e>> \in Seq(Message)
      BY <2>1
    <2> QED BY <1>1, <1>7, <2>1, <2>2, ServerMoves
  \* The agent may stop only when it is told to, on the wire it hears of it.
  <1>8. ASSUME NEW k \in DOMAIN chan[<<Region[node[a]], node[a]>>],
               Accepts(a, chan[<<Region[node[a]], node[a]>>][k])
        PROVE  status[a] = "OFFLINE" /\ NoGuest(a)
    <2>1. Stage(a, "REQ_ACCEPT", <<Region[node[a]], node[a]>>)
      BY <1>4, <1>6, <1>8 DEF Staged, Token, Accepts, ProtocolTypes
    <2>2. <<Region[node[a]], node[a]>> # <<Home(a), Region[node[a]]>>
      BY <1>6
    <2> QED BY <2>1, <2>2 DEF Stage
  <1>9. Moved({w}, {}, <<>>) \/ ~Drop(w)
    BY <1>1, ServerMoves
  <1>10. CASE AtHome(s, a) /\ status[a] = "HOME" /\ Pass(w, <<s, conn[a]>>, <<m>>) /\ saved' = saved
    <2>1. conn[a] = node[a] /\ phase[a] \in {"running", "leaving"} /\ ~Away(a)
      BY <1>1, <1>4, <1>10, Whereabouts
    <2>2. <<s, conn[a]>> = <<Region[node[a]], node[a]>>
      BY <1>10, <2>1 DEF AtHome, Away
    <2>3. Passes(w, i, a, <<Region[node[a]], node[a]>>, m)
      BY <1>6, <1>7, <1>8, <1>10, <2>1, <2>2 DEF Passes
    <2> QED BY <1>1, <1>2, <2>3 DEF Handled
  <1>11. CASE AtHome(s, a) /\ status[a] = "OFFLINE" /\ saved' = [saved EXCEPT ![a] = Append(@, m)] /\ Drop(w)
    BY <1>1, <1>2, <1>9, <1>11 DEF Handled, AtHome
  <1>12. CASE AtHome(s, a) /\ status[a] = "REMOTE" /\ Pass(w, <<s, last[a]>>, <<fw>>) /\ saved' = saved
    <2>1. last[a] = Region[node[a]] /\ Away(a)
      BY <1>1, <1>4, <1>12, Whereabouts
    <2>2. <<s, last[a]>> = <<Home(a), Region[node[a]]>> /\ w[2] = Home(a)
      BY <1>1, <1>12, <2>1 DEF AtHome
    <2>3. Passes(w, i, a, <<Home(a), Region[node[a]]>>, fw)
      BY <1>6, <1>7, <1>12, <2>1, <2>2 DEF Passes, Away
    <2> QED BY <1>1, <1>2, <2>3 DEF Handled
  <1>13. CASE guests[s][a] # NoNode /\ Pass(w, <<s, guests[s][a]>>, <<m>>) /\ saved' = saved
    <2>1. s # Home(a) /\ s = Region[node[a]] /\ guests[s][a] = node[a] /\ phase[a] \in {"running", "leaving"}
      BY <1>1, <1>4, <1>13, Whereabouts
    <2>2. ~NoGuest(a)
      BY <1>13 DEF NoGuest
    <2>3. <<s, guests[s][a]>> = <<Region[node[a]], node[a]>>
      BY <2>1
    <2>4. Passes(w, i, a, <<Region[node[a]], node[a]>>, m)
      BY <1>1, <1>6, <1>7, <1>8, <1>13, <2>1, <2>2, <2>3 DEF Passes
    <2> QED BY <1>1, <1>2, <2>4 DEF Handled
  <1>14. CASE guests[s][a] = NoNode /\ Home(a) # s /\ Pass(w, <<s, Home(a)>>, <<fw>>) /\ saved' = saved
    <2>1. ~Near(waves[i])
      <3> SUFFICES ASSUME Near(waves[i]) PROVE FALSE
        OBVIOUS
      <3>1. CASE w[1] \in Nodes
        <4>1. w[1] = Origin[waves[i].from]
          BY <1>1, <1>4, <3>1 DEF Straight
        <4>2. Region[w[1]] = s
          BY <1>1, <3>1, WireEnds
        <4> QED BY <1>14, <4>1, <4>2 DEF Near
      <3>2. CASE w[1] \in Servers
        <4>1. Flow(a, w, m.hops)
          BY <1>1, <1>4 DEF Hops
        <4>2. Outward(a, w)
          BY <1>1, <1>14, <3>2, <4>1 DEF Flow
        <4>3. s = Region[node[a]] /\ guests[s][a] = node[a] /\ node[a] # NoNode
          BY <1>1, <1>4, <4>2, GuestOrNone DEF Outward
        <4> QED BY <1>14, <4>3
      <3> QED BY <3>1, <3>2, WireEnds
    <2>2. Passes(w, i, a, <<s, Home(a)>>, fw)
      BY <1>1, <1>6, <1>7, <1>14, <2>1 DEF Passes
    <2> QED BY <1>1, <1>2, <2>2 DEF Handled
  <1>15. CASE ~AtHome(s, a) /\ Home(a) = s /\ Drop(w) /\ saved' = saved
    BY <1>1, <1>2, <1>9, <1>15 DEF Handled, AtHome
  <1> QED BY <1>5, <1>10, <1>11, <1>12, <1>13, <1>14, <1>15

LEMMA WayContent ==
  ASSUME TypeInv, EachWay, NEW b \in Agents, NEW w \in Wires, NEW i, NEW a, Handled(w, i, a)
  PROVE  WayInv(b)'
  <1>0. TypeOK /\ Kinds /\ Stays(b) /\ Queued(b) /\ Finds(b) /\ Straight(b)
    BY DEF TypeInv, EachWay, WayInv
  <1>1. /\ phase' = phase /\ node' = node /\ inQueue' = inQueue /\ got' = got /\ waves' = waves /\ status' = status
        /\ a \in Agents /\ a = waves[i].to /\ w[2] \in Servers
    BY DEF Handled
  <1>2. \A u \in Wires : \A k \in DOMAIN chan[u] :
            u[2] \in Nodes /\ chan[u][k].type = "WAVE" /\ waves[chan[u][k].id].to = b
            => u[2] = node'[b] /\ phase'[b] \in {"running", "leaving"}
    BY <1>0, <1>1 DEF Finds
  <1>3. Stays(b)'
    BY <1>0, <1>1 DEF Stays
  <1>4. CASE \E v, e : Passes(w, i, a, v, e)
    <2>1. PICK v, e : Passes(w, i, a, v, e)
      BY <1>4
    <2>2. /\ v \in Wires /\ e \in Message /\ e.type = "WAVE" /\ e.id = i /\ Moved({w}, {v}, <<e>>)
          /\ saved' = saved
      BY <2>1 DEF Passes
    <2>3. /\ v[1] \notin Nodes
          /\ v[2] \in Nodes => /\ v[2] = node[a] /\ phase[a] \in {"running", "leaving"}
                               /\ \A k \in DOMAIN chan[v] : ~Accepts(a, chan[v][k])
          /\ v[2] \in Servers /\ Near(waves[i]) => v[2] # Home(a)
      <3>1. /\ node[a] \in Nodes /\ node[a] \notin Servers /\ Home(a) \in Servers /\ Region[node[a]] \in Servers
            /\ \A x \in Servers : x \notin Nodes
        BY <1>0, <1>1, GuestOrNone, RegionAssumption
      <3>2. CASE v = <<Region[node[a]], node[a]>> /\ phase[a] \in {"running", "leaving"}
                 /\ \A k \in DOMAIN chan[v] : ~Accepts(a, chan[v][k])
        BY <3>1, <3>2
      <3>3. CASE v = <<Home(a), Region[node[a]]>> /\ Away(a)
        BY <3>1, <3>3 DEF Away
      <3>4. CASE v = <<w[2], Home(a)>> /\ ~Near(waves[i])
        BY <1>1, <3>1, <3>4
      <3> QED BY <2>1, <3>2, <3>3, <3>4 DEF Passes
    <2> DEFINE out == {w}
               in == {v}
               ms == <<e>>
    <2>4. ms \in Seq(Message) /\ Moved(out, in, ms) /\ (\A x \in in : x = v) /\ \A j \in DOMAIN ms : ms[j] = e
      BY <2>2
    <2>5. \A j \in 1 .. Len(waves) : waves'[j] = waves[j]
      BY <1>1
    <2> HIDE DEF out, in, ms
    <2>6. \A j \in DOMAIN ms : ~Accepts(b, ms[j])
      BY <2>2, <2>4 DEF Accepts
    <2>7. \A x \in Wires \cap in, j \in DOMAIN ms :
            ms[j].type = "WAVE" /\ waves'[ms[j].id].to = b =>
               /\ x[2] \in Nodes => /\ x[2] = node'[b] /\ phase'[b] \in {"running", "leaving"}
                                    /\ \A k \in DOMAIN chan[x] : ~Accepts(b, chan[x][k])
                                    /\ \A l \in DOMAIN ms : ~Accepts(b, ms[l])
               /\ Near(waves'[ms[j].id]) =>
                     /\ x[1] \in Nodes => x[1] = Origin[waves'[ms[j].id].from]
                     /\ x[1] \in Servers /\ x[2] \in Servers => x[2] # Home(b)
      <3> SUFFICES ASSUME NEW j \in DOMAIN ms, waves'[ms[j].id].to = b
                   PROVE  /\ v[2] \in Nodes => /\ v[2] = node'[b] /\ phase'[b] \in {"running", "leaving"}
                                               /\ \A k \in DOMAIN chan[v] : ~Accepts(b, chan[v][k])
                                               /\ \A l \in DOMAIN ms : ~Accepts(b, ms[l])
                          /\ Near(waves'[ms[j].id]) =>
                                /\ v[1] \in Nodes => v[1] = Origin[waves'[ms[j].id].from]
                                /\ v[1] \in Servers /\ v[2] \in Servers => v[2] # Home(b)
        BY <2>4
      <3>1. b = a /\ waves'[ms[j].id] = waves[i]
        BY <1>1, <2>2, <2>4
      <3> QED BY <1>1, <2>3, <2>6, <3>1
    <2>8. Finds(b)' /\ Straight(b)'
      BY <1>0, <1>2, <2>4, <2>5, <2>7, WayMoved
    <2>9. Queued(b)'
      BY <1>0, <1>1, <2>2 DEF Queued
    <2> QED BY <1>3, <2>8, <2>9 DEF WayInv
  <1>5. CASE Moved({w}, {}, <<>>)
    <2> DEFINE out == {w}
    <2>1. Moved(out, {}, <<>>) /\ "CONNECT" \in ProtocolTypes
      BY <1>5 DEF ProtocolTypes
    <2> HIDE DEF out
    <2>2. Finds(b)' /\ Straight(b)'
      BY <1>0, <1>1, <1>2, <2>1, WayQuiet
    <2>3. saved'[b] # <<>> => status'[b] = "OFFLINE"
      <3>1. CASE saved' = saved
        BY <1>0, <1>1, <3>1 DEF Queued
      <3>2. CASE saved' = [saved EXCEPT ![a] = Append(@, chan[w][1])] /\ status[a] = "OFFLINE"
        <4>1. b # a => saved'[b] = saved[b]
          <5>1. b \in DOMAIN saved
            BY <1>0 DEF TypeOK
          <5> QED BY <3>2, <5>1
        <4> QED BY <1>0, <1>1, <3>2, <4>1 DEF Queued
      <3>3. CASE \E v, e : Passes(w, i, a, v, e)
        BY <1>0, <1>1, <3>3 DEF Queued, Passes
      <3> QED BY <3>1, <3>2, <3>3 DEF Handled
    <2>4. Queued(b)'
      BY <1>0, <1>1, <2>3 DEF Queued
    <2> QED BY <1>3, <2>2, <2>4 DEF WayInv
  <1> QED BY <1>4, <1>5 DEF Handled

LEMMA EachWayInit == Init => EachWay
  <1> SUFFICES ASSUME Init, NEW b \in Agents PROVE WayInv(b)
    BY DEF EachWay
  <1>1. /\ \A w \in Wires : DOMAIN chan[w] = {}
        /\ inQueue[b] = <<>> /\ got[b] = <<>> /\ saved[b] = <<>>
    BY DEF Init
  <1>2. Stays(b)
    BY DEF Init, Stays
  <1>3. DOMAIN inQueue[b] = {} /\ DOMAIN got[b] = {}
    BY <1>1
  <1> QED BY <1>1, <1>2, <1>3 DEF WayInv, Queued, Finds, Straight

LEMMA EachWayNext ==
  ASSUME ~Impatient, TypeInv, EachAgent, EachWave, EachWay, [Next]_vars
  PROVE  EachWay'
  <1> SUFFICES ASSUME NEW b \in Agents PROVE WayInv(b)'
    BY DEF EachWay
  <1>1. CASE UNCHANGED vars
    <2>1. WayInv(b)
      BY DEF EachWay
    <2>2. /\ phase' = phase /\ node' = node /\ inQueue' = inQueue /\ got' = got /\ waves' = waves
          /\ status' = status /\ saved' = saved /\ chan' = chan
      BY <1>1 DEF vars, shardVars, homeVars
    <2>3. \A r : Near(r)' <=> Near(r)
      BY DEF Near, Home
    <2> QED BY <2>1, <2>2, <2>3 DEF WayInv, Stays, Queued, Finds, Straight, Accepts, Near, Home
  <1>2. ASSUME NEW a \in Agents, Start(a) \/ Depart(a) \/ Arrive(a) PROVE WayInv(b)'
    BY <1>2, WayAgents
  <1>3. ASSUME NEW a \in Agents, NEW c \in Agents, SendWave(c, a) PROVE WayInv(b)'
    BY <1>3, WaySends
  <1>4. ASSUME NEW a \in Movers, NEW n \in Nodes, Move(a, n) PROVE WayInv(b)'
    BY <1>4, WayAgents, OriginAssumption
  <1>5. ASSUME NEW s \in Servers, NEW w \in Wires, Serve(s, w) PROVE WayInv(b)'
    <2>1. CASE ConnectHome(s, w) \/ AgentUpdate(s, w)
      <3>1. \E v, ms : Drains(w, Head(chan[w]).agent, v, ms)
        BY <2>1, SavedSteps
      <3> QED BY <3>1, WaySaved
    <2>2. CASE Content(s, w)
      <3>1. Handled(w, Head(chan[w]).id, waves[Head(chan[w]).id].to)
        BY <2>2, ContentSteps
      <3> QED BY <3>1, WayContent
    <2> QED BY <1>5, <2>1, <2>2, WayProtocol DEF Serve
  <1>6. ASSUME NEW n \in Nodes, Receive(n) PROVE WayInv(b)'
    BY <1>6, WayReceives
  <1> QED BY <1>1, <1>2, <1>3, <1>4, <1>5, <1>6 DEF Next

-----------------------------------------------------------------------------
(* Every wave is in one line, and the near ones are in order.              *)

LEMMA RankIs ==
  /\ \A u : Rank(<<0, u>>) = IF u[1] \in Nodes THEN 6 ELSE IF u[2] \in Nodes THEN 3 ELSE 4
  /\ \A a : Rank(<<1, a>>) = 5 /\ Rank(<<2, a>>) = 2 /\ Rank(<<3, a>>) = 1
  BY DEF Rank

LEMMA LinesAre ==
  ASSUME TypeInv
  PROVE  Lined(Line, chan, saved, inQueue, got)
  <1>1. /\ chan \in [Wires -> Seq(Message)] /\ saved \in [Agents -> Seq(Message)]
        /\ inQueue \in [Agents -> Seq(Ids)] /\ got \in [Agents -> Seq(Ids)]
    BY DEF TypeInv, TypeOK
  <1> QED BY <1>1, LineIs DEF Line

\* The message at place k of a line of messages.
OnWire(x, k, i, u) ==
    u \in Wires /\ x = <<0, u>> /\ k \in DOMAIN chan[u] /\ chan[u][k].type = "WAVE" /\ chan[u][k].id = i
InSaved(x, k, i, a) ==
    a \in Agents /\ x = <<1, a>> /\ k \in DOMAIN saved[a] /\ saved[a][k].type = "WAVE" /\ saved[a][k].id = i
InShards(x, k, i, a) ==
    /\ a \in Agents
    /\ \/ x = <<2, a>> /\ k \in DOMAIN inQueue[a] /\ inQueue[a][k] = i
       \/ x = <<3, a>> /\ k \in DOMAIN got[a] /\ got[a][k] = i

LEMMA Stands ==
  ASSUME TypeInv, NEW x \in Lines, NEW k \in DOMAIN Line[x], NEW i, i = Line[x][k], i # 0
  PROVE  \/ \E u : OnWire(x, k, i, u)
         \/ \E a : InSaved(x, k, i, a)
         \/ \E a : InShards(x, k, i, a)
  <1>1. Lined(Line, chan, saved, inQueue, got)
    BY LinesAre
  <1>2. ASSUME NEW u \in Wires, x = <<0, u>> PROVE OnWire(x, k, i, u)
    <2>1. Line[x] = Nums(chan[u]) /\ chan[u] \in Seq(Message)
      BY <1>1, <1>2 DEF Lined, TypeInv, TypeOK
    <2>2. k \in DOMAIN chan[u] /\ i = Num(chan[u][k])
      BY <2>1, NumsOf
    <2> QED BY <1>2, <2>2 DEF OnWire, Num
  <1>3. ASSUME NEW a \in Agents, x = <<1, a>> PROVE InSaved(x, k, i, a)
    <2>1. Line[x] = Nums(saved[a]) /\ saved[a] \in Seq(Message)
      BY <1>1, <1>3 DEF Lined, TypeInv, TypeOK
    <2>2. k \in DOMAIN saved[a] /\ i = Num(saved[a][k])
      BY <2>1, NumsOf
    <2> QED BY <1>3, <2>2 DEF InSaved, Num
  <1>4. ASSUME NEW a \in Agents, x = <<2, a>> \/ x = <<3, a>> PROVE InShards(x, k, i, a)
    BY <1>1, <1>4 DEF Lined, InShards
  <1>5. \/ \E u \in Wires : x = <<0, u>>
        \/ \E a \in Agents : x = <<1, a>> \/ x = <<2, a>> \/ x = <<3, a>>
    BY <1>1 DEF Lined
  <1> QED BY <1>2, <1>3, <1>4, <1>5

\* The numbers are those of waves that were sent.
LEMMA NumbersAreOld ==
  ASSUME TypeInv, EachWay, NEW x \in Lines, NEW k \in DOMAIN Line[x], Line[x][k] # 0
  PROVE  Line[x][k] \in Nat /\ Line[x][k] > 0 /\ Line[x][k] <= Len(waves) /\ Line[x][k] \in DOMAIN waves
  <1>0. PICK i : i = Line[x][k]
    OBVIOUS
  <1>1. DOMAIN waves = 1 .. Len(waves) /\ Len(waves) \in Nat
    BY DEF TypeInv, TypeOK
  <1>2. ASSUME NEW u, OnWire(x, k, i, u) PROVE i \in Nat /\ i > 0 /\ i <= Len(waves)
    <2>1. chan[u][k] \in Message /\ chan[u][k].type = "WAVE" /\ chan[u][k].id = i /\ Kind(chan[u][k], u, Len(waves))
      BY <1>2 DEF OnWire, TypeInv, TypeOK, Kinds
    <2> QED BY <2>1, MessageForms DEF Kind, Ids
  <1>3. ASSUME NEW a, InSaved(x, k, i, a) PROVE i \in Nat /\ i > 0 /\ i <= Len(waves)
    <2>1. saved[a][k] \in Message /\ saved[a][k].type = "WAVE" /\ saved[a][k].id = i /\ i <= Len(waves)
      BY <1>3 DEF InSaved, TypeInv, TypeOK, SavedWaves
    <2> QED BY <2>1, MessageForms DEF Ids
  <1>4. ASSUME NEW a, InShards(x, k, i, a) PROVE i \in DOMAIN waves
    BY <1>4 DEF InShards, EachWay, WayInv, Queued
  <1>5. i \in Nat /\ i > 0 /\ i <= Len(waves)
    BY <1>0, <1>1, <1>2, <1>3, <1>4, Stands
  <1> QED BY <1>0, <1>1, <1>5

\* Where a near wave for agent a from agent b is, and how far it has come.
NearPlace(x, b, a) ==
    \/ x = <<0, <<Origin[b], Home(a)>>>> /\ Rank(x) = 6
    \/ x = <<1, a>> /\ Rank(x) = 5 /\ status[a] = "OFFLINE"
    \/ x = <<0, <<Home(a), Region[node[a]]>>>> /\ Rank(x) = 4 /\ Away(a)
    \/ x = <<0, <<Region[node[a]], node[a]>>>> /\ Rank(x) = 3 /\ phase[a] \in {"running", "leaving"}
    \/ x = <<2, a>> /\ Rank(x) = 2 /\ phase[a] \notin {"new", "running"}
    \/ x = <<3, a>> /\ Rank(x) = 1

LEMMA NearPlaces ==
  ASSUME TypeInv, EachWave, EachWay, NEW x \in Lines, NEW k \in DOMAIN Line[x],
         NEW i, i = Line[x][k], i \in DOMAIN waves, Near(waves[i]),
         NEW a, a = waves[i].to, NEW b, b = waves[i].from
  PROVE  NearPlace(x, b, a)
  <1>0. i # 0 /\ a \in Agents
    <2> DEFINE W == [from : Agents, to : Agents, known : BOOLEAN]
    <2>1. waves \in Seq(W)
      BY DEF TypeInv, TypeOK
    <2> HIDE DEF W
    <2>2. waves[i] \in W /\ i # 0
      BY <2>1
    <2> QED BY <2>2 DEF W
  <1>1. /\ Queued(a) /\ Finds(a) /\ Straight(a) /\ Hops(a)
        /\ node[a] \in Nodes /\ node[a] \notin Servers /\ Home(a) \in Servers /\ Region[node[a]] \in Servers
    BY <1>0, GuestOrNone DEF EachWay, WayInv, EachWave, WavesInv, TypeInv
  <1>2. ASSUME NEW u, OnWire(x, k, i, u) PROVE NearPlace(x, b, a)
    <2>1. /\ u \in Wires /\ x = <<0, u>> /\ k \in DOMAIN chan[u] /\ chan[u][k].type = "WAVE" /\ chan[u][k].id = i
      BY <1>2 DEF OnWire
    <2>2. Rank(x) = IF u[1] \in Nodes THEN 6 ELSE IF u[2] \in Nodes THEN 3 ELSE 4
      BY <2>1, RankIs
    <2>3. /\ u = <<u[1], u[2]>>
          /\ u[1] \in Nodes => u[2] = Region[u[1]]
          /\ u[2] \in Nodes => u[1] = Region[u[2]] /\ u[1] \notin Nodes
          /\ u[1] \in Nodes \cup Servers /\ u[2] \in Nodes \cup Servers
      BY <2>1, WireEnds, RegionAssumption
    <2>4. CASE u[1] \in Nodes
      <3>1. u[1] = Origin[b] /\ Region[Origin[b]] = Home(a)
        BY <1>1, <2>1, <2>4 DEF Straight, Near
      <3>2. u = <<Origin[b], Home(a)>>
        BY <2>3, <2>4, <3>1
      <3> QED BY <2>1, <2>2, <2>4, <3>2 DEF NearPlace
    <2>5. CASE u[2] \in Nodes
      <3>1. u[2] = node[a] /\ phase[a] \in {"running", "leaving"}
        BY <1>1, <2>1, <2>5 DEF Finds
      <3>2. u = <<Region[node[a]], node[a]>>
        BY <2>3, <2>5, <3>1
      <3> QED BY <2>1, <2>2, <2>3, <2>5, <3>1, <3>2 DEF NearPlace
    <2>6. CASE u[1] \in Servers /\ u[2] \in Servers
      <3>1. u[2] # Home(a)
        BY <1>1, <2>1, <2>6 DEF Straight
      <3>2. Flow(a, u, chan[u][k].hops)
        BY <1>1, <2>1 DEF Hops
      <3>3. Outward(a, u)
        BY <2>6, <3>1, <3>2 DEF Flow
      <3>4. u = <<Home(a), Region[node[a]]>> /\ Away(a)
        BY <2>3, <3>3 DEF Outward
      <3>5. u[1] \notin Nodes /\ u[2] \notin Nodes
        BY <2>6, RegionAssumption
      <3> QED BY <2>1, <2>2, <3>4, <3>5 DEF NearPlace
    <2> QED BY <2>3, <2>4, <2>5, <2>6
  <1>3. ASSUME NEW c, InSaved(x, k, i, c) PROVE NearPlace(x, b, a)
    <2>1. c \in Agents /\ x = <<1, c>> /\ k \in DOMAIN saved[c] /\ saved[c][k].id = i
      BY <1>3 DEF InSaved
    <2>2. c = a
      BY <2>1 DEF EachWave, WavesInv, SavedHops
    <2>3. saved[a] # <<>>
      <3>1. DOMAIN <<>> = {}
        OBVIOUS
      <3> QED BY <2>1, <2>2, <3>1
    <2>4. status[a] = "OFFLINE"
      BY <1>1, <2>3 DEF Queued
    <2> QED BY <2>1, <2>2, <2>4, RankIs DEF NearPlace
  <1>4. ASSUME NEW c, InShards(x, k, i, c) PROVE NearPlace(x, b, a)
    <2>0. DOMAIN <<>> = {}
      OBVIOUS
    <2>1. CASE x = <<2, c>> /\ k \in DOMAIN inQueue[c] /\ inQueue[c][k] = i
      <3>1. c = a
        BY <1>4, <2>1 DEF InShards, EachWay, WayInv, Queued
      <3>2. phase[a] \notin {"new", "running"}
        BY <1>1, <2>0, <2>1, <3>1 DEF Queued
      <3> QED BY <2>1, <3>1, <3>2, RankIs DEF NearPlace
    <2>2. CASE x = <<3, c>> /\ k \in DOMAIN got[c] /\ got[c][k] = i
      <3>1. c = a
        BY <1>4, <2>2 DEF InShards, EachWay, WayInv, Queued
      <3> QED BY <2>2, <3>1, RankIs DEF NearPlace
    <2> QED BY <1>4, <2>1, <2>2 DEF InShards
  <1> QED BY <1>0, <1>2, <1>3, <1>4, Stands

\* A step takes e from line src to line dst: nothing is lost but waves for an agent that was
\* not registered, and what is taken goes on and overtakes nothing it is in order with.
SentOnly == \A x \in Lines : \A k \in DOMAIN Line[x] :
    Line[x][k] # 0 => Line[x][k] \in Nat /\ Line[x][k] <= Len(waves) /\ Line[x][k] \in DOMAIN waves

Carries(M, sh, src, dst, e) ==
    /\ Goes(Line, M, sh, src, dst, e)
    /\ dst \in Lines \/ e = <<>>
    /\ \A x \in Lines : \A k \in DOMAIN Line[x] : Line[x][k] # 0 =>
          k > sh[x] \/ (k \in DOMAIN e /\ e[k] = Line[x][k]) \/ ~waves[Line[x][k]].known
    /\ \A k \in DOMAIN e : (\E j : Pair(e[k], j)) => Rank(dst) < Rank(src)
    /\ \A k \in DOMAIN e : \A x \in Lines : \A l \in DOMAIN Line[x] :
          Pair(Line[x][l], e[k]) /\ Rank(x) < Rank(src) => Rank(x) < Rank(dst) \/ x = dst

LineInv == OnceIn(Line) /\ KeptIn(Line) /\ OrderIn(Line)

\* What holds of the lines after the step holds in the state after the step.
LEMMA LinesThen ==
  ASSUME NEW M, M = Line', OnceIn(M), UNCHANGED waves, OrderIn(M),
         \A i \in DOMAIN waves : waves[i].known =>
            /\ status'[waves[i].to] # "none"
            /\ \E x \in Lines : \E k \in DOMAIN M[x] : M[x][k] = i
  PROVE  LineInv'
  <1>1. Lines' = Lines
    BY DEF Lines, Wires
  <1>2. OnceIn(Line)'
    BY <1>1 DEF OnceIn
  <1>3. KeptIn(Line)'
    BY <1>1 DEF KeptIn
  <1>4. \A i, j : Pair(i, j)' <=> Pair(i, j)
    BY DEF Pair, Near, Home
  <1>5. \A x : Rank(x)' = Rank(x)
    BY DEF Rank
  <1>6. OrderIn(Line)'
    BY <1>1, <1>4, <1>5 DEF OrderIn
  <1> QED BY <1>2, <1>3, <1>6 DEF LineInv

LEMMA CarriesOn ==
  ASSUME TypeInv, LineInv, NEW M, M = Line', UNCHANGED waves,
         \A a \in Agents : status[a] # "none" => status'[a] # "none",
         NEW sh, NEW src, NEW dst, NEW e, Carries(M, sh, src, dst, e)
  PROVE  LineInv'
  <1>0. TypeOK /\ OnceIn(Line) /\ KeptIn(Line) /\ OrderIn(Line)
    BY DEF TypeInv, LineInv
  <1>1. Goes(Line, M, sh, src, dst, e)
    BY DEF Carries
  <1>2. OnceIn(M)
    BY <1>0, <1>1, OnceStays
  <1>3. OrderIn(M)
    <2>1. /\ \A k \in DOMAIN e : (\E j : Pair(e[k], j)) => Rank(dst) < Rank(src)
          /\ \A k \in DOMAIN e : \A x \in Lines : \A l \in DOMAIN Line[x] :
                Pair(Line[x][l], e[k]) /\ Rank(x) < Rank(src) => Rank(x) < Rank(dst) \/ x = dst
      BY DEF Carries
    <2>2. PICK L : L = Line
      OBVIOUS
    <2> QED BY <1>0, <1>1, <2>1, <2>2, OrderStays
  <1>4. ASSUME NEW i \in DOMAIN waves, waves[i].known
        PROVE  /\ status'[waves[i].to] # "none"
               /\ \E x \in Lines : \E k \in DOMAIN M[x] : M[x][k] = i
    <2>1. waves[i].to \in Agents /\ i # 0
      <3> DEFINE W == [from : Agents, to : Agents, known : BOOLEAN]
      <3>1. waves \in Seq(W)
        BY <1>0 DEF TypeOK
      <3> HIDE DEF W
      <3>2. waves[i] \in W /\ i # 0
        BY <3>1
      <3> QED BY <3>2 DEF W
    <2>2. status[waves[i].to] # "none" /\ \E x \in Lines : \E k \in DOMAIN Line[x] : Line[x][k] = i
      BY <1>0, <1>4 DEF KeptIn
    <2>3. PICK x \in Lines : \E k \in DOMAIN Line[x] : Line[x][k] = i
      BY <2>2
    <2>4. PICK k \in DOMAIN Line[x] : Line[x][k] = i
      BY <2>3
    <2>5. k > sh[x] \/ (k \in DOMAIN e /\ e[k] = Line[x][k])
      BY <1>4, <2>1, <2>4 DEF Carries
    <2>6. Shifts(Line, M, sh, dst, e) /\ (dst \in Lines \/ e = <<>>)
      BY <1>1 DEF Goes, Carries
    <2>7. PICK L : L = Line
      OBVIOUS
    <2>8. \E y \in Lines : \E l \in DOMAIN M[y] : M[y][l] = L[x][k]
      BY <2>1, <2>4, <2>5, <2>6, <2>7, StandsStill
    <2> QED BY <2>1, <2>2, <2>4, <2>7, <2>8
  <1> QED BY <1>2, <1>3, <1>4, LinesThen

Nowhere == <<4, 4>>   \* no line

\* What the status of an agent may not do.
StaysKnown == \A a \in Agents : status[a] # "none" => status'[a] # "none"

\* The heads of the wires in out that have a number.
LEMMA HeadNumbers ==
  ASSUME TypeInv, NEW out, NEW x \in Lines, NEW k \in DOMAIN Line[x], Line[x][k] # 0,
         ~(k > Shed(out, Nowhere)[x])
  PROVE  \E u \in Wires \cap out : x = <<0, u>> /\ k = 1 /\ 1 \in DOMAIN chan[u] /\ chan[u][1].type = "WAVE"
                                   /\ Line[x][k] = chan[u][1].id
  <1>1. Lined(Line, chan, saved, inQueue, got) /\ Line \in [Lines -> Seq(Nat)]
    BY LinesAre DEF Lined
  <1>2. k \in Nat /\ k > 0
    BY <1>1
  <1>3. x # Nowhere
    BY DEF Lines, Nowhere
  <1>4. x[1] = 0
    <2>1. x[1] # 0 => Shed(out, Nowhere)[x] = 0
      BY <1>3, ShedIs
    <2> QED BY <1>2, <2>1
  <1>5. PICK u \in Wires : x = <<0, u>>
    BY <1>1, <1>4 DEF Lined
  <1>6. Shed(out, Nowhere)[x] = Shift(out, u)
    BY <1>3, <1>5, ShedIs
  <1>7. u \in out /\ k = 1
    BY <1>2, <1>6 DEF Shift
  <1>8. PICK i : i = Line[x][k]
    OBVIOUS
  <1>9. \E v : OnWire(x, k, i, v)
    BY <1>4, <1>8, Stands DEF InSaved, InShards
  <1> QED BY <1>5, <1>7, <1>8, <1>9 DEF OnWire

\* No number moves.
LEMMA LinesRest ==
  ASSUME TypeInv, TypeInv', LineInv, NEW out, NEW in, NEW ms \in Seq(Message), Moved(out, in, ms),
         \A k \in DOMAIN ms : Num(ms[k]) = 0, UNCHANGED <<saved, inQueue, got, waves>>, StaysKnown,
         \A u \in Wires \cap out : chan[u][1].type # "WAVE" \/ ~waves[chan[u][1].id].known
  PROVE  LineInv'
  <1> DEFINE e == <<>>
  <1>1. PICK M : M = Line'
    OBVIOUS
  <1>2. e \in Seq(Nat) /\ DOMAIN e = {} /\ \A u : <<0, u>> # Nowhere
    BY DEF Nowhere
  <1>3. \A x \in Lines : x[1] # 0 => x # Nowhere /\ M[x] = Line[x]
    <2>1. Lined(Line, chan, saved, inQueue, got)
      BY LinesAre
    <2>2. Lined(M, chan', saved', inQueue', got')
      <3>1. /\ chan' \in [Wires -> Seq(Message)] /\ saved' \in [Agents -> Seq(Message)]
            /\ inQueue' \in [Agents -> Seq(Ids)] /\ got' \in [Agents -> Seq(Ids)]
        BY DEF TypeInv, TypeOK
      <3> QED BY <1>1, <3>1, LineIs DEF Line
    <2>3. \A x \in Lines : x # Nowhere
      BY DEF Lines, Nowhere
    <2>4. ASSUME NEW x \in Lines, x[1] # 0 PROVE M[x] = Line[x]
      <3>1. PICK a \in Agents : x \in {<<1, a>>, <<2, a>>, <<3, a>>}
        BY <2>1, <2>4 DEF Lined
      <3>2. CASE x = <<1, a>>
        BY ZenonT(60), <2>1, <2>2, <3>2 DEF Lined
      <3>3. CASE x = <<2, a>>
        BY ZenonT(60), <2>1, <2>2, <3>3 DEF Lined
      <3>4. CASE x = <<3, a>>
        BY <2>1, <2>2, <3>4 DEF Lined
      <3> QED BY <3>1, <3>2, <3>3, <3>4
    <2> QED BY <2>3, <2>4
  <1> DEFINE sh == Shed(out, Nowhere)
  <1> HIDE DEF e
  <1>4. /\ M \in [Lines -> Seq(Nat)] /\ Line \in [Lines -> Seq(Nat)]
        /\ Shifts(Line, M, sh, Nowhere, e)
    <2>1. WiresGet(in, ms, Nowhere, e)
      BY <1>2 DEF WiresGet
    <2>2. AgentLines(M, Nowhere, Nowhere, e)
      BY <1>3 DEF AgentLines
    <2>3. \A u \in Wires : <<0, u>> # Nowhere
      BY <1>2
    <2>4. e \in Seq(Nat)
      BY <1>2
    <2> QED BY <1>1, <2>1, <2>2, <2>3, <2>4, StepShifts
  <1>5. Goes(Line, M, sh, Nowhere, Nowhere, e)
    BY <1>2, <1>4 DEF Goes, Takes
  <1>6. ASSUME NEW x \in Lines, NEW k \in DOMAIN Line[x], Line[x][k] # 0
        PROVE  k > sh[x] \/ ~waves[Line[x][k]].known
    BY <1>6, HeadNumbers
  <1>7. e = <<>>
    BY DEF e
  <1> HIDE DEF sh
  <1>8. Carries(M, sh, Nowhere, Nowhere, e)
    BY <1>2, <1>5, <1>6, <1>7 DEF Carries
  <1> QED BY <1>1, <1>8, CarriesOn DEF StaysKnown

\* The wave at the head of wire w goes to line dst.
LEMMA HeadGoes ==
  ASSUME TypeInv, TypeInv', LineInv, UNCHANGED waves, StaysKnown,
         NEW w \in Wires, 1 \in DOMAIN chan[w], chan[w][1].type = "WAVE", NEW i \in Ids, chan[w][1].id = i,
         NEW in, NEW ms \in Seq(Message), Moved({w}, in, ms), NEW dst \in Lines, NEW M, M = Line',
         WiresGet(in, ms, dst, <<i>>), AgentLines(M, Nowhere, dst, <<i>>),
         (\E j : Pair(i, j)) => Rank(dst) < Rank(<<0, w>>),
         \A x \in Lines : \A l \in DOMAIN Line[x] :
            Pair(Line[x][l], i) /\ Rank(x) < Rank(<<0, w>>) => Rank(x) < Rank(dst) \/ x = dst
  PROVE  LineInv'
  <1> DEFINE e == <<i>>
             out == {w}
             sh == Shed(out, Nowhere)
  <1>1. /\ e \in Seq(Nat) /\ DOMAIN e = {1} /\ e[1] = i /\ i # 0 /\ (\A u : <<0, u>> # Nowhere)
        /\ e = <<i>> /\ Moved(out, in, ms)
    BY DEF Nowhere, Ids
  <1>2. \A x \in Lines : x # Nowhere
    BY DEF Lines, Nowhere
  <1>3. w \in out /\ \A u \in out : u = w
    OBVIOUS
  <1> HIDE DEF e, out
  <1>4. /\ M \in [Lines -> Seq(Nat)] /\ Line \in [Lines -> Seq(Nat)]
        /\ Shifts(Line, M, sh, dst, e)
    <2>3. \A u \in Wires : <<0, u>> # Nowhere
      BY <1>1
    <2>4. e \in Seq(Nat) /\ Moved(out, in, ms) /\ WiresGet(in, ms, dst, e) /\ AgentLines(M, Nowhere, dst, e)
      BY <1>1
    <2> QED BY <2>3, <2>4, StepShifts
  <1>5. <<0, w>> \in Lines /\ 1 \in DOMAIN Line[<<0, w>>] /\ Line[<<0, w>>][1] = i /\ sh[<<0, w>>] = 1
    <2>1. <<0, w>> \in Lines /\ Line[<<0, w>>] = Nums(chan[w])
      BY LinesAre DEF Lined
    <2>2. chan[w] \in Seq(Message)
      BY DEF TypeInv, TypeOK
    <2>3. 1 \in DOMAIN Nums(chan[w]) /\ Nums(chan[w])[1] = Num(chan[w][1])
      BY <2>2, NumsOf
    <2>4. sh[<<0, w>>] = Shift(out, w)
      BY <1>1, ShedIs
    <2> QED BY <1>3, <2>1, <2>3, <2>4 DEF Num, Shift
  <1>6. Goes(Line, M, sh, <<0, w>>, dst, e)
    <2>1. Takes(Line, sh, <<0, w>>, e)
      BY <1>1, <1>5 DEF Takes
    <2> QED BY <1>1, <1>4, <2>1 DEF Goes
  <1>7. ASSUME NEW x \in Lines, NEW k \in DOMAIN Line[x], Line[x][k] # 0, ~(k > sh[x])
        PROVE  k \in DOMAIN e /\ e[k] = Line[x][k]
    <2>1. PICK u \in Wires \cap out : x = <<0, u>> /\ k = 1 /\ Line[x][k] = chan[u][1].id
      BY <1>7, HeadNumbers
    <2> QED BY <1>1, <1>3, <2>1
  <1>8. /\ \A k \in DOMAIN e : (\E j : Pair(e[k], j)) => Rank(dst) < Rank(<<0, w>>)
        /\ \A k \in DOMAIN e : \A x \in Lines : \A l \in DOMAIN Line[x] :
              Pair(Line[x][l], e[k]) /\ Rank(x) < Rank(<<0, w>>) => Rank(x) < Rank(dst) \/ x = dst
    <2>1. \A k \in DOMAIN e : e[k] = i
      BY <1>1
    <2> QED BY <2>1
  <1> HIDE DEF sh
  <1>9. Carries(M, sh, <<0, w>>, dst, e)
    BY <1>6, <1>7, <1>8 DEF Carries
  <1> QED BY <1>9, CarriesOn DEF StaysKnown

\* All of line c of an agent goes to line dst.
LEMMA LineGoes ==
  ASSUME TypeInv, TypeInv', LineInv, UNCHANGED waves, StaysKnown,
         NEW out, NEW in, NEW ms \in Seq(Message), Moved(out, in, ms),
         \A u \in Wires \cap out : chan[u][1].type # "WAVE",
         NEW c \in Lines, c[1] # 0, NEW dst \in Lines, dst # c, NEW M, M = Line',
         WiresGet(in, ms, dst, Line[c]), AgentLines(M, c, dst, Line[c]),
         \A k \in DOMAIN Line[c] : (\E j : Pair(Line[c][k], j)) => Rank(dst) < Rank(c),
         \A k \in DOMAIN Line[c] : \A x \in Lines : \A l \in DOMAIN Line[x] :
            Pair(Line[x][l], Line[c][k]) /\ Rank(x) < Rank(c) => Rank(x) < Rank(dst) \/ x = dst
  PROVE  LineInv'
  <1> DEFINE sh == Shed(out, c)
  <1>1. Line \in [Lines -> Seq(Nat)]
    BY LinesAre DEF Lined
  <1>2. PICK e : e = Line[c] /\ e \in Seq(Nat)
    BY <1>1
  <1>3. \A u : <<0, u>> # c
    OBVIOUS
  <1>4. /\ M \in [Lines -> Seq(Nat)] /\ Shifts(Line, M, sh, dst, e)
    <2>1. WiresGet(in, ms, dst, e) /\ AgentLines(M, c, dst, e)
      BY <1>2
    <2>3. \A u \in Wires : <<0, u>> # c
      BY <1>3
    <2>4. e \in Seq(Nat)
      BY <1>2
    <2> QED BY <2>1, <2>3, <2>4, StepShifts
  <1>5. sh[c] = Len(Line[c])
    BY ShedIs
  <1>6. DOMAIN e = 1 .. Len(e) /\ Len(e) \in Nat
    BY <1>2
  <1>7. Goes(Line, M, sh, c, dst, e)
    <2>1. \A j \in DOMAIN e : j \in DOMAIN Line[c] /\ j <= sh[c] /\ e[j] = Line[c][j]
      BY <1>2, <1>5, <1>6
    <2>2. Takes(Line, sh, c, e)
      BY <2>1 DEF Takes
    <2> HIDE DEF sh
    <2> QED BY <1>1, <1>2, <1>4, <2>2 DEF Goes
  <1>8. ASSUME NEW x \in Lines, NEW k \in DOMAIN Line[x], Line[x][k] # 0, ~(k > sh[x])
        PROVE  k \in DOMAIN e /\ e[k] = Line[x][k]
    <2>1. CASE x = c
      BY <1>2, <2>1
    <2>2. CASE x # c
      <3>1. sh[x] = Shed(out, Nowhere)[x]
        <4>1. x # Nowhere
          BY DEF Lines, Nowhere
        <4> QED BY <2>2, <4>1 DEF Shed
      <3>2. \E u \in Wires \cap out : chan[u][1].type = "WAVE"
        BY <1>8, <3>1, HeadNumbers
      <3> QED BY <3>2
    <2> QED BY <2>1, <2>2
  <1> HIDE DEF sh
  <1>9. Carries(M, sh, c, dst, e)
    BY <1>2, <1>7, <1>8 DEF Carries
  <1> QED BY <1>9, CarriesOn DEF StaysKnown

\* The lines of the agents after a step.
LEMMA LinesAfter ==
  ASSUME TypeInv', NEW M, M = Line'
  PROVE  Lined(M, chan', saved', inQueue', got')
  <1>1. /\ chan' \in [Wires -> Seq(Message)] /\ saved' \in [Agents -> Seq(Message)]
        /\ inQueue' \in [Agents -> Seq(Ids)] /\ got' \in [Agents -> Seq(Ids)]
    BY DEF TypeInv, TypeOK
  <1> QED BY <1>1, LineIs DEF Line

\* Which lines of the agents change.
LEMMA AgentLinesAre ==
  ASSUME TypeInv, TypeInv', NEW M, M = Line', NEW c, NEW dst, NEW e,
         \A a \in Agents :
            /\ LET x == <<1, a>> IN \/ x # c /\ x # dst /\ saved'[a] = saved[a]
                                    \/ x = c /\ x # dst /\ saved'[a] = <<>>
                                    \/ x # c /\ x = dst /\ Nums(saved'[a]) = Nums(saved[a]) \o e
            /\ LET x == <<2, a>> IN \/ x # c /\ x # dst /\ inQueue'[a] = inQueue[a]
                                    \/ x = c /\ x # dst /\ inQueue'[a] = <<>>
                                    \/ x # c /\ x = dst /\ inQueue'[a] = inQueue[a] \o e
            /\ LET x == <<3, a>> IN \/ x # c /\ x # dst /\ got'[a] = got[a]
                                    \/ x = c /\ x # dst /\ got'[a] = <<>>
                                    \/ x # c /\ x = dst /\ got'[a] = got[a] \o e
  PROVE  AgentLines(M, c, dst, e)
  <1>1. Lined(Line, chan, saved, inQueue, got) /\ Lined(M, chan', saved', inQueue', got')
    BY LinesAre, LinesAfter
  <1> DEFINE Same(x) == \/ x # c /\ x # dst /\ M[x] = Line[x]
                        \/ x = c /\ x # dst /\ M[x] = <<>>
                        \/ x # c /\ x = dst /\ M[x] = Line[x] \o e
  <1>2. ASSUME NEW a \in Agents PROVE Same(<<1, a>>) /\ Same(<<2, a>>) /\ Same(<<3, a>>)
    <2>1. Nums(<<>>) = <<>>
      BY DEF Nums
    <2>2. /\ Line[<<1, a>>] = Nums(saved[a]) /\ M[<<1, a>>] = Nums(saved'[a])
          /\ Line[<<2, a>>] = inQueue[a] /\ M[<<2, a>>] = inQueue'[a]
          /\ Line[<<3, a>>] = got[a] /\ M[<<3, a>>] = got'[a]
      BY <1>1 DEF Lined
    <2>3. Same(<<1, a>>)
      BY <2>1, <2>2
    <2>4. Same(<<2, a>>)
      BY <2>2
    <2>5. Same(<<3, a>>)
      BY <2>2
    <2> QED BY <2>3, <2>4, <2>5
  <1> HIDE DEF Same
  <1>3. ASSUME NEW x \in Lines, x[1] # 0 PROVE Same(x)
    <2>1. PICK a \in Agents : x \in {<<1, a>>, <<2, a>>, <<3, a>>}
      BY <1>1, <1>3 DEF Lined
    <2> QED BY <1>2, <2>1
  <1> QED BY <1>3 DEF Same, AgentLines

\* What is sent is no wave.
LEMMA QuietWires ==
  /\ \A t \in ProtocolTypes, a \in Agents :
        <<Msg(t, a)>> \in Seq(Message) /\ \A k \in DOMAIN <<Msg(t, a)>> : Num(<<Msg(t, a)>>[k]) = 0
  /\ <<>> \in Seq(Message) /\ \A k \in DOMAIN <<>> : Num(<<>>[k]) = 0
  <1>1. ASSUME NEW t \in ProtocolTypes, NEW a \in Agents
        PROVE  <<Msg(t, a)>> \in Seq(Message) /\ \A k \in DOMAIN <<Msg(t, a)>> : Num(<<Msg(t, a)>>[k]) = 0
    <2>1. Msg(t, a) \in Message /\ Msg(t, a).type # "WAVE"
      BY MessageForms
    <2>2. PICK m : m = Msg(t, a)
      OBVIOUS
    <2>3. m \in Message /\ Num(m) = 0
      BY <2>1, <2>2 DEF Num
    <2>4. <<m>> \in Seq(Message) /\ \A k \in DOMAIN <<m>> : <<m>>[k] = m
      BY <2>3
    <2>5. \A k \in DOMAIN <<m>> : Num(<<m>>[k]) = 0
      BY <2>3, <2>4
    <2> QED BY <2>2, <2>4, <2>5
  <1>2. <<>> \in Seq(Message) /\ DOMAIN <<>> = {}
    OBVIOUS
  <1> QED BY <1>1, <1>2

\* The same for one message about an agent, or for none.
LEMMA LinesQuiet ==
  ASSUME TypeInv, TypeInv', LineInv, NEW out, NEW v, NEW t \in ProtocolTypes, NEW a \in Agents,
         Moved(out, {}, <<>>) \/ Moved(out, {v}, <<Msg(t, a)>>),
         UNCHANGED <<saved, inQueue, got, waves>>, StaysKnown,
         \A u \in Wires \cap out : chan[u][1].type # "WAVE" \/ ~waves[chan[u][1].id].known
  PROVE  LineInv'
  <1>1. CASE Moved(out, {}, <<>>)
    <2> DEFINE ms == <<>>
               in == {}
    <2>1. ms \in Seq(Message) /\ Moved(out, in, ms) /\ \A k \in DOMAIN ms : Num(ms[k]) = 0
      BY <1>1, QuietWires
    <2> HIDE DEF ms, in
    <2> QED BY <2>1, LinesRest
  <1>2. CASE Moved(out, {v}, <<Msg(t, a)>>)
    <2> DEFINE ms == <<Msg(t, a)>>
               in == {v}
    <2>1. ms \in Seq(Message) /\ Moved(out, in, ms) /\ \A k \in DOMAIN ms : Num(ms[k]) = 0
      BY <1>2, QuietWires
    <2> HIDE DEF ms, in
    <2> QED BY <2>1, LinesRest
  <1> QED BY <1>1, <1>2

\* The steps of the agents.
LEMMA LinesOfAgents ==
  ASSUME ~Impatient, TypeInv, TypeInv', EachWave, EachWay, LineInv, NEW a \in Agents,
         Start(a) \/ Depart(a) \/ Arrive(a) \/ \E n \in Nodes : Move(a, n)
  PROVE  LineInv'
  <1>0. TypeOK /\ Queued(a)
    BY DEF TypeInv, EachWay, WayInv
  <1>t. inQueue \in [Agents -> Seq(Ids)] /\ got \in [Agents -> Seq(Ids)]
    BY <1>0 DEF TypeOK
  <1>1. status' = status /\ saved' = saved /\ waves' = waves
    BY DEF Start, Depart, Arrive, Move, homeVars
  <1>2. StaysKnown
    BY <1>1 DEF StaysKnown
  <1>3. "REGISTER" \in ProtocolTypes /\ "CONNECT" \in ProtocolTypes /\ "REQ_LEAVE" \in ProtocolTypes
    BY DEF ProtocolTypes
  <1>4. \A u \in Wires \cap {} : chan[u][1].type # "WAVE" \/ ~waves[chan[u][1].id].known
    OBVIOUS
  <1>5. CASE Start(a)
    <2>1. Moved({}, {Up(a)}, <<Msg("REGISTER", a)>>)
      BY <1>0, <1>3, <1>5, SendMoves, MessageForms DEF Start
    <2>2. UNCHANGED <<saved, inQueue, got, waves>>
      BY <1>1, <1>5 DEF Start
    <2> QED BY <1>2, <1>3, <1>4, <2>1, <2>2, LinesQuiet
  <1>6. CASE Depart(a)
    <2>1. Moved({}, {}, <<>>)
      BY <1>0, <1>6, StillMoves DEF Depart
    <2>2. UNCHANGED <<saved, inQueue, got, waves>>
      BY <1>1, <1>6 DEF Depart
    <2> QED BY <1>2, <1>3, <1>4, <2>1, <2>2, LinesQuiet
  <1>7. CASE \E n \in Nodes : Move(a, n)
    <2>1. /\ phase[a] = "running" /\ inQueue' = [inQueue EXCEPT ![a] = <<>>] /\ got' = got
          /\ Send(Up(a), Msg("REQ_LEAVE", a))
      BY <1>7 DEF Move
    <2>2. Moved({}, {Up(a)}, <<Msg("REQ_LEAVE", a)>>)
      BY <1>0, <1>3, <2>1, SendMoves, MessageForms
    <2>3. inQueue[a] = <<>>
      BY <1>0, <2>1 DEF Queued
    <2>4. inQueue' = inQueue
      BY <1>t, <2>1, <2>3
    <2>5. UNCHANGED <<saved, inQueue, got, waves>>
      BY <1>1, <2>1, <2>4
    <2> QED BY <1>2, <1>3, <1>4, <2>2, <2>5, LinesQuiet
  <1>8. CASE Arrive(a)
    <2>1. /\ inQueue' = [inQueue EXCEPT ![a] = <<>>] /\ got' = [got EXCEPT ![a] = @ \o inQueue[a]]
          /\ Moved({}, {<<target[a], Region[target[a]]>>}, <<Msg("CONNECT", a)>>)
      BY <1>0, <1>3, <1>8, SendMoves, MessageForms DEF Arrive
    <2> DEFINE ms == <<Msg("CONNECT", a)>>
               in == {<<target[a], Region[target[a]]>>}
               c == <<2, a>>
               dst == <<3, a>>
    <2>2. PICK M : M = Line'
      OBVIOUS
    <2>3. ms \in Seq(Message) /\ Moved({}, in, ms) /\ \A k \in DOMAIN ms : Num(ms[k]) = 0
      BY <1>3, <2>1, QuietWires
    <2>4. /\ c \in Lines /\ dst \in Lines /\ c[1] # 0 /\ dst # c /\ (\A u : <<0, u>> # dst)
          /\ Line[c] = inQueue[a] /\ Rank(c) = 2 /\ Rank(dst) = 1
      <3>1. c \in Lines /\ dst \in Lines /\ Line[c] = inQueue[a]
        BY LinesAre DEF Lined
      <3>2. Rank(c) = 2 /\ Rank(dst) = 1
        BY RankIs
      <3> QED BY <3>1, <3>2
    <2>5. WiresGet(in, ms, dst, Line[c])
      BY <2>3, <2>4 DEF WiresGet
    <2>6. AgentLines(M, c, dst, Line[c])
      <3>1. \A b \in Agents : /\ b # a => inQueue'[b] = inQueue[b] /\ got'[b] = got[b]
                              /\ b = a => inQueue'[b] = <<>> /\ got'[b] = got[b] \o Line[c]
        BY <1>t, <2>1, <2>4
      <3>2. \A b \in Agents :
            /\ LET x == <<1, b>> IN \/ x # c /\ x # dst /\ saved'[b] = saved[b]
                                    \/ x = c /\ x # dst /\ saved'[b] = <<>>
                                    \/ x # c /\ x = dst /\ Nums(saved'[b]) = Nums(saved[b]) \o Line[c]
            /\ LET x == <<2, b>> IN \/ x # c /\ x # dst /\ inQueue'[b] = inQueue[b]
                                    \/ x = c /\ x # dst /\ inQueue'[b] = <<>>
                                    \/ x # c /\ x = dst /\ inQueue'[b] = inQueue[b] \o Line[c]
            /\ LET x == <<3, b>> IN \/ x # c /\ x # dst /\ got'[b] = got[b]
                                    \/ x = c /\ x # dst /\ got'[b] = <<>>
                                    \/ x # c /\ x = dst /\ got'[b] = got[b] \o Line[c]
        <4>1. \A b : /\ <<1, b>> # c /\ <<1, b>> # dst /\ <<2, b>> # dst /\ <<3, b>> # c
                     /\ <<2, b>> = c <=> b = a
                     /\ <<3, b>> = dst <=> b = a
          OBVIOUS
        <4> HIDE DEF c, dst
        <4> QED BY <1>1, <3>1, <4>1
      <3> HIDE DEF c, dst
      <3> QED BY <2>2, <3>2, AgentLinesAre
    <2>7. ASSUME NEW k \in DOMAIN Line[c], NEW x \in Lines, NEW l \in DOMAIN Line[x],
                 Pair(Line[x][l], Line[c][k]), Rank(x) < Rank(c)
          PROVE  x = dst
      <3>1. PICK i, j : i = Line[x][l] /\ j = Line[c][k]
        OBVIOUS
      <3>2. Pair(i, j) /\ i \in DOMAIN waves /\ Near(waves[i]) /\ waves[i].to = waves[j].to
        BY <2>7, <3>1 DEF Pair
      <3>3. waves[j].to = a
        BY <1>0, <2>4, <3>1 DEF Queued
      <3>4. NearPlace(x, waves[i].from, a)
        BY <3>1, <3>2, <3>3, NearPlaces
      <3> QED BY <2>4, <2>7, <3>4 DEF NearPlace
    <2>8. \A u \in Wires \cap {} : chan[u][1].type # "WAVE"
      OBVIOUS
    <2> HIDE DEF c, dst, ms, in
    <2>9. Rank(dst) < Rank(c)
      BY <2>4
    <2> QED BY <1>1, <1>2, <2>2, <2>3, <2>4, <2>5, <2>6, <2>7, <2>8, <2>9, LineGoes
  <1> QED BY <1>5, <1>6, <1>7, <1>8

\* A wave is at most in one place when it leaves: the same for a line the agent's waves take.
LEMMA NearFollows ==
  ASSUME TypeInv, EachWave, EachWay, NEW x \in Lines, NEW l \in DOMAIN Line[x],
         NEW j, Pair(Line[x][l], j), NEW a, a = waves[j].to
  PROVE  NearPlace(x, waves[j].from, a) /\ Near(waves[j])
  <1>1. PICK i : i = Line[x][l]
    OBVIOUS
  <1>2. /\ i \in DOMAIN waves /\ Near(waves[i]) /\ waves[i].to = a /\ waves[i].from = waves[j].from
    BY <1>1 DEF Pair
  <1>3. Near(waves[j])
    BY <1>2 DEF Near
  <1> QED BY <1>1, <1>2, <1>3, NearPlaces

\* The steps of the pylons.
LEMMA LinesOfPylons ==
  ASSUME TypeInv, TypeInv', EachWave, EachWay, LineInv, NEW n \in Nodes, Receive(n)
  PROVE  LineInv'
  <1> DEFINE w == <<Region[n], n>>
             out == {w}
  <1>0. TypeOK /\ status' = status /\ saved' = saved /\ waves' = waves
    BY DEF TypeInv, Receive, ReceiveWave, ReceiveAccept, homeVars
  <1>t. inQueue \in [Agents -> Seq(Ids)] /\ got \in [Agents -> Seq(Ids)]
    BY <1>0 DEF TypeOK
  <1>1. StaysKnown
    BY <1>0 DEF StaysKnown
  <1>2. w \in Wires /\ w[1] = Region[n] /\ w[2] = n /\ w[2] \in Nodes /\ w[1] \notin Nodes
    BY RegionAssumption DEF Wires
  <1>3. Moved({w}, {}, <<>>) /\ chan[w] # <<>>
    BY <1>0, <1>2, DropMoves DEF Receive, ReceiveWave, ReceiveAccept, Incoming
  <1>4. CASE ReceiveAccept(n)
    <2>1. UNCHANGED <<saved, inQueue, got, waves>> /\ Incoming(w, "REQ_ACCEPT")
      BY <1>0, <1>4 DEF ReceiveAccept
    <2>2. chan[w][1].type = "REQ_ACCEPT" /\ Head(chan[w]).agent \in Agents /\ "REQ_ACCEPT" \in ProtocolTypes
      BY <1>2, <2>1, HeadFacts DEF ProtocolTypes
    <2>3. \A u \in Wires \cap out : chan[u][1].type # "WAVE"
      BY <2>2
    <2>4. Moved(out, {}, <<>>)
      BY <1>3
    <2> HIDE DEF out
    <2> QED BY <1>1, <2>1, <2>2, <2>3, <2>4, LinesQuiet
  <1>5. CASE ReceiveWave(n)
    <2>1. PICK i, a : i = Head(chan[w]).id /\ a = waves[i].to
      OBVIOUS
    <2>2. /\ Incoming(w, "WAVE") /\ 1 \in DOMAIN chan[w] /\ chan[w][1].type = "WAVE" /\ chan[w][1].id = i
          /\ i \in Ids /\ a \in Agents /\ Registered(a, n) /\ phase[a] \in {"running", "leaving"}
      <3>1. Incoming(w, "WAVE")
        BY <1>5 DEF ReceiveWave
      <3> QED BY <2>1, <3>1, Found
    <2>3. \/ phase[a] = "running" /\ got' = [got EXCEPT ![a] = Append(@, i)] /\ inQueue' = inQueue
          \/ phase[a] = "leaving" /\ inQueue' = [inQueue EXCEPT ![a] = Append(@, i)] /\ got' = got
      BY <1>5, <2>1, <2>2 DEF ReceiveWave
    <2>4. \A s \in Seq(Ids) : Append(s, i) = s \o <<i>>
      BY <2>2
    <2>5. PICK M : M = Line'
      OBVIOUS
    <2> DEFINE ms == <<>>
               in == {}
               dst == IF phase[a] = "running" THEN <<3, a>> ELSE <<2, a>>
    <2>6. ms \in Seq(Message) /\ Moved({w}, in, ms) /\ (\A u : u \notin in) /\ (\A u : <<0, u>> # dst)
      BY <1>3
    <2>7. /\ dst \in Lines
          /\ \A b : /\ <<1, b>> # dst /\ <<1, b>> # Nowhere /\ <<2, b>> # Nowhere /\ <<3, b>> # Nowhere
                    /\ phase[a] = "running" => <<2, b>> # dst /\ (<<3, b>> = dst <=> b = a)
                    /\ phase[a] # "running" => <<3, b>> # dst /\ (<<2, b>> = dst <=> b = a)
      <3>1. <<2, a>> \in Lines /\ <<3, a>> \in Lines
        BY <2>2, LinesAre DEF Lined
      <3>2. \A b : <<1, b>> # dst /\ <<1, b>> # Nowhere /\ <<2, b>> # Nowhere /\ <<3, b>> # Nowhere
        BY DEF Nowhere
      <3> QED BY <3>1, <3>2
    <2>8. Rank(dst) = (IF phase[a] = "running" THEN 1 ELSE 2) /\ Rank(<<0, w>>) = 3
      <3>1. Rank(<<0, w>>) = 3
        BY <1>2, RankIs
      <3> QED BY <3>1, RankIs
    <2> HIDE DEF ms, in
    <2>9. WiresGet(in, ms, dst, <<i>>)
      BY <2>6 DEF WiresGet
    <2>10. AgentLines(M, Nowhere, dst, <<i>>)
      <3>1. \A b \in Agents :
               /\ b # a => inQueue'[b] = inQueue[b] /\ got'[b] = got[b]
               /\ b = a /\ phase[a] = "running" => inQueue'[b] = inQueue[b] /\ got'[b] = got[b] \o <<i>>
               /\ b = a /\ phase[a] # "running" => got'[b] = got[b] /\ inQueue'[b] = inQueue[b] \o <<i>>
        BY <1>t, <2>2, <2>3, <2>4
      <3> HIDE DEF dst
      <3>2. \A b \in Agents :
            /\ LET x == <<1, b>> IN \/ x # Nowhere /\ x # dst /\ saved'[b] = saved[b]
                                    \/ x = Nowhere /\ x # dst /\ saved'[b] = <<>>
                                    \/ x # Nowhere /\ x = dst /\ Nums(saved'[b]) = Nums(saved[b]) \o <<i>>
            /\ LET x == <<2, b>> IN \/ x # Nowhere /\ x # dst /\ inQueue'[b] = inQueue[b]
                                    \/ x = Nowhere /\ x # dst /\ inQueue'[b] = <<>>
                                    \/ x # Nowhere /\ x = dst /\ inQueue'[b] = inQueue[b] \o <<i>>
            /\ LET x == <<3, b>> IN \/ x # Nowhere /\ x # dst /\ got'[b] = got[b]
                                    \/ x = Nowhere /\ x # dst /\ got'[b] = <<>>
                                    \/ x # Nowhere /\ x = dst /\ got'[b] = got[b] \o <<i>>
        BY <1>0, <2>7, <3>1
      <3> QED BY <2>5, <3>2, AgentLinesAre
    <2>11. ASSUME NEW x \in Lines, NEW l \in DOMAIN Line[x],
                  Pair(Line[x][l], i), Rank(x) < Rank(<<0, w>>)
           PROVE  Rank(x) < Rank(dst) \/ x = dst
      <3>1. NearPlace(x, waves[i].from, a)
        BY <2>1, <2>11, NearFollows
      <3>2. (x = <<2, a>> /\ Rank(x) = 2 /\ phase[a] \notin {"new", "running"}) \/ (x = <<3, a>> /\ Rank(x) = 1)
        BY <2>8, <2>11, <3>1 DEF NearPlace
      <3> QED BY <2>8, <3>2
    <2>12. Rank(dst) < Rank(<<0, w>>)
      BY <2>8
    <2> HIDE DEF dst, w
    <2> QED BY <1>0, <1>1, <1>2, <2>2, <2>5, <2>6, <2>7, <2>9, <2>10, <2>11, <2>12, HeadGoes
  <1> QED BY <1>4, <1>5 DEF Receive

\* A server handles a message about an agent and sends nothing that it saved.
LEMMA LinesOfProtocol ==
  ASSUME TypeInv, TypeInv', EachAgent, EachWay, LineInv, NEW s \in Servers, NEW w \in Wires,
         Register(s, w) \/ ConnectGuest(s, w) \/ ReqLeave(s, w) \/ ReqBuffer(s, w) \/ ReqAccept(s, w)
  PROVE  LineInv'
  <1>1. PICK a : a = Head(chan[w]).agent
    OBVIOUS
  <1>2. /\ UNCHANGED <<shardVars, waves>>
        /\ a \in Agents /\ chan[w][1].type \in ProtocolTypes
        /\ \/ Moved({w}, {}, <<>>)
           \/ \E v : \E r \in ProtocolTypes : Moved({w}, {v}, <<Msg(r, a)>>)
        /\ saved' = saved \/ (saved' = [saved EXCEPT ![a] = <<>>] /\ status[a] = "none")
        /\ \/ status' = status
           \/ status' = [status EXCEPT ![a] = "OFFLINE"]
           \/ status' = [status EXCEPT ![a] = "HOME"]
    BY <1>1, ProtocolMoves
  <1>3. TypeOK /\ Queued(a)
    BY <1>2 DEF TypeInv, EachWay, WayInv
  <1>4. saved' = saved
    <2>1. CASE saved' = [saved EXCEPT ![a] = <<>>] /\ status[a] = "none"
      <3>1. saved[a] = <<>> /\ saved \in [Agents -> Seq(Message)]
        BY <1>3, <2>1 DEF Queued, TypeOK
      <3> QED BY <2>1, <3>1
    <2> QED BY <1>2, <2>1
  <1>5. UNCHANGED <<saved, inQueue, got, waves>>
    BY <1>2, <1>4 DEF shardVars
  <1>6. StaysKnown
    <2>1. status \in [Agents -> {"none", "HOME", "OFFLINE", "REMOTE"}]
      BY <1>3 DEF TypeOK
    <2> QED BY <1>2, <2>1 DEF StaysKnown
  <1> DEFINE out == {w}
  <1>7. \A u \in Wires \cap out : chan[u][1].type # "WAVE" \/ ~waves[chan[u][1].id].known
    BY <1>2, MessageForms
  <1>8. ASSUME NEW v, NEW r \in ProtocolTypes, Moved({w}, {}, <<>>) \/ Moved({w}, {v}, <<Msg(r, a)>>)
        PROVE  LineInv'
    <2>1. Moved(out, {}, <<>>) \/ Moved(out, {v}, <<Msg(r, a)>>)
      BY <1>8
    <2> HIDE DEF out
    <2> QED BY <1>2, <1>5, <1>6, <1>7, <2>1, LinesQuiet
  <1>9. "CONNECT" \in ProtocolTypes
    BY DEF ProtocolTypes
  <1> QED BY <1>2, <1>8, <1>9

\* A server sends what it saved for an agent.
LEMMA LinesOfSaved ==
  ASSUME TypeInv, TypeInv', EachWave, EachWay, LineInv, NEW w \in Wires, NEW a, NEW v, NEW ms,
         Drains(w, a, v, ms)
  PROVE  LineInv'
  <1> DEFINE out == {w}
             in == {v}
             c == <<1, a>>
             dst == <<0, v>>
  <1>1. /\ inQueue' = inQueue /\ got' = got /\ waves' = waves
        /\ a \in Agents /\ v \in Wires /\ chan[w][1].type \in ProtocolTypes
        /\ status[a] = "OFFLINE" /\ saved' = [saved EXCEPT ![a] = <<>>]
        /\ ms \in Seq(Message) /\ Moved(out, in, ms) /\ DOMAIN ms = DOMAIN saved[a]
        /\ \A i \in DOMAIN ms : /\ ms[i].type = "WAVE" /\ ms[i].id = saved[a][i].id /\ saved[a][i].type = "WAVE"
                                /\ waves[ms[i].id].to = a
        /\ status' = [status EXCEPT ![a] = "HOME"] \/ status' = [status EXCEPT ![a] = "REMOTE"]
    BY DEF Drains
  <1>2. TypeOK /\ saved[a] \in Seq(Message) /\ saved \in [Agents -> Seq(Message)]
        /\ status \in [Agents -> {"none", "HOME", "OFFLINE", "REMOTE"}]
    BY <1>1 DEF TypeInv, TypeOK
  <1>3. StaysKnown
    BY <1>1, <1>2 DEF StaysKnown
  <1>4. PICK M : M = Line'
    OBVIOUS
  <1>5. c \in Lines /\ dst \in Lines /\ Line[c] = Nums(saved[a])
    BY <1>1, LinesAre DEF Lined
  <1>6. Nums(ms) = Nums(saved[a])
    <2>1. \A i \in DOMAIN ms : Num(ms[i]) = Num(saved[a][i])
      BY <1>1 DEF Num
    <2> QED BY <1>1, <2>1 DEF Nums
  <1>7. c[1] # 0 /\ dst # c
    OBVIOUS
  <1>8. WiresGet(in, ms, dst, Line[c])
    <2>1. \A u : (<<0, u>> = dst <=> u = v) /\ (u \in in <=> u = v)
      OBVIOUS
    <2> HIDE DEF in, dst, c
    <2> QED BY <1>5, <1>6, <2>1 DEF WiresGet
  <1>9. AgentLines(M, c, dst, Line[c])
    <2>1. \A b : /\ <<1, b>> = c <=> b = a
                 /\ <<2, b>> # c /\ <<3, b>> # c /\ <<1, b>> # dst /\ <<2, b>> # dst /\ <<3, b>> # dst
      OBVIOUS
    <2>2. \A b \in Agents : saved'[b] = IF b = a THEN <<>> ELSE saved[b]
      BY <1>1, <1>2
    <2> HIDE DEF c, dst
    <2>3. \A b \in Agents :
            /\ LET x == <<1, b>> IN \/ x # c /\ x # dst /\ saved'[b] = saved[b]
                                    \/ x = c /\ x # dst /\ saved'[b] = <<>>
                                    \/ x # c /\ x = dst /\ Nums(saved'[b]) = Nums(saved[b]) \o Line[c]
            /\ LET x == <<2, b>> IN \/ x # c /\ x # dst /\ inQueue'[b] = inQueue[b]
                                    \/ x = c /\ x # dst /\ inQueue'[b] = <<>>
                                    \/ x # c /\ x = dst /\ inQueue'[b] = inQueue[b] \o Line[c]
            /\ LET x == <<3, b>> IN \/ x # c /\ x # dst /\ got'[b] = got[b]
                                    \/ x = c /\ x # dst /\ got'[b] = <<>>
                                    \/ x # c /\ x = dst /\ got'[b] = got[b] \o Line[c]
      BY <1>1, <2>1, <2>2
    <2> QED BY <1>4, <2>3, AgentLinesAre
  <1>10. /\ Rank(c) = 5
         /\ \/ v = <<Region[node[a]], node[a]>> /\ ~Away(a) /\ Rank(dst) = 3
            \/ v = <<Home(a), Region[node[a]]>> /\ Away(a) /\ Rank(dst) = 4
    <2>1. /\ node[a] \in Nodes /\ Region[node[a]] \notin Nodes /\ Home(a) \notin Nodes
      BY <1>1, <1>2, GuestOrNone, RegionAssumption
    <2>2. Rank(dst) = IF v[1] \in Nodes THEN 6 ELSE IF v[2] \in Nodes THEN 3 ELSE 4
      BY RankIs
    <2>3. \/ v = <<Region[node[a]], node[a]>> /\ ~Away(a)
          \/ v = <<Home(a), Region[node[a]]>> /\ Away(a)
      BY DEF Drains
    <2> HIDE DEF dst
    <2> QED BY <2>1, <2>2, <2>3, RankIs
  <1>11. ASSUME NEW k \in DOMAIN Line[c], NEW x \in Lines, NEW l \in DOMAIN Line[x],
                Pair(Line[x][l], Line[c][k]), Rank(x) < Rank(c)
         PROVE  Rank(x) < Rank(dst) \/ x = dst
    <2>1. PICK j : j = Line[c][k]
      OBVIOUS
    <2>2. waves[j].to = a
      <3>1. k \in DOMAIN saved[a] /\ j = Num(saved[a][k])
        BY <1>2, <1>5, <2>1, NumsOf
      <3> QED BY <1>1, <3>1 DEF Num
    <2>3. NearPlace(x, waves[j].from, a)
      BY <1>11, <2>1, <2>2, NearFollows
    <2>4. Rank(x) \in {6, 5, 4, 3, 2, 1}
      BY <2>3 DEF NearPlace
    <2>5. CASE v = <<Region[node[a]], node[a]>> /\ ~Away(a) /\ Rank(dst) = 3
      <3>1. Rank(x) # 4 /\ (Rank(x) = 3 => x = dst)
        BY <2>3, <2>5 DEF NearPlace
      <3> QED BY <1>10, <1>11, <2>4, <2>5, <3>1
    <2>6. CASE v = <<Home(a), Region[node[a]]>> /\ Away(a) /\ Rank(dst) = 4
      <3>1. Rank(x) = 4 => x = dst
        BY <2>3, <2>6 DEF NearPlace
      <3> QED BY <1>10, <1>11, <2>4, <2>6, <3>1
    <2> QED BY <1>10, <2>5, <2>6
  <1>12. \A u \in Wires \cap out : chan[u][1].type # "WAVE"
    BY <1>1, MessageForms
  <1>13. Rank(dst) < Rank(c)
    BY <1>10
  <1> HIDE DEF out, in, c, dst
  <1> QED BY <1>1, <1>3, <1>4, <1>5, <1>7, <1>8, <1>9, <1>11, <1>12, <1>13, LineGoes

\* A message that joins the others adds its number.
LEMMA NumsAppend ==
  ASSUME NEW s \in Seq(Message), NEW m \in Message, Num(m) \in Nat
  PROVE  Nums(Append(s, m)) = Nums(s) \o <<Num(m)>>
  <1>1. PICK t \in Seq(Message) : t = Append(s, m)
    <2>1. Append(s, m) \in Seq(Message)
      OBVIOUS
    <2> QED BY <2>1, Zenon
  <1>2. /\ DOMAIN s = 1 .. Len(s) /\ DOMAIN t = 1 .. Len(t) /\ Len(t) = Len(s) + 1 /\ Len(s) \in Nat
        /\ \A k \in 1 .. Len(s) : t[k] = s[k]
        /\ t[Len(s) + 1] = m
    BY <1>1
  <1>3. PICK n \in Nat : n = Num(m)
    OBVIOUS
  <1>4. PICK p \in Seq(Nat) : p = Nums(s)
    BY NumsOf
  <1>5. PICK q \in Seq(Nat) : q = Nums(t)
    BY NumsOf
  <1>6. /\ Len(p) = Len(s) /\ \A k \in DOMAIN s : p[k] = Num(s[k])
    BY <1>4, NumsOf
  <1>7. /\ Len(q) = Len(t) /\ \A k \in DOMAIN t : q[k] = Num(t[k])
    BY <1>5, NumsOf
  <1>8. Len(q) = Len(p) + 1
    BY <1>2, <1>6, <1>7
  <1>9. \A k \in 1 .. Len(p) : q[k] = p[k]
    <2>1. TAKE k \in 1 .. Len(p)
    <2>2. k \in 1 .. Len(s) /\ k \in DOMAIN s /\ k \in DOMAIN t
      BY <1>2, <1>6
    <2> QED BY <1>2, <1>6, <1>7, <2>2
  <1>10. q[Len(p) + 1] = n
    <2>1. Len(s) + 1 \in DOMAIN t
      BY <1>2
    <2> QED BY <1>2, <1>3, <1>6, <1>7, <2>1
  <1>11. PICK r \in Seq(Nat) : r = p \o <<n>>
    <2>1. p \o <<n>> \in Seq(Nat)
      OBVIOUS
    <2> QED BY <2>1, Zenon
  <1>12. Len(r) = Len(p) + 1 /\ (\A k \in 1 .. Len(p) : r[k] = p[k]) /\ r[Len(p) + 1] = n
    BY <1>11
  <1>13. \A k \in 1 .. Len(q) : q[k] = r[k]
    <2>1. Len(p) \in Nat
      OBVIOUS
    <2>2. TAKE k \in 1 .. Len(q)
    <2>3. k \in 1 .. Len(p) \/ k = Len(p) + 1
      BY <1>8, <2>1
    <2> QED BY <1>9, <1>10, <1>12, <2>3
  <1>14. q = r
    BY <1>8, <1>12, <1>13
  <1> QED BY <1>1, <1>3, <1>4, <1>5, <1>11, <1>14

\* A server handles a wave.
LEMMA LinesOfContent ==
  ASSUME TypeInv, TypeInv', EachAgent, EachWave, EachWay, LineInv, NEW w \in Wires, NEW i, NEW a, Handled(w, i, a)
  PROVE  LineInv'
  <1> DEFINE out == {w}
  <1>1. /\ inQueue' = inQueue /\ got' = got /\ waves' = waves /\ status' = status
        /\ 1 \in DOMAIN chan[w] /\ chan[w][1].type = "WAVE" /\ chan[w][1].id = i /\ chan[w][1] \in Message
        /\ i \in Ids /\ i \in DOMAIN waves /\ a \in Agents /\ a = waves[i].to /\ w[2] \in Servers
    BY DEF Handled
  <1>2. TypeOK /\ saved \in [Agents -> Seq(Message)] /\ Queued(a) /\ AgentInv(a)
    BY <1>1 DEF TypeInv, TypeOK, EachWay, WayInv, EachAgent
  <1>3. StaysKnown
    BY <1>1 DEF StaysKnown
  <1>4. PICK M : M = Line'
    OBVIOUS
  <1>5. /\ <<0, w>> \in Lines /\ 1 \in DOMAIN Line[<<0, w>>] /\ Line[<<0, w>>][1] = i
    <2>1. <<0, w>> \in Lines /\ Line[<<0, w>>] = Nums(chan[w])
      BY LinesAre DEF Lined
    <2>2. chan[w] \in Seq(Message)
      BY <1>2 DEF TypeOK
    <2> QED BY <1>1, <2>1, <2>2, NumsOf DEF Num
  <1>6. Near(waves[i]) => NearPlace(<<0, w>>, waves[i].from, a)
    BY <1>1, <1>5, NearPlaces
  <1>7. Rank(<<0, w>>) = IF w[1] \in Nodes THEN 6 ELSE 4
    <2>1. w[2] \notin Nodes
      BY <1>1, RegionAssumption
    <2> QED BY <2>1, RankIs
  <1>8. (\E j : Pair(i, j)) => Near(waves[i])
    BY DEF Pair
  <1>9. CASE \E v, e : Passes(w, i, a, v, e)
    <2>1. PICK v, e : Passes(w, i, a, v, e)
      BY <1>9
    <2>2. /\ saved' = saved /\ v \in Wires /\ e \in Message /\ e.type = "WAVE" /\ e.id = i /\ Moved({w}, {v}, <<e>>)
      BY <2>1 DEF Passes
    <2> DEFINE in == {v}
               ms == <<e>>
               dst == <<0, v>>
    <2>3. ms \in Seq(Message) /\ Moved({w}, in, ms) /\ dst \in Lines
      <3>1. dst \in Lines
        BY <2>2, LinesAre DEF Lined
      <3> QED BY <2>2, <3>1
    <2>4. Nums(ms) = <<i>>
      <3>1. Num(e) = i
        BY <2>2 DEF Num
      <3> QED BY <3>1 DEF Nums
    <2>5. WiresGet(in, ms, dst, <<i>>)
      <3>1. \A u : (<<0, u>> = dst <=> u = v) /\ (u \in in <=> u = v)
        OBVIOUS
      <3> HIDE DEF in, dst, ms
      <3> QED BY <2>4, <3>1 DEF WiresGet
    <2>6. AgentLines(M, Nowhere, dst, <<i>>)
      <3>1. \A b : /\ <<1, b>> # Nowhere /\ <<2, b>> # Nowhere /\ <<3, b>> # Nowhere
                   /\ <<1, b>> # dst /\ <<2, b>> # dst /\ <<3, b>> # dst
        BY DEF Nowhere
      <3> HIDE DEF dst
      <3>2. \A b \in Agents :
            /\ LET x == <<1, b>> IN \/ x # Nowhere /\ x # dst /\ saved'[b] = saved[b]
                                    \/ x = Nowhere /\ x # dst /\ saved'[b] = <<>>
                                    \/ x # Nowhere /\ x = dst /\ Nums(saved'[b]) = Nums(saved[b]) \o <<i>>
            /\ LET x == <<2, b>> IN \/ x # Nowhere /\ x # dst /\ inQueue'[b] = inQueue[b]
                                    \/ x = Nowhere /\ x # dst /\ inQueue'[b] = <<>>
                                    \/ x # Nowhere /\ x = dst /\ inQueue'[b] = inQueue[b] \o <<i>>
            /\ LET x == <<3, b>> IN \/ x # Nowhere /\ x # dst /\ got'[b] = got[b]
                                    \/ x = Nowhere /\ x # dst /\ got'[b] = <<>>
                                    \/ x # Nowhere /\ x = dst /\ got'[b] = got[b] \o <<i>>
        BY <1>1, <2>2, <3>1
      <3> QED BY <1>4, <3>2, AgentLinesAre
    <2>7. ASSUME Near(waves[i])
          PROVE  \/ /\ v = <<Region[node[a]], node[a]>> /\ Rank(dst) = 3
                    /\ (status[a] = "HOME" /\ ~Away(a)) \/ Rank(<<0, w>>) = 4
                 \/ v = <<Home(a), Region[node[a]]>> /\ Rank(dst) = 4 /\ Rank(<<0, w>>) = 6 /\ status[a] = "REMOTE"
      <3>1. /\ node[a] \in Nodes /\ Region[node[a]] \notin Nodes /\ Home(a) \notin Nodes
        BY <1>1, <1>2, GuestOrNone, RegionAssumption
      <3>2. Rank(dst) = IF v[1] \in Nodes THEN 6 ELSE IF v[2] \in Nodes THEN 3 ELSE 4
        BY RankIs
      <3> HIDE DEF dst
      <3>3. /\ Rank(<<0, w>>) = 6 => w[2] = Home(a)
            /\ Rank(<<0, w>>) = 4 => w[2] # Home(a)
            /\ Rank(<<0, w>>) \in {6, 4}
        <4>1. NearPlace(<<0, w>>, waves[i].from, a)
          BY <1>6, <2>7
        <4>2. \/ Rank(<<0, w>>) = 6 /\ w = <<Origin[waves[i].from], Home(a)>>
              \/ Rank(<<0, w>>) = 4 /\ w = <<Home(a), Region[node[a]]>> /\ Away(a)
          BY <1>7, <4>1 DEF NearPlace
        <4> QED BY <4>2 DEF Away
      <3>4. CASE /\ v = <<Region[node[a]], node[a]>>
                 /\ (status[a] = "HOME" /\ ~Away(a)) \/ w[2] # Home(a)
        BY <3>1, <3>2, <3>3, <3>4
      <3>5. CASE v = <<Home(a), Region[node[a]]>> /\ status[a] = "REMOTE" /\ w[2] = Home(a)
        BY <3>1, <3>2, <3>3, <3>5
      <3> QED BY <2>1, <2>7, <3>4, <3>5 DEF Passes
    <2>8. (\E j : Pair(i, j)) => Rank(dst) < Rank(<<0, w>>)
      BY <1>7, <1>8, <2>7
    <2>9. ASSUME NEW x \in Lines, NEW l \in DOMAIN Line[x], Pair(Line[x][l], i), Rank(x) < Rank(<<0, w>>)
          PROVE  Rank(x) < Rank(dst) \/ x = dst
      <3>1. NearPlace(x, waves[i].from, a) /\ Near(waves[i])
        BY <1>1, <2>9, NearFollows
      <3>2. Rank(x) \in {6, 5, 4, 3, 2, 1}
        BY <3>1 DEF NearPlace
      <3>3. CASE /\ v = <<Region[node[a]], node[a]>> /\ Rank(dst) = 3
                 /\ (status[a] = "HOME" /\ ~Away(a)) \/ Rank(<<0, w>>) = 4
        <4>1. Rank(x) = 3 => x = dst
          BY <3>1, <3>3 DEF NearPlace
        <4>2. status[a] = "HOME" /\ ~Away(a) => Rank(x) \notin {5, 4}
          BY <3>1 DEF NearPlace
        <4> QED BY <1>7, <2>9, <3>2, <3>3, <4>1, <4>2
      <3>4. CASE v = <<Home(a), Region[node[a]]>> /\ Rank(dst) = 4 /\ status[a] = "REMOTE" /\ Rank(<<0, w>>) = 6
        <4>1. (Rank(x) = 4 => x = dst) /\ Rank(x) # 5
          BY <3>1, <3>4 DEF NearPlace
        <4> QED BY <2>9, <3>2, <3>4, <4>1
      <3> QED BY <2>7, <3>1, <3>3, <3>4
    <2> HIDE DEF in, ms, dst
    <2> QED BY <1>1, <1>3, <1>4, <2>3, <2>5, <2>6, <2>8, <2>9, HeadGoes
  <1>10. CASE /\ saved' = [saved EXCEPT ![a] = Append(@, chan[w][1])] /\ status[a] = "OFFLINE" /\ w[2] = Home(a)
              /\ Moved({w}, {}, <<>>)
    <2> DEFINE in == {}
               ms == <<>>
               dst == <<1, a>>
    <2>1. ms \in Seq(Message) /\ Moved({w}, in, ms) /\ (\A u : u \notin in /\ <<0, u>> # dst)
      BY <1>10
    <2>2. dst \in Lines
      BY <1>1, LinesAre DEF Lined
    <2>3. WiresGet(in, ms, dst, <<i>>)
      <3> HIDE DEF in, ms, dst
      <3> QED BY <2>1 DEF WiresGet
    <2>4. Nums(saved'[a]) = Nums(saved[a]) \o <<i>>
      <3>1. PICK m \in Message : m = chan[w][1]
        BY <1>1
      <3>2. Num(m) = i
        BY <1>1, <3>1 DEF Num
      <3>3. saved'[a] = Append(saved[a], m)
        BY <1>1, <1>2, <1>10, <3>1
      <3>4. PICK s \in Seq(Message) : s = saved[a]
        BY <1>1, <1>2
      <3>5. Nums(Append(s, m)) = Nums(s) \o <<Num(m)>>
        <4>1. Num(m) \in Nat
          BY <1>1, <3>2 DEF Ids
        <4> QED BY <3>1, <3>4, <4>1, NumsAppend
      <3> QED BY <3>2, <3>3, <3>4, <3>5
    <2>5. AgentLines(M, Nowhere, dst, <<i>>)
      <3>1. \A b : /\ <<1, b>> # Nowhere /\ <<2, b>> # Nowhere /\ <<3, b>> # Nowhere
                   /\ (<<1, b>> = dst <=> b = a) /\ <<2, b>> # dst /\ <<3, b>> # dst
        BY DEF Nowhere
      <3>2. \A b \in Agents : b # a => saved'[b] = saved[b]
        BY <1>2, <1>10
      <3> HIDE DEF dst
      <3>3. \A b \in Agents :
            /\ LET x == <<1, b>> IN \/ x # Nowhere /\ x # dst /\ saved'[b] = saved[b]
                                    \/ x = Nowhere /\ x # dst /\ saved'[b] = <<>>
                                    \/ x # Nowhere /\ x = dst /\ Nums(saved'[b]) = Nums(saved[b]) \o <<i>>
            /\ LET x == <<2, b>> IN \/ x # Nowhere /\ x # dst /\ inQueue'[b] = inQueue[b]
                                    \/ x = Nowhere /\ x # dst /\ inQueue'[b] = <<>>
                                    \/ x # Nowhere /\ x = dst /\ inQueue'[b] = inQueue[b] \o <<i>>
            /\ LET x == <<3, b>> IN \/ x # Nowhere /\ x # dst /\ got'[b] = got[b]
                                    \/ x = Nowhere /\ x # dst /\ got'[b] = <<>>
                                    \/ x # Nowhere /\ x = dst /\ got'[b] = got[b] \o <<i>>
        BY <1>1, <2>4, <3>1, <3>2
      <3> QED BY <1>4, <3>3, AgentLinesAre
    <2>6. Rank(dst) = 5
      BY RankIs
    <2>7. Near(waves[i]) => Rank(<<0, w>>) = 6
      <3>1. NearPlace(<<0, w>>, waves[i].from, a) => Rank(<<0, w>>) = 6 \/ (w = <<Home(a), Region[node[a]]>> /\ Away(a))
        BY <1>7 DEF NearPlace
      <3> QED BY <1>6, <1>10, <3>1 DEF Away
    <2>8. (\E j : Pair(i, j)) => Rank(dst) < Rank(<<0, w>>)
      BY <1>8, <2>6, <2>7
    <2>9. ASSUME NEW x \in Lines, NEW l \in DOMAIN Line[x], Pair(Line[x][l], i), Rank(x) < Rank(<<0, w>>)
          PROVE  Rank(x) < Rank(dst) \/ x = dst
      <3>1. NearPlace(x, waves[i].from, a) /\ Near(waves[i])
        BY <1>1, <2>9, NearFollows
      <3>2. Rank(x) \in {6, 4, 3, 2, 1} \/ x = <<1, a>>
        BY <3>1 DEF NearPlace
      <3> QED BY <2>6, <2>7, <2>9, <3>1, <3>2
    <2> HIDE DEF in, ms, dst
    <2> QED BY <1>1, <1>3, <1>4, <2>1, <2>2, <2>3, <2>5, <2>8, <2>9, HeadGoes
  <1>11. CASE saved' = saved /\ status[a] = "none" /\ Moved({w}, {}, <<>>)
    <2>1. ~waves[i].known
      BY <1>1, <1>11 DEF LineInv, KeptIn
    <2>2. \A u \in Wires \cap out : chan[u][1].type # "WAVE" \/ ~waves[chan[u][1].id].known
      BY <1>1, <2>1
    <2>3. UNCHANGED <<saved, inQueue, got, waves>> /\ "CONNECT" \in ProtocolTypes
      BY <1>1, <1>11 DEF ProtocolTypes
    <2>4. Moved(out, {}, <<>>)
      BY <1>11
    <2> HIDE DEF out
    <2> QED BY <1>1, <1>3, <2>2, <2>3, <2>4, LinesQuiet
  <1> QED BY <1>9, <1>10, <1>11 DEF Handled

\* What is on the lines after a wave is sent: its number N at the end of line up, the rest as
\* before.
Behind(M, N, up) ==
    /\ Line \in [Lines -> Seq(Nat)] /\ M \in [Lines -> Seq(Nat)] /\ up \in Lines
    /\ N > Len(waves) /\ N # 0 /\ Len(waves) \in Nat /\ N \in Nat
    /\ \A x \in Lines : \A k \in DOMAIN M[x] : M[x][k] # 0 =>
          \/ /\ k \in DOMAIN Line[x] /\ M[x][k] = Line[x][k] /\ Line[x][k] # 0
             /\ M[x][k] \in DOMAIN waves /\ M[x][k] \in Nat /\ M[x][k] <= Len(waves)
          \/ x = up /\ k = Len(Line[up]) + 1 /\ M[x][k] = N
    /\ \A x \in Lines : \A k \in DOMAIN Line[x] : k \in DOMAIN M[x] /\ M[x][k] = Line[x][k]
    /\ Len(Line[up]) + 1 \in DOMAIN M[up] /\ M[up][Len(Line[up]) + 1] = N
    /\ OnceIn(M)

LEMMA SentStands ==
  ASSUME TypeInv, TypeInv', SentOnly, OnceIn(Line), NEW a \in Agents, NEW c \in Agents, SendWave(c, a),
         NEW M, M = Line', NEW N, N = Len(waves) + 1
  PROVE  Behind(M, N, <<0, Up(c)>>)
  <1> DEFINE up == <<0, Up(c)>>
             m == Wave(Len(waves) + 1, 0)
             ms == <<m>>
             in == {Up(c)}
  <1>0. /\ TypeOK /\ Len(waves) \in Nat /\ Len(waves) + 1 \in Ids
    <2>1. TypeOK
      BY DEF TypeInv
    <2>2. Len(waves) \in Nat /\ Len(waves) < MaxWaves
      BY <2>1 DEF TypeOK, SendWave
    <2>3. Len(waves) + 1 \in Ids
      BY <2>2, BoundsAssumption DEF Ids
    <2> QED BY <2>1, <2>2, <2>3
  <1>1. saved' = saved /\ inQueue' = inQueue /\ got' = got
    BY DEF SendWave, shardVars, homeVars
  <1>2. m \in Message /\ Num(m) = Len(waves) + 1
    BY <1>0, MessageForms DEF Num
  <1>3. ms \in Seq(Message) /\ Moved({}, in, ms)
    BY <1>0, <1>2, SendMoves DEF SendWave
  <1>5. N \in Nat /\ N \in Ids /\ N = Num(m) /\ Nums(ms) = <<N>>
    <2>1. N \in Nat /\ N \in Ids /\ N = Num(m)
      BY <1>0, <1>2
    <2>2. PICK k \in Nat : k = Num(m)
      BY <2>1
    <2> HIDE DEF m
    <2>3. DOMAIN <<m>> = {1} /\ <<m>>[1] = m /\ DOMAIN <<k>> = {1} /\ <<k>>[1] = k
      OBVIOUS
    <2>4. Nums(<<m>>) = <<k>>
      BY <2>2, <2>3 DEF Nums
    <2> QED BY <2>1, <2>2, <2>4
  <1>9. /\ up \in Lines
        /\ \A u : (<<0, u>> = up <=> u = Up(c)) /\ (u \in in <=> u = Up(c))
    <2>1. Up(c) \in Wires
      BY <1>0, RegionAssumption DEF Up, TypeOK, Wires
    <2>2. up \in Lines
      BY <2>1, LinesAre DEF Lined
    <2> QED BY <2>2
  <1>10. /\ Line \in [Lines -> Seq(Nat)] /\ M \in [Lines -> Seq(Nat)]
         /\ \A x \in Lines : /\ x # up => M[x] = Line[x]
                             /\ x = up => M[x] = Line[x] \o <<N>>
    <2>1. Lined(Line, chan, saved, inQueue, got) /\ Lined(M, chan', saved', inQueue', got')
      BY LinesAre, LinesAfter
    <2>2. /\ Line \in [Lines -> Seq(Nat)] /\ M \in [Lines -> Seq(Nat)]
      BY <2>1 DEF Lined
    <2>3. ASSUME NEW b \in Agents, NEW x, x \in {<<1, b>>, <<2, b>>, <<3, b>>}
          PROVE  x # up /\ M[x] = Line[x]
      <3>1. x # up
        BY <2>3
      <3>2. CASE x = <<1, b>>
        <4>1. Line[x] = Nums(saved[b]) /\ M[x] = Nums(saved'[b])
          BY <2>1, <3>2 DEF Lined
        <4> QED BY <1>1, <3>1, <4>1
      <3>3. CASE x = <<2, b>>
        <4>1. Line[x] = inQueue[b] /\ M[x] = inQueue'[b]
          BY <2>1, <3>3 DEF Lined
        <4> QED BY <1>1, <3>1, <4>1
      <3>4. CASE x = <<3, b>>
        <4>1. Line[x] = got[b] /\ M[x] = got'[b]
          BY <2>1, <3>4 DEF Lined
        <4> QED BY <1>1, <3>1, <4>1
      <3> QED BY <2>3, <3>1, <3>2, <3>3, <3>4
    <2>4. ASSUME NEW u \in Wires, NEW x, x = <<0, u>>
          PROVE  /\ x # up => M[x] = Line[x]
                 /\ x = up => M[x] = Line[x] \o <<N>>
      <3>1. Line[x] = Nums(chan[u]) /\ M[x] = Nums(chan'[u]) /\ chan[u] \in Seq(Message)
        BY <1>0, <2>1, <2>4 DEF Lined, TypeOK
      <3>2. chan'[u] = IF x = up THEN chan[u] \o ms ELSE chan[u]
        <4>1. chan[u] \o <<>> = chan[u]
          BY <3>1
        <4> HIDE DEF in, ms, up
        <4> QED BY <1>3, <1>9, <2>4, <4>1 DEF Moved
      <3>3. CASE x = up
        <4>1. PICK s \in Seq(Message) : s = chan[u]
          BY <3>1
        <4>2. PICK t \in Message : t = m
          BY <1>2
        <4>3. Append(s, t) = s \o <<t>>
          OBVIOUS
        <4>4. Nums(Append(s, t)) = Nums(s) \o <<Num(t)>>
          BY <1>5, <4>2, NumsAppend
        <4> QED BY <1>5, <3>1, <3>2, <3>3, <4>1, <4>2, <4>3, <4>4
      <3> QED BY <3>1, <3>2, <3>3
    <2> HIDE DEF up
    <2>5. ASSUME NEW x \in Lines
          PROVE  /\ x # up => M[x] = Line[x]
                 /\ x = up => M[x] = Line[x] \o <<N>>
      <3>1. (\E u \in Wires : x = <<0, u>>) \/ \E b \in Agents : x \in {<<1, b>>, <<2, b>>, <<3, b>>}
        BY <2>1 DEF Lined
      <3> QED BY <2>3, <2>4, <3>1
    <2> QED BY <2>2, <2>5
  <1> HIDE DEF up, m, ms, in
  <1>11. ASSUME NEW x \in Lines, NEW k \in DOMAIN M[x], M[x][k] # 0
         PROVE  \/ /\ k \in DOMAIN Line[x] /\ M[x][k] = Line[x][k] /\ Line[x][k] # 0
                   /\ M[x][k] \in DOMAIN waves /\ M[x][k] \in Nat /\ M[x][k] <= Len(waves)
                \/ x = up /\ k = Len(Line[up]) + 1 /\ M[x][k] = N
    <2>1. CASE x = up /\ k \notin DOMAIN Line[x]
      <3>1. PICK l \in Seq(Nat) : l = Line[up]
        BY <1>9, <1>10
      <3>2. M[x] = l \o <<N>>
        BY <1>10, <2>1, <3>1
      <3> QED BY <1>5, <2>1, <3>1, <3>2
    <2>2. CASE k \in DOMAIN Line[x]
      <3>1. M[x][k] = Line[x][k]
        <4>1. CASE x = up
          <5>1. PICK l \in Seq(Nat) : l = Line[up]
            BY <1>9, <1>10
          <5>2. M[x] = l \o <<N>>
            BY <1>10, <4>1, <5>1
          <5> QED BY <1>5, <2>2, <4>1, <5>1, <5>2
        <4> QED BY <1>10, <4>1
      <3>2. Line[x][k] # 0
        BY <1>11, <3>1
      <3> QED BY <2>2, <3>1, <3>2 DEF SentOnly
    <2>3. x # up => k \in DOMAIN Line[x]
      BY <1>10
    <2> QED BY <2>1, <2>2, <2>3
  <1>12. /\ \A x \in Lines : \A k \in DOMAIN Line[x] : k \in DOMAIN M[x] /\ M[x][k] = Line[x][k]
         /\ Len(Line[up]) + 1 \in DOMAIN M[up] /\ M[up][Len(Line[up]) + 1] = N
    <2>1. PICK l \in Seq(Nat) : l = Line[up]
      BY <1>9, <1>10
    <2>2. M[up] = l \o <<N>>
      BY <1>9, <1>10, <2>1
    <2>3. /\ Len(l) + 1 \in DOMAIN (l \o <<N>>) /\ (l \o <<N>>)[Len(l) + 1] = N
          /\ \A k \in DOMAIN l : k \in DOMAIN (l \o <<N>>) /\ (l \o <<N>>)[k] = l[k]
      BY <1>5
    <2> QED BY ZenonT(60), <1>10, <2>1, <2>2, <2>3
  <1>13. N > Len(waves) /\ N # 0 /\ Len(waves) \in Nat
    BY <1>0
  <1>14. \A x, y \in Lines : \A k \in DOMAIN M[x], l \in DOMAIN M[y] :
            M[x][k] # 0 /\ M[x][k] = M[y][l] => x = y /\ k = l
    <2>1. SUFFICES ASSUME NEW x \in Lines, NEW y \in Lines, NEW k \in DOMAIN M[x], NEW l \in DOMAIN M[y],
                          M[x][k] # 0, M[x][k] = M[y][l]
                   PROVE  x = y /\ k = l
      OBVIOUS
    <2>2. \/ k \in DOMAIN Line[x] /\ M[x][k] = Line[x][k] /\ Line[x][k] # 0 /\ M[x][k] \in Nat /\ M[x][k] <= Len(waves)
          \/ x = up /\ k = Len(Line[up]) + 1 /\ M[x][k] = N
      BY <2>1, <1>11
    <2>3. \/ l \in DOMAIN Line[y] /\ M[y][l] = Line[y][l] /\ Line[y][l] # 0 /\ M[y][l] \in Nat /\ M[y][l] <= Len(waves)
          \/ y = up /\ l = Len(Line[up]) + 1 /\ M[y][l] = N
      BY <2>1, <1>11
    <2>4. CASE k \in DOMAIN Line[x] /\ M[x][k] = Line[x][k] /\ l \in DOMAIN Line[y] /\ M[y][l] = Line[y][l]
      <3>1. Line[x][k] # 0 /\ Line[x][k] = Line[y][l]
        BY <2>1, <2>4
      <3> QED BY <2>4, <3>1 DEF OnceIn
    <2>5. ~(N \in Nat /\ N <= Len(waves))
      BY <1>13
    <2> QED BY <2>1, <2>2, <2>3, <2>4, <2>5
  <1>15. OnceIn(M)
    BY <1>14 DEF OnceIn
  <1>16. Behind(M, N, up)
    BY <1>5, <1>9, <1>10, <1>11, <1>12, <1>13, <1>15 DEF Behind
  <1> QED BY <1>16 DEF up

\* A wave that is sent stands behind the others on the wire to the server of its agent.
LEMMA LinesOfSends ==
  ASSUME TypeInv, TypeInv', EachWave, EachWay, LineInv, NEW a \in Agents, NEW c \in Agents, SendWave(c, a)
  PROVE  LineInv'
  <1> DEFINE up == <<0, Up(c)>>
             W == [from : Agents, to : Agents, known : BOOLEAN]
             r == [from |-> c, to |-> a, known |-> status[a] # "none"]
  <1>0. /\ TypeOK /\ Stays(c) /\ Len(waves) \in Nat /\ Len(waves) + 1 \in Ids
        /\ OnceIn(Line) /\ KeptIn(Line) /\ OrderIn(Line)
    <2>1. TypeOK /\ Stays(c) /\ OnceIn(Line) /\ KeptIn(Line) /\ OrderIn(Line)
      BY DEF TypeInv, EachWay, WayInv, LineInv
    <2>2. Len(waves) \in Nat /\ Len(waves) < MaxWaves
      BY <2>1 DEF TypeOK, SendWave
    <2>3. Len(waves) + 1 \in Ids
      BY <2>2, BoundsAssumption DEF Ids
    <2> QED BY <2>1, <2>2, <2>3
  <1>1. /\ UNCHANGED <<shardVars, homeVars>> /\ waves' = Append(waves, r) /\ status' = status
        /\ saved' = saved /\ inQueue' = inQueue /\ got' = got
    BY DEF SendWave, shardVars, homeVars
  <1>4. PICK N : N = Len(waves) + 1
    OBVIOUS
  <1>6. PICK M : M = Line'
    OBVIOUS
  <1>7. PICK w : w = waves'
    OBVIOUS
  <1>8. /\ DOMAIN waves = 1 .. Len(waves) /\ DOMAIN w = 1 .. N /\ w[N] = r
        /\ \A i \in 1 .. Len(waves) : w[i] = waves[i]
    <2>1. waves \in Seq(W)
      BY <1>0 DEF TypeOK
    <2> HIDE DEF W, r
    <2> QED BY <1>1, <1>4, <1>7, <2>1
  <1>9. up \in Lines /\ Rank(up) = 6
    <2>1. Up(c) \in Wires /\ Up(c)[1] \in Nodes
      BY <1>0, RegionAssumption DEF Up, TypeOK, Wires
    <2>2. up \in Lines
      BY <2>1, LinesAre DEF Lined
    <2> QED BY <2>1, <2>2, RankIs
  <1>10. Behind(M, N, up)
    <2>1. SentOnly
      BY NumbersAreOld DEF SentOnly
    <2> QED BY <1>0, <1>4, <1>6, <2>1, SentStands
  <1> HIDE DEF up
  <1>11. ASSUME NEW x \in Lines, NEW k \in DOMAIN M[x], M[x][k] # 0
         PROVE  \/ /\ k \in DOMAIN Line[x] /\ M[x][k] = Line[x][k] /\ Line[x][k] # 0
                   /\ M[x][k] \in DOMAIN waves /\ M[x][k] \in Nat /\ M[x][k] <= Len(waves)
                \/ x = up /\ k = Len(Line[up]) + 1 /\ M[x][k] = N
    BY <1>10, <1>11 DEF Behind
  <1>12. /\ \A x \in Lines : \A k \in DOMAIN Line[x] : k \in DOMAIN M[x] /\ M[x][k] = Line[x][k]
         /\ Len(Line[up]) + 1 \in DOMAIN M[up] /\ M[up][Len(Line[up]) + 1] = N
    BY <1>10 DEF Behind
  <1>13. N > Len(waves) /\ N # 0 /\ Len(waves) \in Nat /\ N \in Nat
    BY <1>10 DEF Behind
  <1>14. OnceIn(M)
    BY <1>10 DEF Behind
  <1>15. \A i \in DOMAIN w : w[i].known => /\ status[w[i].to] # "none"
                                           /\ \E x \in Lines : \E k \in DOMAIN M[x] : M[x][k] = i
    <2> SUFFICES ASSUME NEW i \in DOMAIN w, w[i].known
                 PROVE  /\ status[w[i].to] # "none"
                        /\ \E x \in Lines : \E k \in DOMAIN M[x] : M[x][k] = i
      OBVIOUS
    <2>1. CASE i \in 1 .. Len(waves)
      <3>1. w[i] = waves[i] /\ i \in DOMAIN waves
        BY <1>8, <2>1
      <3>2. status[waves[i].to] # "none" /\ \E x \in Lines : \E k \in DOMAIN Line[x] : Line[x][k] = i
        BY <1>0, <3>1 DEF KeptIn
      <3> QED BY <1>12, <3>1, <3>2
    <2>2. CASE i = N
      <3>0. w[i] = r
        BY <1>8, <2>2
      <3>1. w[i].to = a
        BY <3>0
      <3>2. \A p : [from |-> c, to |-> a, known |-> p].known = p
        OBVIOUS
      <3>3. status[a] # "none"
        <4>1. r.known = (status[a] # "none")
          BY <3>2, Zenon
        <4> HIDE DEF r
        <4> QED BY <3>0, <4>1, Zenon
      <3> QED BY <1>9, <1>12, <2>2, <3>1, <3>3
    <2>3. i \in 1 .. Len(waves) \/ i = N
      BY <1>4, <1>8, <1>13
    <2> QED BY <2>1, <2>2, <2>3
  <1> DEFINE P(i, j) == /\ i \in DOMAIN w /\ j \in DOMAIN w /\ i < j /\ Near(w[i])
                        /\ w[i].from = w[j].from /\ w[i].to = w[j].to
  <1>16. \A x, y \in Lines : \A k \in DOMAIN M[x], l \in DOMAIN M[y] :
            P(M[x][k], M[y][l]) => Rank(x) < Rank(y) \/ (x = y /\ k < l)
    <2>1. SUFFICES ASSUME NEW x \in Lines, NEW y \in Lines, NEW k \in DOMAIN M[x], NEW l \in DOMAIN M[y],
                          P(M[x][k], M[y][l])
                   PROVE  Rank(x) < Rank(y) \/ (x = y /\ k < l)
      OBVIOUS
    <2>2. PICK i, j : i = M[x][k] /\ j = M[y][l]
      OBVIOUS
    <2>3. /\ i \in 1 .. N /\ j \in 1 .. N /\ i < j /\ Near(w[i])
          /\ w[i].from = w[j].from /\ w[i].to = w[j].to
      BY <1>8, <2>1, <2>2
    <2>4. i # 0 /\ j # 0 /\ i # N /\ i \in 1 .. Len(waves)
      BY <1>4, <1>13, <2>3
    <2>5. /\ k \in DOMAIN Line[x] /\ i = Line[x][k] /\ i \in DOMAIN waves /\ w[i] = waves[i]
      BY <1>8, <1>11, <2>2, <2>4
    <2>6. CASE l \in DOMAIN Line[y] /\ j = Line[y][l] /\ j \in DOMAIN waves
      <3>1. w[j] = waves[j]
        BY <1>8, <2>6
      <3>2. Pair(Line[x][k], Line[y][l])
        BY <2>3, <2>5, <2>6, <3>1 DEF Pair
      <3> QED BY <1>0, <2>5, <2>6, <3>2 DEF OrderIn
    <2>7. CASE y = up /\ l = Len(Line[up]) + 1 /\ j = N
      <3>1. waves[i].from = c /\ waves[i].to = a /\ Near(waves[i])
        BY <1>8, <2>3, <2>5, <2>7
      <3>2. NearPlace(x, c, a)
        BY <2>5, <3>1, NearPlaces
      <3>3. x = <<0, <<Origin[c], Home(a)>>>> => x = up
        <4>1. c \notin Movers /\ Region[Origin[c]] = Home(a)
          BY <3>1 DEF Near
        <4>2. node[c] = Origin[c]
          BY <1>0, <4>1 DEF Stays
        <4> QED BY <4>1, <4>2 DEF up, Up
      <3>4. x = up => k < l
        <4>1. PICK s \in Seq(Nat) : s = Line[up]
          BY <1>9, <1>10 DEF Behind
        <4>2. x = up => k \in DOMAIN s
          BY <2>5, <4>1
        <4> QED BY <2>7, <4>1, <4>2
      <3>5. x = up \/ Rank(x) \in {5, 4, 3, 2, 1}
        BY <3>2, <3>3 DEF NearPlace
      <3> QED BY <1>9, <2>7, <3>4, <3>5
    <2> QED BY <1>11, <2>2, <2>4, <2>6, <2>7
  <1>17. Lines' = Lines
    BY DEF Lines, Wires
  <1>18. OnceIn(Line)'
    BY <1>6, <1>14, <1>17 DEF OnceIn
  <1>19. KeptIn(Line)'
    BY <1>1, <1>6, <1>7, <1>15, <1>17 DEF KeptIn
  <1>20. \A i, j : Pair(i, j)' <=> P(i, j)
    BY <1>7 DEF Pair, Near, Home
  <1>21. \A x : Rank(x)' = Rank(x)
    BY DEF Rank
  <1> HIDE DEF P
  <1>22. OrderIn(Line)'
    BY <1>6, <1>16, <1>17, <1>20, <1>21 DEF OrderIn
  <1> QED BY <1>18, <1>19, <1>22 DEF LineInv

-----------------------------------------------------------------------------
(* The invariant and what follows from it.                                 *)

LEMMA LineInvInit == Init => LineInv
  <1> SUFFICES ASSUME Init PROVE LineInv
    OBVIOUS
  <1>1. TypeInv
    BY TypeInvInit
  <1>2. /\ \A u \in Wires : chan[u] = <<>>
        /\ \A a \in Agents : saved[a] = <<>> /\ inQueue[a] = <<>> /\ got[a] = <<>>
        /\ waves = <<>>
    BY DEF Init
  <1>3. Nums(<<>>) = <<>> /\ DOMAIN <<>> = {}
    BY DEF Nums
  <1>4. \A x \in Lines : DOMAIN Line[x] = {}
    <2>1. Lined(Line, chan, saved, inQueue, got)
      BY <1>1, LinesAre
    <2> SUFFICES ASSUME NEW x \in Lines PROVE Line[x] = <<>>
      BY <1>3
    <2>2. CASE \E u \in Wires : x = <<0, u>>
      BY <1>2, <1>3, <2>1, <2>2 DEF Lined
    <2>3. CASE \E a \in Agents : x \in {<<1, a>>, <<2, a>>, <<3, a>>}
      <3>1. PICK a \in Agents : x \in {<<1, a>>, <<2, a>>, <<3, a>>}
        BY <2>3
      <3>2. /\ Line[<<1, a>>] = Nums(saved[a]) /\ Line[<<2, a>>] = inQueue[a] /\ Line[<<3, a>>] = got[a]
        BY <2>1 DEF Lined
      <3>3. saved[a] = <<>> /\ inQueue[a] = <<>> /\ got[a] = <<>>
        BY <1>2
      <3> QED BY <1>3, <3>1, <3>2, <3>3
    <2> QED BY <2>1, <2>2, <2>3 DEF Lined
  <1>5. DOMAIN waves = {}
    BY <1>2
  <1> QED BY <1>4, <1>5 DEF LineInv, OnceIn, KeptIn, OrderIn

LEMMA LineInvNext ==
  ASSUME ~Impatient, TypeInv, EachAgent, EachWave, EachWay, LineInv, [Next]_vars
  PROVE  LineInv'
  <1>0. TypeInv'
    BY TypeInvNext
  <1>1. CASE UNCHANGED vars
    <2>1. /\ inQueue' = inQueue /\ got' = got /\ waves' = waves
          /\ status' = status /\ saved' = saved /\ chan' = chan
      BY <1>1 DEF vars, shardVars, homeVars
    <2>2. PICK M : M = Line'
      OBVIOUS
    <2>3. M = Line
      BY <2>1, <2>2 DEF Line, LineOf, Lines, Wires, Nums, Num
    <2>4. OnceIn(M) /\ OrderIn(M) /\ KeptIn(M)
      BY <2>3 DEF LineInv
    <2>5. \A i \in DOMAIN waves : waves[i].known =>
            /\ status'[waves[i].to] # "none"
            /\ \E x \in Lines : \E k \in DOMAIN M[x] : M[x][k] = i
      BY <2>1, <2>4 DEF KeptIn
    <2> QED BY <2>1, <2>2, <2>4, <2>5, LinesThen
  <1>2. ASSUME NEW a \in Agents, Start(a) \/ Depart(a) \/ Arrive(a) PROVE LineInv'
    BY <1>0, <1>2, LinesOfAgents
  <1>3. ASSUME NEW a \in Agents, NEW c \in Agents, SendWave(c, a) PROVE LineInv'
    BY <1>0, <1>3, LinesOfSends
  <1>4. ASSUME NEW a \in Movers, NEW n \in Nodes, Move(a, n) PROVE LineInv'
    <2>1. a \in Agents
      BY OriginAssumption
    <2> QED BY <1>0, <1>4, <2>1, LinesOfAgents
  <1>5. ASSUME NEW s \in Servers, NEW w \in Wires, Serve(s, w) PROVE LineInv'
    <2>1. CASE ConnectHome(s, w) \/ AgentUpdate(s, w)
      <3>1. PICK v, ms : Drains(w, Head(chan[w]).agent, v, ms)
        BY <2>1, SavedSteps
      <3> QED BY <1>0, <3>1, LinesOfSaved
    <2>2. CASE Content(s, w)
      <3>1. Handled(w, Head(chan[w]).id, waves[Head(chan[w]).id].to)
        BY <2>2, ContentSteps
      <3> QED BY <1>0, <3>1, LinesOfContent
    <2>3. CASE Register(s, w) \/ ConnectGuest(s, w) \/ ReqLeave(s, w) \/ ReqBuffer(s, w) \/ ReqAccept(s, w)
      BY <1>0, <2>3, LinesOfProtocol
    <2> QED BY <1>5, <2>1, <2>2, <2>3 DEF Serve
  <1>6. ASSUME NEW n \in Nodes, Receive(n) PROVE LineInv'
    BY <1>0, <1>6, LinesOfPylons
  <1> QED BY <1>1, <1>2, <1>3, <1>4, <1>5, <1>6 DEF Next

\* All that is invariant: the types, where the agents are, how far their waves go, which way
\* the waves take and how they stand in the lines.
RegionInv == TypeInv /\ EachAgent /\ EachWave /\ EachWay /\ LineInv

LEMMA RegionInvHolds ==
  ASSUME ~Impatient PROVE Spec => []RegionInv
<1>1. Init => RegionInv
  <2>1. Init => EachWave
    <3> SUFFICES ASSUME Init, NEW a \in Agents PROVE WavesInv(a)
      BY DEF EachWave
    <3>1. (\A w \in Wires : DOMAIN chan[w] = {}) /\ DOMAIN saved[a] = {}
      BY DEF Init
    <3> QED BY <3>1 DEF WavesInv, Hops, BeforeLeave, SavedHops
  <2> QED BY <2>1, TypeInvInit, EachAgentInit, EachWayInit, LineInvInit DEF RegionInv
<1>2. RegionInv /\ [Next]_vars => RegionInv'
  BY TypeInvNext, EachAgentNext, EachWaveNext, EachWayNext, LineInvNext DEF RegionInv
<1> QED BY <1>1, <1>2, PTL DEF Spec

\* For any servers, nodes and agents, and as many waves and moves as one likes, while no agent
\* calls moveTo again before it left: what reaches an agent from one that stays in its home
\* region is in the order of sending.
THEOREM HomeWavesInOrder ==
  ASSUME ~Impatient PROVE Spec => []HomeOrder
<1>1. RegionInv => HomeOrder
  <2> SUFFICES ASSUME RegionInv, NEW a \in Agents, NEW k \in DOMAIN got[a], NEW l \in DOMAIN got[a], k < l,
                      NEW b, b = waves[got[a][k]].from, b = waves[got[a][l]].from,
                      b \notin Movers, Region[Origin[b]] = Home(a)
               PROVE  got[a][k] < got[a][l]
    BY DEF HomeOrder
  <2>1. TypeInv /\ TypeOK /\ Queued(a) /\ OnceIn(Line) /\ OrderIn(Line)
    BY DEF RegionInv, TypeInv, EachWay, WayInv, LineInv
  <2>2. PICK i, j : i = got[a][k] /\ j = got[a][l]
    OBVIOUS
  <2>3. /\ i \in DOMAIN waves /\ waves[i].to = a /\ j \in DOMAIN waves /\ waves[j].to = a
    BY <2>1, <2>2 DEF Queued
  <2>4. i \in Nat /\ j \in Nat /\ i # 0 /\ k \in Nat /\ l \in Nat
    <3>1. DOMAIN waves = 1 .. Len(waves) /\ DOMAIN got[a] = 1 .. Len(got[a])
      BY <2>1 DEF TypeOK
    <3> QED BY <2>3, <3>1
  <2>5. PICK x : x = <<3, a>>
    OBVIOUS
  <2>6. x \in Lines /\ Line[x] = got[a]
    BY <2>1, <2>5, LinesAre DEF Lined
  <2>7. i # j
    <3>1. k # l
      BY <2>4
    <3>2. Line[x][k] = i /\ Line[x][l] = j /\ k \in DOMAIN Line[x] /\ l \in DOMAIN Line[x]
      BY <2>2, <2>6
    <3> QED BY <2>1, <2>4, <2>6, <3>1, <3>2 DEF OnceIn
  <2>8. ~(j < i)
    <3> SUFFICES ASSUME j < i PROVE FALSE
      OBVIOUS
    <3>1. Near(waves[j])
      BY <2>2, <2>3 DEF Near
    <3>2. Pair(Line[x][l], Line[x][k])
      BY <2>2, <2>3, <2>6, <3>1 DEF Pair
    <3>3. Rank(x) < Rank(x) \/ l < k
      BY <2>1, <2>6, <3>2 DEF OrderIn
    <3>4. Rank(x) = 1
      BY <2>5, RankIs
    <3> QED BY <2>4, <3>3, <3>4
  <2> QED BY <2>2, <2>4, <2>7, <2>8
<1> QED BY <1>1, RegionInvHolds, PTL

\* A set without two elements.
LEMMA OneOrNone ==
  ASSUME NEW S, \A p, q \in S : p = q
  PROVE  Cardinality(S) = IF S = {} THEN 0 ELSE 1
  <1>1. CASE S = {}
    BY <1>1, FS_EmptySet
  <1>2. CASE S # {}
    <2>1. PICK p \in S : TRUE
      BY <1>2
    <2>2. S = {p}
      BY <2>1
    <2>3. Cardinality({p}) = 1
      BY FS_Singleton
    <2> QED BY <1>2, <2>2, <2>3
  <1> QED BY <1>1, <1>2

\* The places where the number of a wave for agent a may stand.
SavedAt(i, a) == {k \in DOMAIN saved[a] : saved[a][k].type = "WAVE" /\ saved[a][k].id = i}
NumberAt(i, q) == {k \in DOMAIN q : q[k] = i}

\* A number that stands once is counted once.
LEMMA CountedOnce ==
  ASSUME TypeInv, OnceIn(Line), NEW i, i # 0, NEW a \in Agents,
         NEW n, n = Cardinality(OnWires(i)) + Copies(i, saved[a]) + InShard(i, inQueue[a]) + InShard(i, got[a])
  PROVE  /\ n <= 1
         /\ OnWires(i) # {} \/ SavedAt(i, a) # {} \/ NumberAt(i, inQueue[a]) # {} \/ NumberAt(i, got[a]) # {} => n = 1
  <1>1. TypeOK
    BY DEF TypeInv
  <1>3. Lined(Line, chan, saved, inQueue, got)
    BY LinesAre
  <1> DEFINE A == OnWires(i)
             B == SavedAt(i, a)
             C == NumberAt(i, inQueue[a])
             D == NumberAt(i, got[a])
             At(x, k) == x \in Lines /\ k \in DOMAIN Line[x] /\ Line[x][k] = i
  <1>4. \A x, y, k, l : At(x, k) /\ At(y, l) => x = y /\ k = l
    BY DEF OnceIn
  <1>5. ASSUME NEW p \in A
        PROVE  \E w, k : p = <<w, k>> /\ At(<<0, w>>, k)
    <2>0. PICK w \in Wires : \E k \in DOMAIN chan[w] : p = <<w, k>> /\ chan[w][k].type = "WAVE" /\ chan[w][k].id = i
      BY DEF OnWires
    <2>1. PICK k \in DOMAIN chan[w] : p = <<w, k>> /\ chan[w][k].type = "WAVE" /\ chan[w][k].id = i
      BY <2>0
    <2>2. Line[<<0, w>>] = Nums(chan[w]) /\ <<0, w>> \in Lines /\ chan[w] \in Seq(Message)
      BY <1>1, <1>3 DEF Lined, TypeOK
    <2>3. At(<<0, w>>, k)
      BY <2>1, <2>2, NumsOf DEF Num
    <2> QED BY <2>1, <2>3
  <1>6. \A k \in B : At(<<1, a>>, k)
    <2>1. Line[<<1, a>>] = Nums(saved[a]) /\ <<1, a>> \in Lines /\ saved[a] \in Seq(Message)
      BY <1>1, <1>3 DEF Lined, TypeOK
    <2> QED BY <2>1, NumsOf DEF Num, SavedAt
  <1>7. (\A k \in C : At(<<2, a>>, k)) /\ (\A k \in D : At(<<3, a>>, k))
    BY <1>3 DEF Lined, NumberAt
  <1>9. n = Cardinality(A) + Cardinality(B) + Cardinality(C) + Cardinality(D)
    BY DEF Copies, InShard, SavedAt, NumberAt
  <1> HIDE DEF A, B, C, D, At
  <1>11. ASSUME NEW p \in A, NEW q \in A PROVE p = q
    <2>1. PICK w, k : p = <<w, k>> /\ At(<<0, w>>, k)
      BY <1>5
    <2>2. PICK v, l : q = <<v, l>> /\ At(<<0, v>>, l)
      BY <1>5
    <2>3. <<0, w>> = <<0, v>> /\ k = l
      BY <1>4, <2>1, <2>2
    <2>4. w = v
      BY <2>3
    <2> QED BY <2>1, <2>2, <2>3, <2>4
  <1>12. /\ \A k, l \in B : k = l
         /\ \A k, l \in C : k = l
         /\ \A k, l \in D : k = l
    BY <1>4, <1>6, <1>7
  <1>13. /\ A # {} => B = {} /\ C = {} /\ D = {}
         /\ B # {} => C = {} /\ D = {}
         /\ C # {} => D = {}
    <2> DEFINE Stand(x) == \E k : At(x, k)
    <2>1. /\ B # {} => Stand(<<1, a>>)
          /\ C # {} => Stand(<<2, a>>)
          /\ D # {} => Stand(<<3, a>>)
      BY <1>6, <1>7
    <2>2. A # {} => \E u : Stand(<<0, u>>)
      <3> SUFFICES ASSUME NEW p \in A PROVE \E u : Stand(<<0, u>>)
        OBVIOUS
      <3>1. PICK u, k : At(<<0, u>>, k)
        BY <1>5
      <3> QED BY <3>1
    <2>3. \A x, y : Stand(x) /\ Stand(y) => x = y
      BY <1>4
    <2> HIDE DEF Stand
    <2>4. \A u : <<0, u>> # <<1, a>> /\ <<0, u>> # <<2, a>> /\ <<0, u>> # <<3, a>>
      OBVIOUS
    <2>5. <<1, a>> # <<2, a>> /\ <<1, a>> # <<3, a>> /\ <<2, a>> # <<3, a>>
      OBVIOUS
    <2> QED BY <2>1, <2>2, <2>3, <2>4, <2>5
  <1>14. /\ Cardinality(A) = (IF A = {} THEN 0 ELSE 1) /\ Cardinality(B) = (IF B = {} THEN 0 ELSE 1)
         /\ Cardinality(C) = (IF C = {} THEN 0 ELSE 1) /\ Cardinality(D) = (IF D = {} THEN 0 ELSE 1)
    BY <1>11, <1>12, OneOrNone
  <1>15. n <= 1 /\ (A # {} \/ B # {} \/ C # {} \/ D # {} => n = 1)
    BY <1>9, <1>13, <1>14
  <1> QED BY <1>15 DEF A, B, C, D

\* Under the same condition: no wave for an agent that was registered is lost, and none is
\* doubled.
THEOREM NoWaveLost ==
  ASSUME ~Impatient PROVE Spec => []NothingLost
<1>1. RegionInv => NothingLost
  <2> SUFFICES ASSUME RegionInv, NEW i \in DOMAIN waves, NEW a, a = waves[i].to,
                      NEW n, n = Cardinality(OnWires(i)) + Copies(i, saved[a]) + InShard(i, inQueue[a])
                                 + InShard(i, got[a])
               PROVE  n <= 1 /\ (waves[i].known => n = 1)
    BY DEF NothingLost
  <2>1. TypeInv /\ TypeOK /\ EachWave /\ EachWay /\ OnceIn(Line) /\ KeptIn(Line)
    BY DEF RegionInv, TypeInv, LineInv
  <2>2. a \in Agents /\ i # 0
    <3> DEFINE W == [from : Agents, to : Agents, known : BOOLEAN]
    <3>1. waves \in Seq(W)
      BY <2>1 DEF TypeOK
    <3> HIDE DEF W
    <3>2. waves[i] \in W /\ i # 0
      BY <3>1
    <3> QED BY <3>2 DEF W
  <2> DEFINE Somewhere == \/ OnWires(i) # {} \/ SavedAt(i, a) # {} \/ NumberAt(i, inQueue[a]) # {}
                      \/ NumberAt(i, got[a]) # {}
  <2>3. waves[i].known => Somewhere
    <3> SUFFICES ASSUME waves[i].known PROVE Somewhere
      OBVIOUS
    <3>1. PICK x \in Lines : \E k \in DOMAIN Line[x] : Line[x][k] = i
      BY <2>1 DEF KeptIn
    <3>2. PICK k \in DOMAIN Line[x] : Line[x][k] = i
      BY <3>1
    <3>3. CASE \E u : OnWire(x, k, i, u)
      <4>1. PICK u : OnWire(x, k, i, u)
        BY <3>3
      <4>2. <<u, k>> \in OnWires(i)
        BY <4>1 DEF OnWire, OnWires
      <4> QED BY <4>2
    <3>4. CASE \E c : InSaved(x, k, i, c)
      <4>1. PICK c : InSaved(x, k, i, c)
        BY <3>4
      <4>2. c = a
        BY <2>1, <4>1 DEF InSaved, EachWave, WavesInv, SavedHops
      <4> QED BY <4>1, <4>2 DEF InSaved, SavedAt
    <3>5. CASE \E c : InShards(x, k, i, c)
      <4>1. PICK c : InShards(x, k, i, c)
        BY <3>5
      <4>2. c = a
        BY <2>1, <4>1 DEF InShards, EachWay, WayInv, Queued
      <4> QED BY <4>1, <4>2 DEF InShards, NumberAt
    <3> QED BY <2>1, <2>2, <3>2, <3>3, <3>4, <3>5, Stands
  <2>4. n <= 1 /\ (Somewhere => n = 1)
    BY <2>1, <2>2, CountedOnce
  <2> QED BY <2>3, <2>4
<1> QED BY <1>1, RegionInvHolds, PTL

-----------------------------------------------------------------------------
(* The waves when the handlers interleave: RegionThreads.                  *)

\* Every number is that of a wave that was sent, and stands once.
Alone == OnceIn(Line) /\ SentOnly

LEMMA AloneGoes ==
  ASSUME Alone, UNCHANGED waves, NEW M, M = Line', NEW sh, NEW src, NEW dst, NEW e, Goes(Line, M, sh, src, dst, e)
  PROVE  Alone'
  <1>0. PICK L : L = Line
    OBVIOUS
  <1>1. Goes(L, M, sh, src, dst, e) /\ OnceIn(L)
    BY <1>0 DEF Alone
  <1>2. OnceIn(M)
    BY <1>1, OnceStays
  <1>3. ASSUME NEW x \in Lines, NEW k \in DOMAIN M[x], M[x][k] # 0
        PROVE  M[x][k] \in Nat /\ M[x][k] <= Len(waves) /\ M[x][k] \in DOMAIN waves
    <2>1. PICK p : Came(L, M, sh, src, dst, e, x, k, p)
      BY <1>1, <1>3, ComesFrom
    <2>2. \E y \in Lines : \E l \in DOMAIN L[y] : M[x][k] = L[y][l]
      BY <2>1 DEF Came, Old, New
    <2> QED BY <1>0, <1>3, <2>2 DEF Alone, SentOnly
  <1>4. Lines' = Lines
    BY DEF Lines, Wires
  <1>5. OnceIn(Line)'
    BY <1>2, <1>4 DEF OnceIn
  <1>6. SentOnly'
    BY <1>3, <1>4 DEF SentOnly
  <1> QED BY <1>5, <1>6 DEF Alone

LEMMA AloneShifts ==
  ASSUME TypeInv, TypeInv', Alone, UNCHANGED waves,
         NEW out, NEW in, NEW ms \in Seq(Message), Moved(out, in, ms),
         NEW c, NEW src, NEW dst, NEW e \in Seq(Nat), NEW M, M = Line', \A u \in Wires : <<0, u>> # c,
         WiresGet(in, ms, dst, e), AgentLines(M, c, dst, e), Takes(Line, Shed(out, c), src, e)
  PROVE  Alone'
  <1> DEFINE sh == Shed(out, c)
  <1>1. /\ M \in [Lines -> Seq(Nat)] /\ Line \in [Lines -> Seq(Nat)]
        /\ Shifts(Line, M, sh, dst, e)
    BY StepShifts
  <1>2. Takes(Line, sh, src, e)
    OBVIOUS
  <1> HIDE DEF sh
  <1>3. Goes(Line, M, sh, src, dst, e)
    BY <1>1, <1>2 DEF Goes
  <1> QED BY <1>3, AloneGoes

\* Nothing with a number is sent; line c of an agent may be cleared.
LEMMA AloneRests ==
  ASSUME TypeInv, TypeInv', Alone, UNCHANGED waves,
         NEW out, NEW in, NEW ms \in Seq(Message), Moved(out, in, ms), \A k \in DOMAIN ms : Num(ms[k]) = 0,
         NEW c, \A u \in Wires : <<0, u>> # c, NEW M, M = Line', AgentLines(M, c, Nowhere, <<>>)
  PROVE  Alone'
  <1> DEFINE e == <<>>
  <1>1. e \in Seq(Nat) /\ DOMAIN e = {} /\ (\A u : <<0, u>> # Nowhere) /\ AgentLines(M, c, Nowhere, e)
    BY DEF Nowhere
  <1> HIDE DEF e
  <1>2. WiresGet(in, ms, Nowhere, e)
    BY <1>1 DEF WiresGet
  <1>3. Takes(Line, Shed(out, c), Nowhere, e)
    BY <1>1 DEF Takes
  <1> QED BY <1>1, <1>2, <1>3, AloneShifts

\* No line of an agent changes.
LEMMA AgentsRest ==
  ASSUME TypeInv, TypeInv', UNCHANGED <<saved, inQueue, got>>, NEW M, M = Line', NEW e, NEW dst,
         \A b : <<1, b>> # dst /\ <<2, b>> # dst /\ <<3, b>> # dst
  PROVE  AgentLines(M, Nowhere, dst, e)
  <1>1. \A b : <<1, b>> # Nowhere /\ <<2, b>> # Nowhere /\ <<3, b>> # Nowhere
    BY DEF Nowhere
  <1>2. \A b \in Agents :
            /\ LET x == <<1, b>> IN \/ x # Nowhere /\ x # dst /\ saved'[b] = saved[b]
                                    \/ x = Nowhere /\ x # dst /\ saved'[b] = <<>>
                                    \/ x # Nowhere /\ x = dst /\ Nums(saved'[b]) = Nums(saved[b]) \o e
            /\ LET x == <<2, b>> IN \/ x # Nowhere /\ x # dst /\ inQueue'[b] = inQueue[b]
                                    \/ x = Nowhere /\ x # dst /\ inQueue'[b] = <<>>
                                    \/ x # Nowhere /\ x = dst /\ inQueue'[b] = inQueue[b] \o e
            /\ LET x == <<3, b>> IN \/ x # Nowhere /\ x # dst /\ got'[b] = got[b]
                                    \/ x = Nowhere /\ x # dst /\ got'[b] = <<>>
                                    \/ x # Nowhere /\ x = dst /\ got'[b] = got[b] \o e
    BY <1>1
  <1> QED BY <1>2, AgentLinesAre

\* One message about an agent or none is sent.
LEMMA AloneQuiet ==
  ASSUME TypeInv, TypeInv', Alone, UNCHANGED <<saved, inQueue, got, waves>>, NEW out,
         \/ Moved(out, {}, <<>>)
         \/ \E v : \E r \in ProtocolTypes, a \in Agents : Moved(out, {v}, <<Msg(r, a)>>)
  PROVE  Alone'
  <1>1. PICK M : M = Line'
    OBVIOUS
  <1>2. /\ \A b : <<1, b>> # Nowhere /\ <<2, b>> # Nowhere /\ <<3, b>> # Nowhere
        /\ \A u \in Wires : <<0, u>> # Nowhere
    BY DEF Nowhere
  <1>3. AgentLines(M, Nowhere, Nowhere, <<>>)
    BY <1>1, <1>2, AgentsRest
  <1>4. ASSUME NEW in, NEW ms \in Seq(Message), Moved(out, in, ms), \A k \in DOMAIN ms : Num(ms[k]) = 0
        PROVE  Alone'
    BY <1>1, <1>2, <1>3, <1>4, AloneRests
  <1>5. CASE Moved(out, {}, <<>>)
    BY <1>4, <1>5, QuietWires
  <1>6. ASSUME NEW v, NEW r \in ProtocolTypes, NEW a \in Agents, Moved(out, {v}, <<Msg(r, a)>>)
        PROVE  Alone'
    <2> DEFINE ms == <<Msg(r, a)>>
               in == {v}
    <2>1. ms \in Seq(Message) /\ Moved(out, in, ms) /\ \A k \in DOMAIN ms : Num(ms[k]) = 0
      BY <1>6, QuietWires
    <2> HIDE DEF ms, in
    <2> QED BY <1>4, <2>1
  <1> QED BY <1>5, <1>6

\* The wave at the head of wire w goes to line dst.
LEMMA AloneHead ==
  ASSUME TypeInv, TypeInv', Alone, UNCHANGED waves, NEW w \in Wires, NEW i, Comes(w, i),
         NEW in, NEW ms \in Seq(Message), Moved({w}, in, ms), NEW dst, NEW M, M = Line',
         WiresGet(in, ms, dst, <<i>>), AgentLines(M, Nowhere, dst, <<i>>)
  PROVE  Alone'
  <1> DEFINE e == <<i>>
             out == {w}
             sh == Shed(out, Nowhere)
  <1>1. /\ i \in Ids /\ 1 \in DOMAIN chan[w] /\ chan[w][1].type = "WAVE" /\ chan[w][1].id = i
    BY DEF Comes
  <1>2. /\ e \in Seq(Nat) /\ DOMAIN e = {1} /\ e[1] = i /\ (\A u : <<0, u>> # Nowhere)
        /\ WiresGet(in, ms, dst, e) /\ AgentLines(M, Nowhere, dst, e) /\ Moved(out, in, ms) /\ w \in out
    BY <1>1 DEF Nowhere, Ids
  <1> HIDE DEF e, out
  <1>3. <<0, w>> \in Lines /\ 1 \in DOMAIN Line[<<0, w>>] /\ Line[<<0, w>>][1] = i /\ sh[<<0, w>>] = 1
    <2>1. <<0, w>> \in Lines /\ Line[<<0, w>>] = Nums(chan[w])
      BY LinesAre DEF Lined
    <2>2. chan[w] \in Seq(Message)
      BY DEF TypeInv, TypeOK
    <2>3. 1 \in DOMAIN Nums(chan[w]) /\ Nums(chan[w])[1] = Num(chan[w][1])
      BY <1>1, <2>2, NumsOf
    <2>4. sh[<<0, w>>] = Shift(out, w)
      BY <1>2, ShedIs
    <2> QED BY <1>1, <1>2, <2>1, <2>3, <2>4 DEF Num, Shift
  <1>4. Takes(Line, sh, <<0, w>>, e)
    BY <1>2, <1>3 DEF Takes
  <1> QED BY <1>2, <1>4, AloneShifts

\* One line of an agent changes: it gets e, or is cleared; which one is told by its head.
LEMMA OneLine ==
  ASSUME TypeInv, TypeInv', NEW M, M = Line', NEW a \in Agents, NEW e, NEW c, NEW dst,
         \/ /\ UNCHANGED <<inQueue, got>> /\ \A b \in Agents : b # a => saved'[b] = saved[b]
            /\ \/ c = Nowhere /\ dst = <<1, a>> /\ Nums(saved'[a]) = Nums(saved[a]) \o e
               \/ dst = Nowhere /\ c = <<1, a>> /\ saved'[a] = <<>>
         \/ /\ UNCHANGED <<saved, got>> /\ \A b \in Agents : b # a => inQueue'[b] = inQueue[b]
            /\ \/ c = Nowhere /\ dst = <<2, a>> /\ inQueue'[a] = inQueue[a] \o e
               \/ dst = Nowhere /\ c = <<2, a>> /\ inQueue'[a] = <<>>
         \/ /\ UNCHANGED <<saved, inQueue>> /\ \A b \in Agents : b # a => got'[b] = got[b]
            /\ c = Nowhere /\ dst = <<3, a>> /\ got'[a] = got[a] \o e
  PROVE  AgentLines(M, c, dst, e) /\ \A u : <<0, u>> # c /\ <<0, u>> # dst
  <1>1. /\ \A b : <<1, b>> # Nowhere /\ <<2, b>> # Nowhere /\ <<3, b>> # Nowhere
        /\ \A u : <<0, u>> # Nowhere
    BY DEF Nowhere
  <1>2. \A u : <<0, u>> # c /\ <<0, u>> # dst
    BY <1>1
  <1>3. \A b \in Agents :
            /\ LET x == <<1, b>> IN \/ x # c /\ x # dst /\ saved'[b] = saved[b]
                                    \/ x = c /\ x # dst /\ saved'[b] = <<>>
                                    \/ x # c /\ x = dst /\ Nums(saved'[b]) = Nums(saved[b]) \o e
            /\ LET x == <<2, b>> IN \/ x # c /\ x # dst /\ inQueue'[b] = inQueue[b]
                                    \/ x = c /\ x # dst /\ inQueue'[b] = <<>>
                                    \/ x # c /\ x = dst /\ inQueue'[b] = inQueue[b] \o e
            /\ LET x == <<3, b>> IN \/ x # c /\ x # dst /\ got'[b] = got[b]
                                    \/ x = c /\ x # dst /\ got'[b] = <<>>
                                    \/ x # c /\ x = dst /\ got'[b] = got[b] \o e
    <2> SUFFICES ASSUME NEW b \in Agents
            PROVE
            /\ LET x == <<1, b>> IN \/ x # c /\ x # dst /\ saved'[b] = saved[b]
                                    \/ x = c /\ x # dst /\ saved'[b] = <<>>
                                    \/ x # c /\ x = dst /\ Nums(saved'[b]) = Nums(saved[b]) \o e
            /\ LET x == <<2, b>> IN \/ x # c /\ x # dst /\ inQueue'[b] = inQueue[b]
                                    \/ x = c /\ x # dst /\ inQueue'[b] = <<>>
                                    \/ x # c /\ x = dst /\ inQueue'[b] = inQueue[b] \o e
            /\ LET x == <<3, b>> IN \/ x # c /\ x # dst /\ got'[b] = got[b]
                                    \/ x = c /\ x # dst /\ got'[b] = <<>>
                                    \/ x # c /\ x = dst /\ got'[b] = got[b] \o e
      OBVIOUS
    <2>1. CASE b = a
      BY <1>1, <2>1
    <2>2. CASE b # a
      <3>1. /\ <<1, b>> # c /\ <<2, b>> # c /\ <<3, b>> # c
            /\ <<1, b>> # dst /\ <<2, b>> # dst /\ <<3, b>> # dst
        BY <1>1, <2>2
      <3>2. saved'[b] = saved[b] /\ inQueue'[b] = inQueue[b] /\ got'[b] = got[b]
        BY <2>2
      <3> QED BY <3>1, <3>2
    <2> QED BY <2>1, <2>2
  <1> QED BY <1>2, <1>3, AgentLinesAre

LEMMA GotLine ==
  ASSUME TypeInv, TypeInv', NEW M, M = Line', NEW a \in Agents, NEW e, NEW dst, dst = <<3, a>>,
         UNCHANGED <<saved, inQueue>>, \A b \in Agents : b # a => got'[b] = got[b], got'[a] = got[a] \o e
  PROVE  AgentLines(M, Nowhere, dst, e) /\ \A u : <<0, u>> # dst
  BY OneLine

\* A message about an agent is sent, or none, and a line of an agent is cleared.
LEMMA AloneClears ==
  ASSUME TypeInv, TypeInv', Alone, UNCHANGED waves, NEW out,
         \/ Moved(out, {}, <<>>)
         \/ \E v : \E r \in ProtocolTypes, b \in Agents : Moved(out, {v}, <<Msg(r, b)>>),
         NEW a \in Agents,
         \/ saved' = [saved EXCEPT ![a] = <<>>] /\ UNCHANGED <<inQueue, got>>
         \/ inQueue' = [inQueue EXCEPT ![a] = <<>>] /\ UNCHANGED <<saved, got>>
  PROVE  Alone'
  <1>0. saved \in [Agents -> Seq(Message)] /\ inQueue \in [Agents -> Seq(Ids)]
    BY DEF TypeInv, TypeOK
  <1>1. PICK M : M = Line'
    OBVIOUS
  <1>2. PICK c : c = IF saved' = [saved EXCEPT ![a] = <<>>] /\ UNCHANGED <<inQueue, got>> THEN <<1, a>> ELSE <<2, a>>
    OBVIOUS
  <1>3. AgentLines(M, c, Nowhere, <<>>) /\ \A u : <<0, u>> # c
    <2>1. CASE saved' = [saved EXCEPT ![a] = <<>>] /\ UNCHANGED <<inQueue, got>>
      <3>1. c = <<1, a>> /\ saved'[a] = <<>> /\ \A b \in Agents : b # a => saved'[b] = saved[b]
        BY <1>0, <1>2, <2>1
      <3> QED BY <1>1, <2>1, <3>1, OneLine
    <2>2. CASE ~(saved' = [saved EXCEPT ![a] = <<>>] /\ UNCHANGED <<inQueue, got>>)
      <3>1. c = <<2, a>> /\ inQueue'[a] = <<>> /\ (\A b \in Agents : b # a => inQueue'[b] = inQueue[b])
            /\ UNCHANGED <<saved, got>>
        BY <1>0, <1>2, <2>2
      <3> QED BY <1>1, <3>1, OneLine
    <2> QED BY <2>1, <2>2
  <1>4. ASSUME NEW in, NEW ms \in Seq(Message), Moved(out, in, ms), \A k \in DOMAIN ms : Num(ms[k]) = 0
        PROVE  Alone'
    BY <1>1, <1>3, <1>4, AloneRests
  <1>5. CASE Moved(out, {}, <<>>)
    BY <1>4, <1>5, QuietWires
  <1>6. ASSUME NEW v, NEW r \in ProtocolTypes, NEW b \in Agents, Moved(out, {v}, <<Msg(r, b)>>)
        PROVE  Alone'
    <2> DEFINE ms == <<Msg(r, b)>>
               in == {v}
    <2>1. ms \in Seq(Message) /\ Moved(out, in, ms) /\ \A k \in DOMAIN ms : Num(ms[k]) = 0
      BY <1>6, QuietWires
    <2> HIDE DEF ms, in
    <2> QED BY <1>4, <2>1
  <1> QED BY <1>5, <1>6

\* A wave at the head of a wire goes on, to a wire or nowhere.
LEMMA AloneGoesOn ==
  ASSUME TypeInv, TypeInv', Alone, UNCHANGED <<inQueue, got, waves>>, NEW w \in Wires, NEW i, NEW v, NEW m,
         GoesOn(w, i, v, m)
  PROVE  Alone'
  <1> DEFINE in == {v}
             ms == <<m>>
             dst == <<0, v>>
  <1>1. /\ Comes(w, i) /\ saved' = saved /\ m \in Message /\ Num(m) = i /\ Moved({w}, in, ms)
    BY DEF GoesOn, Num
  <1>2. PICK M : M = Line'
    OBVIOUS
  <1>3. ms \in Seq(Message)
    BY <1>1
  <1>4. Nums(ms) = <<i>>
    BY <1>1 DEF Nums
  <1>5. /\ \A u : (<<0, u>> = dst <=> u = v) /\ (u \in in <=> u = v)
        /\ \A b : <<1, b>> # dst /\ <<2, b>> # dst /\ <<3, b>> # dst
    OBVIOUS
  <1> HIDE DEF in, dst, ms
  <1>6. WiresGet(in, ms, dst, <<i>>)
    BY <1>4, <1>5 DEF WiresGet
  <1>7. AgentLines(M, Nowhere, dst, <<i>>)
    BY <1>1, <1>2, <1>5, AgentsRest
  <1> QED BY <1>1, <1>2, <1>3, <1>6, <1>7, AloneHead

\* It goes to the end of a line of an agent.
LEMMA AloneStops ==
  ASSUME TypeInv, TypeInv', Alone, UNCHANGED waves, NEW w \in Wires, NEW i, Comes(w, i), NEW a \in Agents,
         Moved({w}, {}, <<>>),
         \/ /\ UNCHANGED <<inQueue, got>> /\ saved' = [saved EXCEPT ![a] = Append(@, chan[w][1])]
         \/ /\ UNCHANGED <<saved, got>> /\ inQueue' = [inQueue EXCEPT ![a] = Append(@, i)]
         \/ /\ UNCHANGED <<saved, inQueue>> /\ got' = [got EXCEPT ![a] = Append(@, i)]
  PROVE  Alone'
  <1>0. /\ saved \in [Agents -> Seq(Message)] /\ inQueue \in [Agents -> Seq(Ids)] /\ got \in [Agents -> Seq(Ids)]
        /\ i \in Ids /\ chan[w][1] \in Message /\ Num(chan[w][1]) = i
    BY DEF TypeInv, TypeOK, Comes, Num
  <1>1. PICK M : M = Line'
    OBVIOUS
  <1> DEFINE in == {}
             ms == <<>>
  <1>2. ms \in Seq(Message) /\ Moved({w}, in, ms) /\ \A u : u \notin in
    OBVIOUS
  <1> HIDE DEF in, ms
  <1>3. ASSUME NEW dst, AgentLines(M, Nowhere, dst, <<i>>), \A u : <<0, u>> # dst
        PROVE  Alone'
    <2>1. WiresGet(in, ms, dst, <<i>>)
      BY <1>2, <1>3 DEF WiresGet
    <2> QED BY <1>1, <1>2, <1>3, <2>1, AloneHead
  <1>4. \A s \in Seq(Ids) : Append(s, i) = s \o <<i>>
    BY <1>0
  <1>5. CASE UNCHANGED <<inQueue, got>> /\ saved' = [saved EXCEPT ![a] = Append(@, chan[w][1])]
    <2>1. PICK m \in Message : m = chan[w][1]
      BY <1>0
    <2>2. saved'[a] = Append(saved[a], m) /\ \A b \in Agents : b # a => saved'[b] = saved[b]
      BY <1>0, <1>5, <2>1
    <2>3. PICK s \in Seq(Message) : s = saved[a]
      BY <1>0
    <2>4. Nums(Append(s, m)) = Nums(s) \o <<Num(m)>>
      <3>1. Num(m) \in Nat
        BY <1>0, <2>1 DEF Ids
      <3> QED BY <3>1, NumsAppend
    <2>5. Nums(saved'[a]) = Nums(saved[a]) \o <<i>>
      BY <1>0, <2>1, <2>2, <2>3, <2>4
    <2>6. PICK e : e = <<i>>
      OBVIOUS
    <2>7. PICK c : c = Nowhere
      OBVIOUS
    <2>8. PICK dst : dst = <<1, a>>
      OBVIOUS
    <2>9. UNCHANGED <<inQueue, got>> /\ (\A b \in Agents : b # a => saved'[b] = saved[b])
            /\ Nums(saved'[a]) = Nums(saved[a]) \o e
      BY <1>5, <2>2, <2>5, <2>6
    <2>10. AgentLines(M, c, dst, e) /\ \A u : <<0, u>> # c /\ <<0, u>> # dst
      BY <1>1, <2>7, <2>8, <2>9, OneLine
    <2> QED BY <1>3, <2>6, <2>7, <2>10
  <1>6. CASE UNCHANGED <<saved, got>> /\ inQueue' = [inQueue EXCEPT ![a] = Append(@, i)]
    <2>1. inQueue'[a] = inQueue[a] \o <<i>> /\ \A b \in Agents : b # a => inQueue'[b] = inQueue[b]
      BY <1>0, <1>4, <1>6
    <2>2. PICK e : e = <<i>>
      OBVIOUS
    <2>3. PICK c : c = Nowhere
      OBVIOUS
    <2>4. PICK dst : dst = <<2, a>>
      OBVIOUS
    <2>5. UNCHANGED <<saved, got>> /\ (\A b \in Agents : b # a => inQueue'[b] = inQueue[b])
            /\ inQueue'[a] = inQueue[a] \o e
      BY <1>6, <2>1, <2>2
    <2>6. AgentLines(M, c, dst, e) /\ \A u : <<0, u>> # c /\ <<0, u>> # dst
      BY SMTT(30), <1>1, <2>3, <2>4, <2>5, OneLine
    <2> QED BY <1>3, <2>2, <2>3, <2>6
  <1>7. CASE UNCHANGED <<saved, inQueue>> /\ got' = [got EXCEPT ![a] = Append(@, i)]
    <2>1. got'[a] = got[a] \o <<i>> /\ \A b \in Agents : b # a => got'[b] = got[b]
      BY <1>0, <1>4, <1>7
    <2>2. PICK e : e = <<i>>
      OBVIOUS
    <2>3. PICK dst : dst = <<3, a>>
      OBVIOUS
    <2>4. UNCHANGED <<saved, inQueue>> /\ (\A b \in Agents : b # a => got'[b] = got[b]) /\ got'[a] = got[a] \o e
      BY <1>7, <2>1, <2>2
    <2>5. AgentLines(M, Nowhere, dst, e) /\ \A u : <<0, u>> # dst
      BY <1>1, <2>3, <2>4, GotLine
    <2> QED BY <1>3, <2>2, <2>5
  <1> QED BY <1>5, <1>6, <1>7

LEMMA NumsTail ==
  ASSUME NEW s \in Seq(Message), s # <<>>
  PROVE  /\ 1 \in DOMAIN Nums(s) /\ 1 \in DOMAIN s /\ Nums(s)[1] = Num(s[1]) /\ Tail(s) \in Seq(Message)
         /\ Slides(Nums(s), Nums(Tail(s)), 1, <<>>)
  <1>1. /\ 1 \in DOMAIN s /\ Len(s) \in Nat /\ DOMAIN s = 1 .. Len(s) /\ Tail(s) \in Seq(Message)
        /\ DOMAIN Tail(s) = 1 .. Len(s) - 1 /\ \A k \in DOMAIN Tail(s) : Tail(s)[k] = s[k + 1]
    OBVIOUS
  <1>2. PICK t \in Seq(Message) : t = Tail(s)
    BY <1>1
  <1>3. PICK l, m : l = Nums(s) /\ m = Nums(t)
    OBVIOUS
  <1>4. /\ DOMAIN l = DOMAIN s /\ \A k \in DOMAIN s : l[k] = Num(s[k])
        /\ DOMAIN m = DOMAIN t /\ \A k \in DOMAIN t : m[k] = Num(t[k])
    BY <1>3, NumsOf
  <1>5. /\ DOMAIN l = 1 .. Len(s) /\ DOMAIN m = 1 .. Len(s) - 1
        /\ \A k \in DOMAIN m : k + 1 \in DOMAIN l /\ m[k] = l[k + 1]
    BY <1>1, <1>2, <1>4
  <1>6. \A k \in DOMAIN l : l[k] # 0 /\ k > 1 => k - 1 \in DOMAIN m /\ m[k - 1] = l[k]
    <2>1. ASSUME NEW k \in DOMAIN l, k > 1 PROVE k - 1 \in DOMAIN m /\ k - 1 + 1 = k
      BY <1>1, <1>5, <2>1
    <2> QED BY <1>5, <2>1
  <1>7. Slides(l, m, 1, <<>>)
    <2>1. DOMAIN <<>> = {}
      OBVIOUS
    <2> QED BY <1>5, <1>6, <2>1 DEF Slides
  <1> QED BY <1>1, <1>2, <1>3, <1>4, <1>7

\* The first wave saved for an agent goes to a wire or nowhere.
LEMMA AlonePops ==
  ASSUME TypeInv, TypeInv', Alone, UNCHANGED <<inQueue, got, waves>>, NEW a, NEW v, NEW m, Popped(a, v, m)
  PROVE  Alone'
  <1> DEFINE src == <<1, a>>
             dst == <<0, v>>
             sh == [x \in Lines |-> IF x = src THEN 1 ELSE 0]
             ms == <<m>>
             in == {v}
  <1>0. /\ a \in Agents /\ saved[a] # <<>> /\ saved' = [saved EXCEPT ![a] = Tail(@)]
        /\ m \in Message /\ m.type = "WAVE" /\ m.id = saved[a][1].id /\ Moved({}, in, ms)
    BY DEF Popped
  <1>1. TypeOK /\ saved \in [Agents -> Seq(Message)] /\ SavedWaves
    BY DEF TypeInv, TypeOK
  <1>2. PICK s \in Seq(Message) : s = saved[a]
    BY <1>0, <1>1
  <1>3. PICK i : i = Num(m)
    OBVIOUS
  <1>4. /\ 1 \in DOMAIN Nums(s) /\ Nums(s)[1] = Num(s[1]) /\ Slides(Nums(s), Nums(Tail(s)), 1, <<>>)
        /\ 1 \in DOMAIN s
    BY <1>0, <1>2, NumsTail
  <1>5. Nums(s)[1] = i /\ i \in Nat
    <2>1. s[1].type = "WAVE"
      BY <1>0, <1>1, <1>2, <1>4 DEF SavedWaves
    <2>2. m.id \in Ids
      BY <1>0, MessageForms
    <2> QED BY <1>0, <1>2, <1>3, <1>4, <2>1, <2>2 DEF Num, Ids
  <1>6. PICK e : e = <<i>>
    OBVIOUS
  <1>7. e \in Seq(Nat) /\ DOMAIN e = {1} /\ e[1] = i /\ e # <<>>
    BY <1>5, <1>6
  <1>8. ms \in Seq(Message) /\ e = Nums(ms)
    <2>1. ms \in Seq(Message) /\ DOMAIN ms = {1} /\ ms[1] = m
      BY <1>0
    <2>2. Nums(ms) = <<i>>
      BY <1>3 DEF Nums
    <2> QED BY <1>6, <2>1, <2>2
  <1>9. PICK M : M = Line'
    OBVIOUS
  <1>10. Lined(Line, chan, saved, inQueue, got) /\ Lined(M, chan', saved', inQueue', got')
    BY <1>9, LinesAre, LinesAfter
  <1>11. /\ Line \in [Lines -> Seq(Nat)] /\ M \in [Lines -> Seq(Nat)] /\ src \in Lines /\ Line[src] = Nums(s)
         /\ sh[src] = 1 /\ \A x \in Lines : x # src => sh[x] = 0
    BY <1>0, <1>2, <1>10 DEF Lined
  <1>12. \A u : (u \in in <=> u = v) /\ (<<0, u>> = dst <=> u = v) /\ <<0, u>> # src
    OBVIOUS
  <1>13. ASSUME NEW u \in Wires, NEW x, x = <<0, u>>
         PROVE  sh[x] \in Nat /\ Slides(Line[x], M[x], sh[x], IF x = dst THEN e ELSE <<>>)
    <2>1. PICK f : f = IF x = dst THEN e ELSE <<>>
      OBVIOUS
    <2>2. x \in Lines /\ Line[x] = Nums(chan[u]) /\ M[x] = Nums(chan'[u])
      BY <1>10, <1>13 DEF Lined
    <2>3. sh[x] = 0
      BY <1>11, <1>12, <1>13, <2>2
    <2>4. Shift({}, u) = 0
      BY DEF Shift
    <2> HIDE DEF in, ms, dst, sh
    <2>5. IF u \in in /\ f # <<>> THEN f = Nums(ms)
          ELSE f = <<>> /\ (u \in in => \A k \in DOMAIN ms : Num(ms[k]) = 0)
      BY <1>7, <1>8, <1>12, <1>13, <2>1
    <2>6. Slides(Nums(chan[u]), Nums(chan'[u]), Shift({}, u), f)
      BY <1>0, <1>1, <1>8, <2>5, SlidesWire
    <2> QED BY <2>1, <2>2, <2>3, <2>4, <2>6
  <1>14. ASSUME NEW x \in Lines, x[1] # 0
         PROVE  sh[x] \in Nat /\ Slides(Line[x], M[x], sh[x], IF x = dst THEN e ELSE <<>>)
    <2>1. x # dst
      BY <1>14
    <2>2. CASE x = src
      <3>1. M[x] = Nums(Tail(s))
        BY <1>0, <1>1, <1>2, <1>10, <2>2 DEF Lined
      <3> HIDE DEF src, dst, sh
      <3> QED BY <1>4, <1>11, <2>1, <2>2, <3>1
    <2>3. CASE x # src
      <3>1. PICK c \in Agents : x \in {<<1, c>>, <<2, c>>, <<3, c>>}
        BY <1>10, <1>14 DEF Lined
      <3>2. x = <<1, c>> => saved'[c] = saved[c]
        BY <1>0, <1>1, <2>3
      <3>3. M[x] = Line[x]
        <4>1. /\ Line[<<1, c>>] = Nums(saved[c]) /\ Line[<<2, c>>] = inQueue[c] /\ Line[<<3, c>>] = got[c]
              /\ M[<<1, c>>] = Nums(saved'[c]) /\ M[<<2, c>>] = inQueue'[c] /\ M[<<3, c>>] = got'[c]
          BY <1>10 DEF Lined
        <4> HIDE DEF src, dst, sh
        <4> QED BY <3>1, <3>2, <4>1
      <3>4. PICK l \in Seq(Nat) : l = Line[x]
        BY <1>11
      <3>5. Slides(l, l, 0, <<>>)
        <4>1. <<>> \in Seq(Nat)
          OBVIOUS
        <4> QED BY <4>1, SlidesForms
      <3>6. sh[x] = 0
        BY <1>11, <2>3
      <3> HIDE DEF src, dst, sh
      <3> QED BY <2>1, <3>3, <3>4, <3>5, <3>6
    <2> QED BY <2>2, <2>3
  <1>15. \A x \in Lines : x[1] # 0 \/ \E u \in Wires : x = <<0, u>>
    BY <1>10 DEF Lined
  <1> HIDE DEF src, dst, sh, in, ms
  <1>16. Shifts(Line, M, sh, dst, e)
    BY <1>13, <1>14, <1>15 DEF Shifts
  <1>17. Takes(Line, sh, src, e)
    BY <1>4, <1>5, <1>7, <1>11 DEF Takes
  <1>18. Goes(Line, M, sh, src, dst, e)
    BY <1>7, <1>11, <1>16, <1>17 DEF Goes
  <1> QED BY <1>9, <1>18, AloneGoes

\* A wave that is sent has a new number.
LEMMA AloneSends ==
  ASSUME TypeInv, TypeInv', Alone, NEW a \in Agents, NEW c \in Agents, SendWave(c, a)
  PROVE  Alone'
  <1>1. PICK M : M = Line'
    OBVIOUS
  <1>2. PICK N : N = Len(waves) + 1
    OBVIOUS
  <1>3. PICK up : up = <<0, Up(c)>>
    OBVIOUS
  <1>4. Behind(M, N, up)
    <2>1. SentOnly /\ OnceIn(Line)
      BY DEF Alone
    <2> QED BY <1>1, <1>2, <1>3, <2>1, SentStands
  <1>5. Len(waves') = N /\ N \in Nat /\ Len(waves) \in Nat /\ DOMAIN waves = 1 .. Len(waves) /\ DOMAIN waves' = 1 .. N
    <2> DEFINE W == [from : Agents, to : Agents, known : BOOLEAN]
    <2>1. PICK r : r = [from |-> c, to |-> a, known |-> status[a] # "none"]
      OBVIOUS
    <2>2. r \in W /\ waves' = Append(waves, r) /\ waves \in Seq(W)
      BY <2>1 DEF SendWave, TypeInv, TypeOK
    <2> HIDE DEF W
    <2> QED BY <1>2, <2>2
  <1>6. Lines' = Lines
    BY DEF Lines, Wires
  <1>7. OnceIn(Line)'
    <2>1. OnceIn(M)
      BY <1>4 DEF Behind
    <2> QED BY <1>1, <1>6, <2>1 DEF OnceIn
  <1>8. ASSUME NEW x \in Lines, NEW k \in DOMAIN M[x], M[x][k] # 0
        PROVE  M[x][k] \in Nat /\ M[x][k] <= N /\ M[x][k] \in 1 .. N
    <2>1. \/ M[x][k] \in DOMAIN waves \/ M[x][k] = N
      BY <1>4, <1>8 DEF Behind
    <2>2. PICK i : i = M[x][k]
      OBVIOUS
    <2>3. i \in 1 .. Len(waves) \/ i = N
      BY <1>5, <2>1, <2>2
    <2>4. i \in Nat /\ i <= N /\ i \in 1 .. N
      BY <1>2, <1>5, <2>3
    <2> QED BY <2>2, <2>4
  <1>9. SentOnly'
    BY <1>1, <1>5, <1>6, <1>8 DEF SentOnly
  <1> QED BY <1>7, <1>9 DEF Alone

\* What an agent queued follows what it got.
LEMMA AloneArrives ==
  ASSUME TypeInv, TypeInv', Alone, NEW a \in Agents, Arrive(a)
  PROVE  Alone'
  <1> DEFINE ms == <<Msg("CONNECT", a)>>
             in == {<<target[a], Region[target[a]]>>}
             c == <<2, a>>
             dst == <<3, a>>
  <1>0. TypeOK /\ inQueue \in [Agents -> Seq(Ids)] /\ got \in [Agents -> Seq(Ids)] /\ "CONNECT" \in ProtocolTypes
    BY DEF TypeInv, TypeOK, ProtocolTypes
  <1>1. /\ inQueue' = [inQueue EXCEPT ![a] = <<>>] /\ got' = [got EXCEPT ![a] = @ \o inQueue[a]]
        /\ UNCHANGED <<saved, waves>> /\ Moved({}, in, ms)
    <2>1. Moved({}, in, ms)
      BY <1>0, SendMoves, MessageForms DEF Arrive
    <2> QED BY <2>1 DEF Arrive, homeVars
  <1>2. ms \in Seq(Message) /\ \A k \in DOMAIN ms : Num(ms[k]) = 0
    BY <1>0, QuietWires
  <1>3. PICK M : M = Line'
    OBVIOUS
  <1>4. PICK e : e = Line[c]
    OBVIOUS
  <1>5. e = inQueue[a] /\ e \in Seq(Nat) /\ c \in Lines
    <2>1. Lined(Line, chan, saved, inQueue, got)
      BY LinesAre
    <2> QED BY <1>4, <2>1 DEF Lined
  <1>6. /\ \A b : /\ <<1, b>> # c /\ <<1, b>> # dst /\ <<2, b>> # dst /\ <<3, b>> # c
                  /\ <<2, b>> = c <=> b = a
                  /\ <<3, b>> = dst <=> b = a
        /\ \A u : <<0, u>> # c /\ <<0, u>> # dst
    OBVIOUS
  <1>7. \A b \in Agents : /\ b # a => inQueue'[b] = inQueue[b] /\ got'[b] = got[b]
                          /\ b = a => inQueue'[b] = <<>> /\ got'[b] = got[b] \o e
    BY <1>0, <1>1, <1>5
  <1> HIDE DEF c, dst, in, ms
  <1>8. \A b \in Agents :
            /\ LET x == <<1, b>> IN \/ x # c /\ x # dst /\ saved'[b] = saved[b]
                                    \/ x = c /\ x # dst /\ saved'[b] = <<>>
                                    \/ x # c /\ x = dst /\ Nums(saved'[b]) = Nums(saved[b]) \o e
            /\ LET x == <<2, b>> IN \/ x # c /\ x # dst /\ inQueue'[b] = inQueue[b]
                                    \/ x = c /\ x # dst /\ inQueue'[b] = <<>>
                                    \/ x # c /\ x = dst /\ inQueue'[b] = inQueue[b] \o e
            /\ LET x == <<3, b>> IN \/ x # c /\ x # dst /\ got'[b] = got[b]
                                    \/ x = c /\ x # dst /\ got'[b] = <<>>
                                    \/ x # c /\ x = dst /\ got'[b] = got[b] \o e
    BY <1>1, <1>6, <1>7
  <1>9. AgentLines(M, c, dst, e)
    BY <1>3, <1>8, AgentLinesAre
  <1>10. WiresGet(in, ms, dst, e)
    BY <1>2, <1>6 DEF WiresGet
  <1>11. Takes(Line, Shed({}, c), c, e)
    <2>1. Shed({}, c)[c] = Len(e)
      BY ZenonT(60), <1>4, <1>5, ShedIs
    <2>2. \A j \in DOMAIN e : j <= Len(e)
      BY <1>5
    <2> QED BY <1>4, <1>5, <2>1, <2>2 DEF Takes
  <1> QED BY <1>1, <1>2, <1>3, <1>5, <1>6, <1>9, <1>10, <1>11, AloneShifts

LEMMA AloneAgents ==
  ASSUME TypeInv, TypeInv', Alone, NEW a \in Agents,
         Start(a) \/ Depart(a) \/ Arrive(a) \/ \E n \in Nodes : Move(a, n)
  PROVE  Alone'
  <1>0. TypeOK /\ "REGISTER" \in ProtocolTypes /\ "REQ_LEAVE" \in ProtocolTypes
    BY DEF TypeInv, ProtocolTypes
  <1>1. CASE Start(a)
    <2>1. Moved({}, {Up(a)}, <<Msg("REGISTER", a)>>)
      BY <1>0, <1>1, SendMoves, MessageForms DEF Start
    <2>2. UNCHANGED <<saved, inQueue, got, waves>>
      BY <1>1 DEF Start, homeVars
    <2> QED BY <1>0, <2>1, <2>2, AloneQuiet
  <1>2. CASE Depart(a)
    <2>1. Moved({}, {}, <<>>)
      BY <1>0, <1>2, StillMoves DEF Depart
    <2>2. UNCHANGED <<saved, inQueue, got, waves>>
      BY <1>2 DEF Depart, homeVars
    <2> QED BY <2>1, <2>2, AloneQuiet
  <1>3. CASE \E n \in Nodes : Move(a, n)
    <2>1. /\ inQueue' = [inQueue EXCEPT ![a] = <<>>] /\ UNCHANGED <<saved, got>> /\ UNCHANGED waves
          /\ Send(Up(a), Msg("REQ_LEAVE", a))
      BY <1>3 DEF Move, homeVars
    <2>2. Moved({}, {Up(a)}, <<Msg("REQ_LEAVE", a)>>)
      BY <1>0, <2>1, SendMoves, MessageForms
    <2> QED BY <1>0, <2>1, <2>2, AloneClears
  <1> QED BY <1>1, <1>2, <1>3, AloneArrives

LEMMA AlonePylons ==
  ASSUME TypeInv, TypeInv', Alone, NEW n \in Nodes, Receive(n)
  PROVE  Alone'
  <1> DEFINE w == <<Region[n], n>>
  <1>0. TypeOK /\ w \in Wires
    BY RegionAssumption DEF TypeInv, Wires
  <1>1. UNCHANGED <<saved, waves>> /\ Drop(w) /\ chan[w] # <<>>
    BY DEF Receive, ReceiveWave, ReceiveAccept, Incoming, homeVars
  <1>2. Moved({w}, {}, <<>>)
    BY <1>0, <1>1, DropMoves
  <1>3. CASE UNCHANGED <<inQueue, got>>
    <2> HIDE DEF w
    <2>1. UNCHANGED <<saved, inQueue, got, waves>>
      BY <1>1, <1>3
    <2> QED BY <1>2, <2>1, AloneQuiet
  <1>4. CASE ReceiveWave(n) /\ ~UNCHANGED <<inQueue, got>>
    <2>1. PICK i, a : i = Head(chan[w]).id /\ a = waves[i].to
      OBVIOUS
    <2>2. Incoming(w, "WAVE")
      BY <1>4 DEF ReceiveWave
    <2>3. \/ got' = [got EXCEPT ![a] = Append(@, i)] /\ UNCHANGED inQueue
          \/ inQueue' = [inQueue EXCEPT ![a] = Append(@, i)] /\ UNCHANGED got
      BY <1>4, <2>1 DEF ReceiveWave
    <2> HIDE DEF w
    <2>4. /\ 1 \in DOMAIN chan[w] /\ chan[w][1] \in Message /\ chan[w][1].type = "WAVE" /\ chan[w][1].id = i
          /\ i \in Ids /\ i \in DOMAIN waves /\ a \in Agents
      BY <1>0, <2>1, <2>2, HeadFacts
    <2>5. i <= Len(waves)
      BY <2>4 DEF TypeInv, TypeOK
    <2>6. Comes(w, i)
      BY <2>4, <2>5 DEF Comes
    <2>7. UNCHANGED waves /\ UNCHANGED saved
      BY <1>1
    <2> QED BY <1>0, <1>2, <2>3, <2>4, <2>6, <2>7, AloneStops
  <1>5. ReceiveWave(n) \/ UNCHANGED <<inQueue, got>>
    BY DEF Receive, ReceiveAccept
  <1> QED BY <1>3, <1>4, <1>5

\* The steps of the handlers.
LEMMA AloneDecodes ==
  ASSUME TypeInv, Alone, NEW w \in Wires, Fits(w)
  PROVE  Alone'
  <1>1. TypeInv' /\ UNCHANGED <<inQueue, got, waves>> /\ UNCHANGED waves /\ UNCHANGED <<inQueue, got>>
    BY DEF Fits, shardVars
  <1>2. CASE Quiet
    <2>1. UNCHANGED <<saved, inQueue, got, waves>>
      BY <1>1, <1>2 DEF Quiet
    <2>2. PICK out : \/ Moved(out, {}, <<>>)
                     \/ \E v : \E r \in ProtocolTypes, a \in Agents : Moved(out, {v}, <<Msg(r, a)>>)
      BY <1>2 DEF Quiet
    <2> QED BY <1>1, <2>1, <2>2, AloneQuiet
  <1>3. ASSUME NEW a, NEW v, NEW m, Popped(a, v, m) PROVE Alone'
    BY <1>1, <1>3, AlonePops
  <1>4. ASSUME NEW i, NEW v, NEW m, GoesOn(w, i, v, m) PROVE Alone'
    BY <1>1, <1>4, AloneGoesOn
  <1>5. ASSUME NEW i, NEW a, Buffered(w, i, a) PROVE Alone'
    <2>1. /\ Comes(w, i) /\ a \in Agents /\ Moved({w}, {}, <<>>)
          /\ saved' = [saved EXCEPT ![a] = Append(@, chan[w][1])]
      BY <1>5 DEF Buffered
    <2> QED BY <1>1, <2>1, AloneStops
  <1>6. ASSUME NEW a, Cleared(a) PROVE Alone'
    <2>1. PICK out : a \in Agents /\ saved' = [saved EXCEPT ![a] = <<>>] /\ Moved(out, {}, <<>>)
      BY <1>6 DEF Cleared
    <2> QED BY <1>1, <2>1, AloneClears
  <1> QED BY <1>2, <1>3, <1>4, <1>5, <1>6 DEF Fits, StepForm

\* All that is invariant however the handlers interleave.
ThreadInv == TypeInv /\ Alone

LEMMA ThreadInvInit == ThreadInit => ThreadInv
  <1> SUFFICES ASSUME ThreadInit PROVE ThreadInv
    OBVIOUS
  <1>1. Init /\ TypeInv
    BY TypeInvInit DEF ThreadInit
  <1>2. /\ \A u \in Wires : chan[u] = <<>>
        /\ \A a \in Agents : saved[a] = <<>> /\ inQueue[a] = <<>> /\ got[a] = <<>>
    BY <1>1 DEF Init
  <1>3. Nums(<<>>) = <<>> /\ DOMAIN <<>> = {}
    BY DEF Nums
  <1>4. Lined(Line, chan, saved, inQueue, got)
    BY <1>1, LinesAre
  <1>5. ASSUME NEW x \in Lines PROVE Line[x] = <<>>
    <2>1. CASE \E u \in Wires : x = <<0, u>>
      BY <1>2, <1>3, <1>4, <2>1 DEF Lined
    <2>2. ASSUME NEW a \in Agents, x \in {<<1, a>>, <<2, a>>, <<3, a>>} PROVE Line[x] = <<>>
      <3>1. /\ Line[<<1, a>>] = Nums(saved[a]) /\ Line[<<2, a>>] = inQueue[a] /\ Line[<<3, a>>] = got[a]
        BY <1>4 DEF Lined
      <3>2. saved[a] = <<>> /\ inQueue[a] = <<>> /\ got[a] = <<>>
        BY <1>2
      <3> QED BY <1>3, <2>2, <3>1, <3>2
    <2> QED BY <1>4, <2>1, <2>2 DEF Lined
  <1>6. Alone
    BY <1>3, <1>5 DEF Alone, OnceIn, SentOnly
  <1> QED BY <1>1, <1>6 DEF ThreadInv

LEMMA ThreadInvNext == ThreadInv /\ [ThreadNext]_allVars => ThreadInv'
  <1> SUFFICES ASSUME ThreadInv, [ThreadNext]_allVars PROVE ThreadInv'
    OBVIOUS
  <1>0. TypeInv /\ Alone
    BY DEF ThreadInv
  <1>1. ASSUME NEW s \in Servers, NEW w \in Wires, Decoder(s, w) PROVE ThreadInv'
    <2>1. Fits(w)
      BY <1>0, <1>1, DecoderFits
    <2>2. Alone'
      BY <1>0, <2>1, AloneDecodes
    <2> QED BY <2>1, <2>2 DEF Fits, ThreadInv
  <1>3. ASSUME NEW a \in Agents, Start(a) \/ Depart(a) \/ Arrive(a) \/ \E n \in Nodes : Move(a, n)
        PROVE  ThreadInv'
    <2>1. TypeInv'
      BY <1>0, <1>3, AgentTypes
    <2>2. Alone'
      BY <1>0, <1>3, <2>1, AloneAgents
    <2> QED BY <2>1, <2>2 DEF ThreadInv
  <1>4. ASSUME NEW a \in Agents, NEW b \in Agents, SendWave(b, a) PROVE ThreadInv'
    <2>1. TypeInv'
      BY <1>0, <1>4, AgentTypes
    <2>2. Alone'
      BY <1>0, <1>4, <2>1, AloneSends
    <2> QED BY <2>1, <2>2 DEF ThreadInv
  <1>5. ASSUME NEW n \in Nodes, Receive(n) PROVE ThreadInv'
    <2>1. TypeInv'
      BY <1>0, <1>5, AgentTypes
    <2>2. Alone'
      BY <1>0, <1>5, <2>1, AlonePylons
    <2> QED BY <2>1, <2>2 DEF ThreadInv
  <1>6. CASE UNCHANGED allVars
    <2>1. UNCHANGED vars
      BY <1>6 DEF allVars
    <2>2. TypeInv'
      <3>1. [Next]_vars
        BY <2>1
      <3> QED BY <1>0, <3>1, TypeInvNext
    <2>3. chan' = chan /\ UNCHANGED <<saved, inQueue, got, waves>>
      BY <2>1 DEF vars, shardVars, homeVars
    <2>4. Moved({}, {}, <<>>)
      BY <1>0, <2>3, StillMoves DEF TypeInv
    <2>5. Alone'
      BY <1>0, <2>2, <2>3, <2>4, AloneQuiet
    <2> QED BY <2>2, <2>5 DEF ThreadInv
  <1>7. ASSUME NEW a \in Movers, NEW n \in Nodes, Move(a, n) PROVE ThreadInv'
    <2>1. a \in Agents
      BY OriginAssumption
    <2> QED BY <1>3, <1>7, <2>1
  <1> QED BY <1>1, <1>3, <1>4, <1>5, <1>6, <1>7 DEF ThreadNext

LEMMA ThreadInvHolds == ThreadSpec => []ThreadInv
<1> QED BY ThreadInvInit, ThreadInvNext, PTL DEF ThreadSpec

\* For any servers, nodes and agents, however their handlers interleave, and even when an agent
\* calls moveTo again before it left: no wave is ever in two places.
THEOREM NoWaveDoubled == ThreadSpec => []NothingDoubled
<1>1. ThreadInv => NothingDoubled
  <2> SUFFICES ASSUME ThreadInv, NEW i \in DOMAIN waves, NEW a, a = waves[i].to,
                      NEW n, n = Cardinality(OnWires(i)) + Copies(i, saved[a]) + InShard(i, inQueue[a])
                                 + InShard(i, got[a])
               PROVE  n <= 1
    BY DEF NothingDoubled
  <2>1. TypeInv /\ OnceIn(Line)
    BY DEF ThreadInv, Alone
  <2>2. a \in Agents /\ i # 0
    <3> DEFINE W == [from : Agents, to : Agents, known : BOOLEAN]
    <3>1. waves \in Seq(W)
      BY <2>1 DEF TypeInv, TypeOK
    <3> HIDE DEF W
    <3>2. waves[i] \in W /\ i # 0
      BY <3>1
    <3> QED BY <3>2 DEF W
  <2> QED BY <2>1, <2>2, CountedOnce
<1> QED BY <1>1, ThreadInvHolds, PTL

=============================================================================
