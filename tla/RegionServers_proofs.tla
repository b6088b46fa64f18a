------------------------ MODULE RegionServers_proofs ------------------------
(***************************************************************************)
(* Proofs about RegionServers: the types, and for agents that do not call  *)
(* moveTo again while they wait to leave, where they are and how far their *)
(* waves go.  And about RegionThreads, where the handlers interleave: the  *)
(* types, what each step of a handler does to the messages, and, for       *)
(* agents that do not call moveTo again, that they stop only when their    *)
(* home server saves for them.                                             *)
(***************************************************************************)
EXTENDS RegionThreads, TLAPS

-----------------------------------------------------------------------------
(* The connections: what a step takes from them and puts on them.          *)

\* How far the messages on wire u move up when the wires in out lose their heads.
Shift(out, u) == IF u \in out THEN 1 ELSE 0

\* The wires in out lost their heads, then ms was appended to the wires in in.
Moved(out, in, ms) ==
    /\ chan' \in [Wires -> Seq(Message)]
    /\ \A u \in Wires :
          /\ u \in out => chan[u] # <<>>
          /\ chan'[u] = (IF u \in out THEN Tail(chan[u]) ELSE chan[u])
                        \o (IF u \in in THEN ms ELSE <<>>)

\* The messages are records of two forms.
LEMMA MessageForms ==
  /\ \A t \in ProtocolTypes, a \in Agents :
        Msg(t, a) \in Message /\ Msg(t, a).type = t /\ Msg(t, a).agent = a
  /\ \A i \in Ids, h \in Nat :
        /\ Wave(i, h) \in Message /\ Wave(i, h).type = "WAVE"
        /\ Wave(i, h).id = i /\ Wave(i, h).hops = h
  /\ \A m \in Message : m.type = "WAVE" => m.id \in Ids /\ m.hops \in Nat
  /\ \A m \in Message : m.type # "WAVE" => m.type \in ProtocolTypes /\ m.agent \in Agents
  /\ \A t \in ProtocolTypes : t # "WAVE"
  BY DEF Message, Msg, Wave, ProtocolTypes

\* The ends of a wire tell what it connects, and no wire is a loop.
LEMMA WireEnds ==
  ASSUME NEW w \in Wires
  PROVE  /\ w = <<w[1], w[2]>>
         /\ w[1] # w[2]
         /\ w[1] \in Nodes => w[1] \notin Servers /\ w[2] \in Servers /\ w[2] = Region[w[1]]
         /\ w[2] \in Nodes => w[2] \notin Servers /\ w[1] \in Servers /\ w[1] = Region[w[2]]
         /\ w[1] \in Nodes \cup Servers /\ w[2] \in Nodes \cup Servers
  BY RegionAssumption DEF Wires

\* What is appended after a sequence, or after its tail.
LEMMA Joined ==
  ASSUME NEW s \in Seq(Message), NEW e \in Seq(Message)
  PROVE  /\ s \o e \in Seq(Message)
         /\ Len(s) \in Nat /\ Len(e) \in Nat /\ Len(s \o e) = Len(s) + Len(e)
         /\ \A k \in 1 .. Len(s) : (s \o e)[k] = s[k]
         /\ \A k \in 1 .. Len(e) : (s \o e)[k + Len(s)] = e[k]
  OBVIOUS

LEMMA TailOf ==
  ASSUME NEW s \in Seq(Message), s # <<>>
  PROVE  /\ Tail(s) \in Seq(Message) /\ Len(Tail(s)) = Len(s) - 1
         /\ \A k \in 1 .. Len(s) - 1 : Tail(s)[k] = s[k + 1]
         /\ Len(s) \in Nat /\ Len(s) > 0 /\ Head(s) = s[1] /\ s[1] \in Message
  OBVIOUS

LEMMA SendMoves ==
  ASSUME TypeOK, NEW w, NEW m \in Message, Send(w, m)
  PROVE  Moved({}, {w}, <<m>>)
  <1>1. chan' = [chan EXCEPT ![w] = Append(@, m)]
    BY DEF Send
  <1>2. chan \in [Wires -> Seq(Message)]
    BY DEF TypeOK
  <1>3. \A s \in Seq(Message) : /\ Append(s, m) = s \o <<m>> /\ s \o <<>> = s
                                /\ Append(s, m) \in Seq(Message)
    OBVIOUS
  <1>4. chan' \in [Wires -> Seq(Message)]
    BY <1>1, <1>2, <1>3
  <1>5. \A u \in Wires : chan'[u] = IF u = w THEN Append(chan[u], m) ELSE chan[u]
    BY <1>1, <1>2
  <1> QED BY <1>2, <1>3, <1>4, <1>5 DEF Moved

LEMMA DropMoves ==
  ASSUME TypeOK, NEW w \in Wires, chan[w] # <<>>, Drop(w)
  PROVE  Moved({w}, {}, <<>>)
  <1>1. chan' = [chan EXCEPT ![w] = Tail(@)]
    BY DEF Drop
  <1>2. chan \in [Wires -> Seq(Message)]
    BY DEF TypeOK
  <1>3. \A s \in Seq(Message) : s \o <<>> = s
    OBVIOUS
  <1>4. chan[w] \in Seq(Message) /\ Tail(chan[w]) \in Seq(Message)
    BY <1>2, TailOf
  <1>5. chan' \in [Wires -> Seq(Message)]
    BY <1>1, <1>2, <1>4
  <1>6. \A u \in Wires : chan'[u] = IF u = w THEN Tail(chan[u]) ELSE chan[u]
    BY <1>1, <1>2
  <1> QED BY <1>2, <1>3, <1>4, <1>5, <1>6 DEF Moved

LEMMA PassMoves ==
  ASSUME TypeOK, NEW w \in Wires, chan[w] # <<>>, NEW v, v # w,
         NEW ms \in Seq(Message), Pass(w, v, ms)
  PROVE  Moved({w}, {v}, ms)
  <1>1. chan' = [chan EXCEPT ![w] = Tail(@), ![v] = @ \o ms]
    BY DEF Pass
  <1>2. chan \in [Wires -> Seq(Message)]
    BY DEF TypeOK
  <1>3. \A s \in Seq(Message) : s \o <<>> = s /\ s \o ms \in Seq(Message)
    OBVIOUS
  <1>4. chan[w] \in Seq(Message) /\ Tail(chan[w]) \in Seq(Message)
    BY <1>2, TailOf
  <1>5. ASSUME NEW u \in Wires
        PROVE  chan'[u] = IF u = w THEN Tail(chan[u]) ELSE IF u = v THEN chan[u] \o ms ELSE chan[u]
    BY <1>1, <1>2
  <1>6. chan' \in [Wires -> Seq(Message)]
    <2>1. \A u \in Wires : chan'[u] \in Seq(Message)
      BY <1>2, <1>3, <1>4, <1>5
    <2>2. chan' = [u \in Wires |-> chan'[u]]
      BY <1>1, <1>2
    <2> QED BY <2>1, <2>2
  <1> QED BY <1>2, <1>3, <1>4, <1>5, <1>6 DEF Moved

LEMMA StillMoves ==
  ASSUME TypeOK, UNCHANGED chan
  PROVE  Moved({}, {}, <<>>)
  <1>1. chan \in [Wires -> Seq(Message)]
    BY DEF TypeOK
  <1>2. \A s \in Seq(Message) : s \o <<>> = s
    OBVIOUS
  <1> QED BY <1>1, <1>2 DEF Moved

\* Where the messages of a wire are: every message after the step was there before, further
\* down its wire, or is new; and every message stays unless it was a head that is
\* taken.
LEMMA OldOrNew ==
  ASSUME TypeOK, NEW out, NEW in, NEW ms \in Seq(Message), Moved(out, in, ms), NEW u \in Wires
  PROVE  /\ Shift(out, u) \in {0, 1} /\ Len(chan[u]) \in Nat
         /\ \A k \in DOMAIN chan'[u] :
               /\ k \in Nat /\ k > 0 /\ chan'[u][k] \in Message
               /\ \/ k + Shift(out, u) \in DOMAIN chan[u] /\ chan'[u][k] = chan[u][k + Shift(out, u)]
                  \/ /\ u \in in /\ k + Shift(out, u) > Len(chan[u])
                     /\ k + Shift(out, u) - Len(chan[u]) \in DOMAIN ms
                     /\ chan'[u][k] = ms[k + Shift(out, u) - Len(chan[u])]
         /\ \A k \in DOMAIN chan[u] :
               /\ k \in Nat /\ k > 0
               /\ \/ u \in out /\ k = 1
                  \/ k - Shift(out, u) \in DOMAIN chan'[u]
                     /\ chan'[u][k - Shift(out, u)] = chan[u][k]
         /\ u \in in => \A k \in DOMAIN ms :
               /\ k + Len(chan[u]) - Shift(out, u) \in DOMAIN chan'[u]
               /\ chan'[u][k + Len(chan[u]) - Shift(out, u)] = ms[k]
  <1> DEFINE s == chan[u]
             t == chan'[u]
             d == Shift(out, u)
             e == IF u \in in THEN ms ELSE <<>>
  <1>1. /\ s \in Seq(Message) /\ e \in Seq(Message) /\ d \in {0, 1}
        /\ d = 1 => s # <<>>
        /\ t = (IF d = 1 THEN Tail(s) ELSE s) \o e
    <2>1. s \in Seq(Message) /\ e \in Seq(Message)
      BY DEF TypeOK
    <2>2. d \in {0, 1} /\ (d = 1 <=> u \in out)
      BY DEF Shift
    <2>3. /\ u \in out => s # <<>>
          /\ t = (IF u \in out THEN Tail(s) ELSE s) \o e
      BY DEF Moved
    <2> QED BY <2>1, <2>2, <2>3
  <1>2. (d = 1 => u \in out) /\ (u \notin in => DOMAIN e = {}) /\ (u \in in => e = ms)
    BY DEF Shift
  <1> HIDE DEF s, t, d, e
  <1>3. /\ t \in Seq(Message) /\ Len(s) \in Nat /\ Len(t) \in Nat
        /\ \A k \in DOMAIN t :
               /\ k \in Nat /\ k > 0 /\ t[k] \in Message
               /\ \/ k + d \in DOMAIN s /\ t[k] = s[k + d]
                  \/ /\ k + d > Len(s) /\ k + d - Len(s) \in DOMAIN e
                     /\ t[k] = e[k + d - Len(s)]
        /\ \A k \in DOMAIN s :
               /\ k \in Nat /\ k > 0
               /\ (d = 1 /\ k = 1) \/ (k - d \in DOMAIN t /\ t[k - d] = s[k])
        /\ \A k \in DOMAIN e : k + Len(s) - d \in DOMAIN t /\ t[k + Len(s) - d] = e[k]
    <2> DEFINE r == IF d = 1 THEN Tail(s) ELSE s
    <2>0. d \in Nat /\ (d = 0 \/ d = 1)
      BY <1>1
    <2>1. /\ r \in Seq(Message) /\ Len(r) = Len(s) - d /\ Len(s) \in Nat /\ Len(e) \in Nat
          /\ \A k \in 1 .. Len(r) : r[k] = s[k + d]
      <3>1. CASE d = 1
        BY <1>1, <3>1, TailOf
      <3>2. CASE d = 0
        BY <1>1, <3>2
      <3> QED BY <2>0, <3>1, <3>2
    <2> HIDE DEF r
    <2>2. /\ r \o e \in Seq(Message) /\ Len(r) \in Nat
          /\ Len(r \o e) = Len(r) + Len(e)
          /\ \A k \in 1 .. Len(r) : (r \o e)[k] = r[k]
          /\ \A k \in 1 .. Len(e) : (r \o e)[k + Len(r)] = e[k]
      BY <1>1, <2>1, Joined
    <2>3. t = r \o e
      BY <1>1 DEF r
    <2>4. /\ t \in Seq(Message) /\ Len(t) = Len(r) + Len(e)
          /\ \A k \in 1 .. Len(r) : t[k] = s[k + d]
          /\ \A k \in 1 .. Len(e) : t[k + Len(r)] = e[k]
      BY <2>1, <2>2, <2>3
    <2>5. DOMAIN t = 1 .. Len(t) /\ DOMAIN s = 1 .. Len(s) /\ DOMAIN e = 1 .. Len(e)
      BY <2>4
    <2>6. ASSUME NEW k \in DOMAIN t
          PROVE  /\ k \in Nat /\ k > 0 /\ t[k] \in Message
                 /\ \/ k + d \in DOMAIN s /\ t[k] = s[k + d]
                    \/ /\ k + d > Len(s) /\ k + d - Len(s) \in DOMAIN e
                       /\ t[k] = e[k + d - Len(s)]
      <3>1. t[k] \in Message
        BY <2>4
      <3>2. k \in Nat /\ k > 0 /\ k <= Len(r) + Len(e)
        BY <2>1, <2>2, <2>4, <2>5
      <3>3. CASE k <= Len(r)
        <4>1. k \in 1 .. Len(r) /\ k + d \in 1 .. Len(s)
          BY <2>0, <2>1, <2>2, <3>2, <3>3
        <4> QED BY <2>4, <2>5, <3>1, <3>2, <4>1
      <3>4. CASE k > Len(r)
        <4>1. k - Len(r) \in 1 .. Len(e) /\ k - Len(r) + Len(r) = k
          BY <2>2, <3>2, <3>4
        <4>3. k - Len(r) = k + d - Len(s) /\ k + d > Len(s)
          BY <2>0, <2>1, <2>2, <3>2, <3>4
        <4>2. t[k] = e[k - Len(r)]
          BY <2>4, <4>1
        <4> QED BY <2>5, <3>1, <3>2, <4>1, <4>2, <4>3
      <3> QED BY <2>2, <3>2, <3>3, <3>4
    <2>7. ASSUME NEW k \in DOMAIN s
          PROVE  /\ k \in Nat /\ k > 0
                 /\ (d = 1 /\ k = 1) \/ (k - d \in DOMAIN t /\ t[k - d] = s[k])
      <3>1. k \in Nat /\ k > 0 /\ k <= Len(s)
        BY <2>1, <2>5
      <3>2. CASE k - d >= 1
        <4>1. k - d \in 1 .. Len(r) /\ k - d + d = k
          BY <2>0, <2>1, <3>1, <3>2
        <4>2. k - d \in DOMAIN t
          BY <2>1, <2>2, <2>4, <2>5, <4>1
        <4> QED BY <2>4, <3>1, <4>1, <4>2
      <3>3. CASE k - d < 1
        BY <2>0, <3>1, <3>3
      <3> QED BY <2>0, <3>1, <3>2, <3>3
    <2>8. ASSUME NEW k \in DOMAIN e
          PROVE  k + Len(s) - d \in DOMAIN t /\ t[k + Len(s) - d] = e[k]
      <3>1. k \in 1 .. Len(e) /\ k + Len(s) - d = k + Len(r)
        BY <2>0, <2>1, <2>5
      <3>2. k + Len(r) \in 1 .. Len(t)
        BY <2>2, <2>4, <3>1
      <3> QED BY <2>4, <2>5, <3>1, <3>2
    <2>9. Len(t) \in Nat
      BY <2>4
    <2> QED BY <2>1, <2>4, <2>6, <2>7, <2>8, <2>9
  <1>4. /\ d \in {0, 1} /\ Len(s) \in Nat
        /\ \A k \in DOMAIN t :
               /\ k \in Nat /\ k > 0 /\ t[k] \in Message
               /\ \/ k + d \in DOMAIN s /\ t[k] = s[k + d]
                  \/ /\ u \in in /\ k + d > Len(s) /\ k + d - Len(s) \in DOMAIN ms
                     /\ t[k] = ms[k + d - Len(s)]
        /\ \A k \in DOMAIN s :
               /\ k \in Nat /\ k > 0
               /\ (u \in out /\ k = 1) \/ (k - d \in DOMAIN t /\ t[k - d] = s[k])
        /\ u \in in => \A k \in DOMAIN ms :
               k + Len(s) - d \in DOMAIN t /\ t[k + Len(s) - d] = ms[k]
    BY <1>1, <1>2, <1>3
  <1> QED BY <1>4 DEF s, t, d, e

-----------------------------------------------------------------------------
(* Types.  That a handler finds what it expects rests on which messages    *)
(* come on which wires, and on the numbers of the waves.                   *)

Kind(m, w, n) ==
    /\ m.type \in {"REGISTER", "CONNECT", "REQ_LEAVE"} => w[1] \in Nodes
    /\ m.type = "AGENT_UPDATE" => w[1] \in Servers
    /\ m.type = "WAVE" => m.id <= n

Kinds == \A w \in Wires : \A k \in DOMAIN chan[w] : Kind(chan[w][k], w, Len(waves))

SavedWaves ==
    \A a \in Agents : \A k \in DOMAIN saved[a] :
        saved[a][k].type = "WAVE" /\ saved[a][k].id <= Len(waves)

Targets == \A a \in Agents : phase[a] \in {"leaving", "stopping", "transit"} => target[a] \in Nodes

TypeInv == TypeOK /\ Kinds /\ SavedWaves /\ Targets

\* What a handler knows of the message it handles.
LEMMA HeadFacts ==
  ASSUME TypeInv, NEW w \in Wires, NEW t, Incoming(w, t)
  PROVE  /\ chan[w] # <<>> /\ 1 \in DOMAIN chan[w] /\ Head(chan[w]) = chan[w][1]
         /\ Head(chan[w]) \in Message /\ Head(chan[w]).type = t /\ Kind(Head(chan[w]), w, Len(waves))
         /\ t # "WAVE" => t \in ProtocolTypes /\ Head(chan[w]).agent \in Agents
         /\ t = "WAVE" => /\ Head(chan[w]).id \in Ids /\ Head(chan[w]).hops \in Nat
                          /\ Head(chan[w]).id \in DOMAIN waves
                          /\ waves[Head(chan[w]).id].to \in Agents
  <1>1. chan[w] # <<>> /\ Head(chan[w]).type = t /\ chan[w] \in Seq(Message)
    BY DEF Incoming, TypeInv, TypeOK
  <1>2. 1 \in DOMAIN chan[w] /\ Head(chan[w]) = chan[w][1] /\ chan[w][1] \in Message
    BY <1>1, TailOf
  <1>3. Kind(Head(chan[w]), w, Len(waves))
    BY <1>2 DEF TypeInv, Kinds
  <1>4. t # "WAVE" => t \in ProtocolTypes /\ Head(chan[w]).agent \in Agents
    BY <1>1, <1>2, MessageForms
  <1>5. ASSUME t = "WAVE"
        PROVE  /\ Head(chan[w]).id \in Ids /\ Head(chan[w]).hops \in Nat
               /\ Head(chan[w]).id \in DOMAIN waves
               /\ waves[Head(chan[w]).id].to \in Agents
    <2>1. Head(chan[w]).id \in Ids /\ Head(chan[w]).hops \in Nat
      BY <1>1, <1>2, <1>5, MessageForms
    <2> DEFINE W == [from : Agents, to : Agents, known : BOOLEAN]
    <2>2. waves \in Seq(W)
      BY DEF TypeInv, TypeOK
    <2>3. Head(chan[w]).id <= Len(waves)
      BY <1>1, <1>3, <1>5 DEF Kind
    <2>4. Head(chan[w]).id \in DOMAIN waves
      BY <2>1, <2>2, <2>3 DEF Ids
    <2>5. waves[Head(chan[w]).id] \in W
      <3> HIDE DEF W
      <3> QED BY <2>2, <2>4
    <2> QED BY <2>1, <2>4, <2>5
  <1> QED BY <1>1, <1>2, <1>3, <1>4, <1>5

\* What is sent by a server does not go back into the wire it came from.
LEMMA ServerMoves ==
  ASSUME TypeInv, NEW s \in Servers, NEW w \in Wires, NEW t, Handles(s, w, t)
  PROVE  /\ Drop(w) => Moved({w}, {}, <<>>)
         /\ \A x : \A ms \in Seq(Message) :
               Pass(w, <<s, x>>, ms) => Moved({w}, {<<s, x>>}, ms)
  <1>1. chan[w] # <<>> /\ w[2] = s /\ TypeOK
    BY DEF Handles, Incoming, TypeInv
  <1>2. \A x : <<s, x>> # w
    BY <1>1, WireEnds
  <1>3. Drop(w) => Moved({w}, {}, <<>>)
    BY <1>1, DropMoves
  <1>4. ASSUME NEW x, NEW ms \in Seq(Message), Pass(w, <<s, x>>, ms)
        PROVE  Moved({w}, {<<s, x>>}, ms)
    <2>1. <<s, x>> # w
      BY <1>2
    <2> QED BY <1>1, <1>4, <2>1, PassMoves
  <1> QED BY <1>3, <1>4

\* The kinds hold for the messages that stay if they hold for those that are new.
LEMMA KindsMoved ==
  ASSUME TypeOK, Kinds, NEW out, NEW in, NEW ms \in Seq(Message), Moved(out, in, ms),
         Len(waves') \in Nat, Len(waves) <= Len(waves'),
         \A u \in Wires \cap in : \A k \in DOMAIN ms : Kind(ms[k], u, Len(waves'))
  PROVE  Kinds'
  <1> SUFFICES ASSUME NEW u \in Wires, NEW k \in DOMAIN chan'[u]
               PROVE Kind(chan'[u][k], u, Len(waves'))
    BY DEF Kinds
  <1>1. /\ chan'[u][k] \in Message
        /\ \/ k + Shift(out, u) \in DOMAIN chan[u] /\ chan'[u][k] = chan[u][k + Shift(out, u)]
           \/ /\ u \in in /\ k + Shift(out, u) - Len(chan[u]) \in DOMAIN ms
              /\ chan'[u][k] = ms[k + Shift(out, u) - Len(chan[u])]
    BY OldOrNew
  <1>2. CASE k + Shift(out, u) \in DOMAIN chan[u] /\ chan'[u][k] = chan[u][k + Shift(out, u)]
    <2>1. Kind(chan'[u][k], u, Len(waves))
      BY <1>2 DEF Kinds
    <2>2. chan'[u][k].type = "WAVE" => chan'[u][k].id \in Ids
      BY <1>1, MessageForms
    <2>3. Len(waves) \in Nat
      BY DEF TypeOK
    <2> QED BY <2>1, <2>2, <2>3 DEF Kind, Ids
  <1>3. CASE /\ u \in in /\ k + Shift(out, u) - Len(chan[u]) \in DOMAIN ms
             /\ chan'[u][k] = ms[k + Shift(out, u) - Len(chan[u])]
    BY <1>3
  <1> QED BY <1>1, <1>2, <1>3

\* One message or none is new.
LEMMA KindsSent ==
  ASSUME TypeOK, Kinds, NEW out, NEW w, NEW m \in Message, Moved(out, {w}, <<m>>),
         Len(waves') \in Nat, Len(waves) <= Len(waves'), Kind(m, w, Len(waves'))
  PROVE  Kinds'
  <1>1. <<m>> \in Seq(Message)
    OBVIOUS
  <1>2. \A k \in DOMAIN <<m>> : <<m>>[k] = m
    OBVIOUS
  <1>3. \A u \in Wires \cap {w} : \A k \in DOMAIN <<m>> : Kind(<<m>>[k], u, Len(waves'))
    BY <1>2
  <1> QED BY <1>1, <1>3, KindsMoved

LEMMA KindsDropped ==
  ASSUME TypeOK, Kinds, NEW out, Moved(out, {}, <<>>), UNCHANGED waves
  PROVE  Kinds'
  <1>1. <<>> \in Seq(Message) /\ Len(waves') \in Nat /\ Len(waves) <= Len(waves')
    BY DEF TypeOK
  <1>2. \A u \in Wires \cap {} : \A k \in DOMAIN <<>> : Kind(<<>>[k], u, Len(waves'))
    OBVIOUS
  <1> QED BY <1>1, <1>2, KindsMoved

\* The steps of the agents and of their pylons.
LEMMA AgentTypes ==
  ASSUME TypeInv,
         \/ \E a \in Agents : Start(a) \/ Depart(a) \/ Arrive(a)
         \/ \E a, b \in Agents : SendWave(b, a)
         \/ \E a \in Agents, n \in Nodes : Move(a, n)
         \/ \E n \in Nodes : Receive(n)
  PROVE  TypeInv'
  <1> USE RegionAssumption, OriginAssumption, BoundsAssumption
  <1>0. TypeOK /\ Kinds /\ SavedWaves /\ Targets
    BY DEF TypeInv
  <1>w. waves \in Seq([from : Agents, to : Agents, known : BOOLEAN]) /\ Len(waves) \in Nat
    BY <1>0 DEF TypeOK
  <1>1. ASSUME NEW a \in Agents, Start(a) PROVE TypeInv'
    <2>1. Moved({}, {Up(a)}, <<Msg("REGISTER", a)>>)
      BY <1>0, <1>1, SendMoves, MessageForms DEF Start, ProtocolTypes
    <2>2. Kinds'
      <3>1. Msg("REGISTER", a) \in Message /\ Kind(Msg("REGISTER", a), Up(a), Len(waves'))
        BY <1>0, MessageForms DEF Kind, Up, TypeOK, ProtocolTypes
      <3>2. UNCHANGED waves
        BY <1>1 DEF Start
      <3> QED BY <1>0, <1>w, <2>1, <3>1, <3>2, KindsSent
    <2> QED BY <1>0, <1>1, <2>1, <2>2 DEF Start, TypeInv, TypeOK, SavedWaves, Targets, homeVars, Moved
  <1>2. ASSUME NEW a \in Agents, Depart(a) PROVE TypeInv'
    BY <1>0, <1>2 DEF Depart, TypeInv, TypeOK, Kinds, Kind, SavedWaves, Targets, homeVars
  <1>3. ASSUME NEW a \in Agents, Arrive(a) PROVE TypeInv'
    <2>0. target[a] \in Nodes
      BY <1>0, <1>3 DEF Arrive, Targets
    <2>1. Moved({}, {<<target[a], Region[target[a]]>>}, <<Msg("CONNECT", a)>>)
      BY <1>0, <1>3, SendMoves, MessageForms DEF Arrive, ProtocolTypes
    <2>2. Kinds'
      <3>1. /\ Msg("CONNECT", a) \in Message
            /\ Kind(Msg("CONNECT", a), <<target[a], Region[target[a]]>>, Len(waves'))
        BY <2>0, MessageForms DEF Kind, ProtocolTypes
      <3>2. UNCHANGED waves
        BY <1>3 DEF Arrive
      <3> QED BY <1>0, <1>w, <2>1, <3>1, <3>2, KindsSent
    <2>3. got[a] \o inQueue[a] \in Seq(Ids) /\ <<>> \in Seq(Ids)
      BY <1>0 DEF TypeOK
    <2> QED BY <1>0, <1>3, <2>0, <2>1, <2>2, <2>3 DEF Arrive, TypeInv, TypeOK, SavedWaves, Targets, homeVars, Moved
  <1>4. ASSUME NEW a \in Agents, NEW b \in Agents, SendWave(b, a) PROVE TypeInv'
    <2>1. Len(waves) + 1 \in Ids
      BY <1>w, <1>4 DEF SendWave, Ids
    <2>2. Moved({}, {Up(b)}, <<Wave(Len(waves) + 1, 0)>>)
      BY <1>0, <1>4, <2>1, SendMoves, MessageForms DEF SendWave
    <2>3. /\ waves' = Append(waves, [from |-> b, to |-> a, known |-> status[a] # "none"])
          /\ UNCHANGED <<shardVars, homeVars, guests, moves>>
      BY <1>4 DEF SendWave
    <2>4. [from |-> b, to |-> a, known |-> status[a] # "none"] \in [from : Agents, to : Agents, known : BOOLEAN]
      <3>1. (status[a] # "none") \in BOOLEAN
        BY Zenon
      <3> QED BY <3>1
    <2>5. waves' \in Seq([from : Agents, to : Agents, known : BOOLEAN]) /\ Len(waves') = Len(waves) + 1
      BY <1>w, <2>3, <2>4
    <2>6. Kinds'
      <3>1. /\ Wave(Len(waves) + 1, 0) \in Message
            /\ Kind(Wave(Len(waves) + 1, 0), Up(b), Len(waves'))
        BY <1>w, <2>1, <2>5, MessageForms DEF Kind
      <3> QED BY <1>0, <1>w, <2>2, <2>5, <3>1, KindsSent
    <2>7. Len(waves') <= MaxWaves
      BY <1>w, <1>4, <2>5 DEF SendWave
    <2>8. SavedWaves'
      <3>1. \A i \in Ids : i <= Len(waves) => i <= Len(waves')
        BY <1>w, <2>5 DEF Ids
      <3>2. ASSUME NEW c \in Agents, NEW k \in DOMAIN saved[c]
            PROVE saved[c][k].type = "WAVE" /\ saved[c][k].id <= Len(waves')
        <4>1. saved[c] \in Seq(Message) /\ saved[c][k] \in Message
          BY <1>0 DEF TypeOK
        <4> QED BY <1>0, <3>1, <4>1, MessageForms DEF SavedWaves
      <3> QED BY <2>3, <3>2 DEF SavedWaves, homeVars
    <2> QED BY <1>0, <2>2, <2>3, <2>5, <2>6, <2>7, <2>8 DEF TypeInv, TypeOK, Targets, homeVars, shardVars, Moved
  <1>5. ASSUME NEW a \in Agents, NEW n \in Nodes, Move(a, n) PROVE TypeInv'
    <2>1. Moved({}, {Up(a)}, <<Msg("REQ_LEAVE", a)>>)
      BY <1>0, <1>5, SendMoves, MessageForms DEF Move, ProtocolTypes
    <2>2. Kinds'
      <3>1. Msg("REQ_LEAVE", a) \in Message /\ Kind(Msg("REQ_LEAVE", a), Up(a), Len(waves'))
        BY <1>0, MessageForms DEF Kind, Up, TypeOK, ProtocolTypes
      <3>2. UNCHANGED waves
        BY <1>5 DEF Move
      <3> QED BY <1>0, <1>w, <2>1, <3>1, <3>2, KindsSent
    <2>3. moves' \in 0 .. MaxMoves /\ <<>> \in Seq(Ids)
      BY <1>0, <1>5 DEF Move, TypeOK
    <2> QED BY <1>0, <1>5, <2>1, <2>2, <2>3 DEF Move, TypeInv, TypeOK, SavedWaves, Targets, homeVars, Moved
  <1>6. ASSUME NEW n \in Nodes, Receive(n) PROVE TypeInv'
    <2> DEFINE w == <<Region[n], n>>
    <2>0. w \in Wires
      BY DEF Wires
    <2>1. Drop(w) /\ chan[w] # <<>> /\ UNCHANGED <<homeVars, guests, waves, moves, node, target>>
      BY <1>6 DEF Receive, ReceiveWave, ReceiveAccept, Incoming
    <2>2. Moved({w}, {}, <<>>)
      BY <1>0, <2>0, <2>1, DropMoves
    <2>3. Kinds'
      BY <1>0, <2>1, <2>2, KindsDropped
    <2>4. CASE ReceiveWave(n)
      <3> DEFINE a == waves[Head(chan[w]).id].to
      <3>1. Head(chan[w]).id \in Ids /\ a \in Agents
        BY <2>0, <2>4, HeadFacts DEF ReceiveWave
      <3>2. /\ inQueue \in [Agents -> Seq(Ids)] /\ got \in [Agents -> Seq(Ids)]
            /\ Append(inQueue[a], Head(chan[w]).id) \in Seq(Ids)
            /\ Append(got[a], Head(chan[w]).id) \in Seq(Ids)
        <4>1. inQueue \in [Agents -> Seq(Ids)] /\ got \in [Agents -> Seq(Ids)]
          BY <1>0 DEF TypeOK
        <4>2. inQueue[a] \in Seq(Ids) /\ got[a] \in Seq(Ids)
          BY <3>1, <4>1
        <4> HIDE DEF a
        <4> QED BY <3>1, <4>1, <4>2
      <3>3. \/ UNCHANGED <<inQueue, got>>
            \/ inQueue' = [inQueue EXCEPT ![a] = Append(@, Head(chan[w]).id)] /\ got' = got
            \/ got' = [got EXCEPT ![a] = Append(@, Head(chan[w]).id)] /\ inQueue' = inQueue
        BY <2>4 DEF ReceiveWave
      <3> HIDE DEF a
      <3>4. inQueue' \in [Agents -> Seq(Ids)] /\ got' \in [Agents -> Seq(Ids)]
        BY <3>1, <3>2, <3>3
      <3>5. UNCHANGED phase
        BY <2>4 DEF ReceiveWave
      <3> QED BY <1>0, <2>1, <2>2, <2>3, <3>4, <3>5 DEF TypeInv, TypeOK, SavedWaves, Targets, homeVars, Moved
    <2>5. CASE ReceiveAccept(n)
      <3>1. /\ UNCHANGED <<inQueue, got>>
            /\ \E a \in Agents : \/ phase' = [phase EXCEPT ![a] = "stopping"] /\ phase[a] = "leaving"
                               \/ phase' = [phase EXCEPT ![a] = phase[a]]
        <4> DEFINE a == Head(chan[w]).agent
        <4>1. a \in Agents
          BY <2>0, <2>5, HeadFacts DEF ReceiveAccept
        <4>2. UNCHANGED <<inQueue, got>>
          BY <2>5 DEF ReceiveAccept
        <4>3. phase' = [phase EXCEPT ![a] = IF Registered(a, n) /\ @ = "leaving" THEN "stopping" ELSE @]
          BY <2>5 DEF ReceiveAccept
        <4> QED BY <4>1, <4>2, <4>3
      <3>2. /\ phase' \in [Agents -> {"new", "running", "leaving", "stopping", "transit"}]
            /\ \A a \in Agents : phase'[a] = phase[a] \/ (phase[a] = "leaving" /\ phase'[a] = "stopping")
        BY <1>0, <3>1 DEF TypeOK
      <3>3. Targets'
        BY <1>0, <2>1, <3>2 DEF Targets
      <3> QED BY <1>0, <2>1, <2>2, <2>3, <3>1, <3>2, <3>3 DEF TypeInv, TypeOK, SavedWaves, homeVars, Moved
    <2> QED BY <1>6, <2>4, <2>5 DEF Receive
  <1> QED BY <1>1, <1>2, <1>3, <1>4, <1>5, <1>6

\* One entry of the tables of guests is set.
LEMMA GuestsSet ==
  ASSUME guests \in [Servers -> [Agents -> Nodes \cup {NoNode}]], NEW s \in Servers,
         NEW a \in Agents, NEW v \in Nodes \cup {NoNode}, guests' = [guests EXCEPT ![s][a] = v]
  PROVE  /\ guests' \in [Servers -> [Agents -> Nodes \cup {NoNode}]]
         /\ \A t \in Servers, b \in Agents :
               guests'[t][b] = IF t = s /\ b = a THEN v ELSE guests[t][b]
  <1>1. /\ guests[s] \in [Agents -> Nodes \cup {NoNode}]
        /\ guests' = [guests EXCEPT ![s] = [guests[s] EXCEPT ![a] = v]]
    OBVIOUS
  <1>2. /\ [guests[s] EXCEPT ![a] = v] \in [Agents -> Nodes \cup {NoNode}]
        /\ \A b \in Agents : [guests[s] EXCEPT ![a] = v][b] = IF b = a THEN v ELSE guests[s][b]
    BY <1>1
  <1> QED BY <1>1, <1>2

\* What a home server sends on of what it saved for an agent.
Forwarded(a) == [i \in DOMAIN saved[a] |-> [saved[a][i] EXCEPT !.hops = @ + 1]]

LEMMA ForwardedWaves ==
  ASSUME TypeInv, NEW a \in Agents
  PROVE  /\ Forwarded(a) \in Seq(Message) /\ DOMAIN Forwarded(a) = DOMAIN saved[a]
         /\ \A i \in DOMAIN Forwarded(a) :
               /\ Forwarded(a)[i].type = "WAVE" /\ Forwarded(a)[i].id <= Len(waves)
               /\ Forwarded(a)[i].id = saved[a][i].id
               /\ saved[a][i].hops \in Nat /\ Forwarded(a)[i].hops = saved[a][i].hops + 1
  <1> DEFINE ms == Forwarded(a)
             Waves == [type : {"WAVE"}, id : Ids, hops : Nat]
  <1>1. saved[a] \in Seq(Message) /\ DOMAIN ms = DOMAIN saved[a]
    BY DEF TypeInv, TypeOK, Forwarded
  <1>2. ASSUME NEW i \in DOMAIN saved[a]
        PROVE  /\ ms[i] \in Message /\ ms[i].type = "WAVE" /\ ms[i].id <= Len(waves)
               /\ ms[i].id = saved[a][i].id
               /\ saved[a][i].hops \in Nat /\ ms[i].hops = saved[a][i].hops + 1
    <2>1. saved[a][i] \in Message /\ saved[a][i].type = "WAVE" /\ saved[a][i].id <= Len(waves)
      BY <1>1 DEF SavedWaves, TypeInv
    <2>2. saved[a][i] \in Waves
      BY <2>1 DEF Message, ProtocolTypes
    <2>3. ms[i] = [saved[a][i] EXCEPT !.hops = @ + 1]
      BY DEF Forwarded
    <2>4. \A m \in Waves : /\ [m EXCEPT !.hops = @ + 1] \in Waves
                           /\ [m EXCEPT !.hops = @ + 1].id = m.id
                           /\ m.hops \in Nat /\ [m EXCEPT !.hops = @ + 1].hops = m.hops + 1
      OBVIOUS
    <2>5. /\ ms[i] \in Waves /\ ms[i].id = saved[a][i].id
          /\ saved[a][i].hops \in Nat /\ ms[i].hops = saved[a][i].hops + 1
      BY <2>2, <2>3, <2>4
    <2> QED BY <2>1, <2>5 DEF Message
  <1>3. ms \in Seq(Message)
    <2>1. DOMAIN saved[a] = 1 .. Len(saved[a]) /\ Len(saved[a]) \in Nat
      BY <1>1
    <2>2. ms \in [1 .. Len(saved[a]) -> Message]
      BY <1>1, <1>2, <2>1 DEF Forwarded
    <2>3. \A n \in Nat : \A f \in [1 .. n -> Message] : f \in Seq(Message)
      OBVIOUS
    <2> HIDE DEF ms
    <2> QED BY <2>1, <2>2, <2>3
  <1> QED BY <1>1, <1>2, <1>3

\* The steps of the servers.
LEMMA ServerTypes ==
  ASSUME TypeInv, NEW s \in Servers, NEW w \in Wires, Serve(s, w)
  PROVE  TypeInv'
  <1> USE RegionAssumption, OriginAssumption, BoundsAssumption
  <1> DEFINE h == Head(chan[w])
  <1>0. TypeOK /\ Kinds /\ SavedWaves /\ Targets
    BY DEF TypeInv
  <1>w. Len(waves) \in Nat
    BY <1>0 DEF TypeOK
  <1>u. UNCHANGED <<shardVars, waves, moves>>
    BY DEF Serve, Register, ConnectHome, ConnectGuest, ReqLeave, ReqBuffer, ReqAccept, AgentUpdate, Content
  \* It is enough that the tables and the wires keep their types.
  <1>e. ASSUME homeVars' = homeVars \/ /\ status' \in [Agents -> {"none", "HOME", "OFFLINE", "REMOTE"}]
                                       /\ conn' \in [Agents -> Nodes \cup {NoNode}]
                                       /\ last' \in [Agents -> Servers]
                                       /\ saved' \in [Agents -> Seq(Message)] /\ SavedWaves',
               guests' \in [Servers -> [Agents -> Nodes \cup {NoNode}]],
               chan' \in [Wires -> Seq(Message)], Kinds'
        PROVE  TypeInv'
    <2>1. CASE homeVars' = homeVars
      BY <1>0, <1>e, <1>u, <2>1 DEF TypeInv, TypeOK, SavedWaves, Targets, shardVars, homeVars
    <2>2. CASE homeVars' # homeVars
      BY <1>0, <1>e, <1>u, <2>2 DEF TypeInv, TypeOK, Targets, shardVars
    <2> QED BY <2>1, <2>2
  \* What is dropped or sent.
  <1>d. ASSUME NEW t, Handles(s, w, t), Drop(w)
        PROVE  chan' \in [Wires -> Seq(Message)] /\ Kinds'
    <2>1. Moved({w}, {}, <<>>)
      BY <1>d, ServerMoves
    <2>2. Kinds'
      BY <1>0, <1>u, <2>1, KindsDropped
    <2> QED BY <2>1, <2>2 DEF Moved
  <1>p. ASSUME NEW t, Handles(s, w, t), NEW x, NEW m \in Message, Pass(w, <<s, x>>, <<m>>),
               Kind(m, <<s, x>>, Len(waves))
        PROVE  chan' \in [Wires -> Seq(Message)] /\ Kinds'
    <2>1. Moved({w}, {<<s, x>>}, <<m>>)
      <3>1. <<m>> \in Seq(Message)
        OBVIOUS
      <3> QED BY <1>p, <3>1, ServerMoves
    <2>2. Len(waves') \in Nat /\ Len(waves) <= Len(waves') /\ Kind(m, <<s, x>>, Len(waves'))
      BY <1>p, <1>u, <1>w
    <2>3. Kinds'
      BY <1>0, <2>1, <2>2, KindsSent
    <2> QED BY <2>1, <2>3 DEF Moved
  \* A protocol message that a server may send.
  <1>k. ASSUME NEW t \in {"REQ_BUFFER", "REQ_ACCEPT", "AGENT_UPDATE"}, NEW a \in Agents, NEW x
        PROVE  Msg(t, a) \in Message /\ Kind(Msg(t, a), <<s, x>>, Len(waves))
    BY MessageForms DEF Kind, ProtocolTypes
  <1>1. CASE Register(s, w)
    <2>1. h.agent \in Agents /\ w[1] \in Nodes
      BY <1>1, HeadFacts DEF Register, Handles, Kind
    <2>2. chan' \in [Wires -> Seq(Message)] /\ Kinds'
      BY <1>1, <1>d DEF Register
    <2>3. /\ status' = [status EXCEPT ![h.agent] = "HOME"]
          /\ conn' = [conn EXCEPT ![h.agent] = w[1]]
          /\ last' = [last EXCEPT ![h.agent] = s]
          /\ saved' = [saved EXCEPT ![h.agent] = <<>>]
          /\ guests' = guests
      BY <1>1 DEF Register
    <2>4. SavedWaves'
      BY <1>0, <1>u, <2>3 DEF SavedWaves, TypeOK
    <2>5. /\ status' \in [Agents -> {"none", "HOME", "OFFLINE", "REMOTE"}]
          /\ conn' \in [Agents -> Nodes \cup {NoNode}]
          /\ last' \in [Agents -> Servers]
      BY <1>0, <2>1, <2>3 DEF TypeOK
    <2>6. saved' \in [Agents -> Seq(Message)] /\ guests' = guests
      <3>1. saved \in [Agents -> Seq(Message)] /\ <<>> \in Seq(Message)
        BY <1>0 DEF TypeOK
      <3> HIDE DEF h
      <3> QED BY <2>3, <3>1
    <2>7. guests \in [Servers -> [Agents -> Nodes \cup {NoNode}]]
      BY <1>0 DEF TypeOK
    <2> QED BY <1>e, <2>2, <2>4, <2>5, <2>6, <2>7
  <1>2. CASE ConnectHome(s, w)
    <2>1. h.agent \in Agents /\ w[1] \in Nodes
      BY <1>2, HeadFacts DEF ConnectHome, Handles, Kind
    <2>2. CASE status[h.agent] = "OFFLINE"
      <3>1. /\ status' = [status EXCEPT ![h.agent] = "HOME"]
            /\ conn' = [conn EXCEPT ![h.agent] = w[1]]
            /\ last' = [last EXCEPT ![h.agent] = s]
            /\ saved' = [saved EXCEPT ![h.agent] = <<>>]
            /\ guests' = guests
            /\ Pass(w, <<s, w[1]>>, saved[h.agent])
        BY <1>2, <2>2 DEF ConnectHome
      <3>2. saved[h.agent] \in Seq(Message)
        BY <1>0, <2>1 DEF TypeOK
      <3>3. Moved({w}, {<<s, w[1]>>}, saved[h.agent])
        BY <1>2, <3>1, <3>2, ServerMoves DEF ConnectHome
      <3>4. \A k \in DOMAIN saved[h.agent] : Kind(saved[h.agent][k], <<s, w[1]>>, Len(waves'))
        BY <1>0, <1>u, <2>1 DEF SavedWaves, Kind
      <3>5. Kinds'
        <4>1. \A u \in Wires \cap {<<s, w[1]>>} : \A k \in DOMAIN saved[h.agent] :
                 Kind(saved[h.agent][k], u, Len(waves'))
          BY <3>4
        <4>2. Len(waves') \in Nat /\ Len(waves) <= Len(waves')
          BY <1>u, <1>w
        <4> HIDE DEF h
        <4> QED BY <1>0, <3>2, <3>3, <4>1, <4>2, KindsMoved
      <3>6. SavedWaves'
        BY <1>0, <1>u, <3>1 DEF SavedWaves, TypeOK
      <3> QED BY <1>0, <1>e, <2>1, <3>1, <3>3, <3>5, <3>6 DEF TypeOK, Moved
    <2>3. CASE status[h.agent] # "OFFLINE"
      <3>1. UNCHANGED <<homeVars, guests>> /\ Drop(w) /\ Handles(s, w, "CONNECT")
        BY <1>2, <2>3 DEF ConnectHome
      <3> QED BY <1>0, <1>d, <1>e, <3>1 DEF TypeOK
    <2> QED BY <2>2, <2>3
  <1>3. CASE ConnectGuest(s, w)
    <2>1. h.agent \in Agents /\ w[1] \in Nodes /\ Handles(s, w, "CONNECT") /\ UNCHANGED homeVars
      BY <1>3, HeadFacts DEF ConnectGuest, Handles, Kind
    <2>2. guests' \in [Servers -> [Agents -> Nodes \cup {NoNode}]]
      <3>1. guests' = guests \/ guests' = [guests EXCEPT ![s][h.agent] = w[1]]
        BY <1>3 DEF ConnectGuest
      <3>2. guests \in [Servers -> [Agents -> Nodes \cup {NoNode}]]
        BY <1>0 DEF TypeOK
      <3> HIDE DEF h
      <3> QED BY <2>1, <3>1, <3>2, GuestsSet
    <2>3. Drop(w) \/ Pass(w, <<s, Home(h.agent)>>, <<Msg("AGENT_UPDATE", h.agent)>>)
      BY <1>3 DEF ConnectGuest
    <2> QED BY <1>d, <1>e, <1>k, <1>p, <2>1, <2>2, <2>3
  <1>4. CASE ReqLeave(s, w)
    <2>1. h.agent \in Agents /\ Handles(s, w, "REQ_LEAVE") /\ UNCHANGED <<conn, last, saved, guests>>
      BY <1>4, HeadFacts DEF ReqLeave, Handles
    <2>2. status' = status \/ status' = [status EXCEPT ![h.agent] = "OFFLINE"]
      BY <1>4 DEF ReqLeave
    <2>3. \/ Drop(w)
          \/ Pass(w, <<s, conn[h.agent]>>, <<Msg("REQ_ACCEPT", h.agent)>>)
          \/ Pass(w, <<s, Home(h.agent)>>, <<Msg("REQ_BUFFER", h.agent)>>)
      BY <1>4 DEF ReqLeave
    <2>4. chan' \in [Wires -> Seq(Message)] /\ Kinds'
      BY <1>d, <1>k, <1>p, <2>1, <2>3
    <2>5. SavedWaves'
      BY <1>0, <1>u, <2>1 DEF SavedWaves
    <2> QED BY <1>0, <1>e, <2>1, <2>2, <2>4, <2>5 DEF TypeOK
  <1>5. CASE ReqBuffer(s, w)
    <2>1. h.agent \in Agents /\ Handles(s, w, "REQ_BUFFER") /\ UNCHANGED <<conn, last, saved, guests>>
      BY <1>5, HeadFacts DEF ReqBuffer, Handles
    <2>2. status' = status \/ status' = [status EXCEPT ![h.agent] = "OFFLINE"]
      BY <1>5 DEF ReqBuffer
    <2>3. Drop(w) \/ Pass(w, <<s, last[h.agent]>>, <<Msg("REQ_ACCEPT", h.agent)>>)
      BY <1>5 DEF ReqBuffer
    <2>4. chan' \in [Wires -> Seq(Message)] /\ Kinds'
      BY <1>d, <1>k, <1>p, <2>1, <2>3
    <2>5. SavedWaves'
      BY <1>0, <1>u, <2>1 DEF SavedWaves
    <2> QED BY <1>0, <1>e, <2>1, <2>2, <2>4, <2>5 DEF TypeOK
  <1>6. CASE ReqAccept(s, w)
    <2>1. h.agent \in Agents /\ Handles(s, w, "REQ_ACCEPT") /\ UNCHANGED homeVars
      BY <1>6, HeadFacts DEF ReqAccept, Handles
    <2>2. guests' \in [Servers -> [Agents -> Nodes \cup {NoNode}]]
      <3>1. guests' = guests \/ guests' = [guests EXCEPT ![s][h.agent] = NoNode]
        BY <1>6 DEF ReqAccept
      <3>2. guests \in [Servers -> [Agents -> Nodes \cup {NoNode}]]
        BY <1>0 DEF TypeOK
      <3> HIDE DEF h
      <3> QED BY <2>1, <3>1, <3>2, GuestsSet
    <2>3. Drop(w) \/ Pass(w, <<s, guests[s][h.agent]>>, <<Msg("REQ_ACCEPT", h.agent)>>)
      BY <1>6 DEF ReqAccept
    <2> QED BY <1>d, <1>e, <1>k, <1>p, <2>1, <2>2, <2>3
  <1>7. CASE AgentUpdate(s, w)
    <2>1. h.agent \in Agents /\ w[1] \in Servers /\ Handles(s, w, "AGENT_UPDATE") /\ UNCHANGED <<conn, guests>>
      BY <1>7, HeadFacts DEF AgentUpdate, Handles, Kind
    <2>2. CASE AtHome(s, h.agent)
      <3> DEFINE ms == Forwarded(h.agent)
      <3>1. /\ last' = [last EXCEPT ![h.agent] = w[1]]
            /\ status' = [status EXCEPT ![h.agent] = "REMOTE"]
            /\ saved' = [saved EXCEPT ![h.agent] = <<>>]
            /\ Pass(w, <<s, w[1]>>, ms)
        BY <1>7, <2>2 DEF AgentUpdate, Forwarded
      <3>4. ms \in Seq(Message)
        BY <2>1, ForwardedWaves
      <3>5. \A i \in DOMAIN ms : ms[i].type = "WAVE" /\ ms[i].id <= Len(waves)
        BY <2>1, ForwardedWaves
      <3> HIDE DEF ms
      <3>6. Moved({w}, {<<s, w[1]>>}, ms)
        BY <2>1, <3>1, <3>4, ServerMoves
      <3>7. \A k \in DOMAIN ms : Kind(ms[k], <<s, w[1]>>, Len(waves'))
        BY <1>u, <3>5 DEF Kind
      <3>8. Kinds'
        <4> DEFINE out == {w}
                   in == {<<s, w[1]>>}
        <4>1. Len(waves') \in Nat /\ Len(waves) <= Len(waves')
          BY <1>u, <1>w
        <4>2. Moved(out, in, ms) /\ \A v \in Wires \cap in : \A k \in DOMAIN ms : Kind(ms[k], v, Len(waves'))
          BY <3>6, <3>7
        <4> HIDE DEF out, in
        <4> QED BY <1>0, <3>4, <4>1, <4>2, KindsMoved
      <3>9. SavedWaves'
        BY <1>0, <1>u, <3>1 DEF SavedWaves, TypeOK
      <3> QED BY <1>0, <1>e, <2>1, <3>1, <3>6, <3>8, <3>9 DEF TypeOK, Moved
    <2>3. CASE ~AtHome(s, h.agent)
      <3>1. UNCHANGED homeVars /\ Drop(w)
        BY <1>7, <2>3 DEF AgentUpdate, homeVars
      <3> QED BY <1>0, <1>d, <1>e, <2>1, <3>1 DEF TypeOK
    <2> QED BY <2>2, <2>3
  <1>8. CASE Content(s, w)
    <2> DEFINE a == waves[h.id].to
    <2>1. /\ Handles(s, w, "WAVE") /\ UNCHANGED <<status, conn, last, guests>>
          /\ h.id \in Ids /\ h.hops \in Nat /\ a \in Agents /\ h \in Message /\ h.type = "WAVE"
          /\ Kind(h, w, Len(waves))
      BY <1>8, HeadFacts DEF Content, Handles
    <2>2. h.id <= Len(waves)
      BY <2>1 DEF Kind
    <2>3. \/ saved' = saved /\ \E x : Pass(w, <<s, x>>, <<h>>) \/ Pass(w, <<s, x>>, <<Wave(h.id, h.hops + 1)>>)
          \/ saved' = saved /\ Drop(w)
          \/ saved' = [saved EXCEPT ![a] = Append(@, h)] /\ Drop(w)
      BY <1>8 DEF Content
    <2>4. ASSUME NEW x
          PROVE /\ Kind(h, <<s, x>>, Len(waves)) /\ Wave(h.id, h.hops + 1) \in Message
                /\ Kind(Wave(h.id, h.hops + 1), <<s, x>>, Len(waves))
      BY <2>1, <2>2, MessageForms DEF Kind
    <2>5. chan' \in [Wires -> Seq(Message)] /\ Kinds'
      BY <1>d, <1>p, <2>1, <2>3, <2>4
    <2>6. CASE saved' = saved
      <3>1. homeVars' = homeVars
        BY <2>1, <2>6 DEF homeVars
      <3> QED BY <1>0, <1>e, <2>1, <2>5, <3>1 DEF TypeOK
    <2>7. CASE saved' = [saved EXCEPT ![a] = Append(@, h)]
      <3>1. saved \in [Agents -> Seq(Message)] /\ saved[a] \in Seq(Message)
        BY <1>0, <2>1 DEF TypeOK
      <3> HIDE DEF a, h
      <3>2. Append(saved[a], h) \in Seq(Message)
        BY <2>1, <3>1
      <3>3. saved' \in [Agents -> Seq(Message)]
        BY <2>7, <3>1, <3>2
      <3>4. \A k \in DOMAIN Append(saved[a], h) :
               Append(saved[a], h)[k] = h \/ (k \in DOMAIN saved[a] /\ Append(saved[a], h)[k] = saved[a][k])
        BY <2>1, <3>1
      <3>5. SavedWaves'
        <4>1. \A c \in Agents : c # a => saved'[c] = saved[c]
          BY <2>7, <3>1
        <4>2. saved'[a] = Append(saved[a], h)
          BY <2>1, <2>7, <3>1
        <4>3. SUFFICES ASSUME NEW c \in Agents, NEW k \in DOMAIN saved'[c]
                       PROVE  saved'[c][k].type = "WAVE" /\ saved'[c][k].id <= Len(waves)
          BY <1>u DEF SavedWaves
        <4>4. \A j \in DOMAIN saved[c] : saved[c][j].type = "WAVE" /\ saved[c][j].id <= Len(waves)
          BY <1>0 DEF SavedWaves
        <4>5. CASE c = a
          BY <2>1, <2>2, <3>4, <4>2, <4>3, <4>4, <4>5
        <4>6. CASE c # a
          BY <4>1, <4>3, <4>4, <4>6
        <4> QED BY <4>5, <4>6
      <3> QED BY <1>0, <1>e, <2>1, <2>5, <3>3, <3>5 DEF TypeOK
    <2> QED BY <2>3, <2>6, <2>7
  <1> QED BY <1>1, <1>2, <1>3, <1>4, <1>5, <1>6, <1>7, <1>8 DEF Serve

LEMMA TypeInvInit == Init => TypeInv
  <1> SUFFICES ASSUME Init PROVE TypeInv
    OBVIOUS
  <1> USE RegionAssumption, OriginAssumption, BoundsAssumption DEF Init
  <1>1. <<>> \in Seq(Ids) /\ <<>> \in Seq(Message) /\ <<>> \in Seq([from : Agents, to : Agents, known : BOOLEAN])
    OBVIOUS
  <1>2. TypeOK
    BY <1>1 DEF TypeOK, Home
  <1>3. Kinds /\ SavedWaves /\ Targets
    BY DEF Kinds, SavedWaves, Targets
  <1> QED BY <1>2, <1>3 DEF TypeInv

LEMMA TypeInvNext == TypeInv /\ [Next]_vars => TypeInv'
  <1> SUFFICES ASSUME TypeInv, [Next]_vars PROVE TypeInv'
    OBVIOUS
  <1>1. CASE UNCHANGED vars
    BY <1>1 DEF vars, shardVars, homeVars, TypeInv, TypeOK, Kinds, SavedWaves, Targets
  <1>2. CASE Next
    BY <1>2, AgentTypes, ServerTypes, OriginAssumption DEF Next
  <1> QED BY <1>1, <1>2

\* The type invariant of the protocol, for any servers, nodes and agents, also for
\* agents that call moveTo while they wait: every handler finds an agent, a node or a
\* server where it takes one from a message or a connection.
THEOREM RegionTypes == Spec => []TypeOK
<1>1. TypeInv => TypeOK
  BY DEF TypeInv
<1> QED BY <1>1, TypeInvInit, TypeInvNext, PTL DEF Spec

-----------------------------------------------------------------------------
(* Where an agent is.  While it does not call moveTo again, the protocol   *)
(* messages about it on all wires are at most two: one of its arrival and, *)
(* behind it, one of its departure.                                        *)

Arriving == {"REGISTER", "CONNECT", "AGENT_UPDATE"}
Leaving == {"REQ_LEAVE", "REQ_BUFFER"}

Token(a, m) == m.type \in ProtocolTypes /\ m.agent = a

Away(a) == Region[node[a]] # Home(a)
NoGuest(a) == \A s \in Servers : guests[s][a] = NoNode
GuestHere(a) == \A s \in Servers : guests[s][a] = IF s = Region[node[a]] THEN node[a] ELSE NoNode

(* What is true while a message of type t about agent a is on wire w. *)
Stage(a, t, w) ==
    /\ phase[a] \in {"running", "leaving"}
    /\ t \notin Arriving => phase[a] = "leaving"
    /\ t = "REGISTER" => w = Up(a) /\ status[a] = "none" /\ NoGuest(a) /\ ~Away(a)
    /\ t = "CONNECT" => w = Up(a) /\ status[a] = "OFFLINE" /\ NoGuest(a)
    /\ t = "AGENT_UPDATE" => /\ w = <<Region[node[a]], Home(a)>> /\ Away(a) /\ GuestHere(a)
                             /\ status[a] = "OFFLINE"
    /\ t = "REQ_LEAVE" => w = Up(a)
    /\ t = "REQ_BUFFER" => w = <<Region[node[a]], Home(a)>> /\ Away(a) /\ GuestHere(a)
    /\ t = "REQ_ACCEPT" => /\ status[a] = "OFFLINE"
                           /\ \/ w = <<Home(a), Region[node[a]]>> /\ Away(a) /\ GuestHere(a)
                              \/ w = <<Region[node[a]], node[a]>> /\ NoGuest(a)

Staged(a) ==
    \A w \in Wires : \A k \in DOMAIN chan[w] :
        Token(a, chan[w][k]) => Stage(a, chan[w][k].type, w)

(* The message at k of w is of an arrival, the one at l of v of the departure after it. *)
Before(w, k, v, l) ==
    /\ chan[w][k].type \in Arriving /\ chan[v][l].type \in Leaving
    /\ w = v => k < l

Follows(a) ==
    \A w, v \in Wires : \A k \in DOMAIN chan[w], l \in DOMAIN chan[v] :
        Token(a, chan[w][k]) /\ Token(a, chan[v][l]) =>
            (w = v /\ k = l) \/ Before(w, k, v, l) \/ Before(v, l, w, k)

(* Its home server knows where the agent is, unless a message is about to tell. *)
Settled(a) ==
    \/ \E w \in Wires : \E k \in DOMAIN chan[w] :
          Token(a, chan[w][k]) /\ chan[w][k].type \notin Leaving
    \/ status[a] = "HOME" /\ conn[a] = node[a] /\ ~Away(a) /\ NoGuest(a)
    \/ status[a] = "REMOTE" /\ last[a] = Region[node[a]] /\ Away(a) /\ GuestHere(a)

Life(a) ==
    /\ phase[a] = "new" => node[a] = Origin[a] /\ status[a] = "none" /\ NoGuest(a)
    /\ phase[a] \in {"running", "leaving"} => Settled(a)
    /\ phase[a] \in {"stopping", "transit"} => status[a] = "OFFLINE" /\ NoGuest(a)

AgentInv(a) == Staged(a) /\ Follows(a) /\ Life(a)

\* What is on the wires about an agent beside the message at the head of wire w.
LEMMA Survivors ==
  ASSUME TypeOK, NEW a \in Agents, Follows(a), NEW w \in Wires, 1 \in DOMAIN chan[w],
         Token(a, chan[w][1]), NEW u \in Wires, NEW k \in DOMAIN chan[u],
         Token(a, chan[u][k]), ~(u = w /\ k = 1)
  PROVE  /\ chan[w][1].type \in Arriving => chan[u][k].type \in Leaving
         /\ chan[w][1].type \in Leaving => chan[u][k].type \in Arriving /\ u # w
         /\ chan[w][1].type # "REQ_ACCEPT"
  <1>1. k \in Nat /\ k > 0
    BY DEF TypeOK
  <1>2. Before(w, 1, u, k) \/ Before(u, k, w, 1)
    BY DEF Follows
  <1> QED BY <1>1, <1>2 DEF Before, Arriving, Leaving

LEMMA FollowsMoved ==
  ASSUME TypeOK, NEW a \in Agents, Follows(a),
         NEW out, NEW in, NEW ms \in Seq(Message), Moved(out, in, ms),
         \A u, v \in in : u = v,
         \A i, j \in DOMAIN ms : Token(a, ms[i]) /\ Token(a, ms[j]) => i = j,
         \A u \in Wires, v \in Wires \cap in : \A k \in DOMAIN chan[u], i \in DOMAIN ms :
            Token(a, chan[u][k]) /\ Token(a, ms[i]) /\ ~(u \in out /\ k = 1) =>
               \/ chan[u][k].type \in Arriving /\ ms[i].type \in Leaving
               \/ ms[i].type \in Arriving /\ chan[u][k].type \in Leaving /\ u # v
  PROVE  Follows(a)'
  <1> SUFFICES ASSUME NEW w \in Wires, NEW v \in Wires,
                      NEW k \in DOMAIN chan'[w], NEW l \in DOMAIN chan'[v],
                      Token(a, chan'[w][k]), Token(a, chan'[v][l])
               PROVE  (w = v /\ k = l) \/ Before(w, k, v, l)' \/ Before(v, l, w, k)'
    BY DEF Follows
  <1> DEFINE d(u) == Shift(out, u)
             Old(u, j) == /\ j + d(u) \in DOMAIN chan[u] /\ chan'[u][j] = chan[u][j + d(u)]
             New(u, j) == /\ u \in in /\ j + d(u) > Len(chan[u])
                          /\ j + d(u) - Len(chan[u]) \in DOMAIN ms
                          /\ chan'[u][j] = ms[j + d(u) - Len(chan[u])]
  <1>1. ASSUME NEW u \in Wires, NEW j \in DOMAIN chan'[u]
        PROVE  /\ d(u) \in {0, 1} /\ Len(chan[u]) \in Nat /\ j \in Nat /\ j > 0
               /\ Old(u, j) \/ New(u, j)
    BY OldOrNew
  <1>2. ASSUME NEW u \in Wires, NEW j \in DOMAIN chan'[u], Old(u, j)
        PROVE  ~(u \in out /\ j + d(u) = 1) /\ j + d(u) <= Len(chan[u])
    <2>1. u \in out => d(u) = 1
      BY DEF Shift
    <2>2. DOMAIN chan[u] = 1 .. Len(chan[u])
      BY DEF TypeOK
    <2> QED BY <1>1, <1>2, <2>1, <2>2
  <1>3. ASSUME NEW x \in Wires, NEW y \in Wires, NEW i \in DOMAIN chan'[x], NEW j \in DOMAIN chan'[y],
               Token(a, chan'[x][i]), Token(a, chan'[y][j]), Old(x, i), New(y, j)
        PROVE  Before(x, i, y, j)' \/ Before(y, j, x, i)'
    <2>1. \/ chan'[x][i].type \in Arriving /\ chan'[y][j].type \in Leaving
          \/ chan'[y][j].type \in Arriving /\ chan'[x][i].type \in Leaving /\ x # y
      BY <1>2, <1>3
    <2>2. CASE x = y
      <3>1. i + d(x) <= Len(chan[x])
        BY <1>2, <1>3
      <3>2. j + d(x) > Len(chan[x])
        BY <1>3, <2>2
      <3>3. i \in Nat /\ j \in Nat /\ d(x) \in Nat /\ Len(chan[x]) \in Nat
        BY <1>1, <2>2
      <3> HIDE DEF d
      <3>4. i < j
        BY <3>1, <3>2, <3>3
      <3> QED BY <2>1, <2>2, <3>4 DEF Before
    <2>3. CASE x # y
      BY <2>1, <2>3 DEF Before
    <2> QED BY <2>2, <2>3
  <1>4. CASE Old(w, k) /\ Old(v, l)
    <2>1. \/ w = v /\ k + d(w) = l + d(v)
          \/ Before(w, k + d(w), v, l + d(v)) \/ Before(v, l + d(v), w, k + d(w))
      BY <1>4 DEF Follows
    <2>2. k \in Nat /\ l \in Nat /\ d(w) \in {0, 1} /\ d(v) \in {0, 1} /\ (w = v => d(w) = d(v))
      BY <1>1
    <2> QED BY <1>4, <2>1, <2>2 DEF Before
  <1>5. CASE Old(w, k) /\ New(v, l)
    BY <1>3, <1>5
  <1>6. CASE New(w, k) /\ Old(v, l)
    BY <1>3, <1>6
  <1>7. CASE New(w, k) /\ New(v, l)
    <2>1. w = v /\ k + d(w) - Len(chan[w]) = l + d(v) - Len(chan[v])
      BY <1>7
    <2> QED BY <1>1, <2>1
  <1> QED BY <1>1, <1>4, <1>5, <1>6, <1>7

LEMMA StagedMoved ==
  ASSUME TypeOK, NEW a \in Agents,
         NEW out, NEW in, NEW ms \in Seq(Message), Moved(out, in, ms),
         \A u \in Wires : \A k \in DOMAIN chan[u] : \A t :
            Token(a, chan[u][k]) /\ ~(u \in out /\ k = 1) /\ t = chan[u][k].type => Stage(a, t, u)',
         \A v \in Wires \cap in : \A i \in DOMAIN ms : \A t :
            Token(a, ms[i]) /\ t = ms[i].type => Stage(a, t, v)'
  PROVE  Staged(a)'
  <1> SUFFICES ASSUME NEW u \in Wires, NEW k \in DOMAIN chan'[u], Token(a, chan'[u][k]),
                      NEW t, t = chan'[u][k].type
               PROVE  Stage(a, t, u)'
    BY DEF Staged, Stage
  <1> DEFINE d == Shift(out, u)
  <1>1. /\ d \in {0, 1} /\ Len(chan[u]) \in Nat /\ k \in Nat /\ k > 0
        /\ \/ k + d \in DOMAIN chan[u] /\ chan'[u][k] = chan[u][k + d]
           \/ /\ u \in in /\ k + d - Len(chan[u]) \in DOMAIN ms
              /\ chan'[u][k] = ms[k + d - Len(chan[u])]
    BY OldOrNew
  <1>2. u \in out => d = 1
    BY DEF Shift
  <1>3. CASE k + d \in DOMAIN chan[u] /\ chan'[u][k] = chan[u][k + d]
    <2>1. ~(u \in out /\ k + d = 1)
      BY <1>1, <1>2
    <2> QED BY <1>3, <2>1
  <1>4. CASE /\ u \in in /\ k + d - Len(chan[u]) \in DOMAIN ms
             /\ chan'[u][k] = ms[k + d - Len(chan[u])]
    BY <1>4
  <1> QED BY <1>1, <1>3, <1>4

\* A message about an agent that is not taken is still on its wire.
LEMMA StillThere ==
  ASSUME TypeOK, NEW a \in Agents,
         NEW out, NEW in, NEW ms \in Seq(Message), Moved(out, in, ms),
         NEW u \in Wires, NEW k \in DOMAIN chan[u], ~(u \in out /\ k = 1),
         Token(a, chan[u][k]), chan[u][k].type \notin Leaving
  PROVE  Settled(a)'
  <1>1. /\ k - Shift(out, u) \in DOMAIN chan'[u]
        /\ chan'[u][k - Shift(out, u)] = chan[u][k]
    BY OldOrNew
  <1> QED BY <1>1 DEF Settled

\* A message about an agent that is sent is on its wire.
LEMMA NowThere ==
  ASSUME TypeOK, NEW a \in Agents,
         NEW out, NEW in, NEW ms \in Seq(Message), Moved(out, in, ms),
         NEW u \in Wires \cap in, NEW i \in DOMAIN ms,
         Token(a, ms[i]), ms[i].type \notin Leaving
  PROVE  Settled(a)'
  <1>1. /\ i + Len(chan[u]) - Shift(out, u) \in DOMAIN chan'[u]
        /\ chan'[u][i + Len(chan[u]) - Shift(out, u)] = ms[i]
    BY OldOrNew
  <1> QED BY <1>1 DEF Settled

\* A step that is not about an agent: its own variables, its entries in the tables
\* and the messages about it are as before.
LEMMA AgentFrame ==
  ASSUME TypeOK, NEW a \in Agents, AgentInv(a),
         NEW out, NEW in, NEW ms \in Seq(Message), Moved(out, in, ms),
         \A u, v \in in : u = v,
         \A u \in Wires \cap out : ~Token(a, chan[u][1]),
         \A i \in DOMAIN ms : ~Token(a, ms[i]),
         phase'[a] = phase[a], node'[a] = node[a], status'[a] = status[a],
         conn'[a] = conn[a], last'[a] = last[a],
         \A s \in Servers : guests'[s][a] = guests[s][a]
  PROVE  AgentInv(a)'
  <1>1. Staged(a) /\ Follows(a) /\ Life(a)
    BY DEF AgentInv
  <1>2. Follows(a)'
    BY <1>1, FollowsMoved
  <1>3. (Away(a)' <=> Away(a)) /\ (NoGuest(a)' <=> NoGuest(a)) /\ (GuestHere(a)' <=> GuestHere(a))
        /\ Up(a)' = Up(a)
    BY DEF Away, NoGuest, GuestHere, Up
  <1>4. \A t, u : Stage(a, t, u) => Stage(a, t, u)'
    BY <1>3 DEF Stage
  <1>5. Staged(a)'
    <2>1. \A u \in Wires : \A k \in DOMAIN chan[u] : \A t :
             Token(a, chan[u][k]) /\ ~(u \in out /\ k = 1) /\ t = chan[u][k].type => Stage(a, t, u)'
      BY <1>1, <1>4 DEF Staged
    <2> QED BY <2>1, StagedMoved
  <1>6. Settled(a) => Settled(a)'
    <2>1. ASSUME NEW u \in Wires, NEW k \in DOMAIN chan[u],
                 Token(a, chan[u][k]), chan[u][k].type \notin Leaving
          PROVE  Settled(a)'
      BY <2>1, StillThere
    <2> QED BY <1>3, <2>1 DEF Settled
  <1>7. Life(a)'
    BY <1>1, <1>3, <1>6 DEF Life
  <1> QED BY <1>2, <1>5, <1>7 DEF AgentInv

\* What may still be on the wires about an agent when a message of type t is taken.
Left(t) ==
    IF t \in {"REGISTER", "CONNECT"} THEN {"REQ_LEAVE"}
    ELSE IF t = "AGENT_UPDATE" THEN {"REQ_LEAVE", "REQ_BUFFER"}
    ELSE IF t = "REQ_LEAVE" THEN {"AGENT_UPDATE"}
    ELSE {}

LEMMA GuestOrNone ==
  ASSUME TypeOK, NEW a \in Agents
  PROVE  /\ node[a] \in Nodes /\ Region[node[a]] \in Servers /\ Home(a) \in Servers
         /\ node[a] \notin Servers
         /\ GuestHere(a) => ~NoGuest(a) /\ guests[Region[node[a]]][a] = node[a]
         /\ node[a] # NoNode
  <1>1. node[a] \in Nodes /\ Region[node[a]] \in Servers /\ Home(a) \in Servers
    BY RegionAssumption, OriginAssumption DEF TypeOK, Home
  <1>2. node[a] \notin Servers /\ node[a] # NoNode
    BY <1>1, RegionAssumption
  <1> QED BY <1>1, <1>2 DEF GuestHere, NoGuest

LEMMA LeftBehind ==
  ASSUME TypeOK, NEW a \in Agents, AgentInv(a), NEW w \in Wires, 1 \in DOMAIN chan[w],
         Token(a, chan[w][1]), NEW u \in Wires, NEW k \in DOMAIN chan[u],
         Token(a, chan[u][k]), ~(u = w /\ k = 1)
  PROVE  chan[u][k].type \in Left(chan[w][1].type)
  <1> DEFINE t == chan[w][1].type
             r == chan[u][k].type
  <1>1. Stage(a, t, w) /\ Stage(a, r, u) /\ t \in ProtocolTypes /\ r \in ProtocolTypes
    BY DEF AgentInv, Staged, Token
  <1>2. /\ t \in Arriving => r \in Leaving
        /\ t \in Leaving => r \in Arriving /\ u # w
        /\ t # "REQ_ACCEPT"
    BY Survivors DEF AgentInv
  <1> HIDE DEF t, r
  <1>3. CASE t \in {"REGISTER", "CONNECT"}
    <2>1. NoGuest(a)
      BY <1>1, <1>3 DEF Stage
    <2>2. r # "REQ_BUFFER"
      BY <1>1, <2>1, GuestOrNone DEF Stage
    <2> QED BY <1>2, <1>3, <2>2 DEF Left, Arriving, Leaving, t, r
  <1>4. CASE t = "AGENT_UPDATE"
    BY <1>2, <1>4 DEF Left, Arriving, Leaving, t, r
  <1>5. CASE t = "REQ_LEAVE"
    <2>1. w = Up(a) /\ u # w
      BY <1>1, <1>2, <1>5 DEF Stage, Leaving
    <2>2. r \notin {"REGISTER", "CONNECT"}
      BY <1>1, <2>1 DEF Stage
    <2> QED BY <1>2, <1>5, <2>2 DEF Left, Arriving, Leaving, t, r
  <1>6. CASE t = "REQ_BUFFER"
    <2>1. w = <<Region[node[a]], Home(a)>> /\ u # w /\ ~NoGuest(a)
      BY <1>1, <1>2, <1>6, GuestOrNone DEF Stage, Leaving
    <2>2. r \notin {"REGISTER", "CONNECT", "AGENT_UPDATE"}
      BY <1>1, <2>1 DEF Stage
    <2> QED BY <1>2, <1>6, <2>2 DEF Left, Arriving, Leaving, t, r
  <1> QED BY <1>1, <1>2, <1>3, <1>4, <1>5, <1>6 DEF ProtocolTypes

\* A server takes a message about an agent and sends at most one on.
LEMMA TokenStep ==
  ASSUME TypeOK, NEW a \in Agents, AgentInv(a), NEW w \in Wires, 1 \in DOMAIN chan[w],
         Token(a, chan[w][1]),
         NEW in, NEW ms \in Seq(Message), Moved({w}, in, ms), \A x, y \in in : x = y,
         \A i, j \in DOMAIN ms : Token(a, ms[i]) /\ Token(a, ms[j]) => i = j,
         \A i \in DOMAIN ms, v \in Wires \cap in : \A t : Token(a, ms[i]) /\ t = ms[i].type =>
            /\ Stage(a, t, v)'
            /\ \A u \in Wires : \A r \in Left(chan[w][1].type) : Stage(a, r, u) =>
                  \/ r \in Arriving /\ t \in Leaving
                  \/ t \in Arriving /\ r \in Leaving /\ u # v,
         \A u \in Wires : \A r \in Left(chan[w][1].type) : Stage(a, r, u) => Stage(a, r, u)',
         Life(a)'
  PROVE  AgentInv(a)'
  <1>1. Staged(a) /\ Follows(a)
    BY DEF AgentInv
  <1>2. \A u \in Wires : \A k \in DOMAIN chan[u] :
           Token(a, chan[u][k]) /\ ~(u \in {w} /\ k = 1) =>
              chan[u][k].type \in Left(chan[w][1].type) /\ Stage(a, chan[u][k].type, u)
    BY <1>1, LeftBehind DEF Staged
  <1>3. Staged(a)'
    <2>1. \A u \in Wires : \A k \in DOMAIN chan[u] : \A r :
             Token(a, chan[u][k]) /\ ~(u \in {w} /\ k = 1) /\ r = chan[u][k].type => Stage(a, r, u)'
      BY <1>2
    <2>2. \A x \in Wires \cap in : \A i \in DOMAIN ms : \A r :
             Token(a, ms[i]) /\ r = ms[i].type => Stage(a, r, x)'
      OBVIOUS
    <2> QED BY <2>1, <2>2, StagedMoved
  <1>4. Follows(a)'
    <2>2. \A u \in Wires, x \in Wires \cap in : \A k \in DOMAIN chan[u], i \in DOMAIN ms :
            Token(a, chan[u][k]) /\ Token(a, ms[i]) /\ ~(u \in {w} /\ k = 1) =>
               \/ chan[u][k].type \in Arriving /\ ms[i].type \in Leaving
               \/ ms[i].type \in Arriving /\ chan[u][k].type \in Leaving /\ u # x
      BY <1>2
    <2> QED BY <1>1, <2>2, FollowsMoved
  <1> QED BY <1>3, <1>4 DEF AgentInv

\* A message about an agent is taken and none is sent on.
LEMMA TokenTaken ==
  ASSUME TypeOK, NEW a \in Agents, AgentInv(a), NEW w \in Wires, 1 \in DOMAIN chan[w],
         Token(a, chan[w][1]),
         NEW in, NEW ms \in Seq(Message), Moved({w}, in, ms), \A x, y \in in : x = y,
         \A i \in DOMAIN ms : ~Token(a, ms[i]),
         \A u \in Wires : \A r \in Left(chan[w][1].type) : Stage(a, r, u) => Stage(a, r, u)',
         Life(a)'
  PROVE  AgentInv(a)'
  BY TokenStep

\* A message about an agent is taken and another one is sent on.
LEMMA TokenSent ==
  ASSUME TypeOK, NEW a \in Agents, AgentInv(a), NEW w \in Wires, 1 \in DOMAIN chan[w],
         Token(a, chan[w][1]),
         NEW v, NEW t \in ProtocolTypes, Moved({w}, {v}, <<Msg(t, a)>>),
         Stage(a, t, v)',
         \A u \in Wires : \A r \in Left(chan[w][1].type) : Stage(a, r, u) =>
            /\ Stage(a, r, u)'
            /\ \/ r \in Arriving /\ t \in Leaving
               \/ t \in Arriving /\ r \in Leaving /\ u # v,
         Life(a)'
  PROVE  AgentInv(a)'
  <1> DEFINE ms == <<Msg(t, a)>>
  <1>1. Msg(t, a) \in Message /\ Msg(t, a).type = t
    BY MessageForms
  <1>2. ms \in Seq(Message) /\ \A i \in DOMAIN ms : i = 1 /\ ms[i] = Msg(t, a)
    BY <1>1
  <1>3. \A i, j \in DOMAIN ms : Token(a, ms[i]) /\ Token(a, ms[j]) => i = j
    BY <1>2
  <1>4. \A i \in DOMAIN ms, x \in Wires \cap {v} : \A y : Token(a, ms[i]) /\ y = ms[i].type =>
            /\ Stage(a, y, x)'
            /\ \A u \in Wires : \A r \in Left(chan[w][1].type) : Stage(a, r, u) =>
                  \/ r \in Arriving /\ y \in Leaving
                  \/ y \in Arriving /\ r \in Leaving /\ u # x
    BY <1>1, <1>2
  <1>5. Moved({w}, {v}, ms) /\ \A x, y \in {v} : x = y
    OBVIOUS
  <1>6. \A u \in Wires : \A r \in Left(chan[w][1].type) : Stage(a, r, u) => Stage(a, r, u)'
    OBVIOUS
  <1> HIDE DEF ms
  <1> QED BY <1>2, <1>3, <1>4, <1>5, <1>6, TokenStep

LEMMA TokenAnswered ==
  ASSUME TypeOK, NEW a \in Agents, AgentInv(a), NEW w \in Wires, 1 \in DOMAIN chan[w],
         Token(a, chan[w][1]), Left(chan[w][1].type) = {},
         NEW v, NEW t \in ProtocolTypes, Moved({w}, {v}, <<Msg(t, a)>>),
         Stage(a, t, v)', Life(a)'
  PROVE  AgentInv(a)'
  BY TokenSent

\* What a handler knows of the agent that a protocol message is about.
LEMMA OwnFacts ==
  ASSUME TypeInv, \A c \in Agents : AgentInv(c),
         NEW w \in Wires, NEW t \in ProtocolTypes, Incoming(w, t), NEW a, a = Head(chan[w]).agent
  PROVE  /\ a \in Agents /\ AgentInv(a) /\ TypeOK /\ Life(a)
         /\ 1 \in DOMAIN chan[w] /\ chan[w] # <<>>
         /\ Token(a, chan[w][1]) /\ chan[w][1].type = t
         /\ Stage(a, t, w)
  <1>1. t # "WAVE"
    BY MessageForms
  <1>2. a \in Agents /\ 1 \in DOMAIN chan[w] /\ chan[w] # <<>> /\ Token(a, chan[w][1]) /\ chan[w][1].type = t
    BY <1>1, HeadFacts DEF Token
  <1>3. AgentInv(a) /\ TypeOK
    BY <1>2 DEF TypeInv
  <1> QED BY <1>2, <1>3 DEF AgentInv, Staged

\* A message about an agent that a server sends is on its wire.
LEMMA SentSettles ==
  ASSUME TypeOK, NEW a \in Agents, NEW w \in Wires, NEW v \in Wires, NEW t \in ProtocolTypes \ Leaving,
         Moved({w}, {v}, <<Msg(t, a)>>)
  PROVE  Settled(a)'
  <1>1. Msg(t, a) \in Message /\ Msg(t, a).type = t /\ Token(a, Msg(t, a))
    BY MessageForms DEF Token
  <1>2. <<Msg(t, a)>> \in Seq(Message) /\ 1 \in DOMAIN <<Msg(t, a)>> /\ <<Msg(t, a)>>[1] = Msg(t, a)
    BY <1>1
  <1> QED BY <1>1, <1>2, NowThere

\* REGISTER, and CONNECT from a node of the home region.
LEMMA ComesHome ==
  ASSUME TypeInv, \A c \in Agents : AgentInv(c), NEW s \in Servers, NEW w \in Wires,
         Register(s, w) \/ ConnectHome(s, w), NEW a, a = Head(chan[w]).agent
  PROVE  AgentInv(a)'
  <1> DEFINE t == IF Register(s, w) THEN "REGISTER" ELSE "CONNECT"
  <1>1. Handles(s, w, t) /\ t \in ProtocolTypes /\ w[2] = s
    BY DEF Register, ConnectHome, ProtocolTypes, Handles
  <1>2. /\ a \in Agents /\ AgentInv(a) /\ TypeOK /\ Life(a)
        /\ 1 \in DOMAIN chan[w] /\ chan[w] # <<>>
        /\ Token(a, chan[w][1]) /\ chan[w][1].type = t /\ Stage(a, t, w)
    BY <1>1, OwnFacts DEF Handles
  <1>3. /\ w = Up(a) /\ w[1] = node[a]
        /\ phase[a] \in {"running", "leaving"} /\ NoGuest(a) /\ ~Away(a)
        /\ ConnectHome(s, w) /\ ~Register(s, w) => status[a] = "OFFLINE"
    BY <1>1, <1>2 DEF Stage, Up, ConnectHome, AtHome, Away
  <1>4. UNCHANGED <<phase, node, guests>> /\ status'[a] = "HOME" /\ conn'[a] = w[1]
    <2>1. UNCHANGED <<phase, node, guests>>
      BY DEF Register, ConnectHome, shardVars
    <2>2. status' = [status EXCEPT ![a] = "HOME"] /\ conn' = [conn EXCEPT ![a] = w[1]]
      BY <1>3 DEF Register, ConnectHome
    <2>3. a \in DOMAIN status /\ a \in DOMAIN conn
      BY <1>2 DEF TypeOK
    <2> QED BY <2>1, <2>2, <2>3
  <1>5. \/ Moved({w}, {}, <<>>)
        \/ Moved({w}, {<<s, w[1]>>}, saved[a]) /\ saved[a] \in Seq(Message)
           /\ \A i \in DOMAIN saved[a] : ~Token(a, saved[a][i])
    <2>1. CASE Register(s, w)
      <3>1. Drop(w)
        BY <2>1 DEF Register
      <3> QED BY <1>1, <3>1, ServerMoves
    <2>2. CASE ConnectHome(s, w) /\ ~Register(s, w)
      <3>1. Pass(w, <<s, w[1]>>, saved[a])
        BY <1>3, <2>2 DEF ConnectHome
      <3>2. saved[a] \in Seq(Message)
        BY <1>2 DEF TypeOK
      <3>3. \A i \in DOMAIN saved[a] : ~Token(a, saved[a][i])
        BY <1>2, MessageForms DEF TypeInv, SavedWaves, Token
      <3> HIDE DEF t
      <3> QED BY <1>1, <3>1, <3>2, <3>3, ServerMoves
    <2> QED BY <2>1, <2>2
  <1>6. (Away(a)' <=> Away(a)) /\ (NoGuest(a)' <=> NoGuest(a)) /\ Up(a)' = Up(a)
    BY <1>4 DEF Away, NoGuest, Up
  <1>7. Life(a)'
    <2>1. conn'[a] = node'[a] /\ phase'[a] \in {"running", "leaving"} /\ status'[a] = "HOME"
      BY <1>3, <1>4
    <2>2. Settled(a)'
      BY <1>3, <1>6, <2>1 DEF Settled
    <2> QED BY <2>1, <2>2 DEF Life
  <1>8. \A u \in Wires : \A r \in Left(chan[w][1].type) : Stage(a, r, u) => Stage(a, r, u)'
    <2>1. \A r \in Left(chan[w][1].type) : r = "REQ_LEAVE"
      BY <1>2 DEF Left
    <2> QED BY <1>4, <1>6, <2>1 DEF Stage
  <1>9. ASSUME NEW in, NEW ms \in Seq(Message), Moved({w}, in, ms), \A x, y \in in : x = y,
               \A i \in DOMAIN ms : ~Token(a, ms[i])
        PROVE  AgentInv(a)'
    <2>1. /\ TypeOK /\ a \in Agents /\ AgentInv(a) /\ 1 \in DOMAIN chan[w]
          /\ Token(a, chan[w][1])
      BY <1>2
    <2> QED BY <1>7, <1>8, <1>9, <2>1, TokenTaken
  <1>10. CASE Moved({w}, {}, <<>>)
    <2> DEFINE ms == <<>>
    <2>1. ms \in Seq(Message) /\ (\A x, y \in {} : x = y) /\ Moved({w}, {}, ms) /\ DOMAIN ms = {}
      BY <1>10
    <2> HIDE DEF ms
    <2> QED BY <1>9, <2>1
  <1>11. CASE /\ Moved({w}, {<<s, w[1]>>}, saved[a]) /\ saved[a] \in Seq(Message)
              /\ \A i \in DOMAIN saved[a] : ~Token(a, saved[a][i])
    <2> DEFINE in == {<<s, w[1]>>}
    <2>1. (\A x, y \in in : x = y) /\ Moved({w}, in, saved[a])
      BY <1>11
    <2> HIDE DEF in
    <2> QED BY <1>9, <1>11, <2>1
  <1> QED BY <1>5, <1>10, <1>11

\* CONNECT from a node of another region.
LEMMA BecomesGuest ==
  ASSUME TypeInv, \A c \in Agents : AgentInv(c), NEW s \in Servers, NEW w \in Wires,
         ConnectGuest(s, w), NEW a, a = Head(chan[w]).agent
  PROVE  AgentInv(a)'
  <1>1. Handles(s, w, "CONNECT") /\ "CONNECT" \in ProtocolTypes /\ w[2] = s
    BY DEF ConnectGuest, ProtocolTypes, Handles
  <1>2. /\ a \in Agents /\ AgentInv(a) /\ TypeOK /\ Life(a)
        /\ 1 \in DOMAIN chan[w] /\ chan[w] # <<>>
        /\ Token(a, chan[w][1]) /\ chan[w][1].type = "CONNECT" /\ Stage(a, "CONNECT", w)
    BY <1>1, OwnFacts DEF Handles
  <1>3. /\ w = Up(a) /\ s = Region[node[a]] /\ w[1] = node[a]
        /\ phase[a] \in {"running", "leaving"} /\ NoGuest(a) /\ status[a] = "OFFLINE"
        /\ Home(a) # s /\ Away(a)
    BY <1>1, <1>2 DEF Stage, Up, ConnectGuest, AtHome, Away
  <1>4. /\ UNCHANGED <<phase, node, status>> /\ guests' = [guests EXCEPT ![s][a] = node[a]]
        /\ Pass(w, <<s, Home(a)>>, <<Msg("AGENT_UPDATE", a)>>)
    BY <1>3 DEF ConnectGuest, shardVars, homeVars, NoGuest
  <1>5. /\ node[a] \in Nodes /\ Home(a) \in Servers /\ node[a] \notin Servers
        /\ <<s, Home(a)>> \in Wires
    BY <1>2, <1>3, GuestOrNone DEF Wires
  <1>6. Away(a)' /\ GuestHere(a)' /\ Up(a)' = Up(a)
    <2>1. \A x \in Servers, b \in Agents :
             guests'[x][b] = IF x = s /\ b = a THEN node[a] ELSE guests[x][b]
      BY <1>2, <1>4, <1>5, GuestsSet DEF TypeOK
    <2>2. \A x \in Servers : guests'[x][a] = IF x = s THEN node[a] ELSE NoNode
      BY <1>2, <1>3, <2>1 DEF NoGuest
    <2>3. node' = node
      BY <1>4
    <2>4. GuestHere(a)'
      BY <1>3, <2>2, <2>3 DEF GuestHere
    <2> QED BY <1>3, <2>3, <2>4 DEF Away, Up
  <1>7. Moved({w}, {<<s, Home(a)>>}, <<Msg("AGENT_UPDATE", a)>>)
    <2>1. <<Msg("AGENT_UPDATE", a)>> \in Seq(Message)
      BY <1>2, MessageForms DEF ProtocolTypes
    <2> QED BY <1>1, <1>4, <2>1, ServerMoves
  <1>8. "AGENT_UPDATE" \in ProtocolTypes \ Leaving
    BY DEF ProtocolTypes, Leaving
  <1>9. Settled(a)'
    BY <1>2, <1>5, <1>7, <1>8, SentSettles
  <1>10. Life(a)'
    BY <1>3, <1>4, <1>9 DEF Life
  <1>11. Stage(a, "AGENT_UPDATE", <<s, Home(a)>>)'
    BY <1>3, <1>4, <1>6 DEF Stage, Arriving, Home
  <1>12. \A u \in Wires : \A r \in Left(chan[w][1].type) : Stage(a, r, u) =>
            /\ Stage(a, r, u)'
            /\ "AGENT_UPDATE" \in Arriving /\ r \in Leaving /\ u # <<s, Home(a)>>
    <2>1. \A r \in Left(chan[w][1].type) : r = "REQ_LEAVE"
      BY <1>2 DEF Left
    <2>2. \A u : Stage(a, "REQ_LEAVE", u) => Stage(a, "REQ_LEAVE", u)' /\ u = Up(a)
      BY <1>4, <1>6 DEF Stage
    <2>3. Up(a) # <<s, Home(a)>>
      BY <1>3, <1>5 DEF Up
    <2> QED BY <2>1, <2>2, <2>3 DEF Arriving, Leaving
  <1> QED BY <1>2, <1>7, <1>8, <1>10, <1>11, <1>12, TokenSent

\* AGENT_UPDATE.
LEMMA BecomesRemote ==
  ASSUME TypeInv, \A c \in Agents : AgentInv(c), NEW s \in Servers, NEW w \in Wires,
         AgentUpdate(s, w), NEW a, a = Head(chan[w]).agent
  PROVE  AgentInv(a)'
  <1>1. Handles(s, w, "AGENT_UPDATE") /\ "AGENT_UPDATE" \in ProtocolTypes /\ w[2] = s
    BY DEF AgentUpdate, ProtocolTypes, Handles
  <1>2. /\ a \in Agents /\ AgentInv(a) /\ TypeOK /\ Life(a)
        /\ 1 \in DOMAIN chan[w] /\ chan[w] # <<>>
        /\ Token(a, chan[w][1]) /\ chan[w][1].type = "AGENT_UPDATE" /\ Stage(a, "AGENT_UPDATE", w)
    BY <1>1, OwnFacts DEF Handles
  <1>3. /\ w = <<Region[node[a]], Home(a)>> /\ w[1] = Region[node[a]] /\ AtHome(s, a)
        /\ phase[a] \in {"running", "leaving"} /\ Away(a) /\ GuestHere(a)
    BY <1>1, <1>2 DEF Stage, AtHome
  <1>4. /\ UNCHANGED <<phase, node, guests>> /\ status'[a] = "REMOTE" /\ last'[a] = Region[node[a]]
        /\ Pass(w, <<s, w[1]>>, Forwarded(a))
    <2>1. UNCHANGED <<phase, node, guests>> /\ Pass(w, <<s, w[1]>>, Forwarded(a))
      BY <1>3 DEF AgentUpdate, shardVars, Forwarded
    <2>2. status' = [status EXCEPT ![a] = "REMOTE"] /\ last' = [last EXCEPT ![a] = w[1]]
      BY <1>3 DEF AgentUpdate
    <2>3. a \in DOMAIN status /\ a \in DOMAIN last
      BY <1>2 DEF TypeOK
    <2> QED BY <1>3, <2>1, <2>2, <2>3
  <1> DEFINE ms == Forwarded(a)
             in == {<<s, w[1]>>}
  <1>5. /\ ms \in Seq(Message) /\ Moved({w}, in, ms) /\ \A x, y \in in : x = y
        /\ \A i \in DOMAIN ms : ~Token(a, ms[i])
    <2>1. ms \in Seq(Message) /\ \A i \in DOMAIN ms : ~Token(a, ms[i])
      BY <1>2, ForwardedWaves, MessageForms DEF Token
    <2> HIDE DEF ms
    <2> QED BY <1>1, <1>4, <2>1, ServerMoves DEF ms
  <1>6. (Away(a)' <=> Away(a)) /\ (GuestHere(a)' <=> GuestHere(a)) /\ Up(a)' = Up(a)
    BY <1>4 DEF Away, GuestHere, Up
  <1>7. Life(a)'
    BY <1>3, <1>4, <1>6 DEF Life, Settled
  <1>8. \A u \in Wires : \A r \in Left(chan[w][1].type) : Stage(a, r, u) => Stage(a, r, u)'
    <2>1. \A r \in Left(chan[w][1].type) : r \in {"REQ_LEAVE", "REQ_BUFFER"}
      BY <1>2 DEF Left
    <2>2. Home(a)' = Home(a)
      BY DEF Home
    <2> QED BY <1>4, <1>6, <2>1, <2>2 DEF Stage
  <1> HIDE DEF ms, in
  <1> QED BY <1>2, <1>5, <1>7, <1>8, TokenTaken

\* Nothing else is on the wires about an agent that asks to leave, or it arrives at
\* another region than its own; its home server knows where it is or is being told.
LEMMA AsksToLeave ==
  ASSUME TypeInv, \A c \in Agents : AgentInv(c), NEW w \in Wires,
         NEW t \in Leaving, Incoming(w, t), NEW a, a = Head(chan[w]).agent
  PROVE  \/ /\ Away(a) /\ GuestHere(a) /\ status[a] = "OFFLINE" /\ t = "REQ_LEAVE"
            /\ \E u \in Wires : \E k \in DOMAIN chan[u] :
                  /\ ~(u = w /\ k = 1) /\ Token(a, chan[u][k]) /\ chan[u][k].type \notin Leaving
         \/ status[a] = "HOME" /\ conn[a] = node[a] /\ ~Away(a) /\ NoGuest(a)
         \/ status[a] = "REMOTE" /\ last[a] = Region[node[a]] /\ Away(a) /\ GuestHere(a)
  <1>0. t \in ProtocolTypes
    BY DEF Leaving, ProtocolTypes
  <1>1. /\ a \in Agents /\ AgentInv(a) /\ TypeOK /\ Life(a)
        /\ 1 \in DOMAIN chan[w] /\ chan[w] # <<>>
        /\ Token(a, chan[w][1]) /\ chan[w][1].type = t /\ Stage(a, t, w)
    BY <1>0, OwnFacts
  <1>2. Settled(a) /\ Staged(a)
    BY <1>1 DEF Life, Stage, AgentInv
  <1>3. ASSUME NEW u \in Wires, NEW k \in DOMAIN chan[u], Token(a, chan[u][k]), chan[u][k].type \notin Leaving
        PROVE  /\ Away(a) /\ GuestHere(a) /\ status[a] = "OFFLINE" /\ t = "REQ_LEAVE"
               /\ ~(u = w /\ k = 1)
    <2>1. ~(u = w /\ k = 1)
      BY <1>1, <1>3
    <2>2. chan[u][k].type \in Left(t)
      BY <1>1, <1>3, <2>1, LeftBehind
    <2>3. t = "REQ_LEAVE" /\ chan[u][k].type = "AGENT_UPDATE"
      BY <2>2 DEF Left, Leaving
    <2>4. Stage(a, "AGENT_UPDATE", u)
      BY <1>2, <1>3, <2>3 DEF Staged
    <2> QED BY <2>1, <2>3, <2>4 DEF Stage
  <1> QED BY <1>2, <1>3 DEF Settled

\* REQ_BUFFER.
LEMMA GoesOffline ==
  ASSUME TypeInv, \A c \in Agents : AgentInv(c), NEW s \in Servers, NEW w \in Wires,
         ReqBuffer(s, w), NEW a, a = Head(chan[w]).agent
  PROVE  AgentInv(a)'
  <1>1. /\ Handles(s, w, "REQ_BUFFER") /\ "REQ_BUFFER" \in ProtocolTypes /\ "REQ_BUFFER" \in Leaving /\ w[2] = s
        /\ "REQ_ACCEPT" \in ProtocolTypes \ Leaving
    BY DEF ReqBuffer, ProtocolTypes, Handles, Leaving
  <1>2. /\ a \in Agents /\ AgentInv(a) /\ TypeOK /\ Life(a)
        /\ 1 \in DOMAIN chan[w] /\ chan[w] # <<>>
        /\ Token(a, chan[w][1]) /\ chan[w][1].type = "REQ_BUFFER" /\ Stage(a, "REQ_BUFFER", w)
    BY <1>1, OwnFacts DEF Handles
  <1>3. s = Home(a) /\ phase[a] = "leaving" /\ Away(a) /\ GuestHere(a)
    BY <1>1, <1>2 DEF Stage, Arriving
  <1>4. status[a] = "REMOTE" /\ last[a] = Region[node[a]]
    BY <1>1, <1>3, AsksToLeave DEF Handles
  <1>5. AtHome(s, a) /\ last[a] # s
    BY <1>3, <1>4 DEF AtHome, Away
  <1>6. /\ UNCHANGED <<phase, node, guests>> /\ status'[a] = "OFFLINE"
        /\ Pass(w, <<s, Region[node[a]]>>, <<Msg("REQ_ACCEPT", a)>>)
    <2>1. /\ UNCHANGED <<phase, node, guests>> /\ status' = [status EXCEPT ![a] = "OFFLINE"]
          /\ Pass(w, <<s, Region[node[a]]>>, <<Msg("REQ_ACCEPT", a)>>)
      BY <1>4, <1>5 DEF ReqBuffer, shardVars
    <2>2. a \in DOMAIN status
      BY <1>2 DEF TypeOK
    <2> QED BY <2>1, <2>2
  <1>7. Moved({w}, {<<s, Region[node[a]]>>}, <<Msg("REQ_ACCEPT", a)>>)
    <2>1. <<Msg("REQ_ACCEPT", a)>> \in Seq(Message)
      BY <1>1, <1>2, MessageForms
    <2> QED BY <1>1, <1>6, <2>1, ServerMoves
  <1>8. <<s, Region[node[a]]>> \in Wires
    BY <1>2, <1>3, <1>4, <1>5, GuestOrNone DEF Wires
  <1>9. Settled(a)'
    BY <1>1, <1>2, <1>7, <1>8, SentSettles
  <1>10. Life(a)'
    BY <1>3, <1>6, <1>9 DEF Life
  <1>11. \A v : v = <<s, Region[node[a]]>> => Stage(a, "REQ_ACCEPT", v)'
    <2>1. Away(a)' /\ GuestHere(a)' /\ Home(a)' = Home(a)
      BY <1>3, <1>6 DEF Away, GuestHere, Home
    <2> QED BY <1>3, <1>6, <2>1 DEF Stage
  <1>12. /\ "REQ_ACCEPT" \in ProtocolTypes /\ a \in Agents /\ AgentInv(a) /\ TypeOK /\ 1 \in DOMAIN chan[w]
         /\ Token(a, chan[w][1]) /\ Left(chan[w][1].type) = {}
    BY <1>1, <1>2 DEF Left
  <1> QED BY <1>7, <1>10, <1>11, <1>12, TokenAnswered

\* REQ_ACCEPT at the region server of a guest.
LEMMA GuestLeaves ==
  ASSUME TypeInv, \A c \in Agents : AgentInv(c), NEW s \in Servers, NEW w \in Wires,
         ReqAccept(s, w), NEW a, a = Head(chan[w]).agent
  PROVE  AgentInv(a)'
  <1>1. /\ Handles(s, w, "REQ_ACCEPT") /\ w[2] = s
        /\ "REQ_ACCEPT" \in ProtocolTypes \ Leaving
    BY DEF ReqAccept, ProtocolTypes, Handles, Leaving
  <1>2. /\ a \in Agents /\ AgentInv(a) /\ TypeOK /\ Life(a)
        /\ 1 \in DOMAIN chan[w] /\ chan[w] # <<>>
        /\ Token(a, chan[w][1]) /\ chan[w][1].type = "REQ_ACCEPT" /\ Stage(a, "REQ_ACCEPT", w)
    BY <1>1, OwnFacts DEF Handles
  <1>3. /\ s = Region[node[a]] /\ phase[a] = "leaving" /\ Away(a) /\ GuestHere(a)
        /\ status[a] = "OFFLINE"
    <2>1. node[a] # s
      BY <1>2, GuestOrNone
    <2> QED BY <1>1, <1>2, <2>1 DEF Stage, Arriving
  <1>4. /\ node[a] \in Nodes /\ guests[s][a] = node[a] /\ guests[s][a] # NoNode
        /\ <<s, node[a]>> \in Wires /\ NoNode \in Nodes \cup {NoNode}
    BY <1>2, <1>3, GuestOrNone DEF Wires
  <1>5. /\ UNCHANGED <<phase, node, status>> /\ guests' = [guests EXCEPT ![s][a] = NoNode]
        /\ Pass(w, <<s, node[a]>>, <<Msg("REQ_ACCEPT", a)>>)
    BY <1>4 DEF ReqAccept, shardVars, homeVars
  <1>6. NoGuest(a)'
    <2>1. \A x \in Servers, b \in Agents :
             guests'[x][b] = IF x = s /\ b = a THEN NoNode ELSE guests[x][b]
      BY <1>2, <1>4, <1>5, GuestsSet DEF TypeOK
    <2>2. \A x \in Servers : guests'[x][a] = NoNode
      BY ZenonT(60), <1>2, <1>3, <2>1 DEF GuestHere
    <2> QED BY <2>2 DEF NoGuest
  <1>7. Moved({w}, {<<s, node[a]>>}, <<Msg("REQ_ACCEPT", a)>>)
    <2>1. <<Msg("REQ_ACCEPT", a)>> \in Seq(Message)
      BY <1>1, <1>2, MessageForms
    <2> QED BY <1>1, <1>5, <2>1, ServerMoves
  <1>9. Settled(a)'
    BY <1>1, <1>2, <1>4, <1>7, SentSettles
  <1>10. Life(a)'
    BY <1>3, <1>5, <1>9 DEF Life
  <1>11. \A v : v = <<s, node[a]>> => Stage(a, "REQ_ACCEPT", v)'
    BY <1>3, <1>5, <1>6 DEF Stage
  <1>12. /\ "REQ_ACCEPT" \in ProtocolTypes /\ a \in Agents /\ AgentInv(a) /\ TypeOK /\ 1 \in DOMAIN chan[w]
         /\ Token(a, chan[w][1]) /\ Left(chan[w][1].type) = {}
    BY <1>1, <1>2 DEF Left
  <1> QED BY <1>7, <1>10, <1>11, <1>12, TokenAnswered

\* REQ_LEAVE.
LEMMA StartsLeaving ==
  ASSUME TypeInv, \A c \in Agents : AgentInv(c), NEW s \in Servers, NEW w \in Wires,
         ReqLeave(s, w), NEW a, a = Head(chan[w]).agent
  PROVE  AgentInv(a)'
  <1>1. /\ Handles(s, w, "REQ_LEAVE") /\ "REQ_LEAVE" \in ProtocolTypes /\ "REQ_LEAVE" \in Leaving /\ w[2] = s
        /\ "REQ_ACCEPT" \in ProtocolTypes \ Leaving /\ "REQ_BUFFER" \in ProtocolTypes
    BY DEF ReqLeave, ProtocolTypes, Handles, Leaving
  <1>2. /\ a \in Agents /\ AgentInv(a) /\ TypeOK /\ Life(a)
        /\ 1 \in DOMAIN chan[w] /\ chan[w] # <<>>
        /\ Token(a, chan[w][1]) /\ chan[w][1].type = "REQ_LEAVE" /\ Stage(a, "REQ_LEAVE", w)
    BY <1>1, OwnFacts DEF Handles
  <1>3. s = Region[node[a]] /\ phase[a] = "leaving" /\ w = Up(a)
    BY <1>1, <1>2 DEF Stage, Up, Arriving
  <1>4. UNCHANGED <<phase, node, guests, conn, last>>
    BY DEF ReqLeave, shardVars
  <1>5. node[a] \in Nodes /\ Home(a) \in Servers /\ <<s, node[a]>> \in Wires
    BY <1>2, <1>3, GuestOrNone DEF Wires
  <1>6. CASE status[a] = "HOME" /\ conn[a] = node[a] /\ ~Away(a) /\ NoGuest(a)
    <2>1. AtHome(s, a)
      BY <1>3, <1>6 DEF AtHome, Away
    <2>2. status'[a] = "OFFLINE" /\ Pass(w, <<s, node[a]>>, <<Msg("REQ_ACCEPT", a)>>)
      <3>1. status' = [status EXCEPT ![a] = "OFFLINE"] /\ Pass(w, <<s, node[a]>>, <<Msg("REQ_ACCEPT", a)>>)
        BY <1>6, <2>1 DEF ReqLeave
      <3>2. a \in DOMAIN status
        BY <1>2 DEF TypeOK
      <3> QED BY <3>1, <3>2
    <2>3. Moved({w}, {<<s, node[a]>>}, <<Msg("REQ_ACCEPT", a)>>)
      <3>1. <<Msg("REQ_ACCEPT", a)>> \in Seq(Message)
        BY <1>1, <1>2, MessageForms
      <3> QED BY <1>1, <2>2, <3>1, ServerMoves
    <2>4. Settled(a)'
      BY <1>1, <1>2, <1>5, <2>3, SentSettles
    <2>5. Life(a)'
      BY <1>3, <1>4, <2>4 DEF Life
    <2>6. ~Away(a)' /\ NoGuest(a)'
      BY <1>4, <1>6 DEF Away, NoGuest
    <2>7. \A v : v = <<s, node[a]>> => Stage(a, "REQ_ACCEPT", v)'
      BY <1>3, <1>4, <2>2, <2>6 DEF Stage
    <2>8. \A u \in Wires : \A r \in Left(chan[w][1].type) : ~Stage(a, r, u)
      BY <1>2, <1>6 DEF Left, Stage
    <2>9. /\ "REQ_ACCEPT" \in ProtocolTypes /\ a \in Agents /\ AgentInv(a) /\ TypeOK /\ 1 \in DOMAIN chan[w]
          /\ Token(a, chan[w][1])
      BY <1>1, <1>2
    <2> QED BY <2>3, <2>5, <2>7, <2>8, <2>9, TokenSent
  <1>7. CASE /\ Away(a) /\ GuestHere(a)
             /\ \/ status[a] = "REMOTE" /\ last[a] = Region[node[a]]
                \/ \E u \in Wires : \E k \in DOMAIN chan[u] :
                      ~(u = w /\ k = 1) /\ Token(a, chan[u][k]) /\ chan[u][k].type \notin Leaving
    <2>1. ~AtHome(s, a) /\ Home(a) # s /\ guests[s][a] # NoNode
      BY <1>2, <1>3, <1>7, GuestOrNone DEF AtHome, Away
    <2>2. status' = status /\ Pass(w, <<s, Home(a)>>, <<Msg("REQ_BUFFER", a)>>)
      BY <2>1 DEF ReqLeave
    <2>3. Moved({w}, {<<s, Home(a)>>}, <<Msg("REQ_BUFFER", a)>>)
      <3>1. <<Msg("REQ_BUFFER", a)>> \in Seq(Message)
        BY <1>1, <1>2, MessageForms
      <3> QED BY <1>1, <2>2, <3>1, ServerMoves
    <2>4. Away(a)' /\ GuestHere(a)' /\ Home(a)' = Home(a)
      BY <1>4, <1>7 DEF Away, GuestHere, Home
    <2>5. Settled(a)'
      <3>1. CASE status[a] = "REMOTE" /\ last[a] = Region[node[a]]
        BY <1>4, <2>2, <2>4, <3>1 DEF Settled
      <3>2. CASE \E u \in Wires : \E k \in DOMAIN chan[u] :
                    ~(u = w /\ k = 1) /\ Token(a, chan[u][k]) /\ chan[u][k].type \notin Leaving
        <4>1. PICK u \in Wires : \E k \in DOMAIN chan[u] :
                    ~(u = w /\ k = 1) /\ Token(a, chan[u][k]) /\ chan[u][k].type \notin Leaving
          BY <3>2
        <4>2. PICK k \in DOMAIN chan[u] :
                    ~(u = w /\ k = 1) /\ Token(a, chan[u][k]) /\ chan[u][k].type \notin Leaving
          BY <4>1
        <4>3. ~(u \in {w} /\ k = 1)
          BY <4>2
        <4> DEFINE ms == <<Msg("REQ_BUFFER", a)>>
        <4>4. ms \in Seq(Message) /\ Moved({w}, {<<s, Home(a)>>}, ms)
          BY <1>1, <1>2, <2>3, MessageForms
        <4> HIDE DEF ms
        <4> QED BY <1>2, <4>2, <4>3, <4>4, StillThere
      <3> QED BY <1>7, <3>1, <3>2
    <2>6. Life(a)'
      BY <1>3, <1>4, <2>5 DEF Life
    <2>7. \A v : v = <<s, Home(a)>> => Stage(a, "REQ_BUFFER", v)'
      BY <1>3, <1>4, <2>4 DEF Stage
    <2>8. \A u \in Wires : \A r \in Left(chan[w][1].type) : Stage(a, r, u) =>
            Stage(a, r, u)' /\ r \in Arriving /\ "REQ_BUFFER" \in Leaving
      <3>1. \A r \in Left(chan[w][1].type) : r = "AGENT_UPDATE"
        BY <1>2 DEF Left
      <3>2. \A u : Stage(a, "AGENT_UPDATE", u) => Stage(a, "AGENT_UPDATE", u)'
        BY <1>4, <2>2, <2>4 DEF Stage
      <3> QED BY <3>1, <3>2 DEF Arriving, Leaving
    <2>9. /\ "REQ_BUFFER" \in ProtocolTypes /\ a \in Agents /\ AgentInv(a) /\ TypeOK /\ 1 \in DOMAIN chan[w]
          /\ Token(a, chan[w][1])
      BY <1>1, <1>2
    <2> QED BY <2>3, <2>6, <2>7, <2>8, <2>9, TokenSent
  <1> QED BY <1>1, <1>6, <1>7, AsksToLeave DEF Handles

\* REQ_ACCEPT at the node.
LEMMA Stops ==
  ASSUME TypeInv, \A c \in Agents : AgentInv(c), NEW n \in Nodes, ReceiveAccept(n),
         NEW a, a = Head(chan[<<Region[n], n>>]).agent
  PROVE  AgentInv(a)'
  <1> DEFINE w == <<Region[n], n>>
  <1>1. Incoming(w, "REQ_ACCEPT") /\ "REQ_ACCEPT" \in ProtocolTypes /\ w \in Wires
    BY RegionAssumption DEF ReceiveAccept, ProtocolTypes, Wires
  <1>2. /\ a \in Agents /\ AgentInv(a) /\ TypeOK /\ Life(a)
        /\ 1 \in DOMAIN chan[w] /\ chan[w] # <<>>
        /\ Token(a, chan[w][1]) /\ chan[w][1].type = "REQ_ACCEPT" /\ Stage(a, "REQ_ACCEPT", w)
    BY <1>1, OwnFacts
  <1>3. phase[a] = "leaving" /\ NoGuest(a) /\ status[a] = "OFFLINE" /\ node[a] = n
    <2>1. n # Region[node[a]]
      BY <1>2, GuestOrNone, RegionAssumption
    <2> QED BY <1>2, <2>1 DEF Stage, Arriving
  <1>4. phase'[a] = "stopping" /\ UNCHANGED <<status, guests>> /\ Drop(w)
    <2>1. /\ phase' = [phase EXCEPT ![a] = IF Registered(a, n) /\ @ = "leaving" THEN "stopping" ELSE @]
          /\ UNCHANGED <<status, guests>> /\ Drop(w)
      BY DEF ReceiveAccept, homeVars
    <2>2. a \in DOMAIN phase
      BY <1>2 DEF TypeOK
    <2> QED BY <1>3, <2>1, <2>2 DEF Registered
  <1> DEFINE ms == <<>>
  <1>5. ms \in Seq(Message) /\ DOMAIN ms = {} /\ Moved({w}, {}, ms) /\ \A x, y \in {} : x = y
    BY <1>1, <1>2, <1>4, DropMoves
  <1>6. NoGuest(a)'
    BY <1>3, <1>4 DEF NoGuest
  <1>7. Life(a)'
    BY <1>3, <1>4, <1>6 DEF Life
  <1>8. \A u \in Wires : \A r \in Left(chan[w][1].type) : Stage(a, r, u) => Stage(a, r, u)'
    BY <1>2 DEF Left
  <1> HIDE DEF w, ms
  <1> QED BY <1>1, <1>2, <1>5, <1>7, <1>8, TokenTaken

\* An agent sends a message about itself; those there are about it, are of its arrival.
LEMMA TokenNew ==
  ASSUME TypeOK, NEW a \in Agents, AgentInv(a), NEW v, NEW t \in ProtocolTypes,
         Moved({}, {v}, <<Msg(t, a)>>), Stage(a, t, v)',
         \A u \in Wires : \A r \in ProtocolTypes : Stage(a, r, u) =>
            Stage(a, r, u)' /\ r \in Arriving /\ t \in Leaving,
         Life(a)'
  PROVE  AgentInv(a)'
  <1> DEFINE ms == <<Msg(t, a)>>
             in == {v}
  <1>1. Msg(t, a) \in Message /\ Msg(t, a).type = t
    BY MessageForms
  <1>2. /\ ms \in Seq(Message) /\ \A i \in DOMAIN ms : i = 1 /\ ms[i] = Msg(t, a)
        /\ \A x \in in : x = v
        /\ Moved({}, in, ms)
    BY <1>1
  <1> HIDE DEF ms, in
  <1>3. Staged(a) /\ Follows(a)
    BY DEF AgentInv
  <1>4. \A u \in Wires : \A k \in DOMAIN chan[u] : Token(a, chan[u][k]) =>
           Stage(a, chan[u][k].type, u) /\ chan[u][k].type \in ProtocolTypes
    BY <1>3 DEF Staged, Token
  <1>5. Staged(a)'
    <2>1. \A u \in Wires : \A k \in DOMAIN chan[u] : \A r :
             Token(a, chan[u][k]) /\ ~(u \in {} /\ k = 1) /\ r = chan[u][k].type => Stage(a, r, u)'
      BY <1>4
    <2>2. \A x \in Wires \cap in : \A i \in DOMAIN ms : \A r :
             Token(a, ms[i]) /\ r = ms[i].type => Stage(a, r, x)'
      BY <1>1, <1>2
    <2> QED BY <1>2, <2>1, <2>2, StagedMoved
  <1>6. Follows(a)'
    <2>1. /\ \A x, y \in in : x = y
          /\ \A i, j \in DOMAIN ms : Token(a, ms[i]) /\ Token(a, ms[j]) => i = j
      BY <1>2
    <2>2. \A u \in Wires, x \in Wires \cap in : \A k \in DOMAIN chan[u], i \in DOMAIN ms :
            Token(a, chan[u][k]) /\ Token(a, ms[i]) /\ ~(u \in {} /\ k = 1) =>
               \/ chan[u][k].type \in Arriving /\ ms[i].type \in Leaving
               \/ ms[i].type \in Arriving /\ chan[u][k].type \in Leaving /\ u # x
      BY <1>1, <1>2, <1>4
    <2> QED BY <1>2, <1>3, <2>1, <2>2, FollowsMoved
  <1> QED BY <1>5, <1>6 DEF AgentInv

\* What a server does with a message that is not about an agent.
LEMMA ServeFrame ==
  ASSUME TypeInv, NEW s \in Servers, NEW w \in Wires, Serve(s, w),
         NEW b \in Agents, AgentInv(b), ~Token(b, chan[w][1])
  PROVE  AgentInv(b)'
  <1> DEFINE Same == /\ phase'[b] = phase[b] /\ node'[b] = node[b] /\ status'[b] = status[b]
                     /\ conn'[b] = conn[b] /\ last'[b] = last[b]
                     /\ \A x \in Servers : guests'[x][b] = guests[x][b]
             Quiet(ms) == ms \in Seq(Message) /\ \A i \in DOMAIN ms : ~Token(b, ms[i])
             h == Head(chan[w])
  <1>0. TypeOK
    BY DEF TypeInv
  <1>1. UNCHANGED <<phase, node>>
    BY DEF Serve, Register, ConnectHome, ConnectGuest, ReqLeave, ReqBuffer, ReqAccept, AgentUpdate,
           Content, shardVars
  <1>d. ASSUME NEW t, Handles(s, w, t), Drop(w), Same PROVE AgentInv(b)'
    <2> DEFINE ms == <<>>
    <2>0. Moved({w}, {}, <<>>)
      BY <1>d, ServerMoves
    <2>1. ms \in Seq(Message) /\ DOMAIN ms = {} /\ Moved({w}, {}, ms) /\ \A x, y \in {} : x = y
      BY <2>0
    <2>2. \A u \in Wires \cap {w} : ~Token(b, chan[u][1])
      OBVIOUS
    <2> HIDE DEF ms
    <2> QED BY <1>0, <1>d, <2>1, <2>2, AgentFrame
  <1>p. ASSUME NEW t, Handles(s, w, t), NEW x, NEW ms, Quiet(ms), Pass(w, <<s, x>>, ms), Same
        PROVE  AgentInv(b)'
    <2> DEFINE in == {<<s, x>>}
    <2>1. Moved({w}, in, ms) /\ \A u, v \in in : u = v
      BY <1>p, ServerMoves
    <2>2. \A u \in Wires \cap {w} : ~Token(b, chan[u][1])
      OBVIOUS
    <2> HIDE DEF in
    <2> QED BY <1>0, <1>p, <2>1, <2>2, AgentFrame
  <1>q. ASSUME NEW m \in Message, ~Token(b, m) PROVE Quiet(<<m>>)
    BY <1>q
  <1>a. ASSUME NEW t \in ProtocolTypes, Handles(s, w, t)
        PROVE  /\ h.agent \in Agents /\ h.agent # b
               /\ \A r \in ProtocolTypes : Quiet(<<Msg(r, h.agent)>>)
    <2>1. h.agent \in Agents /\ h = chan[w][1] /\ h.type = t
      BY <1>a, HeadFacts, MessageForms DEF Handles
    <2>2. h.agent # b
      BY <2>1 DEF Token
    <2>3. \A r \in ProtocolTypes : Msg(r, h.agent) \in Message /\ ~Token(b, Msg(r, h.agent))
      BY <2>1, <2>2, MessageForms DEF Token
    <2> HIDE DEF h, Quiet
    <2> QED BY <1>q, <2>1, <2>2, <2>3
  <1>b. ASSUME NEW a \in Agents PROVE Quiet(saved[a]) /\ Quiet(Forwarded(a))
    <2>1. saved[a] \in Seq(Message) /\ \A i \in DOMAIN saved[a] : saved[a][i].type = "WAVE"
      BY <1>0 DEF TypeInv, TypeOK, SavedWaves
    <2> QED BY <2>1, ForwardedWaves, MessageForms DEF Token
  <1>t. /\ \A t \in {"REGISTER", "CONNECT", "REQ_LEAVE", "REQ_BUFFER", "AGENT_UPDATE", "REQ_ACCEPT"} :
             t \in ProtocolTypes
        /\ \A c \in Agents : \A x : b # c /\ status' = [status EXCEPT ![c] = x] => status'[b] = status[b]
        /\ \A c \in Agents : \A x : b # c /\ conn' = [conn EXCEPT ![c] = x] => conn'[b] = conn[b]
        /\ \A c \in Agents : \A x : b # c /\ last' = [last EXCEPT ![c] = x] => last'[b] = last[b]
        /\ \A c \in Agents : \A y \in Servers : \A x \in Nodes \cup {NoNode} :
              b # c /\ guests' = [guests EXCEPT ![y][c] = x] => \A z \in Servers : guests'[z][b] = guests[z][b]
    <2>1. /\ b \in DOMAIN status /\ b \in DOMAIN conn /\ b \in DOMAIN last
          /\ guests \in [Servers -> [Agents -> Nodes \cup {NoNode}]]
      BY <1>0 DEF TypeOK
    <2>2. ASSUME NEW c \in Agents, NEW y \in Servers, NEW x \in Nodes \cup {NoNode},
                 b # c, guests' = [guests EXCEPT ![y][c] = x]
          PROVE  \A z \in Servers : guests'[z][b] = guests[z][b]
      BY <2>1, <2>2, GuestsSet
    <2> QED BY <2>1, <2>2 DEF ProtocolTypes
  <1>1r. CASE Register(s, w)
    <2>1. Handles(s, w, "REGISTER") /\ Drop(w) /\ UNCHANGED guests
      BY <1>1r DEF Register
    <2>2. /\ status' = [status EXCEPT ![h.agent] = "HOME"]
          /\ conn' = [conn EXCEPT ![h.agent] = w[1]]
          /\ last' = [last EXCEPT ![h.agent] = s]
      BY <1>1r DEF Register
    <2>3. h.agent \in Agents /\ h.agent # b
      BY <1>a, <1>t, <2>1
    <2>4. Same
      <3> HIDE DEF h, Quiet
      <3>1. status'[b] = status[b]
        BY <1>t, <2>1, <2>2, <2>3
      <3>2. conn'[b] = conn[b] /\ last'[b] = last[b]
        BY <1>t, <2>1, <2>2, <2>3
      <3>3. \A x \in Servers : guests'[x][b] = guests[x][b]
        BY <1>t, <2>1, <2>2, <2>3
      <3> QED BY <1>1, <3>1, <3>2, <3>3
    <2> QED BY <1>d, <2>1, <2>4
  <1>2r. CASE ConnectHome(s, w)
    <2>1. Handles(s, w, "CONNECT") /\ UNCHANGED guests
      BY <1>2r DEF ConnectHome
    <2>2. h.agent \in Agents /\ h.agent # b
      BY <1>a, <1>t, <2>1
    <2>3. CASE status[h.agent] = "OFFLINE"
      <3>1. /\ status' = [status EXCEPT ![h.agent] = "HOME"]
            /\ conn' = [conn EXCEPT ![h.agent] = w[1]]
            /\ last' = [last EXCEPT ![h.agent] = s]
            /\ Pass(w, <<s, w[1]>>, saved[h.agent])
        BY <1>2r, <2>3 DEF ConnectHome
      <3>2. Same
        BY <1>1, <1>t, <2>1, <2>2, <3>1
      <3>3. Quiet(saved[h.agent])
        BY <1>b, <2>2
      <3> HIDE DEF Same, Quiet
      <3> QED BY <1>p, <2>1, <3>1, <3>2, <3>3
    <2>4. CASE status[h.agent] # "OFFLINE"
      BY <1>1, <1>2r, <1>d, <2>1, <2>4 DEF ConnectHome, homeVars
    <2> QED BY <2>3, <2>4
  <1>3r. CASE ConnectGuest(s, w)
    <2>1. Handles(s, w, "CONNECT") /\ UNCHANGED <<status, conn, last>> /\ w[1] \in Nodes
      BY <1>3r, HeadFacts DEF ConnectGuest, homeVars, Handles, Kind
    <2>2. h.agent \in Agents /\ h.agent # b /\ Quiet(<<Msg("AGENT_UPDATE", h.agent)>>)
      BY <1>a, <1>t, <2>1
    <2>3. guests' = guests \/ guests' = [guests EXCEPT ![s][h.agent] = w[1]]
      BY <1>3r DEF ConnectGuest
    <2>4. Same
      <3> HIDE DEF h, Quiet
      <3>1. status'[b] = status[b]
        BY <1>t, <2>1, <2>2, <2>3
      <3>2. conn'[b] = conn[b] /\ last'[b] = last[b]
        BY <1>t, <2>1, <2>2, <2>3
      <3>3. \A x \in Servers : guests'[x][b] = guests[x][b]
        BY <1>t, <2>1, <2>2, <2>3
      <3> QED BY <1>1, <3>1, <3>2, <3>3
    <2>5. Drop(w) \/ Pass(w, <<s, Home(h.agent)>>, <<Msg("AGENT_UPDATE", h.agent)>>)
      BY <1>3r DEF ConnectGuest
    <2> HIDE DEF Same, Quiet
    <2> QED BY <1>d, <1>p, <2>1, <2>2, <2>4, <2>5
  <1>4r. CASE ReqLeave(s, w)
    <2>1. Handles(s, w, "REQ_LEAVE") /\ UNCHANGED <<guests, conn, last>>
      BY <1>4r DEF ReqLeave
    <2>2. /\ h.agent \in Agents /\ h.agent # b
          /\ Quiet(<<Msg("REQ_ACCEPT", h.agent)>>) /\ Quiet(<<Msg("REQ_BUFFER", h.agent)>>)
      BY <1>a, <1>t, <2>1
    <2>3. status' = status \/ status' = [status EXCEPT ![h.agent] = "OFFLINE"]
      BY <1>4r DEF ReqLeave
    <2>4. Same
      <3> HIDE DEF h, Quiet
      <3>1. status'[b] = status[b]
        BY <1>t, <2>1, <2>2, <2>3
      <3>2. conn'[b] = conn[b] /\ last'[b] = last[b]
        BY <1>t, <2>1, <2>2, <2>3
      <3>3. \A x \in Servers : guests'[x][b] = guests[x][b]
        BY <1>t, <2>1, <2>2, <2>3
      <3> QED BY <1>1, <3>1, <3>2, <3>3
    <2>5. \/ Drop(w) \/ Pass(w, <<s, Home(h.agent)>>, <<Msg("REQ_BUFFER", h.agent)>>)
          \/ Pass(w, <<s, conn[h.agent]>>, <<Msg("REQ_ACCEPT", h.agent)>>)
      BY <1>4r DEF ReqLeave
    <2> HIDE DEF Same, Quiet
    <2> QED BY <1>d, <1>p, <2>1, <2>2, <2>4, <2>5
  <1>5r. CASE ReqBuffer(s, w)
    <2>1. Handles(s, w, "REQ_BUFFER") /\ UNCHANGED <<guests, conn, last>>
      BY <1>5r DEF ReqBuffer
    <2>2. h.agent \in Agents /\ h.agent # b /\ Quiet(<<Msg("REQ_ACCEPT", h.agent)>>)
      BY <1>a, <1>t, <2>1
    <2>3. status' = status \/ status' = [status EXCEPT ![h.agent] = "OFFLINE"]
      BY <1>5r DEF ReqBuffer
    <2>4. Same
      <3> HIDE DEF h, Quiet
      <3>1. status'[b] = status[b]
        BY <1>t, <2>1, <2>2, <2>3
      <3>2. conn'[b] = conn[b] /\ last'[b] = last[b]
        BY <1>t, <2>1, <2>2, <2>3
      <3>3. \A x \in Servers : guests'[x][b] = guests[x][b]
        BY <1>t, <2>1, <2>2, <2>3
      <3> QED BY <1>1, <3>1, <3>2, <3>3
    <2>5. Drop(w) \/ Pass(w, <<s, last[h.agent]>>, <<Msg("REQ_ACCEPT", h.agent)>>)
      BY <1>5r DEF ReqBuffer
    <2> HIDE DEF Same, Quiet
    <2> QED BY <1>d, <1>p, <2>1, <2>2, <2>4, <2>5
  <1>6r. CASE ReqAccept(s, w)
    <2>1. Handles(s, w, "REQ_ACCEPT") /\ UNCHANGED <<status, conn, last>>
      BY <1>6r DEF ReqAccept, homeVars
    <2>2. h.agent \in Agents /\ h.agent # b /\ Quiet(<<Msg("REQ_ACCEPT", h.agent)>>)
      BY <1>a, <1>t, <2>1
    <2>3. guests' = guests \/ guests' = [guests EXCEPT ![s][h.agent] = NoNode]
      BY <1>6r DEF ReqAccept
    <2>4. Same
      <3> HIDE DEF h, Quiet
      <3>1. status'[b] = status[b]
        BY <1>t, <2>1, <2>2, <2>3
      <3>2. conn'[b] = conn[b] /\ last'[b] = last[b]
        BY <1>t, <2>1, <2>2, <2>3
      <3>3. \A x \in Servers : guests'[x][b] = guests[x][b]
        BY <1>t, <2>1, <2>2, <2>3
      <3> QED BY <1>1, <3>1, <3>2, <3>3
    <2>5. Drop(w) \/ Pass(w, <<s, guests[s][h.agent]>>, <<Msg("REQ_ACCEPT", h.agent)>>)
      BY <1>6r DEF ReqAccept
    <2> HIDE DEF Same, Quiet
    <2> QED BY <1>d, <1>p, <2>1, <2>2, <2>4, <2>5
  <1>7r. CASE AgentUpdate(s, w)
    <2>1. Handles(s, w, "AGENT_UPDATE") /\ UNCHANGED <<guests, conn>>
      BY <1>7r DEF AgentUpdate
    <2>2. h.agent \in Agents /\ h.agent # b /\ Quiet(Forwarded(h.agent))
      BY <1>a, <1>b, <1>t, <2>1
    <2>3. /\ status' = status \/ status' = [status EXCEPT ![h.agent] = "REMOTE"]
          /\ last' = last \/ last' = [last EXCEPT ![h.agent] = w[1]]
      BY <1>7r DEF AgentUpdate
    <2>4. Same
      <3> HIDE DEF h, Quiet
      <3>1. status'[b] = status[b]
        BY <1>t, <2>1, <2>2, <2>3
      <3>2. conn'[b] = conn[b] /\ last'[b] = last[b]
        BY <1>t, <2>1, <2>2, <2>3
      <3>3. \A x \in Servers : guests'[x][b] = guests[x][b]
        BY <1>t, <2>1, <2>2, <2>3
      <3> QED BY <1>1, <3>1, <3>2, <3>3
    <2>5. Drop(w) \/ Pass(w, <<s, w[1]>>, Forwarded(h.agent))
      BY <1>7r DEF AgentUpdate, Forwarded
    <2> HIDE DEF Same, Quiet
    <2> QED BY <1>d, <1>p, <2>1, <2>2, <2>4, <2>5
  <1>8r. CASE Content(s, w)
    <2>1. Handles(s, w, "WAVE") /\ UNCHANGED <<status, conn, last, guests>>
      BY <1>8r DEF Content
    <2>2. h \in Message /\ ~Token(b, h) /\ h.id \in Ids /\ h.hops \in Nat
      BY <2>1, HeadFacts, MessageForms DEF Token, Handles
    <2>3. Wave(h.id, h.hops + 1) \in Message /\ ~Token(b, Wave(h.id, h.hops + 1))
      BY <2>2, MessageForms DEF Token
    <2>4. Same
      BY <1>1, <2>1
    <2>5. Drop(w) \/ \E x : Pass(w, <<s, x>>, <<h>>) \/ Pass(w, <<s, x>>, <<Wave(h.id, h.hops + 1)>>)
      BY <1>8r DEF Content
    <2>6. Quiet(<<h>>) /\ Quiet(<<Wave(h.id, h.hops + 1)>>)
      BY <1>q, <2>2, <2>3
    <2> HIDE DEF Same, Quiet, h
    <2> QED BY <1>d, <1>p, <2>1, <2>4, <2>5, <2>6
  <1> QED BY <1>1r, <1>2r, <1>3r, <1>4r, <1>5r, <1>6r, <1>7r, <1>8r DEF Serve

\* A message that is not about an agent is sent, or one is dropped.
LEMMA SendFrame ==
  ASSUME TypeOK, NEW b \in Agents, AgentInv(b), NEW v, NEW m \in Message, Moved({}, {v}, <<m>>),
         ~Token(b, m), phase'[b] = phase[b], node'[b] = node[b], UNCHANGED <<homeVars, guests>>
  PROVE  AgentInv(b)'
  <1> DEFINE ms == <<m>>
             in == {v}
  <1>1. /\ ms \in Seq(Message) /\ \A i \in DOMAIN ms : ~Token(b, ms[i])
        /\ Moved({}, in, ms) /\ \A x, y \in in : x = y
    OBVIOUS
  <1>2. \A u \in Wires \cap {} : ~Token(b, chan[u][1])
    OBVIOUS
  <1>3. /\ status'[b] = status[b] /\ conn'[b] = conn[b] /\ last'[b] = last[b]
        /\ \A s \in Servers : guests'[s][b] = guests[s][b]
    BY DEF homeVars
  <1> HIDE DEF ms, in
  <1> QED BY <1>1, <1>2, <1>3, AgentFrame

LEMMA DropFrame ==
  ASSUME TypeOK, NEW b \in Agents, AgentInv(b), NEW w \in Wires, chan[w] # <<>>, Drop(w),
         ~Token(b, chan[w][1]), phase'[b] = phase[b], UNCHANGED <<node, homeVars, guests>>
  PROVE  AgentInv(b)'
  <1> DEFINE ms == <<>>
  <1>0. Moved({w}, {}, <<>>)
    BY DropMoves
  <1>1. ms \in Seq(Message) /\ DOMAIN ms = {} /\ Moved({w}, {}, ms) /\ \A x, y \in {} : x = y
    BY <1>0
  <1>2. \A u \in Wires \cap {w} : ~Token(b, chan[u][1])
    OBVIOUS
  <1>3. /\ status'[b] = status[b] /\ conn'[b] = conn[b] /\ last'[b] = last[b] /\ node'[b] = node[b]
        /\ \A s \in Servers : guests'[s][b] = guests[s][b]
    BY DEF homeVars
  <1> HIDE DEF ms
  <1> QED BY <1>1, <1>2, <1>3, AgentFrame

\* There is no message about an agent that is not running or waiting to leave.
LEMMA NoStage ==
  ASSUME NEW a \in Agents, phase[a] \notin {"running", "leaving"}
  PROVE  \A t, w : ~Stage(a, t, w)
  BY DEF Stage

LEMMA Starts ==
  ASSUME TypeInv, \A c \in Agents : AgentInv(c), NEW a \in Agents, Start(a), NEW b \in Agents
  PROVE  AgentInv(b)'
  <1>0. TypeOK /\ "REGISTER" \in ProtocolTypes
    BY DEF TypeInv, ProtocolTypes
  <1>1. Moved({}, {Up(a)}, <<Msg("REGISTER", a)>>) /\ Msg("REGISTER", a) \in Message
        /\ Msg("REGISTER", a).agent = a
    BY <1>0, SendMoves, MessageForms DEF Start
  <1>2. /\ phase[a] = "new" /\ phase' = [phase EXCEPT ![a] = "running"]
        /\ UNCHANGED <<node, homeVars, guests>>
    BY DEF Start
  <1>3. phase'[a] = "running" /\ (b # a => phase'[b] = phase[b])
    BY <1>0, <1>2 DEF TypeOK
  <1>4. CASE b # a
    <2>1. ~Token(b, Msg("REGISTER", a))
      BY <1>1, <1>4 DEF Token
    <2>2. phase'[b] = phase[b] /\ node'[b] = node[b] /\ UNCHANGED <<homeVars, guests>>
      BY <1>2, <1>3, <1>4
    <2> QED BY <1>0, <1>1, <2>1, <2>2, SendFrame
  <1>5. CASE b = a
    <2>1. status[a] = "none" /\ NoGuest(a) /\ ~Away(a) /\ AgentInv(a)
      BY <1>2 DEF AgentInv, Life, Away, Home
    <2>2. NoGuest(a)' /\ ~Away(a)' /\ status'[a] = "none" /\ Up(a)' = Up(a)
      BY <1>2, <2>1 DEF NoGuest, Away, Up, homeVars
    <2>3. \A v : v = Up(a) => Stage(a, "REGISTER", v)'
      BY <1>3, <2>2 DEF Stage, Arriving
    <2>4. Up(a) \in Wires
      BY <1>0, RegionAssumption DEF Up, Wires, TypeOK
    <2>5. Settled(a)'
      <3> DEFINE ms == <<Msg("REGISTER", a)>>
                 in == {Up(a)}
      <3>1. ms \in Seq(Message) /\ 1 \in DOMAIN ms /\ ms[1] = Msg("REGISTER", a) /\ Moved({}, in, ms)
            /\ Up(a) \in Wires \cap in
        BY <1>1, <2>4
      <3>2. Token(a, Msg("REGISTER", a)) /\ Msg("REGISTER", a).type \notin Leaving
        BY <1>0, MessageForms DEF Token, Leaving
      <3> HIDE DEF ms, in
      <3> QED BY <1>0, <3>1, <3>2, NowThere
    <2>6. Life(a)'
      BY <1>3, <2>5 DEF Life
    <2>7. \A u, r : ~Stage(a, r, u)
      BY <1>2, NoStage
    <2>8. AgentInv(a)'
      BY <1>0, <1>1, <2>1, <2>3, <2>6, <2>7, TokenNew
    <2> QED BY <1>5, <2>8
  <1> QED BY <1>4, <1>5

LEMMA Asks ==
  ASSUME TypeInv, \A c \in Agents : AgentInv(c), ~Impatient,
         NEW a \in Agents, NEW n \in Nodes, Move(a, n), NEW b \in Agents
  PROVE  AgentInv(b)'
  <1>0. TypeOK /\ "REQ_LEAVE" \in ProtocolTypes
    BY DEF TypeInv, ProtocolTypes
  <1>1. Moved({}, {Up(a)}, <<Msg("REQ_LEAVE", a)>>) /\ Msg("REQ_LEAVE", a) \in Message
        /\ Msg("REQ_LEAVE", a).agent = a
    BY <1>0, SendMoves, MessageForms DEF Move
  <1>2. /\ phase[a] = "running" /\ phase' = [phase EXCEPT ![a] = "leaving"]
        /\ UNCHANGED <<node, homeVars, guests>>
    BY DEF Move
  <1>3. phase'[a] = "leaving" /\ (b # a => phase'[b] = phase[b])
    BY <1>0, <1>2 DEF TypeOK
  <1>4. CASE b # a
    <2>1. ~Token(b, Msg("REQ_LEAVE", a))
      BY <1>1, <1>4 DEF Token
    <2>2. phase'[b] = phase[b] /\ node'[b] = node[b] /\ UNCHANGED <<homeVars, guests>>
      BY <1>2, <1>3, <1>4
    <2> QED BY <1>0, <1>1, <2>1, <2>2, SendFrame
  <1>5. CASE b = a
    <2>1. Settled(a) /\ AgentInv(a)
      BY <1>2 DEF AgentInv, Life
    <2>2. /\ (NoGuest(a)' <=> NoGuest(a)) /\ (Away(a)' <=> Away(a)) /\ (GuestHere(a)' <=> GuestHere(a))
          /\ status'[a] = status[a] /\ conn'[a] = conn[a] /\ last'[a] = last[a]
          /\ node'[a] = node[a] /\ Up(a)' = Up(a)
      BY <1>2 DEF NoGuest, Away, GuestHere, Up, homeVars
    <2>3. \A v : v = Up(a) => Stage(a, "REQ_LEAVE", v)'
      BY <1>3, <2>2 DEF Stage, Arriving
    <2>4. Settled(a)'
      <3> DEFINE ms == <<Msg("REQ_LEAVE", a)>>
                 in == {Up(a)}
      <3>1. ms \in Seq(Message) /\ Moved({}, in, ms)
        BY <1>1
      <3> HIDE DEF ms, in
      <3>2. ASSUME NEW u \in Wires, NEW k \in DOMAIN chan[u], Token(a, chan[u][k]), chan[u][k].type \notin Leaving
            PROVE  Settled(a)'
        <4>1. ~(u \in {} /\ k = 1)
          OBVIOUS
        <4> QED BY <1>0, <3>1, <3>2, <4>1, StillThere
      <3> QED BY <2>1, <2>2, <3>2 DEF Settled
    <2>6. Life(a)'
      BY <1>3, <2>4 DEF Life
    <2>7. \A u : \A r \in ProtocolTypes : Stage(a, r, u) =>
             Stage(a, r, u)' /\ r \in Arriving /\ "REQ_LEAVE" \in Leaving
      <3>1. \A u, r : Stage(a, r, u) => r \in Arriving
        BY <1>2 DEF Stage
      <3>2. \A u, r : Stage(a, r, u) => Stage(a, r, u)'
        <4>1. Home(a)' = Home(a)
          BY DEF Home
        <4> QED BY <1>3, <2>2, <3>1, <4>1 DEF Stage, Arriving
      <3> QED BY <3>1, <3>2 DEF Leaving
    <2>8. AgentInv(a)'
      BY <1>0, <1>1, <2>1, <2>3, <2>6, <2>7, TokenNew
    <2> QED BY <1>5, <2>8
  <1> QED BY <1>4, <1>5

LEMMA Arrives ==
  ASSUME TypeInv, \A c \in Agents : AgentInv(c), NEW a \in Agents, Arrive(a), NEW b \in Agents
  PROVE  AgentInv(b)'
  <1> DEFINE up == <<target[a], Region[target[a]]>>
  <1>0. TypeOK /\ "CONNECT" \in ProtocolTypes /\ target[a] \in Nodes
    BY DEF TypeInv, ProtocolTypes, Targets, Arrive
  <1>1. Moved({}, {up}, <<Msg("CONNECT", a)>>) /\ Msg("CONNECT", a) \in Message
        /\ Msg("CONNECT", a).agent = a
    BY <1>0, SendMoves, MessageForms DEF Arrive
  <1>2. /\ phase[a] = "transit" /\ phase' = [phase EXCEPT ![a] = "running"]
        /\ node' = [node EXCEPT ![a] = target[a]]
        /\ UNCHANGED <<homeVars, guests>>
    BY DEF Arrive
  <1>3. /\ phase'[a] = "running" /\ node'[a] = target[a]
        /\ b # a => phase'[b] = phase[b] /\ node'[b] = node[b]
    BY <1>0, <1>2 DEF TypeOK
  <1>4. CASE b # a
    <2>1. ~Token(b, Msg("CONNECT", a))
      BY <1>1, <1>4 DEF Token
    <2>2. phase'[b] = phase[b] /\ node'[b] = node[b] /\ UNCHANGED <<homeVars, guests>>
      BY <1>2, <1>3, <1>4
    <2> HIDE DEF up
    <2> QED BY <1>0, <1>1, <2>1, <2>2, SendFrame
  <1>5. CASE b = a
    <2>1. status[a] = "OFFLINE" /\ NoGuest(a) /\ AgentInv(a)
      BY <1>2 DEF AgentInv, Life
    <2>2. NoGuest(a)' /\ status'[a] = "OFFLINE" /\ Up(a)' = up
      BY <1>2, <1>3, <2>1 DEF NoGuest, Up, homeVars
    <2>3. \A v : v = up => Stage(a, "CONNECT", v)'
      BY <1>3, <2>2 DEF Stage, Arriving
    <2>4. up \in Wires
      BY <1>0, RegionAssumption DEF Wires
    <2> HIDE DEF up
    <2>5. Settled(a)'
      <3> DEFINE ms == <<Msg("CONNECT", a)>>
                 in == {up}
      <3>1. ms \in Seq(Message) /\ 1 \in DOMAIN ms /\ ms[1] = Msg("CONNECT", a) /\ Moved({}, in, ms)
            /\ up \in Wires \cap in
        BY <1>1, <2>4
      <3>2. Token(a, Msg("CONNECT", a)) /\ Msg("CONNECT", a).type \notin Leaving
        BY <1>0, MessageForms DEF Token, Leaving
      <3> HIDE DEF ms, in
      <3> QED BY <1>0, <3>1, <3>2, NowThere
    <2>6. Life(a)'
      BY <1>3, <2>5 DEF Life
    <2>7. \A u, r : ~Stage(a, r, u)
      BY <1>2, NoStage
    <2>9. PICK v : v = up
      OBVIOUS
    <2>8. AgentInv(a)'
      BY <1>0, <1>1, <2>1, <2>3, <2>6, <2>7, <2>9, TokenNew
    <2> QED BY <1>5, <2>8
  <1> QED BY <1>4, <1>5

LEMMA Departs ==
  ASSUME TypeInv, \A c \in Agents : AgentInv(c), NEW a \in Agents, Depart(a), NEW b \in Agents
  PROVE  AgentInv(b)'
  <1>1. /\ phase[a] = "stopping" /\ phase' = [phase EXCEPT ![a] = "transit"]
        /\ UNCHANGED <<node, homeVars, guests, chan>>
    BY DEF Depart
  <1>2. phase'[a] = "transit" /\ (b # a => phase'[b] = phase[b])
    BY <1>1 DEF TypeInv, TypeOK
  <1>3. /\ (NoGuest(b)' <=> NoGuest(b)) /\ (Away(b)' <=> Away(b)) /\ (GuestHere(b)' <=> GuestHere(b))
        /\ status'[b] = status[b] /\ conn'[b] = conn[b] /\ last'[b] = last[b]
        /\ node'[b] = node[b] /\ Up(b)' = Up(b) /\ Home(b)' = Home(b)
    BY <1>1 DEF NoGuest, Away, GuestHere, Up, homeVars, Home
  <1>4. Staged(b) /\ Follows(b) /\ Life(b)
    BY DEF AgentInv
  <1>5. Follows(b)'
    BY <1>1, <1>4 DEF Follows, Before
  <1>6. (Settled(b)' <=> Settled(b))
    BY <1>1, <1>3 DEF Settled
  <1>7. CASE b # a
    <2>1. \A t, w : Stage(b, t, w) => Stage(b, t, w)'
      BY <1>2, <1>3, <1>7 DEF Stage
    <2>2. Staged(b)'
      <3> SUFFICES ASSUME NEW w \in Wires, NEW k \in DOMAIN chan[w], Token(b, chan[w][k]),
                          NEW t, t = chan[w][k].type
                   PROVE  Stage(b, t, w)'
        BY <1>1 DEF Staged, Stage
      <3> QED BY <1>4, <2>1 DEF Staged
    <2>3. Life(b)'
      BY <1>2, <1>3, <1>4, <1>6, <1>7 DEF Life
    <2> QED BY <1>5, <2>2, <2>3 DEF AgentInv
  <1>8. CASE b = a
    <2>1. \A t, w : ~Stage(a, t, w)
      BY <1>1, NoStage
    <2>2. Staged(b)'
      BY <1>1, <1>4, <1>8, <2>1 DEF Staged
    <2>3. Life(b)'
      BY <1>1, <1>2, <1>3, <1>4, <1>8 DEF Life
    <2> QED BY <1>5, <2>2, <2>3 DEF AgentInv
  <1> QED BY <1>7, <1>8

LEMMA Receives ==
  ASSUME TypeInv, \A c \in Agents : AgentInv(c), NEW n \in Nodes, Receive(n), NEW b \in Agents
  PROVE  AgentInv(b)'
  <1> DEFINE w == <<Region[n], n>>
  <1>0. w \in Wires /\ TypeOK
    BY RegionAssumption DEF Wires, TypeInv
  <1>1. CASE ReceiveWave(n)
    <2>1. Incoming(w, "WAVE") /\ Drop(w) /\ UNCHANGED <<phase, node, homeVars, guests>>
      BY <1>1 DEF ReceiveWave
    <2>2. chan[w] # <<>> /\ ~Token(b, chan[w][1])
      BY <1>0, <2>1, HeadFacts, MessageForms DEF Token
    <2>3. phase'[b] = phase[b] /\ UNCHANGED <<node, homeVars, guests>>
      BY <2>1
    <2> HIDE DEF w
    <2> QED BY <1>0, <2>1, <2>2, <2>3, DropFrame
  <1>2. CASE ReceiveAccept(n)
    <2> DEFINE a == Head(chan[w]).agent
    <2>1. Incoming(w, "REQ_ACCEPT") /\ Drop(w) /\ UNCHANGED <<node, homeVars, guests>>
          /\ phase' = [phase EXCEPT ![a] = IF Registered(a, n) /\ @ = "leaving" THEN "stopping" ELSE @]
      BY <1>2 DEF ReceiveAccept
    <2>2. chan[w] # <<>> /\ a \in Agents /\ a = chan[w][1].agent
      BY <1>0, <2>1, HeadFacts, MessageForms
    <2>3. CASE b = a
      BY <1>2, <2>3, Stops
    <2>4. CASE b # a
      <3>1. ~Token(b, chan[w][1])
        BY <2>2, <2>4 DEF Token
      <3>2. phase'[b] = phase[b]
        BY <1>0, <2>1, <2>2, <2>4 DEF TypeOK
      <3> HIDE DEF w
      <3> QED BY <1>0, <2>1, <2>2, <3>1, <3>2, DropFrame
    <2> QED BY <2>3, <2>4
  <1> QED BY <1>1, <1>2 DEF Receive

LEMMA Serves ==
  ASSUME TypeInv, \A c \in Agents : AgentInv(c), NEW s \in Servers, NEW w \in Wires, Serve(s, w),
         NEW b \in Agents
  PROVE  AgentInv(b)'
  <1>1. CASE ~Token(b, chan[w][1])
    BY <1>1, ServeFrame
  <1>2. CASE Token(b, chan[w][1])
    <2>1. PICK t : Incoming(w, t)
      BY DEF Serve, Register, ConnectHome, ConnectGuest, ReqLeave, ReqBuffer, ReqAccept, AgentUpdate,
             Content, Handles
    <2>2. b = Head(chan[w]).agent /\ ~Content(s, w)
      BY <1>2, <2>1, HeadFacts, MessageForms DEF Token, Content, Handles, Incoming
    <2>3. CASE Register(s, w) \/ ConnectHome(s, w)
      BY <2>2, <2>3, ComesHome
    <2>4. CASE ConnectGuest(s, w)
      BY <2>2, <2>4, BecomesGuest
    <2>5. CASE ReqLeave(s, w)
      BY <2>2, <2>5, StartsLeaving
    <2>6. CASE ReqBuffer(s, w)
      BY <2>2, <2>6, GoesOffline
    <2>7. CASE ReqAccept(s, w)
      BY <2>2, <2>7, GuestLeaves
    <2>8. CASE AgentUpdate(s, w)
      BY <2>2, <2>8, BecomesRemote
    <2> QED BY <2>2, <2>3, <2>4, <2>5, <2>6, <2>7, <2>8 DEF Serve
  <1> QED BY <1>1, <1>2

\* A wave is sent: it is about no agent.
LEMMA WavesPass ==
  ASSUME TypeInv, \A c \in Agents : AgentInv(c), NEW a \in Agents, NEW c \in Agents, SendWave(c, a),
         NEW b \in Agents
  PROVE  AgentInv(b)'
  <1> DEFINE m == Wave(Len(waves) + 1, 0)
  <1>0. TypeOK /\ Len(waves) + 1 \in Ids
    BY BoundsAssumption DEF TypeInv, TypeOK, SendWave, Ids
  <1>1. m \in Message /\ ~Token(b, m)
    BY <1>0, MessageForms DEF Token
  <1>2. Moved({}, {Up(c)}, <<m>>)
    BY <1>0, <1>1, SendMoves DEF SendWave
  <1>3. phase'[b] = phase[b] /\ node'[b] = node[b] /\ UNCHANGED <<homeVars, guests>>
    BY DEF SendWave, shardVars
  <1> HIDE DEF m
  <1> QED BY <1>0, <1>1, <1>2, <1>3, SendFrame

EachAgent == \A a \in Agents : AgentInv(a)

LEMMA EachAgentInit == Init => EachAgent
  <1> SUFFICES ASSUME Init, NEW a \in Agents PROVE AgentInv(a)
    BY DEF EachAgent
  <1>1. \A w \in Wires : DOMAIN chan[w] = {}
    BY DEF Init
  <1>2. phase[a] = "new" /\ node[a] = Origin[a] /\ status[a] = "none" /\ NoGuest(a)
    BY DEF Init, NoGuest
  <1> QED BY <1>1, <1>2 DEF AgentInv, Staged, Follows, Life

LEMMA EachAgentNext ==
  ASSUME ~Impatient, TypeInv, EachAgent, [Next]_vars
  PROVE  EachAgent'
  <1> USE DEF EachAgent
  <1> SUFFICES ASSUME NEW b \in Agents PROVE AgentInv(b)'
    OBVIOUS
  <1>1. CASE UNCHANGED vars
    BY <1>1 DEF vars, shardVars, homeVars, AgentInv, Staged, Follows, Life, Stage, Settled, Before,
                Away, NoGuest, GuestHere, Up
  <1>2. CASE Next
    <2>1. ASSUME NEW a \in Agents, Start(a) \/ Depart(a) \/ Arrive(a) PROVE AgentInv(b)'
      BY <2>1, Starts, Departs, Arrives
    <2>2. ASSUME NEW a \in Agents, NEW c \in Agents, SendWave(c, a) PROVE AgentInv(b)'
      BY <2>2, WavesPass
    <2>3. ASSUME NEW a \in Agents, NEW n \in Nodes, Move(a, n) PROVE AgentInv(b)'
      BY <2>3, Asks
    <2>4. ASSUME NEW s \in Servers, NEW w \in Wires, Serve(s, w) PROVE AgentInv(b)'
      BY <2>4, Serves
    <2>5. ASSUME NEW n \in Nodes, Receive(n) PROVE AgentInv(b)'
      BY <2>5, Receives
    <2> QED BY <1>2, <2>1, <2>2, <2>3, <2>4, <2>5, OriginAssumption DEF Next
  <1> QED BY <1>1, <1>2

\* What the tables say of an agent is where it is.
LEMMA Whereabouts ==
  ASSUME TypeOK, NEW a \in Agents, AgentInv(a)
  PROVE  /\ \A s \in Servers : guests[s][a] # NoNode =>
               /\ s # Home(a) /\ s = Region[node[a]] /\ guests[s][a] = node[a] /\ phase[a] \in {"running", "leaving"}
               /\ last[a] = s \/ status[a] = "OFFLINE"
         /\ status[a] = "REMOTE" =>
               /\ last[a] = Region[node[a]] /\ Away(a) /\ GuestHere(a)
               /\ \A w \in Wires : \A k \in DOMAIN chan[w] :
                     Token(a, chan[w][k]) => chan[w][k].type \in Leaving
         /\ status[a] = "HOME" => conn[a] = node[a] /\ phase[a] \in {"running", "leaving"} /\ ~Away(a)
  <1>1. Staged(a) /\ Life(a)
    BY DEF AgentInv
  <1>2. ASSUME NEW w \in Wires, NEW k \in DOMAIN chan[w], Token(a, chan[w][k]), chan[w][k].type \notin Leaving
        PROVE  \/ NoGuest(a) /\ (status[a] = "OFFLINE" \/ status[a] = "none")
               \/ GuestHere(a) /\ Away(a) /\ status[a] = "OFFLINE"
    <2>1. Stage(a, chan[w][k].type, w) /\ chan[w][k].type \in {"REGISTER", "CONNECT", "AGENT_UPDATE", "REQ_ACCEPT"}
      BY <1>1, <1>2 DEF Staged, Token, ProtocolTypes, Leaving
    <2> QED BY <2>1 DEF Stage
  <1>3. CASE phase[a] \in {"running", "leaving"}
    <2>1. \/ NoGuest(a) /\ (status[a] = "OFFLINE" \/ status[a] = "none")
          \/ GuestHere(a) /\ Away(a) /\ status[a] = "OFFLINE"
          \/ status[a] = "HOME" /\ conn[a] = node[a] /\ ~Away(a) /\ NoGuest(a)
          \/ status[a] = "REMOTE" /\ last[a] = Region[node[a]] /\ Away(a) /\ GuestHere(a)
      BY <1>1, <1>2, <1>3 DEF Life, Settled
    <2>2. ASSUME NEW w \in Wires, NEW k \in DOMAIN chan[w], Token(a, chan[w][k]), chan[w][k].type \notin Leaving
          PROVE  status[a] # "REMOTE"
      BY <1>2, <2>2
    <2> QED BY <1>3, <2>1, <2>2 DEF NoGuest, GuestHere, Away
  <1>4. CASE phase[a] \notin {"running", "leaving"}
    <2>1. NoGuest(a) /\ (status[a] = "OFFLINE" \/ status[a] = "none")
      BY <1>1, <1>4 DEF Life, TypeOK
    <2> QED BY <2>1 DEF NoGuest
  <1> QED BY <1>3, <1>4

\* For any servers, nodes and agents, while no agent calls moveTo again before it has
\* left: the servers agree with an agent on where it is.
THEOREM WhereAgentsAre ==
  ASSUME ~Impatient PROVE Spec => []WhereItIs
<1>1. TypeInv /\ EachAgent => WhereItIs
  <2> SUFFICES ASSUME TypeOK, NEW a \in Agents, AgentInv(a)
               PROVE  /\ \A s \in Servers : guests[s][a] # NoNode =>
                            /\ s # Home(a) /\ guests[s][a] = node[a] /\ phase[a] \in {"running", "leaving"}
                            /\ last[a] = s \/ status[a] = "OFFLINE"
                      /\ status[a] = "REMOTE" => guests[last[a]][a] = node[a]
                      /\ status[a] = "HOME" => conn[a] = node[a] /\ phase[a] \in {"running", "leaving"}
    BY DEF WhereItIs, EachAgent, TypeInv
  <2> QED BY Whereabouts, GuestOrNone
<1>2. Init => TypeInv /\ EachAgent
  BY TypeInvInit, EachAgentInit
<1>3. TypeInv /\ EachAgent /\ [Next]_vars => TypeInv' /\ EachAgent'
  BY TypeInvNext, EachAgentNext
<1> QED BY <1>1, <1>2, <1>3, PTL DEF Spec

-----------------------------------------------------------------------------
(* How far the waves for an agent go.                                      *)

Accepts(a, m) == m.type = "REQ_ACCEPT" /\ m.agent = a

\* Wire w leads from the home server of an agent to the server it is a guest of.
Outward(a, w) == w[1] = Home(a) /\ w[2] = Region[node[a]] /\ Away(a) /\ GuestHere(a)

\* How often a wave on wire w for an agent went from server to server.
Flow(a, w, h) ==
    /\ w[1] \in Nodes => h = 0
    /\ w[2] \in Nodes => h <= 2
    /\ w[1] \in Servers /\ w[2] \in Servers => \/ w[2] = Home(a) /\ h <= 1
                                               \/ Outward(a, w) /\ h <= 2

Hops(a) ==
    \A w \in Wires : \A k \in DOMAIN chan[w] :
        chan[w][k].type = "WAVE" /\ waves[chan[w][k].id].to = a => Flow(a, w, chan[w][k].hops)

\* What is on its way to the server an agent is a guest of, is there before the agent
\* is allowed to leave.
BeforeLeave(a) ==
    \A w \in Wires : \A k, l \in DOMAIN chan[w] :
        /\ chan[w][k].type = "WAVE" /\ waves[chan[w][k].id].to = a
        /\ w[1] \in Servers /\ w[2] \in Servers /\ w[2] # Home(a)
        /\ Accepts(a, chan[w][l])
        => k < l

SavedHops(a) ==
    \A k \in DOMAIN saved[a] : saved[a][k].hops <= 1 /\ waves[saved[a][k].id].to = a

WavesInv(a) == Hops(a) /\ BeforeLeave(a) /\ SavedHops(a)

\* It is enough to look at the waves that are new.
LEMMA HopsMoved ==
  ASSUME TypeOK, Kinds, NEW b \in Agents, Hops(b), BeforeLeave(b),
         NEW out, NEW in, NEW ms \in Seq(Message), Moved(out, in, ms),
         \A i \in 1 .. Len(waves) : waves'[i] = waves[i],
         \A w \in Wires : \A k \in DOMAIN chan[w] :
            /\ chan[w][k].type = "WAVE" /\ waves[chan[w][k].id].to = b
            /\ Outward(b, w) /\ ~(w \in out /\ k = 1)
            => Outward(b, w)',
         \A v \in Wires \cap in, i \in DOMAIN ms : \A h :
            ms[i].type = "WAVE" /\ waves'[ms[i].id].to = b /\ h = ms[i].hops => Flow(b, v, h)',
         \A v \in Wires \cap in, i \in DOMAIN ms :
            /\ ms[i].type = "WAVE" /\ waves'[ms[i].id].to = b
            /\ v[1] \in Servers /\ v[2] \in Servers /\ v[2] # Home(b)
            => /\ \A k \in DOMAIN chan[v] : ~Accepts(b, chan[v][k])
               /\ \A j \in DOMAIN ms : ~Accepts(b, ms[j])
  PROVE  Hops(b)' /\ BeforeLeave(b)'
  <1> DEFINE d(u) == Shift(out, u)
             Old(u, j) == /\ j + d(u) \in DOMAIN chan[u] /\ chan'[u][j] = chan[u][j + d(u)]
             New(u, j) == /\ u \in in /\ j + d(u) > Len(chan[u])
                          /\ j + d(u) - Len(chan[u]) \in DOMAIN ms
                          /\ chan'[u][j] = ms[j + d(u) - Len(chan[u])]
  <1>1. ASSUME NEW u \in Wires, NEW j \in DOMAIN chan'[u]
        PROVE  /\ d(u) \in {0, 1} /\ Len(chan[u]) \in Nat /\ j \in Nat /\ j > 0
               /\ Old(u, j) \/ New(u, j)
    BY OldOrNew
  <1>2. ASSUME NEW u \in Wires, NEW j \in DOMAIN chan'[u], Old(u, j)
        PROVE  /\ ~(u \in out /\ j + d(u) = 1) /\ j + d(u) <= Len(chan[u])
               /\ chan'[u][j].type = "WAVE" =>
                     waves'[chan'[u][j].id] = waves[chan[u][j + d(u)].id]
    <2>1. u \in out => d(u) = 1
      BY DEF Shift
    <2>2. DOMAIN chan[u] = 1 .. Len(chan[u]) /\ chan[u] \in Seq(Message)
      BY DEF TypeOK
    <2>3. chan'[u][j].type = "WAVE" => chan'[u][j].id \in 1 .. Len(waves)
      <3>1. chan[u][j + d(u)] \in Message /\ Kind(chan[u][j + d(u)], u, Len(waves))
        BY <1>2, <2>2 DEF Kinds
      <3>2. Len(waves) \in Nat
        BY DEF TypeOK
      <3> QED BY <1>2, <3>1, <3>2, MessageForms DEF Kind, Ids
    <2> QED BY <1>1, <1>2, <2>1, <2>2, <2>3
  <1>3. Hops(b)'
    <2> SUFFICES ASSUME NEW w \in Wires, NEW k \in DOMAIN chan'[w], chan'[w][k].type = "WAVE",
                        waves'[chan'[w][k].id].to = b, NEW h, h = chan'[w][k].hops
                 PROVE  Flow(b, w, h)'
      BY DEF Hops, Flow, Outward
    <2>1. CASE Old(w, k)
      <3>1. Flow(b, w, h)
        BY <1>2, <2>1 DEF Hops
      <3>2. Outward(b, w) => Outward(b, w)'
        BY <1>2, <2>1
      <3> QED BY <3>1, <3>2 DEF Flow, Home
    <2>2. CASE New(w, k)
      BY <2>2
    <2> QED BY <1>1, <2>1, <2>2
  <1>4. BeforeLeave(b)'
    <2> SUFFICES ASSUME NEW w \in Wires, NEW k \in DOMAIN chan'[w], NEW l \in DOMAIN chan'[w],
                        chan'[w][k].type = "WAVE", waves'[chan'[w][k].id].to = b,
                        w[1] \in Servers, w[2] \in Servers, w[2] # Home(b),
                        Accepts(b, chan'[w][l])
                 PROVE  k < l
      BY DEF BeforeLeave, Accepts, Home
    <2>0. /\ d(w) \in Nat /\ Len(chan[w]) \in Nat /\ k \in Nat /\ l \in Nat
          /\ Old(w, k) \/ New(w, k)
          /\ Old(w, l) \/ New(w, l)
      BY <1>1
    <2>1. CASE Old(w, k) /\ Old(w, l)
      <3>1. k + d(w) < l + d(w)
        BY <1>2, <2>1 DEF BeforeLeave
      <3> HIDE DEF d
      <3> QED BY <2>0, <3>1
    <2>2. CASE Old(w, k) /\ New(w, l)
      <3>1. k + d(w) <= Len(chan[w]) /\ l + d(w) > Len(chan[w])
        BY <1>2, <2>2
      <3> HIDE DEF d
      <3> QED BY <2>0, <3>1
    <2>3. CASE New(w, k)
      BY <1>1, <2>0, <2>3
    <2> QED BY <1>1, <2>1, <2>2, <2>3
  <1> QED BY <1>3, <1>4

\* What is saved for an agent is as before, or is gone.
LEMMA SavedKept ==
  ASSUME TypeOK, NEW b \in Agents, SavedHops(b), saved'[b] = saved[b] \/ saved'[b] = <<>>,
         UNCHANGED waves
  PROVE  SavedHops(b)'
  <1>1. CASE saved'[b] = saved[b]
    BY <1>1 DEF SavedHops
  <1>2. CASE saved'[b] = <<>>
    BY <1>2 DEF SavedHops
  <1> QED BY <1>1, <1>2

\* The server of a guest keeps it, or sends it away behind the waves for it.
LEMMA OutwardStays ==
  ASSUME TypeOK, NEW b \in Agents, NEW w \in Wires, Outward(b, w),
         UNCHANGED node, \A s \in Servers : guests'[s][b] = guests[s][b]
  PROVE  Outward(b, w)'
  BY DEF Outward, Away, GuestHere, Home

\* Nothing but waves of before is on the wires: messages about agents are sent, or none.
LEMMA NoNewWaves ==
  ASSUME TypeInv, NEW b \in Agents, WavesInv(b),
         NEW out, NEW in, NEW ms \in Seq(Message), Moved(out, in, ms),
         \A i \in DOMAIN ms : ms[i].type # "WAVE",
         UNCHANGED waves, saved'[b] = saved[b] \/ saved'[b] = <<>>,
         \A w \in Wires : \A k \in DOMAIN chan[w] :
            /\ chan[w][k].type = "WAVE" /\ waves[chan[w][k].id].to = b
            /\ Outward(b, w) /\ ~(w \in out /\ k = 1)
            => Outward(b, w)'
  PROVE  WavesInv(b)'
  <1>1. TypeOK /\ Kinds /\ Hops(b) /\ BeforeLeave(b) /\ SavedHops(b)
    BY DEF TypeInv, WavesInv
  <1>2. SavedHops(b)'
    BY <1>1, SavedKept
  <1>3. \A i \in 1 .. Len(waves) : waves'[i] = waves[i]
    OBVIOUS
  <1>4. Hops(b)' /\ BeforeLeave(b)'
    BY <1>1, <1>3, HopsMoved
  <1> QED BY <1>2, <1>4 DEF WavesInv

\* The same for one message about an agent, or for none.
LEMMA OneMessage ==
  ASSUME TypeInv, NEW b \in Agents, WavesInv(b), NEW out, NEW v, NEW t \in ProtocolTypes, NEW a \in Agents,
         Moved(out, {}, <<>>) \/ Moved(out, {v}, <<Msg(t, a)>>),
         UNCHANGED waves, saved'[b] = saved[b] \/ saved'[b] = <<>>,
         \A w \in Wires : \A k \in DOMAIN chan[w] :
            /\ chan[w][k].type = "WAVE" /\ waves[chan[w][k].id].to = b
            /\ Outward(b, w) /\ ~(w \in out /\ k = 1)
            => Outward(b, w)'
  PROVE  WavesInv(b)'
  <1>1. CASE Moved(out, {}, <<>>)
    <2> DEFINE ms == <<>>
    <2>1. ms \in Seq(Message) /\ DOMAIN ms = {} /\ Moved(out, {}, ms)
      BY <1>1
    <2> HIDE DEF ms
    <2> QED BY <2>1, NoNewWaves
  <1>2. CASE Moved(out, {v}, <<Msg(t, a)>>)
    <2> DEFINE ms == <<Msg(t, a)>>
               in == {v}
    <2>1. Msg(t, a) \in Message /\ Msg(t, a).type # "WAVE"
      BY MessageForms
    <2>2. ms \in Seq(Message) /\ Moved(out, in, ms) /\ \A i \in DOMAIN ms : ms[i].type # "WAVE"
      BY <1>2, <2>1
    <2> HIDE DEF ms, in
    <2> QED BY <2>2, NoNewWaves
  <1> QED BY <1>1, <1>2

\* The steps of the agents and of their pylons.
LEMMA AgentHops ==
  ASSUME TypeInv, EachAgent, \A c \in Agents : WavesInv(c), NEW b \in Agents,
         \/ \E a \in Agents : Start(a) \/ Depart(a) \/ Arrive(a)
         \/ \E a \in Agents, n \in Nodes : Move(a, n)
         \/ \E n \in Nodes : Receive(n)
  PROVE  WavesInv(b)'
  <1>0. TypeOK /\ AgentInv(b) /\ WavesInv(b)
    BY DEF TypeInv, EachAgent
  <1>1. ASSUME NEW a \in Agents, Start(a) \/ \E n \in Nodes : Move(a, n) PROVE WavesInv(b)'
    <2>1. UNCHANGED <<node, homeVars, guests, waves>>
      BY <1>1 DEF Start, Move
    <2>2. PICK t \in ProtocolTypes : Moved({}, {Up(a)}, <<Msg(t, a)>>)
      <3>1. /\ \A t \in ProtocolTypes : Msg(t, a) \in Message
            /\ "REGISTER" \in ProtocolTypes /\ "REQ_LEAVE" \in ProtocolTypes
        BY MessageForms DEF ProtocolTypes
      <3> QED BY <1>0, <1>1, <3>1, SendMoves DEF Start, Move
    <2>3. saved'[b] = saved[b] /\ waves' = waves
      BY <2>1 DEF homeVars
    <2>4. \A w \in Wires : Outward(b, w) => Outward(b, w)'
      BY <1>0, <2>1, OutwardStays
    <2> QED BY <1>0, <2>2, <2>3, <2>4, OneMessage
  <1>2. ASSUME NEW a \in Agents, Depart(a) PROVE WavesInv(b)'
    <2>1. UNCHANGED <<node, homeVars, guests, waves, chan>>
      BY <1>2 DEF Depart
    <2>2. \A w \in Wires : Outward(b, w) => Outward(b, w)'
      BY <1>0, <2>1, OutwardStays
    <2>3. Hops(b)'
      <3> SUFFICES ASSUME NEW w \in Wires, NEW k \in DOMAIN chan[w], chan[w][k].type = "WAVE",
                          waves[chan[w][k].id].to = b, NEW h, h = chan[w][k].hops
                   PROVE  Flow(b, w, h)'
        BY <2>1 DEF Hops, Flow, Outward
      <3>1. Flow(b, w, h)
        BY <1>0 DEF WavesInv, Hops
      <3> QED BY <2>2, <3>1 DEF Flow, Home
    <2> QED BY <1>0, <2>1, <2>3 DEF WavesInv, BeforeLeave, SavedHops, homeVars, Home, Accepts
  <1>3. ASSUME NEW a \in Agents, Arrive(a) PROVE WavesInv(b)'
    <2>1. /\ UNCHANGED <<homeVars, guests, waves>> /\ phase[a] = "transit"
          /\ node' = [node EXCEPT ![a] = target[a]]
      BY <1>3 DEF Arrive
    <2>2. /\ Moved({}, {<<target[a], Region[target[a]]>>}, <<Msg("CONNECT", a)>>)
          /\ "CONNECT" \in ProtocolTypes
      BY <1>0, <1>3, SendMoves, MessageForms DEF Arrive, ProtocolTypes
    <2>3. saved'[b] = saved[b] /\ waves' = waves
      BY <2>1 DEF homeVars
    <2>4. \A w \in Wires : Outward(b, w) => Outward(b, w)'
      <3>1. CASE b = a
        <4>1. NoGuest(a)
          BY <1>0, <2>1, <3>1 DEF AgentInv, Life
        <4> QED BY <1>0, <3>1, <4>1, GuestOrNone DEF Outward
      <3>2. CASE b # a
        <4>1. node'[b] = node[b]
          BY <1>0, <2>1, <3>2 DEF TypeOK
        <4> QED BY <2>1, <4>1 DEF Outward, Away, GuestHere, Home
      <3> QED BY <3>1, <3>2
    <2> QED BY <1>0, <2>2, <2>3, <2>4, OneMessage
  <1>4. ASSUME NEW n \in Nodes, Receive(n) PROVE WavesInv(b)'
    <2> DEFINE w == <<Region[n], n>>
    <2>1. Drop(w) /\ chan[w] # <<>> /\ UNCHANGED <<homeVars, guests, waves, node>>
      BY <1>4 DEF Receive, ReceiveWave, ReceiveAccept, Incoming
    <2>2. w \in Wires
      BY RegionAssumption DEF Wires
    <2>3. Moved({w}, {}, <<>>)
      BY <1>0, <2>1, <2>2, DropMoves
    <2>4. saved'[b] = saved[b] /\ waves' = waves
      BY <2>1 DEF homeVars
    <2>5. \A u \in Wires : Outward(b, u) => Outward(b, u)'
      BY <1>0, <2>1, OutwardStays
    <2>6. "CONNECT" \in ProtocolTypes
      BY DEF ProtocolTypes
    <2> HIDE DEF w
    <2> QED BY <1>0, <2>3, <2>4, <2>5, <2>6, OneMessage
  <1> QED BY <1>1, <1>2, <1>3, <1>4

\* A wave is sent.
LEMMA SendHops ==
  ASSUME TypeInv, NEW a \in Agents, NEW c \in Agents, SendWave(c, a), NEW b \in Agents, WavesInv(b)
  PROVE  WavesInv(b)'
  <1>0. /\ TypeOK /\ Kinds /\ SavedWaves /\ Hops(b) /\ BeforeLeave(b) /\ SavedHops(b)
        /\ Len(waves) \in Nat /\ Len(waves) + 1 \in Ids
    BY BoundsAssumption DEF TypeInv, TypeOK, SendWave, Ids, WavesInv
  <1> DEFINE m == Wave(Len(waves) + 1, 0)
             ms == <<m>>
             in == {Up(c)}
  <1>1. m \in Message /\ m.hops = 0 /\ m.type = "WAVE"
    BY <1>0, MessageForms
  <1>2. ms \in Seq(Message) /\ Moved({}, in, ms) /\ \A i \in DOMAIN ms : ms[i] = m
    BY <1>0, <1>1, SendMoves DEF SendWave
  <1>3. /\ UNCHANGED <<node, homeVars, guests>>
        /\ \A i \in 1 .. Len(waves) : waves'[i] = waves[i]
    <2>1. waves' = Append(waves, [from |-> c, to |-> a, known |-> status[a] # "none"])
          /\ UNCHANGED <<node, homeVars, guests>>
      BY DEF SendWave, shardVars
    <2>2. waves \in Seq([from : Agents, to : Agents, known : BOOLEAN])
      BY <1>0 DEF TypeOK
    <2> DEFINE x == [from |-> c, to |-> a, known |-> status[a] # "none"]
    <2>3. waves' = Append(waves, x)
      BY <2>1
    <2> HIDE DEF x
    <2> QED BY <2>1, <2>2, <2>3
  <1>4. \A w \in Wires : Outward(b, w) => Outward(b, w)'
    BY <1>0, <1>3, OutwardStays
  <1>5. Up(c)[1] \in Nodes /\ Up(c)[1] \notin Servers /\ Up(c)[2] \in Servers /\ Up(c)[2] \notin Nodes
    BY <1>0, RegionAssumption DEF Up, TypeOK
  <1>6. \A v \in Wires \cap in, i \in DOMAIN ms : \A h : h = ms[i].hops => Flow(b, v, h)' /\ v[1] \notin Servers
    <2>1. \A v \in in : v[1] \in Nodes /\ v[1] \notin Servers /\ v[2] \in Servers /\ v[2] \notin Nodes
      BY <1>5
    <2>2. \A i \in DOMAIN ms : ms[i].hops = 0
      BY <1>1, <1>2
    <2> HIDE DEF ms, in, m
    <2> QED BY <2>1, <2>2 DEF Flow
  <1>7. Hops(b)' /\ BeforeLeave(b)'
    <2> HIDE DEF ms, in, m
    <2> QED BY <1>0, <1>2, <1>3, <1>4, <1>6, HopsMoved
  <1>8. SavedHops(b)'
    <2>1. \A k \in DOMAIN saved[b] : saved[b][k].id \in 1 .. Len(waves)
      <3>1. saved[b] \in Seq(Message) /\ \A k \in DOMAIN saved[b] : saved[b][k] \in Message
        BY <1>0 DEF TypeOK
      <3> QED BY <1>0, <3>1, MessageForms DEF SavedWaves, Ids
    <2>2. saved' = saved
      BY <1>3 DEF homeVars
    <2> QED BY <1>0, <1>3, <2>1, <2>2 DEF SavedHops
  <1> QED BY <1>7, <1>8 DEF WavesInv

\* A server handles a message about an agent and sends nothing that it saved.
LEMMA ProtocolHops ==
  ASSUME TypeInv, EachAgent, NEW s \in Servers, NEW w \in Wires, NEW b \in Agents, WavesInv(b),
         Register(s, w) \/ ConnectGuest(s, w) \/ ReqLeave(s, w) \/ ReqBuffer(s, w) \/ ReqAccept(s, w)
  PROVE  WavesInv(b)'
  <1> DEFINE h == Head(chan[w])
  <1>0. TypeOK /\ AgentInv(b) /\ BeforeLeave(b) /\ \A c \in Agents : AgentInv(c)
    BY DEF TypeInv, EachAgent, WavesInv
  <1>1. PICK t \in ProtocolTypes : Handles(s, w, t)
    BY DEF Register, ConnectGuest, ReqLeave, ReqBuffer, ReqAccept, ProtocolTypes
  <1>2. /\ h.agent \in Agents /\ AgentInv(h.agent) /\ 1 \in DOMAIN chan[w] /\ h = chan[w][1] /\ h.type = t
        /\ Token(h.agent, chan[w][1]) /\ Stage(h.agent, t, w)
    <2>1. t # "WAVE" /\ Incoming(w, t)
      BY <1>1, MessageForms DEF Handles
    <2> QED BY <1>0, <2>1, HeadFacts, OwnFacts
  <1>3. UNCHANGED <<node, waves>>
    BY DEF Register, ConnectGuest, ReqLeave, ReqBuffer, ReqAccept, shardVars
  <1>4. saved'[b] = saved[b] \/ saved'[b] = <<>>
    <2>1. saved' = saved \/ saved' = [saved EXCEPT ![h.agent] = <<>>]
      BY DEF Register, ConnectGuest, ReqLeave, ReqBuffer, ReqAccept, homeVars
    <2>2. b \in DOMAIN saved
      BY <1>0 DEF TypeOK
    <2> QED BY <2>1, <2>2
  <1>5. \/ Drop(w)
        \/ \E x : \E r \in {"AGENT_UPDATE", "REQ_BUFFER", "REQ_ACCEPT"} : Pass(w, <<s, x>>, <<Msg(r, h.agent)>>)
    BY DEF Register, ConnectGuest, ReqLeave, ReqBuffer, ReqAccept
  <1>6. \/ Moved({w}, {}, <<>>)
        \/ \E v : \E r \in ProtocolTypes : Moved({w}, {v}, <<Msg(r, h.agent)>>)
    <2>1. ASSUME NEW x, NEW r \in {"AGENT_UPDATE", "REQ_BUFFER", "REQ_ACCEPT"},
                 Pass(w, <<s, x>>, <<Msg(r, h.agent)>>)
          PROVE  r \in ProtocolTypes /\ Moved({w}, {<<s, x>>}, <<Msg(r, h.agent)>>)
      <3>1. r \in ProtocolTypes
        BY DEF ProtocolTypes
      <3>2. <<Msg(r, h.agent)>> \in Seq(Message)
        BY <1>2, <3>1, MessageForms
      <3> QED BY <1>1, <2>1, <3>1, <3>2, ServerMoves
    <2>2. Drop(w) => Moved({w}, {}, <<>>)
      BY <1>1, ServerMoves
    <2> HIDE DEF h
    <2> QED BY <1>5, <2>1, <2>2
  <1>g. ASSUME NEW c \in Agents, NEW v \in Nodes \cup {NoNode}, c # b, guests' = [guests EXCEPT ![s][c] = v]
        PROVE  \A x \in Servers : guests'[x][b] = guests[x][b]
    <2>1. guests \in [Servers -> [Agents -> Nodes \cup {NoNode}]]
      BY <1>0 DEF TypeOK
    <2> QED BY <1>g, <2>1, GuestsSet
  <1>7. ASSUME NEW u \in Wires, NEW k \in DOMAIN chan[u],
               chan[u][k].type = "WAVE", waves[chan[u][k].id].to = b,
               Outward(b, u), ~(u \in {w} /\ k = 1)
        PROVE  Outward(b, u)'
    <2>1. CASE ConnectGuest(s, w)
      <3>1. guests' = guests \/ guests' = [guests EXCEPT ![s][h.agent] = w[1]]
        BY <2>1 DEF ConnectGuest
      <3>2. CASE b = h.agent
        <4>1. t = "CONNECT"
          BY <1>1, <2>1 DEF ConnectGuest, Handles, Incoming
        <4>2. NoGuest(b) /\ ~NoGuest(b)
          BY <1>0, <1>2, <1>7, <3>2, <4>1, GuestOrNone DEF Stage, Outward
        <4> QED BY <4>2
      <3>3. CASE b # h.agent
        <4>1. w[1] \in Nodes \cup {NoNode}
          BY <2>1, HeadFacts DEF ConnectGuest, Handles, Kind
        <4>2. \A x \in Servers : guests'[x][b] = guests[x][b]
          <5> HIDE DEF h
          <5> QED BY <1>2, <1>g, <3>1, <3>3, <4>1
        <4> QED BY <1>0, <1>3, <1>7, <4>2, OutwardStays
      <3> QED BY <3>2, <3>3
    <2>2. CASE ReqAccept(s, w)
      <3>1. guests' = guests \/ guests' = [guests EXCEPT ![s][h.agent] = NoNode]
        BY <2>2 DEF ReqAccept
      <3>2. CASE b = h.agent
        <4>1. t = "REQ_ACCEPT" /\ w[2] = s
          BY <1>1, <2>2 DEF ReqAccept, Handles, Incoming
        <4>2. w = <<Home(b), Region[node[b]]>>
          <5>1. node[b] # s
            BY <1>0, GuestOrNone
          <5> QED BY <1>2, <3>2, <4>1, <5>1 DEF Stage
        <4>3. u = w
          BY <1>7, <4>2, WireEnds DEF Outward
        <4>4. k < 1
          <5>1. /\ u[1] \in Servers /\ u[2] \in Servers /\ u[2] # Home(b) /\ Accepts(b, chan[u][1])
                /\ 1 \in DOMAIN chan[u]
            BY <1>0, <1>2, <1>7, <3>2, <4>1, <4>3, GuestOrNone DEF Outward, Away, Accepts, Token
          <5> QED BY <1>0, <1>7, <5>1 DEF BeforeLeave
        <4>5. k \in Nat /\ k > 0
          BY <1>0 DEF TypeOK
        <4> QED BY <4>4, <4>5
      <3>3. CASE b # h.agent
        <4>1. \A x \in Servers : guests'[x][b] = guests[x][b]
          <5> HIDE DEF h
          <5> QED BY <1>2, <1>g, <3>1, <3>3
        <4> QED BY <1>0, <1>3, <1>7, <4>1, OutwardStays
      <3> QED BY <3>2, <3>3
    <2>3. CASE Register(s, w) \/ ReqLeave(s, w) \/ ReqBuffer(s, w)
      <3>1. guests' = guests
        BY <2>3 DEF Register, ReqLeave, ReqBuffer
      <3> QED BY <1>0, <1>3, <1>7, <3>1, OutwardStays
    <2> QED BY <2>1, <2>2, <2>3
  <1>8. ASSUME NEW in, NEW v, NEW r \in ProtocolTypes,
               Moved({w}, {}, <<>>) \/ Moved({w}, {v}, <<Msg(r, h.agent)>>)
        PROVE  WavesInv(b)'
    <2>1. waves' = waves
      BY <1>3
    <2> DEFINE a == h.agent
               out == {w}
    <2>2. a \in Agents
      BY <1>2
    <2>3. Moved(out, {}, <<>>) \/ Moved(out, {v}, <<Msg(r, a)>>)
      BY <1>8
    <2>4. \A u \in Wires : \A k \in DOMAIN chan[u] :
            /\ chan[u][k].type = "WAVE" /\ waves[chan[u][k].id].to = b
            /\ Outward(b, u) /\ ~(u \in out /\ k = 1)
            => Outward(b, u)'
      BY <1>7
    <2> HIDE DEF a, h, out
    <2> QED BY <1>4, <2>1, <2>2, <2>3, <2>4, OneMessage
  <1>9. "CONNECT" \in ProtocolTypes
    BY DEF ProtocolTypes
  <1> HIDE DEF h
  <1> QED BY <1>6, <1>8, <1>9

\* What was saved for an agent is sent to it, or to the server it is with.
LEMMA SavedGoesOut ==
  ASSUME TypeInv, EachAgent, \A c \in Agents : WavesInv(c), NEW s \in Servers, NEW w \in Wires,
         NEW b \in Agents, ConnectHome(s, w) \/ AgentUpdate(s, w), NEW a, a = Head(chan[w]).agent
  PROVE  WavesInv(b)'
  <1>0. /\ TypeOK /\ Kinds /\ WavesInv(b) /\ Hops(b) /\ BeforeLeave(b) /\ SavedHops(b)
        /\ \A c \in Agents : AgentInv(c)
    BY DEF TypeInv, EachAgent, WavesInv
  <1> DEFINE t == IF ConnectHome(s, w) THEN "CONNECT" ELSE "AGENT_UPDATE"
  <1>1. Handles(s, w, t) /\ t \in ProtocolTypes /\ Incoming(w, t) /\ w[2] = s
    BY DEF ConnectHome, AgentUpdate, ProtocolTypes, Handles
  <1>2. /\ a \in Agents /\ AgentInv(a) /\ 1 \in DOMAIN chan[w]
        /\ Token(a, chan[w][1]) /\ chan[w][1].type = t /\ Stage(a, t, w) /\ SavedHops(a)
    BY <1>0, <1>1, OwnFacts DEF WavesInv
  <1>3. UNCHANGED <<node, waves, guests>>
    BY DEF ConnectHome, AgentUpdate, shardVars
  <1>4. saved'[b] = saved[b] \/ saved'[b] = <<>>
    <2>1. saved' = saved \/ saved' = [saved EXCEPT ![a] = <<>>]
      BY DEF ConnectHome, AgentUpdate, homeVars
    <2>2. b \in DOMAIN saved
      BY <1>0 DEF TypeOK
    <2> QED BY <2>1, <2>2
  <1>5. \A u \in Wires : Outward(b, u) => Outward(b, u)'
    BY <1>0, <1>3, OutwardStays
  <1>6. SavedHops(b)'
    BY <1>0, <1>3, <1>4, SavedKept
  <1>7. \A i \in 1 .. Len(waves) : waves'[i] = waves[i]
    BY <1>3
  <1>d. CASE Drop(w)
    <2>1. Moved({w}, {}, <<>>)
      BY <1>1, <1>d, ServerMoves
    <2>2. waves' = waves /\ "CONNECT" \in ProtocolTypes
      BY <1>3 DEF ProtocolTypes
    <2> HIDE DEF t
    <2> QED BY <1>0, <1>2, <1>4, <1>5, <2>1, <2>2, OneMessage
  \* What is sent is for agent a, on a wire it may take.
  <1>8. ASSUME NEW ms \in Seq(Message), NEW v \in Wires, Moved({w}, {v}, ms),
               \A i \in DOMAIN ms : /\ ms[i].type = "WAVE" /\ waves'[ms[i].id].to = a
                                    /\ \A h : h = ms[i].hops => Flow(a, v, h)',
               v[2] \in Servers => \A k \in DOMAIN chan[v] : ~Accepts(a, chan[v][k])
        PROVE  WavesInv(b)'
    <2> DEFINE in == {v}
               out == {w}
    <2>1. Moved(out, in, ms) /\ \A x \in in : x = v
      BY <1>8
    <2>2. \A i \in DOMAIN ms : waves'[ms[i].id].to = b => a = b
      BY <1>8
    <2>3. \A x \in Wires \cap in, i \in DOMAIN ms : \A h :
             ms[i].type = "WAVE" /\ waves'[ms[i].id].to = b /\ h = ms[i].hops => Flow(b, x, h)'
      <3> SUFFICES ASSUME NEW i \in DOMAIN ms, NEW h, h = ms[i].hops, waves'[ms[i].id].to = b
                   PROVE  Flow(b, v, h)'
        BY <2>1
      <3> QED BY <1>8, <2>2
    <2>4. \A x \in Wires \cap in, i \in DOMAIN ms :
            /\ ms[i].type = "WAVE" /\ waves'[ms[i].id].to = b
            /\ x[1] \in Servers /\ x[2] \in Servers /\ x[2] # Home(b)
            => /\ \A k \in DOMAIN chan[x] : ~Accepts(b, chan[x][k])
               /\ \A j \in DOMAIN ms : ~Accepts(b, ms[j])
      BY <1>8, <2>1, <2>2 DEF Accepts
    <2>5. \A u \in Wires : \A k \in DOMAIN chan[u] :
            /\ chan[u][k].type = "WAVE" /\ waves[chan[u][k].id].to = b
            /\ Outward(b, u) /\ ~(u \in out /\ k = 1)
            => Outward(b, u)'
      BY <1>5
    <2> HIDE DEF in, out, t
    <2>6. Hops(b)' /\ BeforeLeave(b)'
      BY <1>0, <1>7, <2>1, <2>3, <2>4, <2>5, HopsMoved
    <2> QED BY <1>6, <2>6 DEF WavesInv
  <1>9. CASE ConnectHome(s, w)
    <2>1. Stage(a, "CONNECT", w) /\ w[1] \in Nodes
      BY <1>1, <1>2, <1>9, HeadFacts DEF Kind
    <2>2. CASE status[a] = "OFFLINE"
      <3>1. Pass(w, <<s, w[1]>>, saved[a])
        BY <1>9, <2>2 DEF ConnectHome
      <3>2. saved[a] \in Seq(Message)
        BY <1>0, <1>2 DEF TypeOK
      <3>3. Moved({w}, {<<s, w[1]>>}, saved[a])
        BY <1>1, <3>1, <3>2, ServerMoves
      <3>4. <<s, w[1]>> \in Wires /\ w[1] \notin Servers /\ s \notin Nodes
        <4>1. w[2] = Region[w[1]]
          BY <2>1, WireEnds
        <4> QED BY <1>1, <2>1, <4>1, RegionAssumption DEF Wires
      <3>5. \A i \in DOMAIN saved[a] : /\ saved[a][i].type = "WAVE" /\ waves'[saved[a][i].id].to = a
                                       /\ saved[a][i].hops \in Nat /\ saved[a][i].hops <= 1
        BY <1>2, <1>3, ForwardedWaves DEF TypeInv, SavedWaves, SavedHops
      <3>6. PICK ms : ms = saved[a]
        OBVIOUS
      <3>7. PICK v \in Wires : v = <<s, w[1]>>
        BY <3>4
      <3>8. \A i \in DOMAIN ms : \A h : h = ms[i].hops => Flow(a, v, h)'
        <4>1. v[1] = s /\ v[2] = w[1]
          BY <3>7
        <4>2. \A i \in DOMAIN ms : ms[i].hops <= 2
          BY SMTT(30), <3>5, <3>6
        <4> QED BY <3>4, <4>1, <4>2, WireEnds DEF Flow
      <3>9. v[2] \notin Servers
        BY <3>4, <3>7
      <3> HIDE DEF t
      <3> QED BY <1>8, <3>2, <3>3, <3>5, <3>6, <3>7, <3>8, <3>9
    <2>3. CASE status[a] # "OFFLINE"
      BY <2>1, <2>3 DEF Stage
    <2> QED BY <2>2, <2>3
  <1>10. CASE AgentUpdate(s, w) /\ ~ConnectHome(s, w)
    <2>1. Stage(a, "AGENT_UPDATE", w) /\ chan[w][1].type = "AGENT_UPDATE"
      BY <1>2, <1>10
    <2>2. /\ w = <<Region[node[a]], Home(a)>> /\ w[1] = Region[node[a]] /\ s = Home(a)
          /\ Away(a) /\ GuestHere(a) /\ AtHome(s, a)
      BY <1>1, <2>1 DEF Stage, AtHome
    <2>3. Pass(w, <<s, w[1]>>, Forwarded(a))
      BY <1>10, <2>2 DEF AgentUpdate, Forwarded
    <2>4. Forwarded(a) \in Seq(Message)
      BY <1>2, ForwardedWaves
    <2>5. Moved({w}, {<<s, w[1]>>}, Forwarded(a))
      BY <1>1, <2>3, <2>4, ServerMoves
    <2>6. /\ <<s, w[1]>> \in Wires /\ s \in Servers /\ w[1] \in Servers /\ s \notin Nodes /\ w[1] \notin Nodes
      BY <1>0, <1>2, <2>2, GuestOrNone, RegionAssumption DEF Wires, Away
    <2>7. \A i \in DOMAIN Forwarded(a) : /\ Forwarded(a)[i].type = "WAVE" /\ waves'[Forwarded(a)[i].id].to = a
                                         /\ Forwarded(a)[i].hops \in Nat /\ Forwarded(a)[i].hops <= 2
      <3> SUFFICES ASSUME NEW i \in DOMAIN Forwarded(a)
                   PROVE  /\ Forwarded(a)[i].type = "WAVE" /\ waves'[Forwarded(a)[i].id].to = a
                          /\ Forwarded(a)[i].hops \in Nat /\ Forwarded(a)[i].hops <= 2
        OBVIOUS
      <3>1. /\ Forwarded(a)[i].type = "WAVE" /\ Forwarded(a)[i].id = saved[a][i].id
            /\ saved[a][i].hops \in Nat /\ Forwarded(a)[i].hops = saved[a][i].hops + 1
            /\ i \in DOMAIN saved[a]
        BY <1>2, ForwardedWaves
      <3>2. saved[a][i].hops <= 1 /\ waves[saved[a][i].id].to = a
        BY <1>2, <3>1 DEF SavedHops
      <3>3. PICK f : f = Forwarded(a)[i]
        OBVIOUS
      <3>4. f.hops \in Nat /\ f.hops <= 2
        BY <3>1, <3>2, <3>3
      <3>5. waves'[f.id].to = a
        BY <1>3, <3>1, <3>2, <3>3
      <3> QED BY <3>1, <3>3, <3>4, <3>5
    <2>8. PICK ms : ms = Forwarded(a)
      OBVIOUS
    <2>9. PICK v \in Wires : v = <<s, w[1]>>
      BY <2>6
    <2>10. Outward(a, v)'
      <3>1. Away(a)' /\ GuestHere(a)' /\ Home(a)' = Home(a) /\ node' = node
        BY <1>3, <2>2 DEF Away, GuestHere, Home
      <3> QED BY <2>2, <2>9, <3>1 DEF Outward
    <2>11. \A i \in DOMAIN ms : \A h : h = ms[i].hops => Flow(a, v, h)'
      <3>1. v[1] \notin Nodes /\ v[2] \notin Nodes
        BY <2>6, <2>9
      <3>2. \A i \in DOMAIN ms : ms[i].hops <= 2
        BY <2>7, <2>8
      <3> QED BY <2>10, <3>1, <3>2 DEF Flow
    <2>12. \A k \in DOMAIN chan[v] : ~Accepts(a, chan[v][k])
      <3> SUFFICES ASSUME NEW k \in DOMAIN chan[v], Accepts(a, chan[v][k]) PROVE FALSE
        OBVIOUS
      <3>1. Token(a, chan[v][k]) /\ chan[v][k].type = "REQ_ACCEPT"
        BY DEF Accepts, Token, ProtocolTypes
      <3>2. chan[v][k].type \in Left("AGENT_UPDATE")
        BY <1>0, <1>2, <2>1, <3>1, LeftBehind
      <3> QED BY <3>1, <3>2 DEF Left
    <2> HIDE DEF t
    <2> QED BY <1>8, <2>4, <2>5, <2>7, <2>8, <2>9, <2>11, <2>12
  <1> QED BY <1>9, <1>10

\* One wave goes from wire w to wire v.
LEMMA WaveGoes ==
  ASSUME TypeInv, NEW b \in Agents, WavesInv(b), NEW w, NEW v, NEW m \in Message, m.type = "WAVE",
         Moved({w}, {v}, <<m>>), UNCHANGED <<node, guests, waves, saved>>,
         v \in Wires /\ waves[m.id].to = b => Flow(b, v, m.hops),
         v \in Wires /\ waves[m.id].to = b /\ v[1] \in Servers /\ v[2] \in Servers /\ v[2] # Home(b) =>
            \A k \in DOMAIN chan[v] : ~Accepts(b, chan[v][k])
  PROVE  WavesInv(b)'
  <1>0. TypeOK /\ Kinds /\ Hops(b) /\ BeforeLeave(b) /\ SavedHops(b)
    BY DEF TypeInv, WavesInv
  <1> DEFINE ms == <<m>>
             in == {v}
             out == {w}
  <1>1. ms \in Seq(Message) /\ Moved(out, in, ms) /\ \A i \in DOMAIN ms : ms[i] = m
    OBVIOUS
  <1>2. \A u \in Wires : Outward(b, u) => Outward(b, u)'
    BY <1>0, OutwardStays
  <1>3. SavedHops(b)'
    BY <1>0, SavedKept
  <1>4. \A h : Flow(b, v, h) /\ v \in Wires => Flow(b, v, h)'
    BY <1>2 DEF Flow, Home
  <1>5. \A x \in Wires \cap in, i \in DOMAIN ms : \A h :
            ms[i].type = "WAVE" /\ waves'[ms[i].id].to = b /\ h = ms[i].hops => Flow(b, x, h)'
    <2>1. \A x \in in : x = v
      OBVIOUS
    <2> HIDE DEF in, out, ms
    <2> QED BY <1>1, <1>4, <2>1
  <1>6. \A x \in Wires \cap in, i \in DOMAIN ms :
            /\ ms[i].type = "WAVE" /\ waves'[ms[i].id].to = b
            /\ x[1] \in Servers /\ x[2] \in Servers /\ x[2] # Home(b)
            => /\ \A k \in DOMAIN chan[x] : ~Accepts(b, chan[x][k])
               /\ \A j \in DOMAIN ms : ~Accepts(b, ms[j])
    <2>1. \A x \in in : x = v
      OBVIOUS
    <2> HIDE DEF in, out, ms
    <2> QED BY <1>1, <2>1 DEF Accepts
  <1>7. \A i \in 1 .. Len(waves) : waves'[i] = waves[i]
    OBVIOUS
  <1>8. \A u \in Wires : \A k \in DOMAIN chan[u] :
            /\ chan[u][k].type = "WAVE" /\ waves[chan[u][k].id].to = b
            /\ Outward(b, u) /\ ~(u \in out /\ k = 1)
            => Outward(b, u)'
    BY <1>2
  <1>9. \A x, y \in in : x = y
    OBVIOUS
  <1> HIDE DEF in, out, ms
  <1>10. Hops(b)' /\ BeforeLeave(b)'
    BY <1>0, <1>1, <1>5, <1>6, <1>7, <1>8, <1>9, HopsMoved
  <1> QED BY <1>3, <1>10 DEF WavesInv

\* A server takes a wave and passes it on, saves it or drops it.
LEMMA ContentHops ==
  ASSUME TypeInv, EachAgent, \A c \in Agents : WavesInv(c), NEW s \in Servers, NEW w \in Wires,
         NEW b \in Agents, Content(s, w), NEW m, m = Head(chan[w])
  PROVE  WavesInv(b)'
  <1>0. /\ TypeOK /\ Kinds /\ WavesInv(b) /\ Hops(b) /\ BeforeLeave(b) /\ SavedHops(b)
        /\ AgentInv(b)
    BY DEF TypeInv, EachAgent, WavesInv
  <1>1. /\ Handles(s, w, "WAVE") /\ w[2] = s /\ UNCHANGED <<node, guests, waves, status, conn, last>>
        /\ 1 \in DOMAIN chan[w] /\ m = chan[w][1] /\ m \in Message /\ m.type = "WAVE"
        /\ m.id \in Ids /\ m.hops \in Nat
    BY HeadFacts DEF Content, Handles, shardVars
  <1> DEFINE fw == Wave(m.id, m.hops + 1)
  <1>2. fw \in Message /\ fw.type = "WAVE" /\ fw.id = m.id /\ fw.hops = m.hops + 1
    BY <1>1, MessageForms
  <1> HIDE DEF fw
  <1>3. waves[m.id].to = b => Flow(b, w, m.hops)
    BY <1>0, <1>1 DEF Hops
  <1>4. s \notin Nodes /\ node[b] \in Nodes /\ node[b] \notin Servers /\ Home(b) \in Servers
        /\ Region[node[b]] \in Servers
    BY <1>0, GuestOrNone, RegionAssumption
  <1>5. w[1] \in Nodes \cup Servers /\ (w[1] \in Nodes => w[1] \notin Servers)
    BY WireEnds
  <1>6. waves[m.id].to = b => /\ m.hops <= 2
                              /\ Home(b) = s => m.hops <= 1
                              /\ Home(b) # s /\ guests[s][b] = NoNode => m.hops = 0
    <2> SUFFICES ASSUME waves[m.id].to = b
                 PROVE  /\ m.hops <= 2 /\ (Home(b) = s => m.hops <= 1)
                        /\ Home(b) # s /\ guests[s][b] = NoNode => m.hops = 0
      OBVIOUS
    <2>1. CASE w[1] \in Nodes
      BY <1>3, <2>1 DEF Flow
    <2>2. CASE w[1] \in Servers
      <3>1. (s = Home(b) /\ m.hops <= 1) \/ (Outward(b, w) /\ m.hops <= 2)
        BY <1>1, <1>3, <2>2 DEF Flow
      <3>2. Outward(b, w) => s # Home(b) /\ guests[s][b] # NoNode
        BY <1>0, <1>1, GuestOrNone DEF Outward, Away
      <3> QED BY <1>1, <3>1, <3>2
    <2> QED BY <1>5, <2>1, <2>2
  \* The wave is dropped.
  <1>7. ASSUME Drop(w), SavedHops(b)' PROVE WavesInv(b)'
    <2> DEFINE ms == <<>>
               out == {w}
    <2>1. Moved({w}, {}, <<>>)
      BY <1>1, <1>7, ServerMoves
    <2>2. /\ ms \in Seq(Message) /\ DOMAIN ms = {} /\ Moved(out, {}, ms) /\ \A x, y \in {} : x = y
      BY <2>1
    <2>3. \A u \in Wires : \A k \in DOMAIN chan[u] :
            /\ chan[u][k].type = "WAVE" /\ waves[chan[u][k].id].to = b
            /\ Outward(b, u) /\ ~(u \in out /\ k = 1)
            => Outward(b, u)'
      BY <1>0, <1>1, OutwardStays
    <2>4. \A i \in 1 .. Len(waves) : waves'[i] = waves[i]
      BY <1>1
    <2> HIDE DEF ms, out
    <2>5. Hops(b)' /\ BeforeLeave(b)'
      BY <1>0, <2>2, <2>3, <2>4, HopsMoved
    <2> QED BY <1>7, <2>5 DEF WavesInv
  \* The wave, or its copy that counts one more hop, is passed on.
  <1>8. ASSUME NEW x, NEW e \in {m, fw}, Pass(w, <<s, x>>, <<e>>), saved' = saved,
               <<s, x>> \in Wires /\ waves[m.id].to = b =>
                  \/ x \in Nodes /\ x \notin Servers /\ e.hops <= 2
                  \/ x \in Servers /\ x \notin Nodes /\ x = Home(b) /\ e.hops <= 1
                  \/ /\ x \in Servers /\ x \notin Nodes /\ Outward(b, <<s, x>>) /\ e.hops <= 2
                     /\ \A u \in Wires : \A k \in DOMAIN chan[u] : ~Accepts(b, chan[u][k])
        PROVE  WavesInv(b)'
    <2>1. e \in Message /\ e.type = "WAVE" /\ e.id = m.id
      BY <1>1, <1>2
    <2>2. <<e>> \in Seq(Message)
      BY <2>1
    <2>3. Moved({w}, {<<s, x>>}, <<e>>)
      BY <1>1, <1>8, <2>2, ServerMoves
    <2>4. PICK v : v = <<s, x>>
      OBVIOUS
    <2>5. v \in Wires /\ waves[e.id].to = b => Flow(b, v, e.hops)
      BY <1>4, <1>8, <2>1, <2>4 DEF Flow
    <2>6. v \in Wires /\ waves[e.id].to = b /\ v[1] \in Servers /\ v[2] \in Servers /\ v[2] # Home(b) =>
             \A k \in DOMAIN chan[v] : ~Accepts(b, chan[v][k])
      BY <1>8, <2>1, <2>4
    <2>7. UNCHANGED <<node, guests, waves, saved>>
      BY <1>1, <1>8
    <2> QED BY <1>0, <2>1, <2>3, <2>4, <2>5, <2>6, <2>7, WaveGoes
  <1> DEFINE a == waves[m.id].to
  <1>9. CASE a # b
    <2>1. \/ saved' = saved /\ \E x : \E e \in {m, fw} : Pass(w, <<s, x>>, <<e>>)
          \/ saved' = saved /\ Drop(w)
          \/ saved' = [saved EXCEPT ![a] = Append(@, m)] /\ Drop(w)
      BY DEF Content, fw
    <2>2. CASE saved' = saved /\ \E x : \E e \in {m, fw} : Pass(w, <<s, x>>, <<e>>)
      BY <1>8, <1>9, <2>2
    <2>3. CASE Drop(w) /\ (saved' = saved \/ saved' = [saved EXCEPT ![a] = Append(@, m)])
      <3>1. saved'[b] = saved[b]
        <4>1. b \in DOMAIN saved
          BY <1>0 DEF TypeOK
        <4> QED BY <1>9, <2>3, <4>1
      <3>2. waves' = waves
        BY <1>1
      <3>3. SavedHops(b)'
        BY <1>0, <3>1, <3>2, SavedKept
      <3> QED BY <1>7, <2>3, <3>3
    <2> QED BY <2>1, <2>2, <2>3
  <1>10. CASE a = b
    <2>1. /\ m.hops <= 2 /\ (Home(b) = s => m.hops <= 1)
          /\ Home(b) # s /\ guests[s][b] = NoNode => m.hops = 0
      BY <1>6, <1>10
    <2>2. \/ AtHome(s, b) /\ status[b] = "HOME" /\ Pass(w, <<s, conn[b]>>, <<m>>) /\ saved' = saved
          \/ /\ AtHome(s, b) /\ status[b] = "OFFLINE"
             /\ saved' = [saved EXCEPT ![b] = Append(@, m)] /\ Drop(w)
          \/ AtHome(s, b) /\ status[b] = "REMOTE" /\ Pass(w, <<s, last[b]>>, <<fw>>) /\ saved' = saved
          \/ guests[s][b] # NoNode /\ Pass(w, <<s, guests[s][b]>>, <<m>>) /\ saved' = saved
          \/ guests[s][b] = NoNode /\ Home(b) # s /\ Pass(w, <<s, Home(b)>>, <<fw>>) /\ saved' = saved
          \/ Drop(w) /\ saved' = saved
      BY <1>10 DEF Content, fw
    <2>3. CASE AtHome(s, b) /\ status[b] = "HOME" /\ Pass(w, <<s, conn[b]>>, <<m>>) /\ saved' = saved
      <3>1. conn[b] = node[b]
        BY <1>0, <2>3, Whereabouts
      <3> QED BY <1>4, <1>8, <2>1, <2>3, <3>1
    <2>4. CASE /\ AtHome(s, b) /\ status[b] = "OFFLINE"
               /\ saved' = [saved EXCEPT ![b] = Append(@, m)] /\ Drop(w)
      <3>1. saved \in [Agents -> Seq(Message)] /\ saved[b] \in Seq(Message)
        BY <1>0 DEF TypeOK
      <3>2. saved'[b] = Append(saved[b], m) /\ waves' = waves
        BY <1>1, <2>4, <3>1
      <3>3. \A k \in DOMAIN Append(saved[b], m) :
               Append(saved[b], m)[k] = m \/ (k \in DOMAIN saved[b] /\ Append(saved[b], m)[k] = saved[b][k])
        BY <1>1, <3>1
      <3>4. m.hops <= 1
        BY <2>1, <2>4 DEF AtHome
      <3>5. SavedHops(b)'
        <4> SUFFICES ASSUME NEW k \in DOMAIN saved'[b]
                     PROVE  saved'[b][k].hops <= 1 /\ waves[saved'[b][k].id].to = b
          BY <3>2 DEF SavedHops
        <4> QED BY <1>0, <1>10, <3>2, <3>3, <3>4 DEF SavedHops
      <3> QED BY <1>7, <2>4, <3>5
    <2>5. CASE AtHome(s, b) /\ status[b] = "REMOTE" /\ Pass(w, <<s, last[b]>>, <<fw>>) /\ saved' = saved
      <3>1. /\ last[b] = Region[node[b]] /\ Away(b) /\ GuestHere(b)
            /\ \A u \in Wires : \A k \in DOMAIN chan[u] : Token(b, chan[u][k]) => chan[u][k].type \in Leaving
        BY <1>0, <2>5, Whereabouts
      <3>2. \A u \in Wires : \A k \in DOMAIN chan[u] : ~Accepts(b, chan[u][k])
        BY <3>1 DEF Accepts, Token, ProtocolTypes, Leaving
      <3>3. Outward(b, <<s, last[b]>>)
        BY <2>5, <3>1 DEF Outward, AtHome
      <3>4. last[b] \in Servers /\ last[b] \notin Nodes /\ fw.hops <= 2
        <4>1. m.hops <= 1
          BY <2>1, <2>5 DEF AtHome
        <4> QED BY <1>1, <1>2, <1>4, <3>1, <4>1, RegionAssumption
      <3> QED BY <1>8, <2>5, <3>2, <3>3, <3>4
    <2>6. CASE guests[s][b] # NoNode /\ Pass(w, <<s, guests[s][b]>>, <<m>>) /\ saved' = saved
      <3>1. guests[s][b] = node[b]
        BY <1>0, <2>6, Whereabouts
      <3> QED BY <1>4, <1>8, <2>1, <2>6, <3>1
    <2>7. CASE guests[s][b] = NoNode /\ Home(b) # s /\ Pass(w, <<s, Home(b)>>, <<fw>>) /\ saved' = saved
      <3>1. fw.hops <= 1
        BY <1>2, <2>1, <2>7
      <3> QED BY <1>4, <1>8, <2>7, <3>1, RegionAssumption
    <2>8. CASE Drop(w) /\ saved' = saved
      <3>1. waves' = waves /\ saved'[b] = saved[b]
        BY <1>1, <2>8
      <3>2. SavedHops(b)'
        BY <1>0, <3>1, SavedKept
      <3> QED BY <1>7, <2>8, <3>2
    <2> QED BY <2>2, <2>3, <2>4, <2>5, <2>6, <2>7, <2>8
  <1> QED BY <1>9, <1>10

EachWave == \A a \in Agents : WavesInv(a)

LEMMA EachWaveNext ==
  ASSUME TypeInv, EachAgent, EachWave, [Next]_vars
  PROVE  EachWave'
  <1> USE DEF EachWave
  <1> SUFFICES ASSUME NEW b \in Agents PROVE WavesInv(b)'
    OBVIOUS
  <1>1. CASE UNCHANGED vars
    BY <1>1 DEF vars, shardVars, homeVars, WavesInv, Hops, BeforeLeave, SavedHops, Flow, Outward,
                Accepts, Away, GuestHere
  <1>2. CASE Next
    <2>1. ASSUME \/ \E a \in Agents : Start(a) \/ Depart(a) \/ Arrive(a)
                 \/ \E a \in Agents, n \in Nodes : Move(a, n)
                 \/ \E n \in Nodes : Receive(n)
          PROVE  WavesInv(b)'
      BY <2>1, AgentHops
    <2>2. ASSUME NEW a \in Agents, NEW c \in Agents, SendWave(c, a) PROVE WavesInv(b)'
      BY <2>2, SendHops
    <2>3. ASSUME NEW s \in Servers, NEW w \in Wires, Serve(s, w) PROVE WavesInv(b)'
      BY <2>3, ProtocolHops, SavedGoesOut, ContentHops DEF Serve
    <2> QED BY <1>2, <2>1, <2>2, <2>3, OriginAssumption DEF Next
  <1> QED BY <1>1, <1>2

\* For any servers, nodes and agents, and the same condition: no wave goes from server
\* to server more than twice.
THEOREM WavesGoTwice ==
  ASSUME ~Impatient PROVE Spec => []TwoHops
<1>1. Init => TypeInv /\ EachAgent /\ EachWave
  <2>1. Init => EachWave
    <3> SUFFICES ASSUME Init, NEW a \in Agents PROVE WavesInv(a)
      BY DEF EachWave
    <3>1. (\A w \in Wires : DOMAIN chan[w] = {}) /\ DOMAIN saved[a] = {}
      BY DEF Init
    <3> QED BY <3>1 DEF WavesInv, Hops, BeforeLeave, SavedHops
  <2> QED BY <2>1, TypeInvInit, EachAgentInit
<1>2. TypeInv /\ EachAgent /\ EachWave /\ [Next]_vars => TypeInv' /\ EachAgent' /\ EachWave'
  BY TypeInvNext, EachAgentNext, EachWaveNext
<1>3. TypeInv /\ EachWave => TwoHops
  <2> SUFFICES ASSUME TypeInv, EachWave, NEW w \in Wires, NEW k \in DOMAIN chan[w], chan[w][k].type = "WAVE"
               PROVE  chan[w][k].hops <= 2
    BY DEF TwoHops
  <2>1. waves[chan[w][k].id].to \in Agents
    <3>1. chan[w][k] \in Message /\ Kind(chan[w][k], w, Len(waves)) /\ waves \in Seq([from : Agents, to : Agents, known : BOOLEAN])
      BY DEF TypeInv, TypeOK, Kinds
    <3>2. chan[w][k].id \in Nat /\ chan[w][k].id > 0 /\ chan[w][k].id <= Len(waves)
      BY <3>1, MessageForms DEF Kind, Ids
    <3> DEFINE W == [from : Agents, to : Agents, known : BOOLEAN]
    <3>3. waves[chan[w][k].id] \in W
      <4>1. waves \in Seq(W)
        BY <3>1
      <4> HIDE DEF W
      <4> QED BY <3>2, <4>1
    <3> QED BY <3>3
  <2>2. Flow(waves[chan[w][k].id].to, w, chan[w][k].hops)
    BY <2>1 DEF EachWave, WavesInv, Hops
  <2>3. chan[w][k].hops \in Nat
    <3>1. chan[w][k] \in Message
      BY DEF TypeInv, TypeOK
    <3> QED BY <3>1, MessageForms
  <2>4. CASE w[1] \in Nodes
    BY <2>2, <2>3, <2>4 DEF Flow
  <2>5. CASE w[2] \in Nodes
    BY <2>2, <2>3, <2>5 DEF Flow
  <2>6. CASE w[1] \in Servers /\ w[2] \in Servers
    <3>1. chan[w][k].hops <= 1 \/ chan[w][k].hops <= 2
      BY <2>2, <2>6 DEF Flow
    <3> QED BY <3>1, <2>3
  <2> QED BY <2>4, <2>5, <2>6, WireEnds
<1> QED BY <1>1, <1>2, <1>3, PTL DEF Spec

-----------------------------------------------------------------------------
(* A thread for each connection: RegionThreads.                            *)

\* What a step of a handler does to the messages: nothing to the waves, or it sends one that
\* was saved for agent a, or one that comes goes on, or is saved.
Quiet ==
    /\ saved' = saved
    /\ \/ \E out : Moved(out, {}, <<>>)
       \/ \E out, v : \E r \in ProtocolTypes \ {"REGISTER", "CONNECT", "REQ_LEAVE"}, a \in Agents :
             Moved(out, {v}, <<Msg(r, a)>>) /\ (r = "AGENT_UPDATE" => v[1] \in Servers)
Popped(a, v, m) ==
    /\ a \in Agents /\ saved[a] # <<>> /\ saved' = [saved EXCEPT ![a] = Tail(@)]
    /\ m \in Message /\ m.type = "WAVE" /\ m.id = saved[a][1].id /\ Moved({}, {v}, <<m>>)
Comes(w, i) ==
    /\ 1 \in DOMAIN chan[w] /\ chan[w][1] \in Message /\ chan[w][1].type = "WAVE" /\ chan[w][1].id = i
    /\ i \in Ids /\ i <= Len(waves)
GoesOn(w, i, v, m) ==
    /\ Comes(w, i) /\ saved' = saved
    /\ m \in Message /\ m.type = "WAVE" /\ m.id = i /\ Moved({w}, {v}, <<m>>)
Buffered(w, i, a) ==
    /\ Comes(w, i) /\ a \in Agents
    /\ saved' = [saved EXCEPT ![a] = Append(@, chan[w][1])] /\ Moved({w}, {}, <<>>)

StepForm(w) ==
    \/ Quiet
    \/ \E a, v, m : Popped(a, v, m)
    \/ \E i, v, m : GoesOn(w, i, v, m)
    \/ \E i, a : Buffered(w, i, a)

LEMMA SendQuiet ==
  ASSUME TypeInv, saved' = saved, NEW w \in Wires, NEW s \in Servers, w[2] = s, chan[w] # <<>>,
         NEW r \in {"REQ_ACCEPT", "AGENT_UPDATE", "REQ_BUFFER"}, NEW a \in Agents, NEW x,
         \/ UNCHANGED chan \/ Drop(w) \/ Send(<<s, x>>, Msg(r, a)) \/ Pass(w, <<s, x>>, <<Msg(r, a)>>)
  PROVE  Quiet
  <1>0. TypeOK /\ r \in ProtocolTypes \ {"REGISTER", "CONNECT", "REQ_LEAVE"} /\ Msg(r, a) \in Message
    BY MessageForms DEF TypeInv, ProtocolTypes
  <1>1. CASE UNCHANGED chan
    BY <1>0, <1>1, StillMoves DEF Quiet
  <1>2. CASE Drop(w)
    BY <1>0, <1>2, DropMoves DEF Quiet
  <1> DEFINE v == <<s, x>>
  <1>3. v[1] \in Servers /\ v # w /\ v = <<s, x>>
    <2>1. w # <<s, x>>
      BY WireEnds
    <2> QED BY <2>1
  <1> HIDE DEF v
  <1>4. CASE Send(v, Msg(r, a))
    <2>1. Moved({}, {v}, <<Msg(r, a)>>)
      BY <1>0, <1>4, SendMoves
    <2> QED BY <1>0, <1>3, <2>1 DEF Quiet
  <1>5. CASE Pass(w, v, <<Msg(r, a)>>)
    <2>1. <<Msg(r, a)>> \in Seq(Message)
      BY <1>0
    <2>2. Moved({w}, {v}, <<Msg(r, a)>>)
      BY <1>0, <1>3, <1>5, <2>1, PassMoves
    <2> QED BY <1>0, <1>3, <2>2 DEF Quiet
  <1> QED BY <1>1, <1>2, <1>3, <1>4, <1>5

\* One message of those saved for an agent is sent, with one hop more or none.
LEMMA DrainForm ==
  ASSUME TypeInv, NEW s \in Servers, NEW w \in Wires, NEW a \in Agents, NEW t, NEW x, NEW hop \in Nat,
         Drain(w, a, t, <<s, x>>, hop), w[2] = s, chan[w] # <<>>
  PROVE  StepForm(w)
  <1>0. TypeOK /\ SavedWaves
    BY DEF TypeInv
  <1>1. CASE Pop(w, a, <<s, x>>, hop)
    <2>0. saved[a] # <<>>
      BY <1>1 DEF Pop
    <2>1. PICK h : h = Head(saved[a])
      OBVIOUS
    <2>2. h \in Message /\ h.type = "WAVE" /\ h = saved[a][1]
      <3>1. saved[a] \in Seq(Message)
        BY <1>0 DEF TypeOK
      <3>2. h = saved[a][1] /\ h \in Message /\ 1 \in DOMAIN saved[a]
        BY <2>0, <2>1, <3>1, TailOf
      <3> QED BY <1>0, <3>2 DEF SavedWaves
    <2> DEFINE Waves == [type : {"WAVE"}, id : Ids, hops : Nat]
    <2>3. h \in Waves
      BY <2>2 DEF Message, ProtocolTypes
    <2>4. PICK m : m = [h EXCEPT !.hops = @ + hop]
      OBVIOUS
    <2>5. m \in Waves /\ m.id = h.id
      BY <2>3, <2>4
    <2>6. m \in Message /\ m.type = "WAVE" /\ m.id = saved[a][1].id
      BY <2>2, <2>5 DEF Message
    <2>7. Send(<<s, x>>, m) /\ saved' = [saved EXCEPT ![a] = Tail(@)]
      BY <1>1, <2>1, <2>4 DEF Pop
    <2>8. Moved({}, {<<s, x>>}, <<m>>)
      BY <1>0, <2>6, <2>7, SendMoves
    <2>9. Popped(a, <<s, x>>, m)
      BY <2>0, <2>6, <2>7, <2>8 DEF Popped
    <2> QED BY <2>9 DEF StepForm
  <1>2. CASE ~Pop(w, a, <<s, x>>, hop)
    <2>1. (Drop(w) \/ UNCHANGED chan) /\ saved' = saved
      BY <1>2 DEF Drain
    <2>2. Quiet
      BY <2>1, SendQuiet
    <2> QED BY <2>2 DEF StepForm
  <1> QED BY <1>1, <1>2

LEMMA ContentForm ==
  ASSUME TypeInv, NEW s \in Servers, NEW w \in Wires, ContentActs(s, w)
  PROVE  StepForm(w)
  <1>1. PICK m, i, a : m = Head(chan[w]) /\ i = m.id /\ a = waves[i].to
    OBVIOUS
  <1>2. /\ TypeOK /\ w[2] = s /\ chan[w] # <<>> /\ m = chan[w][1] /\ 1 \in DOMAIN chan[w]
        /\ m \in Message /\ m.type = "WAVE" /\ i \in Ids /\ i <= Len(waves) /\ a \in Agents /\ m.hops \in Nat
    <2>1. Incoming(w, "WAVE") /\ w[2] = s /\ chan[w] # <<>>
      BY DEF ContentActs, Handles, Incoming
    <2> QED BY <1>1, <2>1, HeadFacts DEF TypeInv, Kind
  <1>3. Comes(w, i)
    BY <1>1, <1>2 DEF Comes
  <1>4. PICK f : f = Wave(i, m.hops + 1)
    OBVIOUS
  <1>5. f \in Message /\ f.type = "WAVE" /\ f.id = i
    BY <1>2, <1>4, MessageForms
  <1>6. ASSUME NEW x, NEW e \in {m, f}, Pass(w, <<s, x>>, <<e>>), saved' = saved
        PROVE  StepForm(w)
    <2>1. <<s, x>> # w
      BY <1>2, WireEnds
    <2>2. e \in Message /\ e.type = "WAVE" /\ e.id = i
      BY <1>1, <1>2, <1>5, <1>6
    <2>3. <<e>> \in Seq(Message)
      BY <2>2
    <2>4. Moved({w}, {<<s, x>>}, <<e>>)
      BY <1>2, <1>6, <2>1, <2>3, PassMoves
    <2>5. GoesOn(w, i, <<s, x>>, e)
      BY <1>3, <1>6, <2>2, <2>4 DEF GoesOn
    <2> QED BY <2>5 DEF StepForm
  <1>7. ASSUME Drop(w), saved' = saved
        PROVE  StepForm(w)
    <2>1. Moved({w}, {}, <<>>)
      BY <1>2, <1>7, DropMoves
    <2> QED BY <1>7, <2>1 DEF StepForm, Quiet
  <1>8. ASSUME Drop(w), saved' = [saved EXCEPT ![a] = Append(@, m)]
        PROVE  StepForm(w)
    <2>1. Moved({w}, {}, <<>>)
      BY <1>2, <1>8, DropMoves
    <2>2. Buffered(w, i, a)
      BY <1>2, <1>3, <1>8, <2>1 DEF Buffered
    <2> QED BY <2>2 DEF StepForm
  <1>9. \/ (\E x : Pass(w, <<s, x>>, <<m>>)) /\ saved' = saved
        \/ (\E x : Pass(w, <<s, x>>, <<f>>)) /\ saved' = saved
        \/ Drop(w) /\ saved' = saved
        \/ Drop(w) /\ saved' = [saved EXCEPT ![a] = Append(@, m)]
    BY <1>1, <1>4 DEF ContentActs
  <1> QED BY <1>6, <1>7, <1>8, <1>9

\* Some of what a server keeps keeps its types.
Tables ==
    /\ status \in [Agents -> {"none", "HOME", "OFFLINE", "REMOTE"}]
    /\ conn \in [Agents -> Nodes \cup {NoNode}]
    /\ last \in [Agents -> Servers]
    /\ guests \in [Servers -> [Agents -> Nodes \cup {NoNode}]]

LEMMA SavedTypes ==
  ASSUME TypeInv, NEW w \in Wires, StepForm(w), UNCHANGED waves
  PROVE  saved' \in [Agents -> Seq(Message)] /\ SavedWaves'
  <1>0. saved \in [Agents -> Seq(Message)] /\ SavedWaves
    BY DEF TypeInv, TypeOK
  <1>1. ASSUME saved' = saved PROVE saved' \in [Agents -> Seq(Message)] /\ SavedWaves'
    BY <1>0, <1>1 DEF SavedWaves
  <1>2. ASSUME NEW a \in Agents, NEW q \in Seq(Message), saved' = [saved EXCEPT ![a] = q],
               \A k \in DOMAIN q : q[k].type = "WAVE" /\ q[k].id <= Len(waves)
        PROVE  saved' \in [Agents -> Seq(Message)] /\ SavedWaves'
    <2>1. saved' \in [Agents -> Seq(Message)]
      BY <1>0, <1>2
    <2>2. \A c \in Agents : saved'[c] = IF c = a THEN q ELSE saved[c]
      BY <1>0, <1>2
    <2>3. ASSUME NEW c \in Agents, NEW k \in DOMAIN saved'[c]
          PROVE  saved'[c][k].type = "WAVE" /\ saved'[c][k].id <= Len(waves)
      <3>1. CASE c = a
        BY <1>2, <2>2, <2>3, <3>1
      <3>2. CASE c # a
        BY <1>0, <2>2, <2>3, <3>2 DEF SavedWaves
      <3> QED BY <3>1, <3>2
    <2> QED BY <2>1, <2>3 DEF SavedWaves
  <1>3. ASSUME NEW a, NEW v, NEW m, Popped(a, v, m)
        PROVE  saved' \in [Agents -> Seq(Message)] /\ SavedWaves'
    <2>1. a \in Agents /\ saved[a] # <<>> /\ saved' = [saved EXCEPT ![a] = Tail(@)]
      BY <1>3 DEF Popped
    <2>2. PICK p \in Seq(Message) : p = saved[a]
      BY <1>0, <2>1
    <2>3. PICK q : q = Tail(p)
      OBVIOUS
    <2>4. /\ q \in Seq(Message) /\ Len(p) \in Nat
          /\ \A k \in DOMAIN q : k + 1 \in DOMAIN p /\ q[k] = p[k + 1]
      BY <2>1, <2>2, <2>3
    <2>5. saved' = [saved EXCEPT ![a] = q]
      BY <2>1, <2>2, <2>3
    <2>6. \A k \in DOMAIN p : p[k].type = "WAVE" /\ p[k].id <= Len(waves)
      BY <1>0, <2>1, <2>2 DEF SavedWaves
    <2>7. \A k \in DOMAIN q : q[k].type = "WAVE" /\ q[k].id <= Len(waves)
      BY <2>4, <2>6
    <2> QED BY <1>2, <2>1, <2>4, <2>5, <2>7
  <1>4. ASSUME NEW i, NEW a, Buffered(w, i, a)
        PROVE  saved' \in [Agents -> Seq(Message)] /\ SavedWaves'
    <2>1. /\ a \in Agents /\ chan[w][1] \in Message /\ chan[w][1].type = "WAVE" /\ chan[w][1].id <= Len(waves)
          /\ saved' = [saved EXCEPT ![a] = Append(@, chan[w][1])]
      BY <1>4 DEF Buffered, Comes
    <2>2. PICK m \in Message : m = chan[w][1]
      BY <2>1
    <2>3. PICK p \in Seq(Message) : p = saved[a]
      BY <1>0, <2>1
    <2>4. PICK q : q = Append(p, m)
      OBVIOUS
    <2>5. /\ q \in Seq(Message)
          /\ \A k \in DOMAIN q : q[k] = m \/ (k \in DOMAIN p /\ q[k] = p[k])
      BY <2>4
    <2>6. saved' = [saved EXCEPT ![a] = q]
      BY <2>1, <2>2, <2>3, <2>4
    <2>7. \A k \in DOMAIN p : p[k].type = "WAVE" /\ p[k].id <= Len(waves)
      BY <1>0, <2>1, <2>3 DEF SavedWaves
    <2>8. \A k \in DOMAIN q : q[k].type = "WAVE" /\ q[k].id <= Len(waves)
      BY <2>1, <2>2, <2>5, <2>7
    <2> QED BY <1>2, <2>1, <2>5, <2>6, <2>8
  <1>5. saved' = saved \/ (\E a, v, m : Popped(a, v, m)) \/ \E i, a : Buffered(w, i, a)
    BY DEF StepForm, Quiet, GoesOn
  <1> QED BY <1>1, <1>3, <1>4, <1>5

LEMMA ChanTypes ==
  ASSUME TypeInv, NEW w \in Wires, StepForm(w), UNCHANGED waves
  PROVE  chan' \in [Wires -> Seq(Message)] /\ Kinds'
  <1>0. TypeOK /\ Kinds /\ SavedWaves /\ Len(waves) \in Nat
    BY DEF TypeInv, TypeOK
  <1>1. ASSUME NEW out, Moved(out, {}, <<>>) PROVE chan' \in [Wires -> Seq(Message)] /\ Kinds'
    <2>1. Kinds'
      BY <1>0, <1>1, KindsDropped
    <2> QED BY <1>1, <2>1 DEF Moved
  <1>2. ASSUME NEW out, NEW v, NEW m \in Message, Moved(out, {v}, <<m>>), Kind(m, v, Len(waves))
        PROVE  chan' \in [Wires -> Seq(Message)] /\ Kinds'
    <2>1. Len(waves') \in Nat /\ Len(waves) <= Len(waves') /\ Kind(m, v, Len(waves'))
      BY <1>0, <1>2
    <2>2. Kinds'
      BY <1>0, <1>2, <2>1, KindsSent
    <2> QED BY <1>2, <2>2 DEF Moved
  <1>3. CASE Quiet
    <2>1. ASSUME NEW r \in ProtocolTypes \ {"REGISTER", "CONNECT", "REQ_LEAVE"}, NEW a \in Agents, NEW v,
                 r = "AGENT_UPDATE" => v[1] \in Servers
          PROVE  Msg(r, a) \in Message /\ Kind(Msg(r, a), v, Len(waves))
      BY <2>1, MessageForms DEF Kind
    <2>2. \/ \E out : Moved(out, {}, <<>>)
          \/ \E out, v : \E r \in ProtocolTypes \ {"REGISTER", "CONNECT", "REQ_LEAVE"}, a \in Agents :
                Moved(out, {v}, <<Msg(r, a)>>) /\ (r = "AGENT_UPDATE" => v[1] \in Servers)
      BY <1>3 DEF Quiet
    <2>3. CASE \E out : Moved(out, {}, <<>>)
      BY <1>1, <2>3
    <2>4. ASSUME NEW out, NEW v, NEW r \in ProtocolTypes \ {"REGISTER", "CONNECT", "REQ_LEAVE"}, NEW a \in Agents,
                 Moved(out, {v}, <<Msg(r, a)>>), r = "AGENT_UPDATE" => v[1] \in Servers
          PROVE  chan' \in [Wires -> Seq(Message)] /\ Kinds'
      BY <1>2, <2>1, <2>4
    <2> QED BY <2>2, <2>3, <2>4
  <1>4. ASSUME NEW a, NEW v, NEW m, Popped(a, v, m)
        PROVE  chan' \in [Wires -> Seq(Message)] /\ Kinds'
    <2>1. /\ a \in Agents /\ saved[a] # <<>> /\ m \in Message /\ m.type = "WAVE" /\ m.id = saved[a][1].id
          /\ Moved({}, {v}, <<m>>)
      BY <1>4 DEF Popped
    <2>2. saved[a] \in Seq(Message)
      BY <1>0, <2>1 DEF TypeOK
    <2>3. 1 \in DOMAIN saved[a]
      BY <2>1, <2>2
    <2>4. saved[a][1].id <= Len(waves)
      BY <1>0, <2>1, <2>3 DEF SavedWaves
    <2>5. Kind(m, v, Len(waves))
      BY <2>1, <2>4 DEF Kind
    <2> QED BY <1>2, <2>1, <2>5
  <1>5. ASSUME NEW i, NEW v, NEW m, GoesOn(w, i, v, m)
        PROVE  chan' \in [Wires -> Seq(Message)] /\ Kinds'
    <2>1. i <= Len(waves) /\ m \in Message /\ m.type = "WAVE" /\ m.id = i /\ Moved({w}, {v}, <<m>>)
      BY <1>5 DEF GoesOn, Comes
    <2>2. Kind(m, v, Len(waves))
      BY <2>1 DEF Kind
    <2> QED BY <1>2, <2>1, <2>2
  <1>6. ASSUME NEW i, NEW a, Buffered(w, i, a)
        PROVE  chan' \in [Wires -> Seq(Message)] /\ Kinds'
    BY <1>1, <1>6 DEF Buffered
  <1> QED BY <1>3, <1>4, <1>5, <1>6 DEF StepForm

LEMMA StepTypes ==
  ASSUME TypeInv, NEW w \in Wires, StepForm(w), UNCHANGED <<shardVars, waves, moves>>, Tables'
  PROVE  TypeInv'
  <1>0. TypeOK /\ Targets
    BY DEF TypeInv
  <1>1. saved' \in [Agents -> Seq(Message)] /\ SavedWaves'
    BY SavedTypes
  <1>2. chan' \in [Wires -> Seq(Message)] /\ Kinds'
    BY ChanTypes
  <1>3. Targets'
    BY <1>0 DEF Targets, shardVars
  <1>4. TypeOK'
    BY <1>0, <1>1, <1>2 DEF TypeOK, Tables, shardVars
  <1> QED BY <1>1, <1>2, <1>3, <1>4 DEF TypeInv

\* The registration of an agent, which clears what is saved for it.
Cleared(a) ==
    /\ a \in Agents /\ saved' = [saved EXCEPT ![a] = <<>>]
    /\ \E out : Moved(out, {}, <<>>)

LEMMA WholeForm ==
  ASSUME TypeInv, NEW s \in Servers, NEW w \in Wires, Whole(s, w)
  PROVE  /\ TypeInv' /\ UNCHANGED <<shardVars, waves, moves>>
         /\ Quiet \/ \E a : Cleared(a)
  <1>0. TypeOK /\ Serve(s, w) /\ w[2] = s /\ chan[w] # <<>> /\ ~TakesSteps(s, Head(chan[w]))
    BY DEF TypeInv, Whole
  <1>1. TypeInv'
    BY <1>0, ServerTypes
  <1>2. UNCHANGED <<shardVars, waves, moves>>
    BY <1>0 DEF Serve, Register, ConnectHome, ConnectGuest, ReqLeave, ReqBuffer, ReqAccept, AgentUpdate, Content
  <1> DEFINE m == Head(chan[w])
  <1>3. CASE Register(s, w)
    <2>1. Incoming(w, "REGISTER") /\ saved' = [saved EXCEPT ![m.agent] = <<>>] /\ Drop(w)
      BY <1>3 DEF Register, Handles
    <2>2. m.agent \in Agents
      BY <2>1, HeadFacts
    <2>3. Moved({w}, {}, <<>>)
      BY <1>0, <2>1, DropMoves
    <2>4. Cleared(m.agent)
      BY <2>1, <2>2, <2>3 DEF Cleared
    <2> QED BY <1>1, <1>2, <2>4
  <1>4. ASSUME NEW t, Handles(s, w, t), saved' = saved, Drop(w) \/ \E x : Pass(w, <<s, x>>, <<Msg("REQ_BUFFER", m.agent)>>),
               t # "WAVE"
        PROVE  Quiet
    <2>1. m.agent \in Agents
      BY <1>4, HeadFacts DEF Handles
    <2>2. PICK a \in Agents : a = m.agent
      BY <2>1
    <2>3. CASE Drop(w)
      BY <1>0, <1>4, <2>2, <2>3, SendQuiet
    <2>4. CASE \E x : Pass(w, <<s, x>>, <<Msg("REQ_BUFFER", a)>>)
      BY <1>0, <1>4, <2>2, <2>4, SendQuiet
    <2> QED BY <1>4, <2>2, <2>3, <2>4
  <1>5. CASE ConnectHome(s, w) \/ ConnectGuest(s, w)
    <2>1. Handles(s, w, "CONNECT") /\ m.type = "CONNECT"
      BY <1>5 DEF ConnectHome, ConnectGuest, Handles, Incoming
    <2>2. saved' = saved /\ Drop(w)
      BY <1>0, <1>5, <2>1 DEF TakesSteps, ConnectHome, ConnectGuest, homeVars
    <2> QED BY <1>1, <1>2, <1>4, <2>1, <2>2
  <1>6. CASE ReqLeave(s, w)
    <2>1. Handles(s, w, "REQ_LEAVE") /\ m.type = "REQ_LEAVE" /\ saved' = saved
      BY <1>6 DEF ReqLeave, Handles, Incoming
    <2>2. Drop(w) \/ Pass(w, <<s, Home(m.agent)>>, <<Msg("REQ_BUFFER", m.agent)>>)
      BY <1>0, <1>6, <2>1 DEF TakesSteps, ReqLeave
    <2> QED BY <1>1, <1>2, <1>4, <2>1, <2>2
  <1>7. CASE ReqBuffer(s, w)
    <2>1. Handles(s, w, "REQ_BUFFER") /\ m.type = "REQ_BUFFER" /\ saved' = saved
      BY <1>7 DEF ReqBuffer, Handles, Incoming
    <2>2. Drop(w)
      BY <1>0, <1>7, <2>1 DEF TakesSteps, ReqBuffer
    <2> QED BY <1>1, <1>2, <1>4, <2>1, <2>2
  <1>8. CASE ReqAccept(s, w)
    <2>1. Handles(s, w, "REQ_ACCEPT") /\ m.type = "REQ_ACCEPT" /\ saved' = saved
      BY <1>8 DEF ReqAccept, Handles, Incoming, homeVars
    <2>2. Drop(w)
      BY <1>0, <1>8, <2>1 DEF TakesSteps, ReqAccept
    <2> QED BY <1>1, <1>2, <1>4, <2>1, <2>2
  <1>9. CASE AgentUpdate(s, w)
    <2>1. Handles(s, w, "AGENT_UPDATE") /\ m.type = "AGENT_UPDATE"
      BY <1>9 DEF AgentUpdate, Handles, Incoming
    <2>2. saved' = saved /\ Drop(w)
      BY <1>0, <1>9, <2>1 DEF TakesSteps, AgentUpdate
    <2> QED BY <1>1, <1>2, <1>4, <2>1, <2>2
  <1>10. ~Content(s, w)
    BY <1>0 DEF Content, Handles, Incoming, TakesSteps
  <1> QED BY <1>0, <1>3, <1>5, <1>6, <1>7, <1>8, <1>9, <1>10 DEF Serve

\* What every step of a handler is to the waves, and to the types.
Fits(w) == TypeInv' /\ UNCHANGED <<shardVars, waves, moves>> /\ (StepForm(w) \/ \E a : Cleared(a))

LEMMA QuietFits ==
  ASSUME TypeInv, NEW s \in Servers, NEW w \in Wires, w[2] = s, chan[w] # <<>>, saved' = saved,
         UNCHANGED <<shardVars, waves, moves>>, Tables',
         \/ UNCHANGED chan
         \/ Drop(w)
         \/ \E r \in {"REQ_ACCEPT", "AGENT_UPDATE", "REQ_BUFFER"}, a \in Agents : \E x :
               Send(<<s, x>>, Msg(r, a)) \/ Pass(w, <<s, x>>, <<Msg(r, a)>>)
  PROVE  Fits(w)
  <1>1. Quiet
    <2>1. ASSUME NEW a \in Agents, UNCHANGED chan \/ Drop(w) PROVE Quiet
      <3>1. "REQ_ACCEPT" \in {"REQ_ACCEPT", "AGENT_UPDATE", "REQ_BUFFER"}
        OBVIOUS
      <3> QED BY <2>1, <3>1, SendQuiet
    <2>2. CASE UNCHANGED chan
      <3>1. Moved({}, {}, <<>>)
        BY <2>2, StillMoves DEF TypeInv
      <3> QED BY <3>1 DEF Quiet
    <2>3. CASE Drop(w)
      <3>1. Moved({w}, {}, <<>>)
        BY <2>3, DropMoves DEF TypeInv
      <3> QED BY <3>1 DEF Quiet
    <2>4. ASSUME NEW r \in {"REQ_ACCEPT", "AGENT_UPDATE", "REQ_BUFFER"}, NEW a \in Agents, NEW x,
                 Send(<<s, x>>, Msg(r, a)) \/ Pass(w, <<s, x>>, <<Msg(r, a)>>)
          PROVE  Quiet
      BY <2>4, SendQuiet
    <2> QED BY <2>2, <2>3, <2>4
  <1>2. StepForm(w)
    BY <1>1 DEF StepForm
  <1> QED BY <1>2, StepTypes DEF Fits

\* The tables, entry by entry.
LEMMA TablesSet ==
  ASSUME TypeInv, NEW a \in Agents, NEW s \in Servers, NEW w \in Wires,
         \/ status' = status \/ \E t \in {"HOME", "OFFLINE", "REMOTE"} : status' = [status EXCEPT ![a] = t],
         conn' = conn \/ (w[1] \in Nodes /\ conn' = [conn EXCEPT ![a] = w[1]]),
         last' = last \/ \E t \in Servers : last' = [last EXCEPT ![a] = t],
         guests' = guests \/ \E n \in Nodes \cup {NoNode} : guests' = [guests EXCEPT ![s][a] = n]
  PROVE  Tables'
  <1>0. Tables
    BY DEF TypeInv, TypeOK, Tables
  <1>1. status' \in [Agents -> {"none", "HOME", "OFFLINE", "REMOTE"}]
    BY <1>0 DEF Tables
  <1>2. conn' \in [Agents -> Nodes \cup {NoNode}]
    BY <1>0 DEF Tables
  <1>3. last' \in [Agents -> Servers]
    BY <1>0 DEF Tables
  <1>4. guests' \in [Servers -> [Agents -> Nodes \cup {NoNode}]]
    BY <1>0, GuestsSet DEF Tables
  <1> QED BY <1>1, <1>2, <1>3, <1>4 DEF Tables

LEMMA ConnectFits ==
  ASSUME TypeInv, NEW s \in Servers, NEW w \in Wires, ConnectHomeSteps(s, w) \/ ConnectGuestSteps(s, w)
  PROVE  Fits(w)
  <1>1. Handles(s, w, "CONNECT")
    BY DEF ConnectHomeSteps, ConnectGuestSteps, In
  <1>2. PICK a : a = Head(chan[w]).agent
    OBVIOUS
  <1>3. a \in Agents /\ w[1] \in Nodes /\ w[2] = s /\ chan[w] # <<>>
    BY <1>1, <1>2, HeadFacts DEF Handles, Incoming, Kind
  <1>4. UNCHANGED <<shardVars, waves, moves>>
    BY DEF ConnectHomeSteps, ConnectGuestSteps
  <1>5. \/ /\ conn' = [conn EXCEPT ![a] = w[1]] /\ last' = [last EXCEPT ![a] = s]
           /\ UNCHANGED <<status, saved, guests, chan>>
        \/ status' = [status EXCEPT ![a] = "HOME"] /\ UNCHANGED <<conn, last, saved, guests, chan>>
        \/ Drain(w, a, "HOME", <<s, conn[a]>>, 0) /\ UNCHANGED <<status, conn, last, guests>>
        \/ guests' = [guests EXCEPT ![s][a] = w[1]] /\ UNCHANGED <<homeVars, chan>>
        \/ /\ Pass(w, <<s, Home(a)>>, <<Msg("AGENT_UPDATE", a)>>) \/ Drop(w)
           /\ UNCHANGED <<homeVars, guests>>
    BY <1>2 DEF ConnectHomeSteps, ConnectGuestSteps
  <1>6. Tables'
    <2>1. /\ \/ status' = status \/ \E t \in {"HOME", "OFFLINE", "REMOTE"} : status' = [status EXCEPT ![a] = t]
          /\ conn' = conn \/ conn' = [conn EXCEPT ![a] = w[1]]
          /\ last' = last \/ last' = [last EXCEPT ![a] = s]
          /\ guests' = guests \/ guests' = [guests EXCEPT ![s][a] = w[1]]
      BY <1>5 DEF homeVars
    <2> QED BY <1>3, <2>1, TablesSet
  <1>7. CASE Drain(w, a, "HOME", <<s, conn[a]>>, 0)
    <2>1. StepForm(w)
      BY <1>3, <1>7, DrainForm
    <2> QED BY <1>4, <1>6, <2>1, StepTypes DEF Fits
  <1>8. CASE /\ saved' = saved
             /\ UNCHANGED chan \/ Drop(w) \/ Pass(w, <<s, Home(a)>>, <<Msg("AGENT_UPDATE", a)>>)
    BY <1>3, <1>4, <1>6, <1>8, QuietFits
  <1> QED BY <1>5, <1>7, <1>8 DEF homeVars

LEMMA LeaveFits ==
  ASSUME TypeInv, NEW s \in Servers, NEW w \in Wires, LeaveSteps(s, w)
  PROVE  Fits(w)
  <1>1. Handles(s, w, "REQ_LEAVE") \/ Handles(s, w, "REQ_BUFFER")
    BY DEF LeaveSteps, In
  <1>2. PICK a : a = Head(chan[w]).agent
    OBVIOUS
  <1>3. a \in Agents /\ w[2] = s /\ chan[w] # <<>>
    BY <1>1, <1>2, HeadFacts DEF Handles, Incoming
  <1>4. UNCHANGED <<shardVars, waves, moves>>
    BY DEF LeaveSteps
  <1>5. \/ status' = [status EXCEPT ![a] = "OFFLINE"] /\ UNCHANGED <<conn, last, saved, guests, chan>>
        \/ Pass(w, <<s, conn[a]>>, <<Msg("REQ_ACCEPT", a)>>) /\ UNCHANGED <<homeVars, guests>>
        \/ Pass(w, <<s, last[a]>>, <<Msg("REQ_ACCEPT", a)>>) /\ UNCHANGED <<homeVars, guests>>
        \/ Drop(w) /\ UNCHANGED <<homeVars, guests>>
    BY <1>2 DEF LeaveSteps
  <1>6. Tables'
    <2>1. /\ \/ status' = status \/ \E t \in {"HOME", "OFFLINE", "REMOTE"} : status' = [status EXCEPT ![a] = t]
          /\ conn' = conn /\ last' = last /\ guests' = guests
      BY <1>5 DEF homeVars
    <2> QED BY <1>3, <2>1, TablesSet
  <1>7. /\ saved' = saved
        /\ UNCHANGED chan \/ Drop(w) \/ \E x : Pass(w, <<s, x>>, <<Msg("REQ_ACCEPT", a)>>)
    BY <1>5 DEF homeVars
  <1> QED BY <1>3, <1>4, <1>6, <1>7, QuietFits

LEMMA AcceptFits ==
  ASSUME TypeInv, NEW s \in Servers, NEW w \in Wires, AcceptSteps(s, w)
  PROVE  Fits(w)
  <1>1. Handles(s, w, "REQ_ACCEPT")
    BY DEF AcceptSteps, In
  <1>2. PICK a : a = Head(chan[w]).agent
    OBVIOUS
  <1>3. a \in Agents /\ w[2] = s /\ chan[w] # <<>>
    BY <1>1, <1>2, HeadFacts DEF Handles, Incoming
  <1>4. UNCHANGED <<shardVars, waves, moves>>
    BY DEF AcceptSteps
  <1>5. \/ Send(<<s, guests[s][a]>>, Msg("REQ_ACCEPT", a)) /\ UNCHANGED <<homeVars, guests>>
        \/ guests' = [guests EXCEPT ![s][a] = NoNode] /\ Drop(w) /\ UNCHANGED homeVars
    BY <1>2 DEF AcceptSteps
  <1>6. Tables'
    <2>1. /\ status' = status /\ conn' = conn /\ last' = last
          /\ guests' = guests \/ guests' = [guests EXCEPT ![s][a] = NoNode]
      BY <1>5 DEF homeVars
    <2> QED BY <1>3, <2>1, TablesSet
  <1>7. /\ saved' = saved
        /\ Drop(w) \/ \E x : Send(<<s, x>>, Msg("REQ_ACCEPT", a))
    BY <1>5 DEF homeVars
  <1> QED BY <1>3, <1>4, <1>6, <1>7, QuietFits

LEMMA UpdateFits ==
  ASSUME TypeInv, NEW s \in Servers, NEW w \in Wires, UpdateSteps(s, w)
  PROVE  Fits(w)
  <1>1. Handles(s, w, "AGENT_UPDATE")
    BY DEF UpdateSteps, In
  <1>2. PICK a : a = Head(chan[w]).agent
    OBVIOUS
  <1>3. a \in Agents /\ w[1] \in Servers /\ w[2] = s /\ chan[w] # <<>>
    BY <1>1, <1>2, HeadFacts DEF Handles, Incoming, Kind
  <1>4. UNCHANGED <<shardVars, waves, moves>>
    BY DEF UpdateSteps
  <1>5. \/ last' = [last EXCEPT ![a] = w[1]] /\ UNCHANGED <<status, conn, saved, guests, chan>>
        \/ status' = [status EXCEPT ![a] = "REMOTE"] /\ UNCHANGED <<conn, last, saved, guests, chan>>
        \/ Drain(w, a, "REMOTE", <<s, w[1]>>, 1) /\ UNCHANGED <<status, conn, last, guests>>
    BY <1>2 DEF UpdateSteps
  <1>6. Tables'
    <2>1. /\ \/ status' = status \/ \E t \in {"HOME", "OFFLINE", "REMOTE"} : status' = [status EXCEPT ![a] = t]
          /\ conn' = conn /\ guests' = guests
          /\ last' = last \/ last' = [last EXCEPT ![a] = w[1]]
      BY <1>5
    <2> QED BY <1>3, <2>1, TablesSet
  <1>7. CASE Drain(w, a, "REMOTE", <<s, w[1]>>, 1)
    <2>1. StepForm(w)
      BY <1>3, <1>7, DrainForm
    <2> QED BY <1>4, <1>6, <2>1, StepTypes DEF Fits
  <1>8. CASE saved' = saved /\ UNCHANGED chan
    BY <1>3, <1>4, <1>6, <1>8, QuietFits
  <1> QED BY <1>5, <1>7, <1>8

LEMMA DecoderFits ==
  ASSUME TypeInv, NEW s \in Servers, NEW w \in Wires, Decoder(s, w)
  PROVE  Fits(w)
  <1>1. CASE Whole(s, w)
    BY <1>1, WholeForm DEF Fits, StepForm
  <1>2. CASE ContentLooks(s, w)
    <2>1. UNCHANGED vars /\ w[2] = s /\ chan[w] # <<>>
      BY <1>2 DEF ContentLooks, In, Handles, Incoming
    <2>2. /\ UNCHANGED <<shardVars, waves, moves>> /\ saved' = saved /\ UNCHANGED chan
          /\ status' = status /\ conn' = conn /\ last' = last /\ guests' = guests
      BY <2>1 DEF vars, homeVars
    <2>3. Tables'
      BY <2>2 DEF Tables, TypeInv, TypeOK
    <2> QED BY <2>1, <2>2, <2>3, QuietFits
  <1>3. CASE ContentActs(s, w)
    <2>1. StepForm(w)
      BY <1>3, ContentForm
    <2>2. UNCHANGED <<shardVars, waves, moves>> /\ UNCHANGED <<status, conn, last, guests>>
      BY <1>3 DEF ContentActs
    <2>3. Tables'
      BY <2>2 DEF Tables, TypeInv, TypeOK
    <2> QED BY <2>1, <2>2, <2>3, StepTypes DEF Fits
  <1> QED BY <1>1, <1>2, <1>3, ConnectFits, LeaveFits, AcceptFits, UpdateFits DEF Decoder

\* The handlers' own variables keep their types.
AtTypes == at \in [Wires -> Steps] /\ seen \in [Wires -> Nodes \cup {NoNode}]

LEMMA AtSteps ==
  ASSUME TypeInv, AtTypes, NEW s \in Servers, NEW w \in Wires, Decoder(s, w)
  PROVE  AtTypes'
  <1>1. CASE Whole(s, w)
    BY <1>1 DEF Whole, threadVars, AtTypes
  <1>2. CASE ContentLooks(s, w)
    <2>1. PICK a : a = waves[Head(chan[w]).id].to
      OBVIOUS
    <2>2. a \in Agents
      <3>1. Incoming(w, "WAVE")
        BY <1>2 DEF ContentLooks, In, Handles
      <3> QED BY <2>1, <3>1, HeadFacts
    <2>3. PICK x : x = IF AtHome(s, a) THEN status[a] ELSE IF guests[s][a] # NoNode THEN "guest" ELSE "unknown"
      OBVIOUS
    <2>4. PICK n : n = guests[s][a]
      OBVIOUS
    <2>5. x \in Steps
      <3>1. status[a] \in {"none", "HOME", "OFFLINE", "REMOTE"}
        BY <2>2 DEF TypeInv, TypeOK
      <3> QED BY <2>3, <3>1 DEF AtHome, Steps
    <2>6. n \in Nodes \cup {NoNode}
      BY <2>2, <2>4 DEF TypeInv, TypeOK
    <2>7. at' = [at EXCEPT ![w] = x] /\ seen' = [seen EXCEPT ![w] = n]
      BY <1>2, <2>1, <2>3, <2>4 DEF ContentLooks
    <2> QED BY <2>5, <2>6, <2>7 DEF AtTypes
  <1>3. ASSUME NEW x \in Steps, Goto(w, x) PROVE AtTypes'
    BY <1>3 DEF Goto, AtTypes
  <1>4. {"idle", "located", "accept", "drain", "more", "pop", "tell", "remove"} \subseteq Steps
    BY DEF Steps
  <1>5. CASE ConnectHomeSteps(s, w) \/ UpdateSteps(s, w)
    <2>1. \E x \in {"located", "drain", "more", "pop", "idle"} : Goto(w, x)
      BY <1>5 DEF ConnectHomeSteps, UpdateSteps, Drain, Pop, Done
    <2> QED BY <1>3, <1>4, <2>1
  <1>6. CASE ConnectGuestSteps(s, w) \/ LeaveSteps(s, w) \/ AcceptSteps(s, w) \/ ContentActs(s, w)
    <2>1. Goto(w, "tell") \/ Goto(w, "accept") \/ Goto(w, "remove") \/ Goto(w, "idle")
      BY <1>6 DEF ConnectGuestSteps, LeaveSteps, AcceptSteps, ContentActs, Done
    <2> QED BY <1>3, <1>4, <2>1
  <1> QED BY <1>1, <1>2, <1>5, <1>6 DEF Decoder

\* What is typed, however the handlers interleave.
ThreadTypesInv == TypeInv /\ AtTypes

LEMMA ThreadTypesInit == ThreadInit => ThreadTypesInv
  BY TypeInvInit DEF ThreadInit, ThreadTypesInv, AtTypes, Steps

LEMMA ThreadTypesNext == TypeInv /\ AtTypes /\ [ThreadNext]_allVars => TypeInv' /\ AtTypes'
  <1> SUFFICES ASSUME TypeInv, AtTypes, [ThreadNext]_allVars PROVE TypeInv' /\ AtTypes'
    OBVIOUS
  <1>1. ASSUME NEW s \in Servers, NEW w \in Wires, Decoder(s, w) PROVE TypeInv' /\ AtTypes'
    BY <1>1, DecoderFits, AtSteps DEF Fits
  <1>2. ASSUME UNCHANGED threadVars PROVE AtTypes'
    BY <1>2 DEF threadVars, AtTypes
  <1>3. CASE UNCHANGED allVars
    <2>1. [Next]_vars /\ UNCHANGED threadVars
      BY <1>3 DEF allVars
    <2> QED BY <1>2, <2>1, TypeInvNext
  <1>4. Movers \subseteq Agents
    BY OriginAssumption
  <1> QED BY <1>1, <1>2, <1>3, <1>4, AgentTypes DEF ThreadNext

\* For any servers, nodes and agents, and however their handlers interleave: every variable,
\* the step each handler is at among them, keeps its type.
THEOREM ThreadTypes == ThreadSpec => []ThreadTypeOK
<1>1. ThreadTypesInv => ThreadTypeOK
  BY DEF ThreadTypesInv, TypeInv, AtTypes, ThreadTypeOK
<1>2. ThreadTypesInv /\ [ThreadNext]_allVars => ThreadTypesInv'
  BY ThreadTypesNext DEF ThreadTypesInv
<1> QED BY <1>1, <1>2, ThreadTypesInit, PTL DEF ThreadSpec

-----------------------------------------------------------------------------
(* When an agent may stop: however the handlers interleave, the protocol   *)
(* messages about an agent that does not call moveTo again come in turn.   *)

\* A message is spent when its handler has answered it and has only to clear up.
Spent(w, k) == k = 1 /\ at[w] = "remove"

About(a, w, k) ==
    /\ w \in Wires /\ k \in DOMAIN chan[w]
    /\ Token(a, chan[w][k]) /\ ~Spent(w, k)

\* Where a message of type t about agent a may be, on wire w, and when.
Place(a, t, w) ==
    /\ phase[a] \in {"running", "leaving"}
    /\ t \notin Arriving => phase[a] = "leaving"
    /\ t \in {"REGISTER", "CONNECT", "REQ_LEAVE"} => w = Up(a)
    /\ t \in {"AGENT_UPDATE", "REQ_BUFFER"} => w = <<Region[node[a]], Home(a)>>
    /\ t = "REQ_ACCEPT" => status[a] = "OFFLINE"

Placed(a) == \A w, k, t : About(a, w, k) /\ t = chan[w][k].type => Place(a, t, w)

\* An arrival, of type t on wire w, comes before the departure after it, of type r on wire v: on
\* the same wire, or on the one that the departure is to take next.
Leads(t, w, r, v) ==
    t \in Arriving /\ r \in Leaving /\ (w = v \/ (t = "AGENT_UPDATE" /\ r = "REQ_LEAVE"))

Ordered(w, k, v, l) == Leads(chan[w][k].type, w, chan[v][l].type, v) /\ (w = v => k < l)

InTurn(a) ==
    \A w, v, k, l : About(a, w, k) /\ About(a, v, l) =>
        (w = v /\ k = l) \/ Ordered(w, k, v, l) \/ Ordered(v, l, w, k)

\* The home server saves for an agent from before the acceptance until it has arrived.
Accepting(a) ==
    \A w \in Wires : at[w] = "accept" /\ Token(a, chan[w][1]) => status[a] = "OFFLINE" /\ w[2] = Home(a)
Stopped(a) == phase[a] \in {"stopping", "transit"} => status[a] = "OFFLINE"

TurnInv(a) == Placed(a) /\ InTurn(a) /\ Accepting(a) /\ Stopped(a)

\* A handler that is at work has its message at the head of its wire.
Holds(w, x) ==
    /\ chan[w] # <<>> /\ w[2] \in Servers
    /\ x = "accept" => chan[w][1].type \in Leaving
    /\ x = "remove" => chan[w][1].type = "REQ_ACCEPT"
AtWork == \A w \in Wires : at[w] \in {"accept", "remove"} => Holds(w, at[w])

LEMMA HeadStays ==
  ASSUME TypeOK, NEW out, NEW in, NEW ms \in Seq(Message), Moved(out, in, ms),
         NEW u \in Wires, u \notin out, chan[u] # <<>>
  PROVE  chan'[u] # <<>> /\ chan'[u][1] = chan[u][1] /\ 1 \in DOMAIN chan[u]
  <1>1. PICK e \in Seq(Message) : chan'[u] = chan[u] \o e
    <2>1. chan'[u] = chan[u] \o (IF u \in in THEN ms ELSE <<>>)
      BY DEF Moved
    <2>2. <<>> \in Seq(Message)
      OBVIOUS
    <2> QED BY <2>1, <2>2
  <1>2. chan[u] \in Seq(Message) /\ Len(chan[u]) > 0 /\ Len(chan[u]) \in Nat
    BY DEF TypeOK
  <1>3. PICK s \in Seq(Message) : s = chan[u] /\ Len(s) > 0
    BY <1>2
  <1>4. (s \o e)[1] = s[1] /\ s \o e # <<>> /\ 1 \in DOMAIN s
    BY <1>3
  <1> QED BY <1>1, <1>3, <1>4

LEMMA AtWorkMoved ==
  ASSUME TypeOK, AtWork, NEW out, NEW in, NEW ms \in Seq(Message), Moved(out, in, ms),
         \A u \in Wires : at'[u] \in {"accept", "remove"} =>
            u \notin out /\ (at'[u] = at[u] \/ Holds(u, at'[u]))
  PROVE  AtWork'
  <1> SUFFICES ASSUME NEW u \in Wires, at'[u] \in {"accept", "remove"} PROVE Holds(u, at[u])'
    BY DEF AtWork
  <1>1. u \notin out /\ Holds(u, at'[u])
    BY DEF AtWork
  <1>2. chan'[u] # <<>> /\ chan'[u][1] = chan[u][1]
    <2>1. chan[u] # <<>>
      BY <1>1 DEF Holds
    <2> QED BY <1>1, <2>1, HeadStays
  <1> QED BY <1>1, <1>2 DEF Holds

\* The messages in gone are those that are taken, and those that are spent with the step.
Gone(out, u) == u \in out \/ at'[u] = "remove"
Remains(out, a, u, k) == About(a, u, k) /\ ~(Gone(out, u) /\ k = 1)

LEMMA TurnMoved ==
  ASSUME TypeOK, NEW a \in Agents, InTurn(a),
         NEW out, NEW in, NEW ms \in Seq(Message), Moved(out, in, ms),
         \A u \in Wires : at[u] = "remove" => Gone(out, u),
         \A u, v \in in : u = v,
         \A i, j \in DOMAIN ms : Token(a, ms[i]) /\ Token(a, ms[j]) => i = j,
         \A u, k, t : Remains(out, a, u, k) /\ t = chan[u][k].type => Place(a, t, u)',
         \A v \in Wires \cap in : \A i \in DOMAIN ms : \A t :
            Token(a, ms[i]) /\ t = ms[i].type => Place(a, t, v)',
         \A u, k, t : \A v \in Wires \cap in : \A i \in DOMAIN ms :
            Remains(out, a, u, k) /\ Token(a, ms[i]) /\ t = chan[u][k].type =>
               Leads(t, u, ms[i].type, v) \/ (Leads(ms[i].type, v, t, u) /\ u # v)
  PROVE  Placed(a)' /\ InTurn(a)'
  <1> DEFINE d(u) == Shift(out, u)
             Old(u, j) == /\ j + d(u) \in DOMAIN chan[u] /\ chan'[u][j] = chan[u][j + d(u)]
             New(u, j) == /\ u \in in /\ j + d(u) > Len(chan[u])
                          /\ j + d(u) - Len(chan[u]) \in DOMAIN ms
                          /\ chan'[u][j] = ms[j + d(u) - Len(chan[u])]
  <1>1. ASSUME NEW u \in Wires, NEW j \in DOMAIN chan'[u]
        PROVE  /\ d(u) \in {0, 1} /\ Len(chan[u]) \in Nat /\ j \in Nat /\ j > 0
               /\ Old(u, j) \/ New(u, j)
    BY OldOrNew
  <1>2. ASSUME NEW u, NEW j, About(a, u, j)'
        PROVE  u \in Wires /\ j \in DOMAIN chan'[u] /\ Token(a, chan'[u][j]) /\ ~(j = 1 /\ at'[u] = "remove")
    BY <1>2 DEF About, Spent, Token
  <1>3. ASSUME NEW u, NEW j, About(a, u, j)', Old(u, j)
        PROVE  Remains(out, a, u, j + d(u)) /\ j + d(u) <= Len(chan[u]) /\ chan'[u][j] = chan[u][j + d(u)]
    <2>1. u \in Wires /\ j \in DOMAIN chan'[u] /\ Token(a, chan'[u][j]) /\ ~(j = 1 /\ at'[u] = "remove")
      BY <1>2, <1>3
    <2>2. d(u) \in {0, 1} /\ Len(chan[u]) \in Nat /\ j \in Nat /\ j > 0
      BY <1>1, <2>1
    <2>3. (u \in out => d(u) = 1) /\ (u \notin out => d(u) = 0)
      BY DEF Shift
    <2>4. j + d(u) <= Len(chan[u])
      <3>1. DOMAIN chan[u] = 1 .. Len(chan[u])
        BY <2>1 DEF TypeOK
      <3> QED BY <1>3, <2>2, <3>1
    <2>5. ~(Gone(out, u) /\ j + d(u) = 1)
      BY <2>1, <2>2, <2>3 DEF Gone
    <2>6. ~Spent(u, j + d(u))
      BY <2>1, <2>5 DEF Spent
    <2> QED BY <1>3, <2>1, <2>4, <2>5, <2>6 DEF Remains, About
  <1>4. Placed(a)'
    <2> SUFFICES ASSUME NEW u, NEW j, About(a, u, j)', NEW t, t = chan'[u][j].type PROVE Place(a, t, u)'
      BY DEF Placed, Place
    <2>1. u \in Wires /\ j \in DOMAIN chan'[u] /\ Token(a, chan'[u][j])
      BY <1>2
    <2>2. CASE Old(u, j)
      <3>1. Remains(out, a, u, j + d(u)) /\ chan'[u][j] = chan[u][j + d(u)]
        BY <1>3, <2>2
      <3> QED BY <3>1
    <2>3. CASE New(u, j)
      BY <2>1, <2>3
    <2> QED BY <1>1, <2>1, <2>2, <2>3
  <1>5. ASSUME NEW x, NEW y, NEW i, NEW j, About(a, x, i)', About(a, y, j)', Old(x, i), New(y, j)
        PROVE  Ordered(x, i, y, j)' \/ Ordered(y, j, x, i)'
    <2>0. /\ x \in Wires /\ i \in DOMAIN chan'[x] /\ y \in Wires /\ j \in DOMAIN chan'[y]
          /\ Token(a, chan'[y][j])
      BY <1>2, <1>5
    <2>1. Remains(out, a, x, i + d(x)) /\ i + d(x) <= Len(chan[x]) /\ chan'[x][i] = chan[x][i + d(x)]
      BY <1>3, <1>5
    <2>2. Leads(chan'[x][i].type, x, chan'[y][j].type, y) \/ (Leads(chan'[y][j].type, y, chan'[x][i].type, x) /\ x # y)
      BY <1>5, <2>0, <2>1
    <2>3. CASE x = y
      <3>1. j + d(x) > Len(chan[x])
        BY <1>5, <2>3
      <3>2. i \in Nat /\ j \in Nat /\ d(x) \in Nat /\ Len(chan[x]) \in Nat
        BY <1>1, <2>0, <2>3
      <3> HIDE DEF d
      <3>3. i < j
        BY <2>1, <3>1, <3>2
      <3> QED BY <2>2, <2>3, <3>3 DEF Ordered
    <2>4. CASE x # y
      BY <2>2, <2>4 DEF Ordered
    <2> QED BY <2>3, <2>4
  <1>6. InTurn(a)'
    <2> SUFFICES ASSUME NEW w, NEW v, NEW k, NEW l, About(a, w, k)', About(a, v, l)'
                 PROVE  (w = v /\ k = l) \/ Ordered(w, k, v, l)' \/ Ordered(v, l, w, k)'
      BY DEF InTurn
    <2>0. /\ w \in Wires /\ k \in DOMAIN chan'[w] /\ v \in Wires /\ l \in DOMAIN chan'[v]
          /\ Token(a, chan'[w][k]) /\ Token(a, chan'[v][l])
      BY <1>2
    <2>1. CASE Old(w, k) /\ Old(v, l)
      <3>1. /\ About(a, w, k + d(w)) /\ chan'[w][k] = chan[w][k + d(w)]
            /\ About(a, v, l + d(v)) /\ chan'[v][l] = chan[v][l + d(v)]
        BY <1>3, <2>1 DEF Remains
      <3>2. \/ w = v /\ k + d(w) = l + d(v)
            \/ Ordered(w, k + d(w), v, l + d(v)) \/ Ordered(v, l + d(v), w, k + d(w))
        BY <3>1 DEF InTurn
      <3>3. k \in Nat /\ l \in Nat /\ d(w) \in {0, 1} /\ d(v) \in {0, 1} /\ (w = v => d(w) = d(v))
        BY <1>1, <2>0
      <3> QED BY <3>1, <3>2, <3>3 DEF Ordered
    <2>2. CASE Old(w, k) /\ New(v, l)
      BY <1>5, <2>2
    <2>3. CASE New(w, k) /\ Old(v, l)
      BY <1>5, <2>3
    <2>4. CASE New(w, k) /\ New(v, l)
      <3>1. w = v /\ k + d(w) - Len(chan[w]) = l + d(v) - Len(chan[v])
        BY <2>0, <2>4
      <3> QED BY <1>1, <2>0, <3>1
    <2> QED BY <1>1, <2>0, <2>1, <2>2, <2>3, <2>4
  <1> QED BY <1>4, <1>6

\* What there is about an agent besides the message at the head of wire w.
LEMMA Besides ==
  ASSUME TypeOK, NEW a \in Agents, InTurn(a), NEW w, About(a, w, 1), NEW u, NEW k, About(a, u, k),
         ~(u = w /\ k = 1)
  PROVE  /\ chan[w][1].type \in Arriving => Leads(chan[w][1].type, w, chan[u][k].type, u)
         /\ chan[w][1].type \in Leaving => Leads(chan[u][k].type, u, chan[w][1].type, w) /\ u # w
         /\ chan[w][1].type # "REQ_ACCEPT"
  <1>1. k \in Nat /\ k > 0
    BY DEF TypeOK, About
  <1>2. Ordered(w, 1, u, k) \/ Ordered(u, k, w, 1)
    BY DEF InTurn
  <1>3. ~(u = w /\ k < 1)
    BY <1>1
  <1> QED BY <1>2, <1>3 DEF Ordered, Leads, Arriving, Leaving

\* The ways from the node an agent is on.
LEMMA Ways ==
  ASSUME TypeOK, NEW a \in Agents
  PROVE  /\ Up(a)[1] \in Nodes /\ Up(a)[2] = Region[node[a]] /\ Up(a)[2] \in Servers
         /\ <<Region[node[a]], Home(a)>> \in Wires => Region[node[a]] # Home(a)
         /\ Up(a) # <<Region[node[a]], Home(a)>>
  <1>1. node[a] \in Nodes /\ Region[node[a]] \in Servers
    BY RegionAssumption DEF TypeOK
  <1>2. <<Region[node[a]], Home(a)>> \in Wires => Region[node[a]] # Home(a)
    BY WireEnds
  <1> QED BY <1>1, <1>2, RegionAssumption DEF Up

\* The arrival at the head of its wire comes before any acceptance.
LEMMA ArrivalFirst ==
  ASSUME TypeOK, AtWork, NEW a \in Agents, TurnInv(a), NEW w, About(a, w, 1), chan[w][1].type \in Arriving
  PROVE  /\ \A u, k : About(a, u, k) => chan[u][k].type # "REQ_ACCEPT"
         /\ \A u \in Wires : at[u] = "accept" => ~Token(a, chan[u][1])
         /\ phase[a] \in {"running", "leaving"}
  <1>0. InTurn(a) /\ Placed(a) /\ Accepting(a)
    BY DEF TurnInv
  <1>1. ASSUME NEW u, NEW k, About(a, u, k), chan[u][k].type = "REQ_ACCEPT" PROVE FALSE
    <2>1. ~(u = w /\ k = 1)
      BY <1>1 DEF Arriving
    <2>2. chan[u][k].type \in Leaving
      BY <1>0, <1>1, <2>1, Besides DEF Leads
    <2> QED BY <1>1, <2>2 DEF Leaving
  <1>2. ASSUME NEW u \in Wires, at[u] = "accept", Token(a, chan[u][1]) PROVE FALSE
    <2>1. chan[u] # <<>> /\ chan[u][1].type \in Leaving
      BY <1>2 DEF AtWork, Holds
    <2>2. 1 \in DOMAIN chan[u]
      BY <2>1 DEF TypeOK
    <2>3. About(a, u, 1)
      BY <1>2, <2>2 DEF About, Spent
    <2>4. u # w
      BY <2>1 DEF Arriving, Leaving
    <2>5. Leads(chan[w][1].type, w, chan[u][1].type, u)
      BY <1>0, <2>3, <2>4, Besides
    <2>6. chan[w][1].type = "AGENT_UPDATE" /\ chan[u][1].type = "REQ_LEAVE"
      BY <2>4, <2>5 DEF Leads
    <2>7. u = Up(a)
      BY <1>0, <2>3, <2>6 DEF Placed, Place
    <2>8. w = <<Region[node[a]], Home(a)>> /\ w \in Wires
      <3>1. Place(a, "AGENT_UPDATE", w)
        BY <1>0, <2>6 DEF Placed
      <3> QED BY <3>1 DEF Place, About
    <2>9. u[2] = Home(a)
      BY <1>0, <1>2 DEF Accepting
    <2> QED BY <2>7, <2>8, <2>9, Ways
  <1>3. Place(a, chan[w][1].type, w)
    BY <1>0 DEF Placed
  <1> QED BY <1>1, <1>2, <1>3 DEF Place

\* What a step of the handler of w may do to the status of an agent, and to the places of the
\* handlers.
Sets(a, w) ==
    \/ status'[a] = status[a] \/ status'[a] = "OFFLINE"
    \/ About(a, w, 1) /\ chan[w][1].type \in Arriving

KeepsAt(w, out) ==
    /\ \A u \in Wires : u # w => u \notin out /\ at'[u] = at[u]
    /\ at[w] = "remove" => w \in out
    /\ at'[w] \in {"accept", "remove"} => w \notin out /\ Holds(w, at'[w])

LEMMA StepKeeps ==
  ASSUME TypeOK, AtWork, NEW a \in Agents, TurnInv(a), NEW w \in Wires,
         NEW out, NEW in, NEW ms \in Seq(Message), Moved(out, in, ms),
         phase'[a] = phase[a], node'[a] = node[a], Sets(a, w), KeepsAt(w, out),
         at'[w] = "accept" /\ Token(a, chan[w][1]) => status'[a] = "OFFLINE" /\ w[2] = Home(a)
  PROVE  /\ \A u, k, t : About(a, u, k) /\ t = chan[u][k].type => Place(a, t, u)'
         /\ Accepting(a)' /\ Stopped(a)' /\ AtWork'
  <1>0. Placed(a) /\ Accepting(a) /\ Stopped(a)
    BY DEF TurnInv
  <1>1. Home(a)' = Home(a) /\ Up(a)' = Up(a)
    BY DEF Home, Up
  <1>2. ASSUME NEW u, NEW k, NEW t, About(a, u, k), t = chan[u][k].type PROVE Place(a, t, u)'
    <2>1. Place(a, t, u)
      BY <1>0, <1>2 DEF Placed
    <2>2. t = "REQ_ACCEPT" => status'[a] = "OFFLINE"
      <3>1. t = "REQ_ACCEPT" => status'[a] = status[a] \/ status'[a] = "OFFLINE"
        BY <1>2, ArrivalFirst DEF Sets
      <3> QED BY <2>1, <3>1 DEF Place
    <2> QED BY <1>1, <2>1, <2>2 DEF Place
  <1>3. Accepting(a)'
    <2> SUFFICES ASSUME NEW u \in Wires, at'[u] = "accept", Token(a, chan'[u][1])
                 PROVE  status'[a] = "OFFLINE" /\ u[2] = Home(a)
      BY <1>1 DEF Accepting, Token
    <2>1. u \notin out /\ chan[u] # <<>>
      BY DEF KeepsAt, AtWork, Holds
    <2>2. Token(a, chan[u][1])
      BY <2>1, HeadStays DEF Token
    <2>3. CASE u = w
      BY <2>2, <2>3
    <2>4. CASE u # w
      <3>1. at[u] = "accept"
        BY <2>4 DEF KeepsAt
      <3>2. status[a] = "OFFLINE" /\ u[2] = Home(a)
        BY <1>0, <2>2, <3>1 DEF Accepting
      <3>3. status'[a] = status[a] \/ status'[a] = "OFFLINE"
        BY <2>2, <3>1, ArrivalFirst DEF Sets
      <3> QED BY <3>2, <3>3
    <2> QED BY <2>3, <2>4
  <1>4. Stopped(a)'
    BY <1>0, ArrivalFirst DEF Stopped, Sets
  <1>5. AtWork'
    <2>1. \A u \in Wires : at'[u] \in {"accept", "remove"} =>
             u \notin out /\ (at'[u] = at[u] \/ Holds(u, at'[u]))
      BY DEF KeepsAt
    <2> QED BY <2>1, AtWorkMoved
  <1> QED BY <1>2, <1>3, <1>4, <1>5

\* A step that sends nothing about the agent.
LEMMA TurnQuiet ==
  ASSUME TypeOK, AtWork, NEW a \in Agents, TurnInv(a), NEW w \in Wires,
         NEW out, NEW in, NEW ms \in Seq(Message), Moved(out, in, ms),
         \A u, v \in in : u = v, \A i \in DOMAIN ms : ~Token(a, ms[i]),
         phase'[a] = phase[a], node'[a] = node[a], Sets(a, w), KeepsAt(w, out),
         at'[w] = "accept" /\ Token(a, chan[w][1]) => status'[a] = "OFFLINE" /\ w[2] = Home(a)
  PROVE  TurnInv(a)' /\ AtWork'
  <1>1. /\ \A u, k, t : About(a, u, k) /\ t = chan[u][k].type => Place(a, t, u)'
        /\ Accepting(a)' /\ Stopped(a)' /\ AtWork'
    BY StepKeeps
  <1>2. InTurn(a) /\ \A u \in Wires : at[u] = "remove" => Gone(out, u)
    BY DEF TurnInv, KeepsAt, Gone
  <1>3. \A u, k, t : Remains(out, a, u, k) /\ t = chan[u][k].type => Place(a, t, u)'
    BY <1>1 DEF Remains
  <1>4. Placed(a)' /\ InTurn(a)'
    BY <1>2, <1>3, TurnMoved
  <1> QED BY <1>1, <1>4 DEF TurnInv

\* A step that sends a message about the agent, for the one at the head of w.
LEMMA TurnSent ==
  ASSUME TypeOK, AtWork, NEW a \in Agents, TurnInv(a), NEW w \in Wires, About(a, w, 1),
         NEW out, NEW v, NEW r \in ProtocolTypes, Moved(out, {v}, <<Msg(r, a)>>), Gone(out, w),
         phase'[a] = phase[a], node'[a] = node[a], status'[a] = status[a], KeepsAt(w, out),
         at'[w] # "accept", Place(a, r, v)',
         \A u, k, t : About(a, u, k) /\ ~(u = w /\ k = 1) /\ t = chan[u][k].type =>
            Leads(t, u, r, v) \/ (Leads(r, v, t, u) /\ u # v)
  PROVE  TurnInv(a)' /\ AtWork'
  <1> DEFINE ms == <<Msg(r, a)>>
             in == {v}
  <1>1. Msg(r, a) \in Message /\ Msg(r, a).type = r
    BY MessageForms
  <1>2. /\ ms \in Seq(Message) /\ (\A i \in DOMAIN ms : i = 1 /\ ms[i] = Msg(r, a))
        /\ Moved(out, in, ms) /\ \A u \in in : u = v
    BY <1>1
  <1> HIDE DEF ms, in
  <1>3. Sets(a, w) /\ (at'[w] = "accept" /\ Token(a, chan[w][1]) => status'[a] = "OFFLINE" /\ w[2] = Home(a))
    BY DEF Sets
  <1>4. /\ \A u, k, t : About(a, u, k) /\ t = chan[u][k].type => Place(a, t, u)'
        /\ Accepting(a)' /\ Stopped(a)' /\ AtWork'
    BY <1>2, <1>3, StepKeeps
  <1>5. InTurn(a) /\ \A u \in Wires : at[u] = "remove" => Gone(out, u)
    BY DEF TurnInv, KeepsAt, Gone
  <1>6. \A u, k, t : Remains(out, a, u, k) /\ t = chan[u][k].type => Place(a, t, u)'
    BY <1>4 DEF Remains
  <1>7. /\ \A x, y \in in : x = y
        /\ \A i, j \in DOMAIN ms : Token(a, ms[i]) /\ Token(a, ms[j]) => i = j
    BY <1>2
  <1>8. \A x \in Wires \cap in : \A i \in DOMAIN ms : \A t :
           Token(a, ms[i]) /\ t = ms[i].type => Place(a, t, x)'
    BY <1>1, <1>2
  <1>9. \A u, k, t : \A x \in Wires \cap in : \A i \in DOMAIN ms :
           Remains(out, a, u, k) /\ Token(a, ms[i]) /\ t = chan[u][k].type =>
              Leads(t, u, ms[i].type, x) \/ (Leads(ms[i].type, x, t, u) /\ u # x)
    BY <1>1, <1>2 DEF Remains
  <1>10. Placed(a)' /\ InTurn(a)'
    BY <1>2, <1>5, <1>6, <1>7, <1>8, <1>9, TurnMoved
  <1> QED BY <1>4, <1>10 DEF TurnInv

\* What the handler of w sends, of type r on wire v, for the message about agent a.
Onward(a, w, r, v) ==
    \/ chan[w][1].type = "CONNECT" /\ r = "AGENT_UPDATE" /\ v = <<w[2], Home(a)>>
    \/ chan[w][1].type = "REQ_LEAVE" /\ r = "REQ_BUFFER" /\ v = <<w[2], Home(a)>>
    \/ chan[w][1].type \in Leaving /\ at[w] = "accept" /\ r = "REQ_ACCEPT"
    \/ chan[w][1].type = "REQ_ACCEPT" /\ r = "REQ_ACCEPT"

LEMMA OnwardInTurn ==
  ASSUME TypeOK, AtWork, NEW a \in Agents, TurnInv(a), NEW w \in Wires, About(a, w, 1),
         NEW r, NEW v, Onward(a, w, r, v)
  PROVE  /\ Place(a, r, v)
         /\ \A u, k, t : About(a, u, k) /\ ~(u = w /\ k = 1) /\ t = chan[u][k].type =>
               Leads(t, u, r, v) \/ (Leads(r, v, t, u) /\ u # v)
  <1>0. InTurn(a) /\ Placed(a) /\ Accepting(a)
    BY DEF TurnInv
  <1>1. Place(a, chan[w][1].type, w)
    BY <1>0 DEF Placed
  <1>2. CASE chan[w][1].type = "CONNECT" /\ r = "AGENT_UPDATE" /\ v = <<w[2], Home(a)>>
    <2>1. w = Up(a)
      BY <1>1, <1>2 DEF Place
    <2>2. v = <<Region[node[a]], Home(a)>> /\ w # v
      BY <1>2, <2>1, Ways
    <2>3. Place(a, r, v)
      BY <1>1, <1>2, <2>2 DEF Place, Arriving
    <2>4. ASSUME NEW u, NEW k, NEW t, About(a, u, k), ~(u = w /\ k = 1), t = chan[u][k].type
          PROVE  Leads(r, v, t, u) /\ u # v
      <3>1. Leads("CONNECT", w, t, u)
        BY <1>0, <1>2, <2>4, Besides DEF Arriving
      <3>2. u = w /\ t \in Leaving
        BY <3>1 DEF Leads
      <3>3. Place(a, t, u)
        BY <1>0, <2>4 DEF Placed
      <3>4. t = "REQ_LEAVE"
        BY <2>2, <3>2, <3>3 DEF Place, Leaving
      <3> QED BY <1>2, <2>2, <3>2, <3>4 DEF Leads, Arriving, Leaving
    <2> QED BY <2>3, <2>4
  <1>3. CASE chan[w][1].type = "REQ_LEAVE" /\ r = "REQ_BUFFER" /\ v = <<w[2], Home(a)>>
    <2>1. w = Up(a)
      BY <1>1, <1>3 DEF Place
    <2>2. v = <<Region[node[a]], Home(a)>>
      BY <1>3, <2>1, Ways
    <2>3. Place(a, r, v)
      BY <1>1, <1>3, <2>2 DEF Place, Arriving
    <2>4. ASSUME NEW u, NEW k, NEW t, About(a, u, k), ~(u = w /\ k = 1), t = chan[u][k].type
          PROVE  Leads(t, u, r, v)
      <3>1. Leads(t, u, "REQ_LEAVE", w) /\ u # w
        BY <1>0, <1>3, <2>4, Besides DEF Leaving
      <3>2. t = "AGENT_UPDATE"
        BY <3>1 DEF Leads
      <3>3. Place(a, t, u)
        BY <1>0, <2>4 DEF Placed
      <3>4. u = v
        BY <2>2, <3>2, <3>3 DEF Place
      <3> QED BY <1>3, <3>2, <3>4 DEF Leads, Arriving, Leaving
    <2> QED BY <2>3, <2>4
  <1>4. CASE chan[w][1].type \in Leaving /\ at[w] = "accept" /\ r = "REQ_ACCEPT"
    <2>1. status[a] = "OFFLINE" /\ w[2] = Home(a)
      BY <1>0, <1>4 DEF Accepting, About
    <2>2. Place(a, r, v)
      BY <1>1, <1>4, <2>1 DEF Place, Arriving, Leaving
    <2>3. ASSUME NEW u, NEW k, NEW t, About(a, u, k), ~(u = w /\ k = 1), t = chan[u][k].type
          PROVE  FALSE
      <3>1. Leads(t, u, chan[w][1].type, w) /\ u # w
        BY <1>0, <1>4, <2>3, Besides
      <3>2. t = "AGENT_UPDATE" /\ chan[w][1].type = "REQ_LEAVE"
        BY <3>1 DEF Leads
      <3>3. w = Up(a)
        BY <1>1, <3>2 DEF Place
      <3>4. u = <<Region[node[a]], Home(a)>> /\ u \in Wires
        <4>1. Place(a, t, u)
          BY <1>0, <2>3 DEF Placed
        <4> QED BY <2>3, <3>2, <4>1 DEF Place, About
      <3> QED BY <2>1, <3>3, <3>4, Ways
    <2> QED BY <2>2, <2>3
  <1>5. CASE chan[w][1].type = "REQ_ACCEPT" /\ r = "REQ_ACCEPT"
    <2>1. Place(a, r, v)
      BY <1>1, <1>5 DEF Place
    <2>2. \A u, k : About(a, u, k) => u = w /\ k = 1
      BY <1>0, <1>5, Besides
    <2> QED BY <2>1, <2>2
  <1> QED BY <1>2, <1>3, <1>4, <1>5 DEF Onward

\* The forms of the steps of the handler of w, whose message is about agent b if it is not a wave.
Silent(out) ==
    \E in : \E ms \in Seq(Message) :
        /\ Moved(out, in, ms) /\ \A u, v \in in : u = v
        /\ \A i \in DOMAIN ms : ms[i].type = "WAVE"

\* Nothing is sent about an agent; the status may be set for an arrival.
Rests(w) ==
    /\ \E out \in SUBSET {w} : Silent(out) /\ KeepsAt(w, out)
    /\ at'[w] \notin {"accept", "remove"}
    /\ \/ status' = status
       \/ /\ 1 \in DOMAIN chan[w] /\ chan[w][1].type \in Arriving /\ chan[w][1].agent \in Agents
          /\ \E x : status' = [status EXCEPT ![chan[w][1].agent] = x]

\* The home server takes the agent OFFLINE.
Saves(w) ==
    /\ Silent({}) /\ KeepsAt(w, {}) /\ Home(chan[w][1].agent) = w[2]
    /\ chan[w][1].agent \in Agents /\ status' = [status EXCEPT ![chan[w][1].agent] = "OFFLINE"]

\* A message is sent for the one that is handled.
Answers(w) ==
    \E b \in Agents, r \in ProtocolTypes : \E v, out :
        /\ 1 \in DOMAIN chan[w] /\ Token(b, chan[w][1]) /\ at[w] # "remove"
        /\ Moved(out, {v}, <<Msg(r, b)>>) /\ Gone(out, w) /\ KeepsAt(w, out) /\ at'[w] # "accept"
        /\ status' = status /\ Onward(b, w, r, v)

TurnForm(w) == Rests(w) \/ Saves(w) \/ Answers(w)

LEMMA FormsTurn ==
  ASSUME TypeOK, AtWork, NEW w \in Wires, TurnForm(w), UNCHANGED shardVars,
         NEW a \in Agents, TurnInv(a)
  PROVE  TurnInv(a)' /\ AtWork'
  <1>0. phase'[a] = phase[a] /\ node'[a] = node[a] /\ status \in [Agents -> {"none", "HOME", "OFFLINE", "REMOTE"}]
    BY DEF shardVars, TypeOK
  <1>1. ASSUME NEW out, Silent(out), KeepsAt(w, out), Sets(a, w),
               at'[w] = "accept" /\ Token(a, chan[w][1]) => status'[a] = "OFFLINE" /\ w[2] = Home(a)
        PROVE  TurnInv(a)' /\ AtWork'
    <2>1. PICK in : \E ms \in Seq(Message) :
                 /\ Moved(out, in, ms) /\ \A u, v \in in : u = v
                 /\ \A i \in DOMAIN ms : ms[i].type = "WAVE"
      BY <1>1 DEF Silent
    <2>2. PICK ms \in Seq(Message) :
                 /\ Moved(out, in, ms) /\ \A u, v \in in : u = v
                 /\ \A i \in DOMAIN ms : ms[i].type = "WAVE"
      BY <2>1
    <2>3. \A i \in DOMAIN ms : ~Token(a, ms[i])
      BY <2>2, MessageForms DEF Token
    <2> QED BY <1>0, <1>1, <2>2, <2>3, TurnQuiet
  <1>2. CASE Rests(w)
    <2>1. PICK out \in SUBSET {w} : Silent(out) /\ KeepsAt(w, out)
      BY <1>2 DEF Rests
    <2>2. at'[w] # "accept"
      BY <1>2 DEF Rests
    <2>3. Sets(a, w)
      <3>1. CASE status' = status
        BY <3>1 DEF Sets
      <3>2. CASE /\ 1 \in DOMAIN chan[w] /\ chan[w][1].type \in Arriving /\ chan[w][1].agent \in Agents
                 /\ \E x : status' = [status EXCEPT ![chan[w][1].agent] = x]
        <4>1. CASE chan[w][1].agent = a
          <5>1. Token(a, chan[w][1])
            BY <3>2, <4>1 DEF Token, Arriving, ProtocolTypes
          <5>2. at[w] # "remove"
            BY <3>2 DEF AtWork, Holds, Arriving
          <5> QED BY <3>2, <5>1, <5>2 DEF Sets, About, Spent
        <4>2. CASE chan[w][1].agent # a
          <5>1. status'[a] = status[a]
            BY <1>0, <3>2, <4>2
          <5> QED BY <5>1 DEF Sets
        <4> QED BY <4>1, <4>2
      <3> QED BY <1>2, <3>1, <3>2 DEF Rests
    <2> QED BY <1>1, <2>1, <2>2, <2>3
  <1>3. CASE Saves(w)
    <2>1. /\ Silent({}) /\ KeepsAt(w, {}) /\ Home(chan[w][1].agent) = w[2]
          /\ chan[w][1].agent \in Agents /\ status' = [status EXCEPT ![chan[w][1].agent] = "OFFLINE"]
      BY <1>3 DEF Saves
    <2>2. status'[a] = IF a = chan[w][1].agent THEN "OFFLINE" ELSE status[a]
      BY <1>0, <2>1
    <2>3. Token(a, chan[w][1]) => a = chan[w][1].agent
      BY DEF Token
    <2>4. Sets(a, w)
      BY <2>2 DEF Sets
    <2> QED BY <1>1, <2>1, <2>2, <2>3, <2>4
  <1>4. CASE Answers(w)
    <2>1. PICK b \in Agents, r \in ProtocolTypes : \E v, out :
             /\ 1 \in DOMAIN chan[w] /\ Token(b, chan[w][1]) /\ at[w] # "remove"
             /\ Moved(out, {v}, <<Msg(r, b)>>) /\ Gone(out, w) /\ KeepsAt(w, out) /\ at'[w] # "accept"
             /\ status' = status /\ Onward(b, w, r, v)
      BY <1>4 DEF Answers
    <2>2. PICK v, out :
             /\ 1 \in DOMAIN chan[w] /\ Token(b, chan[w][1]) /\ at[w] # "remove"
             /\ Moved(out, {v}, <<Msg(r, b)>>) /\ Gone(out, w) /\ KeepsAt(w, out) /\ at'[w] # "accept"
             /\ status' = status /\ Onward(b, w, r, v)
      BY <2>1
    <2>3. CASE b = a
      <3>1. About(a, w, 1)
        BY <2>2, <2>3 DEF About, Spent
      <3>2. /\ Place(a, r, v)
            /\ \A u, k, t : About(a, u, k) /\ ~(u = w /\ k = 1) /\ t = chan[u][k].type =>
                  Leads(t, u, r, v) \/ (Leads(r, v, t, u) /\ u # v)
        BY <2>2, <2>3, <3>1, OnwardInTurn
      <3>3. Place(a, r, v)' /\ status'[a] = status[a]
        BY <1>0, <2>2, <3>2 DEF Place, Up, Home
      <3>4. /\ Moved(out, {v}, <<Msg(r, a)>>) /\ Gone(out, w) /\ KeepsAt(w, out) /\ at'[w] # "accept"
        BY <2>2, <2>3
      <3> QED BY <1>0, <3>1, <3>2, <3>3, <3>4, TurnSent
    <2>4. CASE b # a
      <3> DEFINE ms == <<Msg(r, b)>>
                 in == {v}
      <3>1. Msg(r, b) \in Message /\ Msg(r, b).agent = b
        BY MessageForms
      <3>2. /\ ms \in Seq(Message) /\ \A i \in DOMAIN ms : ms[i] = Msg(r, b)
            /\ Moved(out, in, ms) /\ \A x, y \in in : x = y
        BY <2>2, <3>1
      <3> HIDE DEF ms, in
      <3>3. \A i \in DOMAIN ms : ~Token(a, ms[i])
        BY <2>4, <3>1, <3>2 DEF Token
      <3>4. Sets(a, w) /\ at'[w] # "accept" /\ KeepsAt(w, out)
        BY <2>2 DEF Sets
      <3> QED BY <1>0, <3>2, <3>3, <3>4, TurnQuiet
    <2> QED BY <2>3, <2>4
  <1> QED BY <1>2, <1>3, <1>4 DEF TurnForm

\* Where the handlers are after a step of the one of w.
LEMMA OnlyHere ==
  ASSUME AtTypes, NEW w \in Wires
  PROVE  /\ \A x : Goto(w, x) => at'[w] = x /\ \A u \in Wires : u # w => at'[u] = at[u]
         /\ UNCHANGED threadVars => at' = at
  BY DEF AtTypes, Goto, threadVars

LEMMA Silences ==
  ASSUME TypeInv, NEW s \in Servers, NEW w \in Wires, w[2] = s, chan[w] # <<>>
  PROVE  /\ UNCHANGED chan => Silent({})
         /\ Drop(w) => Silent({w})
         /\ \A x : \A m \in Message : m.type = "WAVE" /\ Pass(w, <<s, x>>, <<m>>) => Silent({w})
         /\ \A v : \A m \in Message : m.type = "WAVE" /\ Send(v, m) => Silent({})
  <1>0. TypeOK /\ <<>> \in Seq(Message) /\ \A i \in DOMAIN <<>> : FALSE
    BY DEF TypeInv
  <1>1. ASSUME UNCHANGED chan PROVE Silent({})
    BY <1>0, <1>1, StillMoves DEF Silent
  <1>2. ASSUME Drop(w) PROVE Silent({w})
    BY <1>0, <1>2, DropMoves DEF Silent
  <1>3. ASSUME NEW v, NEW out, NEW m \in Message, m.type = "WAVE", Moved(out, {v}, <<m>>) PROVE Silent(out)
    <2> DEFINE ms == <<m>>
               in == {v}
    <2>1. ms \in Seq(Message) /\ (\A i \in DOMAIN ms : ms[i].type = "WAVE") /\ Moved(out, in, ms)
          /\ \A x, y \in in : x = y
      BY <1>3
    <2> HIDE DEF ms, in
    <2> QED BY <2>1 DEF Silent
  <1>4. ASSUME NEW x, NEW m \in Message, m.type = "WAVE", Pass(w, <<s, x>>, <<m>>) PROVE Silent({w})
    <2>1. <<s, x>> # w
      BY WireEnds
    <2>2. <<m>> \in Seq(Message)
      OBVIOUS
    <2>3. Moved({w}, {<<s, x>>}, <<m>>)
      BY <1>0, <1>4, <2>1, <2>2, PassMoves
    <2> QED BY <1>3, <1>4, <2>3
  <1>5. ASSUME NEW v, NEW m \in Message, m.type = "WAVE", Send(v, m) PROVE Silent({})
    BY <1>0, <1>3, <1>5, SendMoves
  <1> QED BY <1>1, <1>2, <1>4, <1>5

\* A step that sends nothing about an agent.
LEMMA Resting ==
  ASSUME NEW w \in Wires, NEW out \in SUBSET {w}, Silent(out),
         \A u \in Wires : u # w => at'[u] = at[u],
         at'[w] \notin {"accept", "remove"}, at[w] = "remove" => w \in out,
         \/ status' = status
         \/ /\ 1 \in DOMAIN chan[w] /\ chan[w][1].type \in Arriving /\ chan[w][1].agent \in Agents
            /\ \E x : status' = [status EXCEPT ![chan[w][1].agent] = x]
  PROVE  TurnForm(w)
  <1>1. KeepsAt(w, out)
    BY DEF KeepsAt
  <1> QED BY <1>1 DEF Rests, TurnForm

\* A message is sent for the one that is handled, which is taken.
LEMMA Answering ==
  ASSUME TypeInv, NEW s \in Servers, NEW w \in Wires, w[2] = s, 1 \in DOMAIN chan[w], chan[w] # <<>>,
         NEW b \in Agents, NEW r \in ProtocolTypes, Token(b, chan[w][1]), at[w] # "remove",
         \A u \in Wires : u # w => at'[u] = at[u], at'[w] = "idle", status' = status,
         NEW x, Pass(w, <<s, x>>, <<Msg(r, b)>>), Onward(b, w, r, <<s, x>>)
  PROVE  TurnForm(w)
  <1> DEFINE v == <<s, x>>
  <1>1. v # w /\ <<Msg(r, b)>> \in Seq(Message) /\ TypeOK
    <2>1. v # w
      BY WireEnds
    <2>2. Msg(r, b) \in Message
      BY MessageForms
    <2> QED BY <2>1, <2>2 DEF TypeInv
  <1> HIDE DEF v
  <1>2. Pass(w, v, <<Msg(r, b)>>) /\ Onward(b, w, r, v)
    BY DEF v
  <1>3. Moved({w}, {v}, <<Msg(r, b)>>)
    BY <1>1, <1>2, PassMoves
  <1>4. KeepsAt(w, {w}) /\ Gone({w}, w)
    BY DEF KeepsAt, Gone
  <1>5. Answers(w)
    BY <1>2, <1>3, <1>4 DEF Answers
  <1> QED BY <1>5 DEF TurnForm

\* What a handler knows of the protocol message it handles.
LEMMA HeadToken ==
  ASSUME TypeInv, NEW s \in Servers, NEW w \in Wires, NEW t, Handles(s, w, t), t # "WAVE", NEW b,
         b = Head(chan[w]).agent
  PROVE  /\ w[2] = s /\ chan[w] # <<>> /\ 1 \in DOMAIN chan[w] /\ b \in Agents /\ Token(b, chan[w][1])
         /\ chan[w][1].type = t /\ chan[w][1].agent = b
  <1>1. Incoming(w, t) /\ w[2] = s
    BY DEF Handles
  <1> QED BY <1>1, HeadFacts DEF Token

LEMMA DrainTurns ==
  ASSUME TypeInv, AtTypes, NEW s \in Servers, NEW w \in Wires, NEW a \in Agents, NEW t, NEW x, NEW hop \in Nat,
         Drain(w, a, t, <<s, x>>, hop), w[2] = s, chan[w] # <<>>, status' = status
  PROVE  TurnForm(w)
  <1>0. TypeOK /\ SavedWaves
    BY DEF TypeInv
  <1>1. CASE Pop(w, a, <<s, x>>, hop)
    <2>0. saved[a] # <<>>
      BY <1>1 DEF Pop
    <2>1. PICK h : h = Head(saved[a])
      OBVIOUS
    <2>2. h \in Message /\ h.type = "WAVE"
      <3>1. saved[a] \in Seq(Message)
        BY <1>0 DEF TypeOK
      <3>2. h = saved[a][1] /\ h \in Message /\ 1 \in DOMAIN saved[a]
        BY <2>0, <2>1, <3>1, TailOf
      <3> QED BY <1>0, <3>2 DEF SavedWaves
    <2> DEFINE Waves == [type : {"WAVE"}, id : Ids, hops : Nat]
    <2>3. h \in Waves
      BY <2>2 DEF Message, ProtocolTypes
    <2>4. PICK m : m = [h EXCEPT !.hops = @ + hop]
      OBVIOUS
    <2>5. m \in Waves
      BY <2>3, <2>4
    <2>6. m \in Message /\ m.type = "WAVE"
      BY <2>5 DEF Message
    <2>7. Send(<<s, x>>, m) /\ Goto(w, "drain") /\ at[w] = "pop"
      BY <1>1, <2>1, <2>4 DEF Pop
    <2>8. Silent({}) /\ at'[w] = "drain" /\ \A u \in Wires : u # w => at'[u] = at[u]
      BY <2>6, <2>7, Silences, OnlyHere
    <2> QED BY <2>7, <2>8, Resting
  <1>2. CASE Drop(w) /\ Goto(w, "idle") /\ at[w] \in {"drain", "more", "pop"}
    <2>1. Silent({w}) /\ at'[w] = "idle" /\ \A u \in Wires : u # w => at'[u] = at[u]
      BY <1>2, Silences, OnlyHere
    <2> QED BY <2>1, Resting
  <1>3. ASSUME NEW y \in {"more", "pop"}, UNCHANGED chan, Goto(w, y), at[w] \in {"drain", "more"}
        PROVE  TurnForm(w)
    <2>1. Silent({}) /\ at'[w] = y /\ \A u \in Wires : u # w => at'[u] = at[u]
      BY <1>3, Silences, OnlyHere
    <2> QED BY <1>3, <2>1, Resting
  <1> QED BY <1>1, <1>2, <1>3 DEF Drain, Done

LEMMA WholeTurns ==
  ASSUME TypeInv, AtTypes, NEW s \in Servers, NEW w \in Wires, Whole(s, w)
  PROVE  TurnForm(w)
  <1>0. /\ Serve(s, w) /\ w[2] = s /\ chan[w] # <<>> /\ ~TakesSteps(s, Head(chan[w])) /\ at[w] = "idle"
        /\ at' = at
    BY OnlyHere DEF Whole
  <1> DEFINE b == Head(chan[w]).agent
  <1>1. ASSUME Drop(w), status' = status PROVE TurnForm(w)
    <2>1. Silent({w})
      BY <1>0, <1>1, Silences
    <2> QED BY <1>0, <1>1, <2>1, Resting
  <1>2. CASE Register(s, w)
    <2>1. Handles(s, w, "REGISTER") /\ Drop(w) /\ status' = [status EXCEPT ![b] = "HOME"]
      BY <1>2 DEF Register
    <2>2. /\ 1 \in DOMAIN chan[w] /\ b \in Agents /\ chan[w][1].type = "REGISTER" /\ chan[w][1].agent = b
      BY <2>1, HeadToken
    <2>3. Silent({w})
      BY <1>0, <2>1, Silences
    <2> QED BY <1>0, <2>1, <2>2, <2>3, Resting DEF Arriving
  <1>3. CASE ConnectHome(s, w) \/ ConnectGuest(s, w)
    <2>1. Handles(s, w, "CONNECT") /\ Head(chan[w]).type = "CONNECT"
      BY <1>3 DEF ConnectHome, ConnectGuest, Handles, Incoming
    <2>2. status' = status /\ Drop(w)
      BY <1>0, <1>3, <2>1 DEF TakesSteps, ConnectHome, ConnectGuest, homeVars
    <2> QED BY <1>1, <2>2
  <1>4. CASE ReqLeave(s, w)
    <2>1. Handles(s, w, "REQ_LEAVE") /\ Head(chan[w]).type = "REQ_LEAVE"
      BY <1>4 DEF ReqLeave, Handles, Incoming
    <2>2. /\ status' = status
          /\ Drop(w) \/ Pass(w, <<s, Home(b)>>, <<Msg("REQ_BUFFER", b)>>)
      BY <1>0, <1>4, <2>1 DEF TakesSteps, ReqLeave
    <2>3. CASE Pass(w, <<s, Home(b)>>, <<Msg("REQ_BUFFER", b)>>)
      <3>1. PICK c : c = b
        OBVIOUS
      <3>2. /\ 1 \in DOMAIN chan[w] /\ c \in Agents /\ Token(c, chan[w][1]) /\ chan[w][1].type = "REQ_LEAVE"
        BY <2>1, <3>1, HeadToken
      <3>3. "REQ_BUFFER" \in ProtocolTypes /\ Onward(c, w, "REQ_BUFFER", <<s, Home(c)>>)
        BY <1>0, <3>2 DEF ProtocolTypes, Onward
      <3>4. Pass(w, <<s, Home(c)>>, <<Msg("REQ_BUFFER", c)>>)
        BY <2>3, <3>1
      <3>5. at[w] # "remove" /\ at'[w] = "idle" /\ \A u \in Wires : u # w => at'[u] = at[u]
        BY <1>0
      <3> QED BY <1>0, <2>2, <3>2, <3>3, <3>4, <3>5, Answering
    <2> QED BY <1>1, <2>2, <2>3
  <1>5. CASE ReqBuffer(s, w)
    <2>1. Handles(s, w, "REQ_BUFFER") /\ Head(chan[w]).type = "REQ_BUFFER"
      BY <1>5 DEF ReqBuffer, Handles, Incoming
    <2>2. status' = status /\ Drop(w)
      BY <1>0, <1>5, <2>1 DEF TakesSteps, ReqBuffer
    <2> QED BY <1>1, <2>2
  <1>6. CASE ReqAccept(s, w)
    <2>1. Handles(s, w, "REQ_ACCEPT") /\ Head(chan[w]).type = "REQ_ACCEPT"
      BY <1>6 DEF ReqAccept, Handles, Incoming
    <2>2. status' = status /\ Drop(w)
      BY <1>0, <1>6, <2>1 DEF TakesSteps, ReqAccept, homeVars
    <2> QED BY <1>1, <2>2
  <1>7. CASE AgentUpdate(s, w)
    <2>1. Handles(s, w, "AGENT_UPDATE") /\ Head(chan[w]).type = "AGENT_UPDATE"
      BY <1>7 DEF AgentUpdate, Handles, Incoming
    <2>2. status' = status /\ Drop(w)
      BY <1>0, <1>7, <2>1 DEF TakesSteps, AgentUpdate
    <2> QED BY <1>1, <2>2
  <1>8. ~Content(s, w)
    BY <1>0 DEF Content, Handles, Incoming, TakesSteps
  <1> QED BY <1>0, <1>2, <1>3, <1>4, <1>5, <1>6, <1>7, <1>8 DEF Serve

LEMMA ConnectTurns ==
  ASSUME TypeInv, AtTypes, NEW s \in Servers, NEW w \in Wires, ConnectHomeSteps(s, w) \/ ConnectGuestSteps(s, w)
  PROVE  TurnForm(w)
  <1>1. Handles(s, w, "CONNECT")
    BY DEF ConnectHomeSteps, ConnectGuestSteps, In
  <1>2. PICK b : b = Head(chan[w]).agent
    OBVIOUS
  <1>3. /\ w[2] = s /\ chan[w] # <<>> /\ 1 \in DOMAIN chan[w] /\ b \in Agents /\ Token(b, chan[w][1])
        /\ chan[w][1].type = "CONNECT" /\ chan[w][1].agent = b
    BY <1>1, <1>2, HeadToken
  <1>4. \/ at[w] = "idle" /\ Goto(w, "located") /\ status' = status /\ UNCHANGED chan
        \/ at[w] = "located" /\ Goto(w, "drain") /\ status' = [status EXCEPT ![b] = "HOME"] /\ UNCHANGED chan
        \/ Drain(w, b, "HOME", <<s, conn[b]>>, 0) /\ status' = status
        \/ at[w] = "idle" /\ Goto(w, "tell") /\ status' = status /\ UNCHANGED chan
        \/ /\ at[w] = "tell" /\ Goto(w, "idle") /\ status' = status
           /\ Pass(w, <<s, Home(b)>>, <<Msg("AGENT_UPDATE", b)>>) \/ Drop(w)
    BY <1>2 DEF ConnectHomeSteps, ConnectGuestSteps, In, Done, homeVars
  <1>5. (UNCHANGED chan => Silent({})) /\ (Drop(w) => Silent({w}))
    BY <1>3, Silences
  <1>6. \A x : Goto(w, x) => at'[w] = x /\ \A u \in Wires : u # w => at'[u] = at[u]
    BY OnlyHere
  <1>7. CASE at[w] = "idle" /\ (Goto(w, "located") \/ Goto(w, "tell")) /\ status' = status /\ UNCHANGED chan
    BY <1>5, <1>6, <1>7, Resting
  <1>8. CASE at[w] = "located" /\ Goto(w, "drain") /\ status' = [status EXCEPT ![b] = "HOME"] /\ UNCHANGED chan
    <2>1. at'[w] = "drain" /\ (\A u \in Wires : u # w => at'[u] = at[u]) /\ Silent({})
      BY <1>5, <1>6, <1>8
    <2> QED BY <1>3, <1>8, <2>1, Resting DEF Arriving
  <1>9. CASE Drain(w, b, "HOME", <<s, conn[b]>>, 0) /\ status' = status
    BY <1>3, <1>9, DrainTurns
  <1>10. CASE at[w] = "tell" /\ Goto(w, "idle") /\ status' = status /\ Drop(w)
    BY <1>5, <1>6, <1>10, Resting
  <1>11. CASE at[w] = "tell" /\ Goto(w, "idle") /\ status' = status
              /\ Pass(w, <<s, Home(b)>>, <<Msg("AGENT_UPDATE", b)>>)
    <2>1. "AGENT_UPDATE" \in ProtocolTypes /\ Onward(b, w, "AGENT_UPDATE", <<s, Home(b)>>)
      BY <1>3 DEF ProtocolTypes, Onward
    <2>2. at[w] # "remove" /\ at'[w] = "idle" /\ \A u \in Wires : u # w => at'[u] = at[u]
      BY <1>6, <1>11
    <2> QED BY <1>3, <1>11, <2>1, <2>2, Answering
  <1> QED BY <1>4, <1>7, <1>8, <1>9, <1>10, <1>11

LEMMA LeaveTurns ==
  ASSUME TypeInv, AtTypes, NEW s \in Servers, NEW w \in Wires, LeaveSteps(s, w)
  PROVE  TurnForm(w)
  <1>1. PICK t \in Leaving : Handles(s, w, t)
    BY DEF LeaveSteps, In, Leaving
  <1>2. PICK b : b = Head(chan[w]).agent
    OBVIOUS
  <1>3. /\ w[2] = s /\ chan[w] # <<>> /\ 1 \in DOMAIN chan[w] /\ b \in Agents /\ Token(b, chan[w][1])
        /\ chan[w][1].type \in Leaving /\ chan[w][1].agent = b
    <2>1. t # "WAVE"
      BY DEF Leaving
    <2> QED BY <1>1, <1>2, <2>1, HeadToken
  <1>4. \/ /\ at[w] = "idle" /\ Goto(w, "accept") /\ Home(b) = s /\ status' = [status EXCEPT ![b] = "OFFLINE"]
           /\ UNCHANGED chan
        \/ /\ at[w] = "accept" /\ Goto(w, "idle") /\ status' = status
           /\ Drop(w) \/ \E x : Pass(w, <<s, x>>, <<Msg("REQ_ACCEPT", b)>>)
    BY <1>2 DEF LeaveSteps, In, Done, AtHome, homeVars
  <1>5. (UNCHANGED chan => Silent({})) /\ (Drop(w) => Silent({w}))
    BY <1>3, Silences
  <1>6. \A x : Goto(w, x) => at'[w] = x /\ \A u \in Wires : u # w => at'[u] = at[u]
    BY OnlyHere
  <1>7. CASE /\ at[w] = "idle" /\ Goto(w, "accept") /\ Home(b) = s /\ status' = [status EXCEPT ![b] = "OFFLINE"]
             /\ UNCHANGED chan
    <2>1. at'[w] = "accept" /\ (\A u \in Wires : u # w => at'[u] = at[u]) /\ Silent({})
      BY <1>5, <1>6, <1>7
    <2>2. KeepsAt(w, {})
      BY <1>3, <1>7, <2>1 DEF KeepsAt, Holds
    <2>3. Saves(w)
      BY <1>3, <1>7, <2>1, <2>2 DEF Saves
    <2> QED BY <2>3 DEF TurnForm
  <1>8. CASE at[w] = "accept" /\ Goto(w, "idle") /\ status' = status /\ Drop(w)
    BY <1>5, <1>6, <1>8, Resting
  <1>9. ASSUME at[w] = "accept", Goto(w, "idle"), status' = status, NEW x, Pass(w, <<s, x>>, <<Msg("REQ_ACCEPT", b)>>)
        PROVE  TurnForm(w)
    <2>1. "REQ_ACCEPT" \in ProtocolTypes /\ Onward(b, w, "REQ_ACCEPT", <<s, x>>)
      BY <1>3, <1>9 DEF ProtocolTypes, Onward
    <2>2. at[w] # "remove" /\ at'[w] = "idle" /\ \A u \in Wires : u # w => at'[u] = at[u]
      BY <1>6, <1>9
    <2> QED BY <1>3, <1>9, <2>1, <2>2, Answering
  <1> QED BY <1>4, <1>7, <1>8, <1>9

LEMMA AcceptTurns ==
  ASSUME TypeInv, AtTypes, NEW s \in Servers, NEW w \in Wires, AcceptSteps(s, w)
  PROVE  TurnForm(w)
  <1>1. Handles(s, w, "REQ_ACCEPT")
    BY DEF AcceptSteps, In
  <1>2. PICK b : b = Head(chan[w]).agent
    OBVIOUS
  <1>3. /\ w[2] = s /\ chan[w] # <<>> /\ 1 \in DOMAIN chan[w] /\ b \in Agents /\ Token(b, chan[w][1])
        /\ chan[w][1].type = "REQ_ACCEPT" /\ chan[w][1].agent = b
    BY <1>1, <1>2, HeadToken
  <1>4. /\ status' = status
        /\ \/ at[w] = "idle" /\ Goto(w, "remove") /\ Send(<<s, guests[s][b]>>, Msg("REQ_ACCEPT", b))
           \/ at[w] = "remove" /\ Goto(w, "idle") /\ Drop(w)
    BY <1>2 DEF AcceptSteps, In, Done, homeVars
  <1>5. \A x : Goto(w, x) => at'[w] = x /\ \A u \in Wires : u # w => at'[u] = at[u]
    BY OnlyHere
  <1>6. CASE at[w] = "idle" /\ Goto(w, "remove") /\ Send(<<s, guests[s][b]>>, Msg("REQ_ACCEPT", b))
    <2>1. at'[w] = "remove" /\ \A u \in Wires : u # w => at'[u] = at[u]
      BY <1>5, <1>6
    <2>2. KeepsAt(w, {}) /\ Gone({}, w)
      BY <1>3, <1>6, <2>1 DEF KeepsAt, Gone, Holds
    <2>3. "REQ_ACCEPT" \in ProtocolTypes /\ \A v : Onward(b, w, "REQ_ACCEPT", v)
      BY <1>3 DEF ProtocolTypes, Onward
    <2>4. Moved({}, {<<s, guests[s][b]>>}, <<Msg("REQ_ACCEPT", b)>>)
      <3>1. Msg("REQ_ACCEPT", b) \in Message /\ TypeOK
        BY <1>3, <2>3, MessageForms DEF TypeInv
      <3> QED BY <1>6, <3>1, SendMoves
    <2>5. PICK v : v = <<s, guests[s][b]>>
      OBVIOUS
    <2>6. Moved({}, {v}, <<Msg("REQ_ACCEPT", b)>>)
      BY <2>4, <2>5
    <2>7. Answers(w)
      BY <1>3, <1>4, <1>6, <2>1, <2>2, <2>3, <2>6 DEF Answers
    <2> QED BY <2>7 DEF TurnForm
  <1>7. CASE at[w] = "remove" /\ Goto(w, "idle") /\ Drop(w)
    <2>1. Silent({w}) /\ at'[w] = "idle" /\ \A u \in Wires : u # w => at'[u] = at[u]
      BY <1>3, <1>5, <1>7, Silences
    <2> QED BY <1>4, <2>1, Resting
  <1> QED BY <1>4, <1>6, <1>7

LEMMA UpdateTurns ==
  ASSUME TypeInv, AtTypes, NEW s \in Servers, NEW w \in Wires, UpdateSteps(s, w)
  PROVE  TurnForm(w)
  <1>1. Handles(s, w, "AGENT_UPDATE")
    BY DEF UpdateSteps, In
  <1>2. PICK b : b = Head(chan[w]).agent
    OBVIOUS
  <1>3. /\ w[2] = s /\ chan[w] # <<>> /\ 1 \in DOMAIN chan[w] /\ b \in Agents /\ Token(b, chan[w][1])
        /\ chan[w][1].type = "AGENT_UPDATE" /\ chan[w][1].agent = b
    BY <1>1, <1>2, HeadToken
  <1>4. \/ at[w] = "idle" /\ Goto(w, "located") /\ status' = status /\ UNCHANGED chan
        \/ at[w] = "located" /\ Goto(w, "drain") /\ status' = [status EXCEPT ![b] = "REMOTE"] /\ UNCHANGED chan
        \/ Drain(w, b, "REMOTE", <<s, w[1]>>, 1) /\ status' = status
    BY <1>2 DEF UpdateSteps, In
  <1>5. UNCHANGED chan => Silent({})
    BY <1>3, Silences
  <1>6. \A x : Goto(w, x) => at'[w] = x /\ \A u \in Wires : u # w => at'[u] = at[u]
    BY OnlyHere
  <1>7. CASE at[w] = "idle" /\ Goto(w, "located") /\ status' = status /\ UNCHANGED chan
    BY <1>5, <1>6, <1>7, Resting
  <1>8. CASE at[w] = "located" /\ Goto(w, "drain") /\ status' = [status EXCEPT ![b] = "REMOTE"] /\ UNCHANGED chan
    <2>1. at'[w] = "drain" /\ (\A u \in Wires : u # w => at'[u] = at[u]) /\ Silent({})
      BY <1>5, <1>6, <1>8
    <2> QED BY <1>3, <1>8, <2>1, Resting DEF Arriving
  <1>9. CASE Drain(w, b, "REMOTE", <<s, w[1]>>, 1) /\ status' = status
    BY <1>3, <1>9, DrainTurns
  <1> QED BY <1>4, <1>7, <1>8, <1>9

LEMMA ContentTurns ==
  ASSUME TypeInv, AtTypes, NEW s \in Servers, NEW w \in Wires, ContentLooks(s, w) \/ ContentActs(s, w)
  PROVE  TurnForm(w)
  <1>1. Handles(s, w, "WAVE") /\ status' = status
    BY DEF ContentLooks, ContentActs, In, vars, homeVars
  <1>2. PICK m, i, a : m = Head(chan[w]) /\ i = m.id /\ a = waves[i].to
    OBVIOUS
  <1>3. /\ w[2] = s /\ chan[w] # <<>> /\ m \in Message /\ m.type = "WAVE" /\ i \in Ids /\ m.hops \in Nat
        /\ a \in Agents
    <2>1. Incoming(w, "WAVE") /\ w[2] = s
      BY <1>1 DEF Handles
    <2> QED BY <1>2, <2>1, HeadFacts
  <1>4. CASE ContentLooks(s, w)
    <2>1. at[w] = "idle" /\ UNCHANGED chan
      BY <1>4 DEF ContentLooks, In, vars
    <2>2. PICK x : x \notin {"accept", "remove"} /\ at' = [at EXCEPT ![w] = x]
      <3>1. status[a] \notin {"accept", "remove"}
        BY <1>3 DEF TypeInv, TypeOK
      <3> DEFINE y == IF AtHome(s, a) THEN status[a] ELSE IF guests[s][a] # NoNode THEN "guest" ELSE "unknown"
      <3>2. at' = [at EXCEPT ![w] = y]
        BY <1>2, <1>4 DEF ContentLooks
      <3>3. y \notin {"accept", "remove"}
        BY <3>1
      <3> HIDE DEF y
      <3> QED BY <3>2, <3>3
    <2>3. at'[w] \notin {"accept", "remove"} /\ \A u \in Wires : u # w => at'[u] = at[u]
      BY <2>2 DEF AtTypes
    <2>4. Silent({})
      BY <1>3, <2>1, Silences
    <2> QED BY <1>1, <2>1, <2>3, <2>4, Resting
  <1>5. CASE ContentActs(s, w)
    <2>1. PICK f : f = Wave(i, m.hops + 1)
      OBVIOUS
    <2>2. f \in Message /\ f.type = "WAVE"
      BY <1>3, <2>1, MessageForms
    <2>3. Drop(w) \/ (\E x : Pass(w, <<s, x>>, <<m>>)) \/ (\E x : Pass(w, <<s, x>>, <<f>>))
      BY <1>2, <1>5, <2>1 DEF ContentActs
    <2>4. Silent({w})
      BY <1>3, <2>2, <2>3, Silences
    <2>5. at'[w] = "idle" /\ \A u \in Wires : u # w => at'[u] = at[u]
      BY <1>5, OnlyHere DEF ContentActs, Done
    <2> QED BY <1>1, <2>4, <2>5, Resting
  <1> QED BY <1>4, <1>5

\* Every step of a handler.
LEMMA DecoderTurns ==
  ASSUME TypeInv, AtTypes, AtWork, NEW s \in Servers, NEW w \in Wires, Decoder(s, w),
         NEW a \in Agents, TurnInv(a)
  PROVE  TurnInv(a)' /\ AtWork'
  <1>1. TurnForm(w)
    BY WholeTurns, ConnectTurns, LeaveTurns, AcceptTurns, UpdateTurns, ContentTurns DEF Decoder
  <1>2. UNCHANGED shardVars /\ TypeOK
    BY DecoderFits DEF Fits, TypeInv
  <1> QED BY <1>1, <1>2, FormsTurn

\* The steps of the agents and of their pylons: the handlers stay where they are.
LEMMA ShardKeeps ==
  ASSUME TypeOK, AtWork, NEW a \in Agents, TurnInv(a), at' = at, status' = status,
         NEW out, NEW in, NEW ms \in Seq(Message), Moved(out, in, ms), \A u \in Wires \cap out : u[2] \notin Servers
  PROVE  AtWork' /\ Accepting(a)' /\ \A u \in Wires : at[u] = "remove" => Gone(out, u)
  <1>1. \A u \in Wires : at'[u] \in {"accept", "remove"} => u \notin out /\ at'[u] = at[u]
    BY DEF AtWork, Holds
  <1>2. AtWork'
    BY <1>1, AtWorkMoved
  <1>3. Accepting(a)'
    <2> SUFFICES ASSUME NEW u \in Wires, at[u] = "accept", Token(a, chan'[u][1])
                 PROVE  status[a] = "OFFLINE" /\ u[2] = Home(a)
      BY DEF Accepting, Token, Home
    <2>1. u \notin out /\ chan[u] # <<>>
      BY DEF AtWork, Holds
    <2>2. Token(a, chan[u][1])
      BY <2>1, HeadStays DEF Token
    <2> QED BY <2>2 DEF TurnInv, Accepting
  <1> QED BY <1>2, <1>3 DEF Gone

LEMMA ShardQuiet ==
  ASSUME TypeOK, AtWork, NEW a \in Agents, TurnInv(a), at' = at, status' = status,
         NEW out, NEW in, NEW ms \in Seq(Message), Moved(out, in, ms), \A u \in Wires \cap out : u[2] \notin Servers,
         \A u, v \in in : u = v, \A i \in DOMAIN ms : ~Token(a, ms[i]),
         \/ phase'[a] = phase[a] /\ node'[a] = node[a]
         \/ Stopped(a)' /\ \A u, k : ~Remains(out, a, u, k)
  PROVE  TurnInv(a)' /\ AtWork'
  <1>1. AtWork' /\ Accepting(a)' /\ \A u \in Wires : at[u] = "remove" => Gone(out, u)
    BY ShardKeeps
  <1>2. InTurn(a) /\ Placed(a) /\ Stopped(a)
    BY DEF TurnInv
  <1>3. (\A u, k, t : Remains(out, a, u, k) /\ t = chan[u][k].type => Place(a, t, u)') /\ Stopped(a)'
    <2>1. CASE phase'[a] = phase[a] /\ node'[a] = node[a]
      <3>1. \A u, k, t : Remains(out, a, u, k) /\ t = chan[u][k].type => Place(a, t, u)
        BY <1>2 DEF Remains, Placed
      <3>2. \A t, u : Place(a, t, u) => Place(a, t, u)'
        BY <2>1 DEF Place, Up, Home
      <3> QED BY <1>2, <2>1, <3>1, <3>2 DEF Stopped
    <2>2. CASE Stopped(a)' /\ \A u, k : ~Remains(out, a, u, k)
      BY <2>2
    <2> QED BY <2>1, <2>2
  <1>4. Placed(a)' /\ InTurn(a)'
    BY <1>1, <1>2, <1>3, TurnMoved
  <1> QED BY <1>1, <1>3, <1>4 DEF TurnInv

\* An agent sends a message about itself; those there are about it come before.
LEMMA ShardSent ==
  ASSUME TypeOK, AtWork, NEW a \in Agents, TurnInv(a), at' = at, status' = status,
         NEW r \in ProtocolTypes, NEW v, Moved({}, {v}, <<Msg(r, a)>>), Place(a, r, v)',
         \A u, k, t : About(a, u, k) /\ t = chan[u][k].type => Place(a, t, u)' /\ Leads(t, u, r, v)
  PROVE  TurnInv(a)' /\ AtWork'
  <1> DEFINE ms == <<Msg(r, a)>>
             in == {v}
             out == {}
  <1>1. Msg(r, a) \in Message /\ Msg(r, a).type = r
    BY MessageForms
  <1>2. /\ ms \in Seq(Message) /\ (\A i \in DOMAIN ms : i = 1 /\ ms[i] = Msg(r, a))
        /\ Moved(out, in, ms) /\ \A u \in in : u = v
    BY <1>1
  <1>3. \A u \in Wires \cap out : u[2] \notin Servers
    OBVIOUS
  <1> HIDE DEF ms, in, out
  <1>4. AtWork' /\ Accepting(a)' /\ \A u \in Wires : at[u] = "remove" => Gone(out, u)
    BY <1>2, <1>3, ShardKeeps
  <1>5. InTurn(a)
    BY DEF TurnInv
  <1>6. \A u, k, t : Remains(out, a, u, k) /\ t = chan[u][k].type => Place(a, t, u)'
    BY DEF Remains
  <1>7. /\ \A x, y \in in : x = y
        /\ \A i, j \in DOMAIN ms : Token(a, ms[i]) /\ Token(a, ms[j]) => i = j
    BY <1>2
  <1>8. \A x \in Wires \cap in : \A i \in DOMAIN ms : \A t :
           Token(a, ms[i]) /\ t = ms[i].type => Place(a, t, x)'
    BY <1>1, <1>2
  <1>9. \A u, k, t : \A x \in Wires \cap in : \A i \in DOMAIN ms :
           Remains(out, a, u, k) /\ Token(a, ms[i]) /\ t = chan[u][k].type =>
              Leads(t, u, ms[i].type, x) \/ (Leads(ms[i].type, x, t, u) /\ u # x)
    BY <1>1, <1>2 DEF Remains
  <1>10. Placed(a)' /\ InTurn(a)'
    BY <1>2, <1>4, <1>5, <1>6, <1>7, <1>8, <1>9, TurnMoved
  <1>11. Stopped(a)'
    BY DEF Stopped, Place
  <1> QED BY <1>4, <1>10, <1>11 DEF TurnInv

\* A message is sent that is not about the agent.
LEMMA ShardOther ==
  ASSUME TypeOK, AtWork, NEW a \in Agents, TurnInv(a), at' = at, status' = status,
         NEW m \in Message, NEW v, Moved({}, {v}, <<m>>), ~Token(a, m), phase'[a] = phase[a], node'[a] = node[a]
  PROVE  TurnInv(a)' /\ AtWork'
  <1> DEFINE ms == <<m>>
             in == {v}
             out == {}
  <1>1. /\ ms \in Seq(Message) /\ (\A i \in DOMAIN ms : ~Token(a, ms[i]))
        /\ Moved(out, in, ms) /\ (\A x, y \in in : x = y) /\ \A u \in Wires \cap out : u[2] \notin Servers
    OBVIOUS
  <1> HIDE DEF ms, in, out
  <1> QED BY <1>1, ShardQuiet

\* There is no message about an agent that is not running or waiting to leave.
LEMMA NothingAbout ==
  ASSUME NEW a \in Agents, TurnInv(a), phase[a] \notin {"running", "leaving"}
  PROVE  \A u, k : ~About(a, u, k)
  BY DEF TurnInv, Placed, Place

LEMMA StartTurns ==
  ASSUME TypeInv, AtWork, NEW c \in Agents, Start(c), at' = at, NEW a \in Agents, TurnInv(a)
  PROVE  TurnInv(a)' /\ AtWork'
  <1>0. TypeOK /\ "REGISTER" \in ProtocolTypes
    BY DEF TypeInv, ProtocolTypes
  <1>1. Msg("REGISTER", c) \in Message /\ Msg("REGISTER", c).agent = c
    BY <1>0, MessageForms
  <1>2. /\ Moved({}, {Up(c)}, <<Msg("REGISTER", c)>>) /\ phase[c] = "new" /\ phase' = [phase EXCEPT ![c] = "running"]
        /\ node' = node /\ status' = status
    BY <1>0, <1>1, SendMoves DEF Start, homeVars
  <1>3. phase'[c] = "running" /\ (a # c => phase'[a] = phase[a])
    BY <1>0, <1>2 DEF TypeOK
  <1>4. CASE a # c
    <2>1. ~Token(a, Msg("REGISTER", c)) /\ phase'[a] = phase[a] /\ node'[a] = node[a]
      BY <1>1, <1>2, <1>3, <1>4 DEF Token
    <2> QED BY <1>0, <1>1, <1>2, <2>1, ShardOther
  <1>5. CASE a = c
    <2>1. \A u, k : ~About(a, u, k)
      BY <1>2, <1>5, NothingAbout
    <2>2. PICK v : v = Up(a)
      OBVIOUS
    <2>3. Place(a, "REGISTER", v)'
      BY <1>2, <1>3, <1>5, <2>2 DEF Place, Arriving, Up
    <2>4. Moved({}, {v}, <<Msg("REGISTER", a)>>)
      BY <1>2, <1>5, <2>2
    <2> QED BY <1>0, <1>2, <2>1, <2>3, <2>4, ShardSent
  <1> QED BY <1>4, <1>5

LEMMA MoveTurns ==
  ASSUME TypeInv, AtWork, ~Impatient, NEW c \in Agents, NEW n \in Nodes, Move(c, n), at' = at,
         NEW a \in Agents, TurnInv(a)
  PROVE  TurnInv(a)' /\ AtWork'
  <1>0. TypeOK /\ "REQ_LEAVE" \in ProtocolTypes
    BY DEF TypeInv, ProtocolTypes
  <1>1. Msg("REQ_LEAVE", c) \in Message /\ Msg("REQ_LEAVE", c).agent = c
    BY <1>0, MessageForms
  <1>2. /\ Moved({}, {Up(c)}, <<Msg("REQ_LEAVE", c)>>) /\ phase[c] = "running"
        /\ phase' = [phase EXCEPT ![c] = "leaving"] /\ node' = node /\ status' = status
    BY <1>0, <1>1, SendMoves DEF Move, homeVars
  <1>3. phase'[c] = "leaving" /\ (a # c => phase'[a] = phase[a])
    BY <1>0, <1>2 DEF TypeOK
  <1>4. CASE a # c
    <2>1. ~Token(a, Msg("REQ_LEAVE", c)) /\ phase'[a] = phase[a] /\ node'[a] = node[a]
      BY <1>1, <1>2, <1>3, <1>4 DEF Token
    <2> QED BY <1>0, <1>1, <1>2, <2>1, ShardOther
  <1>5. CASE a = c
    <2>1. PICK v : v = Up(a)
      OBVIOUS
    <2>2. ASSUME NEW u, NEW k, NEW t, About(a, u, k), t = chan[u][k].type
          PROVE  Place(a, t, u)' /\ Leads(t, u, "REQ_LEAVE", v)
      <3>1. Place(a, t, u)
        BY <2>2 DEF TurnInv, Placed
      <3>2. t \in Arriving
        BY <1>2, <1>5, <3>1 DEF Place
      <3>3. Place(a, t, u)'
        BY <1>2, <1>3, <1>5, <3>1, <3>2 DEF Place, Arriving, Up, Home
      <3>4. u = v \/ t = "AGENT_UPDATE"
        BY <2>1, <3>1, <3>2 DEF Place, Arriving
      <3> QED BY <3>2, <3>3, <3>4 DEF Leads, Leaving
    <2>3. Place(a, "REQ_LEAVE", v)'
      BY <1>2, <1>3, <1>5, <2>1 DEF Place, Arriving, Up
    <2>4. Moved({}, {v}, <<Msg("REQ_LEAVE", a)>>)
      BY <1>2, <1>5, <2>1
    <2> QED BY <1>0, <1>2, <2>2, <2>3, <2>4, ShardSent
  <1> QED BY <1>4, <1>5

LEMMA ArriveTurns ==
  ASSUME TypeInv, AtWork, NEW c \in Agents, Arrive(c), at' = at, NEW a \in Agents, TurnInv(a)
  PROVE  TurnInv(a)' /\ AtWork'
  <1>0. TypeOK /\ "CONNECT" \in ProtocolTypes
    BY DEF TypeInv, ProtocolTypes
  <1>1. Msg("CONNECT", c) \in Message /\ Msg("CONNECT", c).agent = c
    BY <1>0, MessageForms
  <1>2. PICK v : v = <<target[c], Region[target[c]]>>
    OBVIOUS
  <1>3. /\ Moved({}, {v}, <<Msg("CONNECT", c)>>) /\ phase[c] = "transit"
        /\ phase' = [phase EXCEPT ![c] = "running"] /\ node' = [node EXCEPT ![c] = target[c]] /\ status' = status
    BY <1>0, <1>1, <1>2, SendMoves DEF Arrive, homeVars
  <1>4. /\ phase'[c] = "running" /\ node'[c] = target[c]
        /\ a # c => phase'[a] = phase[a] /\ node'[a] = node[a]
    BY <1>0, <1>3 DEF TypeOK
  <1>5. CASE a # c
    <2>1. ~Token(a, Msg("CONNECT", c))
      BY <1>1, <1>5 DEF Token
    <2> QED BY <1>0, <1>1, <1>3, <1>4, <1>5, <2>1, ShardOther
  <1>6. CASE a = c
    <2>1. \A u, k : ~About(a, u, k)
      BY <1>3, <1>6, NothingAbout
    <2>2. Place(a, "CONNECT", v)'
      BY <1>2, <1>4, <1>6 DEF Place, Arriving, Up
    <2>3. Moved({}, {v}, <<Msg("CONNECT", a)>>)
      BY <1>3, <1>6
    <2> QED BY <1>0, <1>3, <2>1, <2>2, <2>3, ShardSent
  <1> QED BY <1>5, <1>6

LEMMA DepartTurns ==
  ASSUME TypeInv, AtWork, NEW c \in Agents, Depart(c), at' = at, NEW a \in Agents, TurnInv(a)
  PROVE  TurnInv(a)' /\ AtWork'
  <1>0. TypeOK
    BY DEF TypeInv
  <1>1. /\ phase[c] = "stopping" /\ phase' = [phase EXCEPT ![c] = "transit"] /\ node' = node /\ status' = status
        /\ UNCHANGED chan
    BY DEF Depart, homeVars
  <1> DEFINE ms == <<>>
             in == {}
             out == {}
  <1>2. /\ ms \in Seq(Message) /\ (\A i \in DOMAIN ms : ~Token(a, ms[i]))
        /\ Moved(out, in, ms) /\ (\A x, y \in in : x = y) /\ \A u \in Wires \cap out : u[2] \notin Servers
    BY <1>0, <1>1, StillMoves
  <1> HIDE DEF ms, in, out
  <1>3. \/ phase'[a] = phase[a] /\ node'[a] = node[a]
        \/ Stopped(a)' /\ \A u, k : ~Remains(out, a, u, k)
    <2>1. CASE a # c
      BY <1>0, <1>1, <2>1 DEF TypeOK
    <2>2. CASE a = c
      <3>1. \A u, k : ~About(a, u, k)
        BY <1>1, <2>2, NothingAbout
      <3>2. status[a] = "OFFLINE"
        BY <1>1, <2>2 DEF TurnInv, Stopped
      <3> QED BY <1>1, <3>1, <3>2 DEF Stopped, Remains
    <2> QED BY <2>1, <2>2
  <1> QED BY <1>0, <1>1, <1>2, <1>3, ShardQuiet

LEMMA SendTurns ==
  ASSUME TypeInv, AtWork, NEW c \in Agents, NEW b \in Agents, SendWave(b, c), at' = at, NEW a \in Agents, TurnInv(a)
  PROVE  TurnInv(a)' /\ AtWork'
  <1>0. TypeOK /\ Len(waves) + 1 \in Ids
    <2>1. TypeOK
      BY DEF TypeInv
    <2>2. Len(waves) \in Nat /\ Len(waves) < MaxWaves
      <3>1. waves \in Seq([from : Agents, to : Agents, known : BOOLEAN]) /\ Len(waves) < MaxWaves
        BY <2>1 DEF TypeOK, SendWave
      <3> QED BY <3>1
    <2> QED BY <2>1, <2>2, BoundsAssumption DEF Ids
  <1>1. PICK m : m = Wave(Len(waves) + 1, 0)
    OBVIOUS
  <1>2. m \in Message /\ ~Token(a, m)
    BY <1>0, <1>1, MessageForms DEF Token
  <1>3. Moved({}, {Up(b)}, <<m>>)
    BY <1>0, <1>1, <1>2, SendMoves DEF SendWave
  <1>4. phase'[a] = phase[a] /\ node'[a] = node[a] /\ status' = status
    BY DEF SendWave, shardVars, homeVars
  <1> QED BY <1>0, <1>2, <1>3, <1>4, ShardOther

LEMMA ReceiveTurns ==
  ASSUME TypeInv, AtWork, NEW n \in Nodes, Receive(n), at' = at, NEW a \in Agents, TurnInv(a)
  PROVE  TurnInv(a)' /\ AtWork'
  <1>0. TypeOK
    BY DEF TypeInv
  <1>1. PICK w : w = <<Region[n], n>>
    OBVIOUS
  <1>2. w \in Wires /\ w[2] \notin Servers
    BY <1>1, RegionAssumption DEF Wires
  <1>3. chan[w] # <<>> /\ Drop(w) /\ node' = node /\ status' = status
    BY <1>1 DEF Receive, ReceiveWave, ReceiveAccept, Incoming, homeVars
  <1> DEFINE ms == <<>>
             in == {}
             out == {w}
  <1>4. /\ ms \in Seq(Message) /\ (\A i \in DOMAIN ms : ~Token(a, ms[i]))
        /\ Moved(out, in, ms) /\ (\A x, y \in in : x = y) /\ \A u \in Wires \cap out : u[2] \notin Servers
    BY <1>0, <1>2, <1>3, DropMoves
  <1>5. w \in out
    OBVIOUS
  <1> HIDE DEF ms, in, out
  <1>6. \/ phase'[a] = phase[a] /\ node'[a] = node[a]
        \/ Stopped(a)' /\ \A u, k : ~Remains(out, a, u, k)
    <2>1. CASE ReceiveWave(n)
      BY <1>3, <2>1 DEF ReceiveWave
    <2>2. CASE ReceiveAccept(n)
      <3>1. PICK c : c = Head(chan[w]).agent
        OBVIOUS
      <3>2. /\ Incoming(w, "REQ_ACCEPT")
            /\ phase' = [phase EXCEPT ![c] = IF Registered(c, n) /\ @ = "leaving" THEN "stopping" ELSE @]
        BY <1>1, <2>2, <3>1 DEF ReceiveAccept
      <3>3. c \in Agents /\ 1 \in DOMAIN chan[w] /\ chan[w][1].agent = c /\ chan[w][1].type = "REQ_ACCEPT"
        BY <1>2, <3>1, <3>2, HeadFacts
      <3>4. CASE a # c
        BY <1>0, <1>3, <3>2, <3>3, <3>4 DEF TypeOK
      <3>5. CASE a = c
        <4>1. About(a, w, 1)
          <5>1. at[w] # "remove"
            BY <1>2 DEF AtWork, Holds
          <5> QED BY <1>2, <3>3, <3>5, <5>1 DEF About, Spent, Token, ProtocolTypes
        <4>2. status[a] = "OFFLINE"
          BY <3>3, <4>1 DEF TurnInv, Placed, Place
        <4>3. ASSUME NEW u, NEW k, Remains(out, a, u, k) PROVE FALSE
          <5>1. About(a, u, k) /\ ~(u = w /\ k = 1)
            BY <1>5, <4>3 DEF Remains, Gone
          <5> QED BY <1>0, <3>3, <4>1, <5>1, Besides DEF TurnInv
        <4> QED BY <1>3, <4>2, <4>3 DEF Stopped
      <3> QED BY <3>4, <3>5
    <2> QED BY <2>1, <2>2 DEF Receive
  <1> QED BY <1>0, <1>3, <1>4, <1>6, ShardQuiet

\* The invariant: whatever the order of the handlers' steps, the messages about an agent are in
\* turn.
TurnsInv == TypeInv /\ AtTypes /\ \A a \in Agents : AtWork /\ TurnInv(a)

LEMMA TurnsInvInit == ThreadInit => TurnsInv
  <1> SUFFICES ASSUME ThreadInit PROVE TurnsInv
    OBVIOUS
  <1>1. Init /\ TypeInv /\ \A u \in Wires : at[u] = "idle"
    BY TypeInvInit DEF ThreadInit
  <1>2. \A u \in Wires : DOMAIN chan[u] = {}
    BY <1>1 DEF Init
  <1>3. AtTypes
    BY DEF ThreadInit, AtTypes, Steps
  <1>4. ASSUME NEW a \in Agents PROVE TurnInv(a)
    <2>1. \A u, k : ~About(a, u, k)
      BY <1>2 DEF About
    <2>2. phase[a] = "new"
      BY <1>1 DEF Init
    <2> QED BY <1>1, <2>1, <2>2 DEF TurnInv, Placed, InTurn, Accepting, Stopped
  <1> QED BY <1>1, <1>3, <1>4 DEF TurnsInv, AtWork

LEMMA TurnsInvNext == ~Impatient /\ TurnsInv /\ [ThreadNext]_allVars => TurnsInv'
  <1> SUFFICES ASSUME ~Impatient, TurnsInv, [ThreadNext]_allVars PROVE TurnsInv'
    OBVIOUS
  <1>0. TypeInv /\ AtTypes /\ \A a \in Agents : AtWork /\ TurnInv(a)
    BY DEF TurnsInv
  <1>1. TypeInv' /\ AtTypes'
    BY <1>0, ThreadTypesNext
  <1>2. ASSUME NEW a \in Agents PROVE AtWork' /\ TurnInv(a)'
    <2>0. AtWork /\ TurnInv(a)
      BY <1>0
    <2>1. ASSUME NEW s \in Servers, NEW w \in Wires, Decoder(s, w) PROVE AtWork' /\ TurnInv(a)'
      BY <1>0, <2>0, <2>1, DecoderTurns
    <2>2. ASSUME UNCHANGED threadVars PROVE at' = at
      BY <2>2 DEF threadVars
    <2>3. ASSUME NEW c \in Agents, Start(c) \/ Depart(c) \/ Arrive(c), UNCHANGED threadVars
          PROVE  AtWork' /\ TurnInv(a)'
      BY <1>0, <2>0, <2>2, <2>3, StartTurns, DepartTurns, ArriveTurns
    <2>4. ASSUME NEW c \in Agents, NEW b \in Agents, SendWave(b, c), UNCHANGED threadVars
          PROVE  AtWork' /\ TurnInv(a)'
      BY <1>0, <2>0, <2>2, <2>4, SendTurns
    <2>5. ASSUME NEW c \in Movers, NEW n \in Nodes, Move(c, n), UNCHANGED threadVars PROVE AtWork' /\ TurnInv(a)'
      <3>1. c \in Agents
        BY OriginAssumption
      <3> QED BY <1>0, <2>0, <2>2, <2>5, <3>1, MoveTurns
    <2>6. ASSUME NEW n \in Nodes, Receive(n), UNCHANGED threadVars PROVE AtWork' /\ TurnInv(a)'
      BY <1>0, <2>0, <2>2, <2>6, ReceiveTurns
    <2>7. CASE UNCHANGED allVars
      <3>1. UNCHANGED <<phase, node, status, chan, at>>
        BY <2>7 DEF allVars, vars, shardVars, homeVars, threadVars
      <3> QED BY <2>0, <3>1 DEF AtWork, Holds, TurnInv, Placed, InTurn, Accepting, Stopped, About, Spent, Place,
                                Ordered, Leads, Token, Up, Home
    <2> QED BY <2>1, <2>3, <2>4, <2>5, <2>6, <2>7 DEF ThreadNext
  <1> QED BY <1>1, <1>2 DEF TurnsInv

\* For any servers, nodes and agents, however their handlers interleave, while no agent calls moveTo
\* again before it has left: an agent stops only when its home server saves for it, and the server
\* does so until the agent has arrived.
THEOREM AgentsStopOffline ==
  ASSUME ~Impatient PROVE ThreadSpec => []StopsOffline
<1>1. TurnsInv => StopsOffline
  BY DEF TurnsInv, TurnInv, Stopped, StopsOffline
<1> QED BY <1>1, TurnsInvInit, TurnsInvNext, PTL DEF ThreadSpec

=============================================================================
