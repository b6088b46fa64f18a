------------------------ MODULE WebSocketPylon_proofs -----------------------
(***************************************************************************)
(* Proofs about WebSocketPylon: the types; that no wave and no agent is    *)
(* doubled; that the server follows the agents; that what is sent to an    *)
(* entity that stays arrives; and the order in which an agent hears        *)
(* another.                                                                *)
(*                                                                         *)
(* What a pylon has to say to the server is one line, whose front has been *)
(* written to the socket, and what comes to it is another, whose front the *)
(* thread of the Dispatcher has in hand.  Every step cuts a piece out of a *)
(* line, moves a message from one line to another, or lengthens a line.    *)
(***************************************************************************)
EXTENDS WebSocketLines, FiniteSetTheorems, TLAPS

-----------------------------------------------------------------------------
(* Messages.                                                               *)

LEMMA RegistrationFields ==
  /\ \A m \in Registration : m.kind \in {"reg", "unreg"} /\ m.from \in Entities
  /\ \A e \in Entities, k \in {"reg", "unreg"} : [kind |-> k, from |-> e] \in Registration
BY DEF Registration

LEMMA WaveFields ==
  /\ \A m \in Wave : /\ m.kind = "wave" /\ m.from \in Agents /\ m.to \in Agents
                     /\ m.nr \in 1 .. Quota[m.from] /\ m.nr \in Nat
  /\ \A a, b \in Agents : \A n \in 1 .. Quota[a] : [kind |-> "wave", from |-> a, nr |-> n, to |-> b] \in Wave
BY BoundsAssumption DEF Wave

LEMMA TransitFields ==
  /\ \A m \in Transit : /\ m.kind = "agent" /\ m.from \in Agents /\ m.to \in Pylons
                        /\ m.nr \in 1 .. Moves[m.from] /\ m.nr \in Nat
  /\ \A a \in Agents, q \in Pylons : \A n \in 1 .. Moves[a] :
        [kind |-> "agent", from |-> a, nr |-> n, to |-> q] \in Transit
BY BoundsAssumption DEF Transit

LEMMA MessageKinds ==
  /\ \A m \in Message : /\ m.from \in Entities
                        /\ m.kind \in {"reg", "unreg", "wave", "agent"}
                        /\ m.kind \in {"reg", "unreg"} <=> m \in Registration
                        /\ m.kind = "wave" <=> m \in Wave
                        /\ m.kind = "agent" <=> m \in Transit
                        /\ m \in Content <=> m \notin Registration
  /\ \A m \in Content : /\ m \in Message /\ m # Nobody /\ m.kind \in {"wave", "agent"}
                        /\ m.from \in Agents /\ m.to \in Entities /\ m.nr \in Nat
                        /\ m.kind = "wave" => m.to \in Agents
                        /\ m.kind = "agent" => m.to \in Pylons
  /\ Registration \subseteq Message /\ Nobody \notin Message
BY RegistrationFields, WaveFields, TransitFields, NobodyAssumption DEF Message, Content, Entities

-----------------------------------------------------------------------------
(* Sequences: one sequence is another without a piece, or with one more.   *)

LEMMA Concat ==
  ASSUME NEW S, NEW s \in Seq(S), NEW t \in Seq(S)
  PROVE  /\ s \o t \in Seq(S)
         /\ Len(s \o t) = Len(s) + Len(t)
         /\ \A i \in 1 .. Len(s) : (s \o t)[i] = s[i]
         /\ \A i \in 1 .. Len(t) : (s \o t)[Len(s) + i] = t[i]
         /\ \A i \in Len(s) + 1 .. Len(s) + Len(t) : (s \o t)[i] = t[i - Len(s)]
OBVIOUS

LEMMA ElementIn ==
  ASSUME NEW S, NEW s \in Seq(S)
  PROVE  Len(s) \in Nat /\ DOMAIN s = 1 .. Len(s) /\ \A i \in 1 .. Len(s) : s[i] \in S
OBVIOUS

LEMMA SameSeq ==
  ASSUME NEW S, NEW s \in Seq(S), NEW t \in Seq(S), Len(s) = Len(t), \A i \in 1 .. Len(s) : s[i] = t[i]
  PROVE  s = t
OBVIOUS

LEMMA HeadTail ==
  ASSUME NEW S, NEW s \in Seq(S), s # <<>>
  PROVE  /\ Head(s) = s[1] /\ Head(s) \in S /\ Tail(s) \in Seq(S) /\ Len(s) >= 1
         /\ Len(Tail(s)) = Len(s) - 1
         /\ \A i \in 1 .. Len(s) - 1 : Tail(s)[i] = s[i + 1]
OBVIOUS

LEMMA Appended ==
  ASSUME NEW S, NEW s \in Seq(S), NEW x \in S
  PROVE  /\ Append(s, x) \in Seq(S) /\ Append(s, x) = s \o <<x>>
         /\ Len(Append(s, x)) = Len(s) + 1
         /\ \A i \in 1 .. Len(s) : Append(s, x)[i] = s[i]
         /\ Append(s, x)[Len(s) + 1] = x
OBVIOUS

LEMMA Prefix ==
  ASSUME NEW S, NEW s \in Seq(S), NEW n \in 0 .. Len(s)
  PROVE  /\ SubSeq(s, 1, n) \in Seq(S) /\ Len(SubSeq(s, 1, n)) = n
         /\ \A i \in 1 .. n : SubSeq(s, 1, n)[i] = s[i]
OBVIOUS

LEMMA Associates ==
  ASSUME NEW S, NEW r \in Seq(S), NEW s \in Seq(S), NEW t \in Seq(S)
  PROVE  (r \o s) \o t = r \o (s \o t)
<1>1. /\ (r \o s) \o t \in Seq(S) /\ r \o (s \o t) \in Seq(S)
      /\ Len((r \o s) \o t) = Len(r) + Len(s) + Len(t)
      /\ Len(r \o (s \o t)) = Len(r) + Len(s) + Len(t)
  BY Concat
<1>2. \A i \in 1 .. Len(r) + Len(s) + Len(t) : ((r \o s) \o t)[i] = (r \o (s \o t))[i] OBVIOUS
<1> QED BY <1>1, <1>2, SameSeq

LEMMA HeadAgain ==
  ASSUME NEW S, NEW s \in Seq(S), s # <<>>
  PROVE  <<Head(s)>> \o Tail(s) = s
<1>1. <<Head(s)>> \in Seq(S) /\ Len(<<Head(s)>>) = 1 BY HeadTail
<1>2. Len(<<Head(s)>> \o Tail(s)) = Len(s) /\ <<Head(s)>> \o Tail(s) \in Seq(S) BY <1>1, HeadTail, Concat
<1>3. \A i \in 1 .. Len(s) : (<<Head(s)>> \o Tail(s))[i] = s[i] OBVIOUS
<1> QED BY <1>2, <1>3, SameSeq

\* A piece taken from the one or from the other of two parts.
LEMMA SkipFacts ==
  ASSUME NEW c \in Nat, NEW d \in Nat, c <= d
  PROVE  \A i \in Nat : /\ Skip(i, c, d) \in Nat
                        /\ i <= c => Skip(i, c, d) = i
                        /\ i > c => Skip(i, c, d) = i + (d - c)
BY DEF Skip

LEMMA CutFront ==
  ASSUME NEW S, NEW s \in Seq(S), NEW t \in Seq(S), NEW r \in Seq(S), NEW c \in Nat, NEW d \in Nat, Cut(s, t, c, d)
  PROVE  Cut(s \o r, t \o r, c, d)
<1> DEFINE ss == s \o r
           tt == t \o r
           k == Len(s)
           n == Len(t)
           l == Len(r)
<1>1. k \in Nat /\ n \in Nat /\ l \in Nat /\ Len(ss) = k + l /\ Len(tt) = n + l BY Concat, ElementIn
<1>2. /\ \A i \in 1 .. k : ss[i] = s[i]
      /\ \A i \in k + 1 .. k + l : ss[i] = r[i - k]
      /\ \A i \in 1 .. n : tt[i] = t[i]
      /\ \A i \in n + 1 .. n + l : tt[i] = r[i - n]
  BY Concat
<1>3. c <= d /\ d <= k /\ n = k - (d - c) BY DEF Cut
<1>4. \A i \in 1 .. n : t[i] = s[Skip(i, c, d)] BY DEF Cut
<1> HIDE DEF ss, tt, k, n, l
<1>5. \A i \in Nat : (i <= c => Skip(i, c, d) = i) /\ (i > c => Skip(i, c, d) = i + (d - c)) BY <1>3, SkipFacts
<1>6. ASSUME NEW i \in 1 .. n + l PROVE tt[i] = ss[Skip(i, c, d)]
  <2>1. CASE i <= n
    <3>1. Skip(i, c, d) \in 1 .. k /\ i \in 1 .. n
      <4>1. i \in 1 .. n /\ i \in Nat BY <1>1, <2>1
      <4>2. k \in Nat /\ n \in Nat BY <1>1
      <4>3. i <= c => Skip(i, c, d) = i BY <1>5, <4>1
      <4>4. i > c => Skip(i, c, d) = i + (d - c) BY <1>5, <4>1
      <4> QED BY <1>3, <4>1, <4>2, <4>3, <4>4
    <3> QED BY <1>2, <1>4, <3>1
  <2>2. CASE i > n
    <3>1. Skip(i, c, d) = i + (d - c) BY <1>1, <1>3, <1>5, <2>2
    <3>2. i + (d - c) \in k + 1 .. k + l /\ (i + (d - c)) - k = i - n /\ i \in n + 1 .. n + l
      BY <1>1, <1>3, <2>2
    <3>3. ss[i + (d - c)] = r[i - n] /\ tt[i] = r[i - n] BY <1>2, <3>2
    <3> QED BY <3>1, <3>3
  <2> QED BY <1>1, <2>1, <2>2
<1>7. d <= k + l /\ n + l = (k + l) - (d - c) BY <1>1, <1>3
<1>8. Cut(ss, tt, c, d) BY <1>1, <1>3, <1>6, <1>7 DEF Cut
<1> QED BY <1>8 DEF ss, tt

LEMMA CutBack ==
  ASSUME NEW S, NEW s \in Seq(S), NEW t \in Seq(S), NEW r \in Seq(S), NEW c \in Nat, NEW d \in Nat, Cut(s, t, c, d)
  PROVE  Cut(r \o s, r \o t, Len(r) + c, Len(r) + d)
<1> DEFINE ss == r \o s
           tt == r \o t
           k == Len(s)
           n == Len(t)
           l == Len(r)
<1>1. k \in Nat /\ n \in Nat /\ l \in Nat /\ Len(ss) = l + k /\ Len(tt) = l + n BY Concat, ElementIn
<1>2. /\ \A i \in 1 .. l : ss[i] = r[i] /\ tt[i] = r[i]
      /\ \A i \in 1 .. k : ss[l + i] = s[i]
      /\ \A i \in l + 1 .. l + n : tt[i] = t[i - l]
  <2>1. \A i \in 1 .. l : ss[i] = r[i] BY Concat
  <2>2. \A i \in 1 .. l : tt[i] = r[i] BY Concat
  <2>3. \A i \in 1 .. k : ss[l + i] = s[i] BY Concat
  <2>4. \A i \in l + 1 .. l + n : tt[i] = t[i - l] BY Concat
  <2> QED BY <2>1, <2>2, <2>3, <2>4
<1>3. c <= d /\ d <= k /\ n = k - (d - c) BY DEF Cut
<1>4. \A i \in 1 .. n : t[i] = s[Skip(i, c, d)] BY DEF Cut
<1> HIDE DEF ss, tt, k, n, l
<1>5. \A i \in Nat : (i <= c => Skip(i, c, d) = i) /\ (i > c => Skip(i, c, d) = i + (d - c)) BY <1>3, SkipFacts
<1>6. l + c \in Nat /\ l + d \in Nat /\ l + c <= l + d /\ l + d <= l + k
      /\ l + n = (l + k) - ((l + d) - (l + c)) /\ (l + d) - (l + c) = d - c
  BY <1>1, <1>3
<1>7. \A i \in Nat : /\ i <= l + c => Skip(i, l + c, l + d) = i
                     /\ i > l + c => Skip(i, l + c, l + d) = i + ((l + d) - (l + c))
  BY <1>6, SkipFacts
<1>8. ASSUME NEW i \in 1 .. l + n PROVE tt[i] = ss[Skip(i, l + c, l + d)]
  <2>1. CASE i <= l
    <3>1. Skip(i, l + c, l + d) = i /\ i \in 1 .. l BY <1>1, <1>7, <2>1
    <3> QED BY <1>2, <3>1
  <2>2. CASE i > l
    <3>1. i - l \in 1 .. n /\ i \in l + 1 .. l + n BY <1>1, <2>2
    <3>2. tt[i] = t[i - l] /\ t[i - l] = s[Skip(i - l, c, d)] BY <1>2, <1>4, <3>1
    <3>3. Skip(i, l + c, l + d) = l + Skip(i - l, c, d) /\ Skip(i - l, c, d) \in 1 .. k
      <4>1. i - l \in Nat /\ i \in Nat /\ (i - l <= c <=> i <= l + c) BY <1>1, <2>2, <3>1
      <4>2. CASE i <= l + c
        <5>1. Skip(i, l + c, l + d) = i /\ Skip(i - l, c, d) = i - l BY <1>5, <1>7, <4>1, <4>2
        <5> QED BY <1>1, <1>3, <4>1, <4>2, <3>1, <5>1
      <4>3. CASE i > l + c
        <5>1. Skip(i, l + c, l + d) = i + (d - c) /\ Skip(i - l, c, d) = (i - l) + (d - c)
          BY <1>1, <1>5, <1>6, <1>7, <4>1, <4>3
        <5> QED BY <1>1, <1>3, <4>1, <4>3, <3>1, <5>1
      <4> QED BY <1>1, <4>1, <4>2, <4>3
    <3> QED BY <1>2, <3>2, <3>3
  <2> QED BY <1>1, <2>1, <2>2
<1>9. Cut(ss, tt, l + c, l + d) BY <1>1, <1>6, <1>8 DEF Cut
<1> QED BY <1>9 DEF ss, tt, l

LEMMA CutTail ==
  ASSUME NEW S, NEW s \in Seq(S), s # <<>>
  PROVE  Cut(s, Tail(s), 0, 1)
BY HeadTail DEF Cut, Skip

LEMMA CutPrefix ==
  ASSUME NEW S, NEW s \in Seq(S), NEW n \in 0 .. Len(s)
  PROVE  Cut(s, SubSeq(s, 1, n), n, Len(s))
BY Prefix DEF Cut, Skip

LEMMA CutFacts ==
  ASSUME NEW s, NEW t, NEW c \in Nat, NEW d \in Nat, Cut(s, t, c, d), Len(s) \in Nat
  PROVE  /\ Len(t) \in Nat
         /\ \A i \in 1 .. Len(t) : /\ Skip(i, c, d) \in 1 .. Len(s) /\ t[i] = s[Skip(i, c, d)]
                                   /\ (Skip(i, c, d) <= c \/ Skip(i, c, d) > d)
                                   /\ i <= c => Skip(i, c, d) = i
                                   /\ i > c => Skip(i, c, d) = i + (d - c)
         /\ \A i, j \in 1 .. Len(t) : Skip(i, c, d) = Skip(j, c, d) => i = j
         /\ \A i, j \in 1 .. Len(t) : i < j <=> Skip(i, c, d) < Skip(j, c, d)
         /\ \A i \in 1 .. Len(s) : i <= c => i \in 1 .. Len(t) /\ t[i] = s[i]
         /\ \A i \in 1 .. Len(s) : i > d => i - (d - c) \in 1 .. Len(t) /\ t[i - (d - c)] = s[i]
<1> DEFINE k == Len(s)
           n == Len(t)
<1>1. c <= d /\ d <= k /\ n = k - (d - c) /\ k \in Nat BY DEF Cut
<1>2. \A i \in 1 .. n : t[i] = s[Skip(i, c, d)] BY DEF Cut
<1> HIDE DEF k, n
<1>3. \A i \in Nat : (i <= c => Skip(i, c, d) = i) /\ (i > c => Skip(i, c, d) = i + (d - c)) BY <1>1, SkipFacts
<1>4. n \in Nat BY <1>1
<1>5. \A i \in 1 .. n : Skip(i, c, d) \in 1 .. k /\ (Skip(i, c, d) <= c \/ Skip(i, c, d) > d)
  BY <1>1, <1>3, <1>4
<1>6. \A i, j \in 1 .. n : i < j <=> Skip(i, c, d) < Skip(j, c, d) BY <1>1, <1>3, <1>4
<1>7. \A i, j \in 1 .. n : Skip(i, c, d) = Skip(j, c, d) => i = j BY <1>1, <1>3, <1>4
<1>8. ASSUME NEW i \in 1 .. k, i <= c PROVE i \in 1 .. n /\ t[i] = s[i]
  <2>1. i \in 1 .. n /\ Skip(i, c, d) = i BY <1>1, <1>3, <1>4, <1>8
  <2> QED BY <1>2, <2>1
<1>9. ASSUME NEW i \in 1 .. k, i > d PROVE i - (d - c) \in 1 .. n /\ t[i - (d - c)] = s[i]
  <2>1. i - (d - c) \in 1 .. n /\ Skip(i - (d - c), c, d) = i BY <1>1, <1>3, <1>4, <1>9
  <2> QED BY <1>2, <2>1
<1>10. \A i \in 1 .. n : (i <= c => Skip(i, c, d) = i) /\ (i > c => Skip(i, c, d) = i + (d - c)) BY <1>3, <1>4
<1> QED BY <1>2, <1>4, <1>5, <1>6, <1>7, <1>8, <1>9, <1>10 DEF k, n

LEMMA MessageConcat ==
  \A s, t \in Seq(Message) : /\ s \o t \in Seq(Message) /\ Len(s \o t) = Len(s) + Len(t)
                             /\ \A i \in 1 .. Len(s) : (s \o t)[i] = s[i]
                             /\ \A i \in 1 .. Len(t) : (s \o t)[Len(s) + i] = t[i]
BY Concat

LEMMA MessageAssociates == \A r, s, t \in Seq(Message) : (r \o s) \o t = r \o (s \o t)
BY Associates

LEMMA MessageAppend ==
  \A s \in Seq(Message), x \in Message : /\ Append(s, x) \in Seq(Message) /\ Append(s, x) = s \o <<x>> /\ <<x>> \in Seq(Message)
                                    /\ Len(Append(s, x)) = Len(s) + 1 /\ Append(s, x)[Len(s) + 1] = x
                                    /\ \A i \in 1 .. Len(s) : Append(s, x)[i] = s[i]
<1>1. \A x \in Message : <<x>> \in Seq(Message) OBVIOUS
<1> QED BY <1>1, Appended

LEMMA ContentConcat ==
  \A s, t \in Seq(Content) : /\ s \o t \in Seq(Content) /\ Len(s \o t) = Len(s) + Len(t)
                             /\ \A i \in 1 .. Len(s) : (s \o t)[i] = s[i]
                             /\ \A i \in 1 .. Len(t) : (s \o t)[Len(s) + i] = t[i]
BY Concat

LEMMA ContentAssociates == \A r, s, t \in Seq(Content) : (r \o s) \o t = r \o (s \o t)
BY Associates

LEMMA ContentAppend ==
  \A s \in Seq(Content), x \in Content : /\ Append(s, x) \in Seq(Content) /\ Append(s, x) = s \o <<x>> /\ <<x>> \in Seq(Content)
                                    /\ Len(Append(s, x)) = Len(s) + 1 /\ Append(s, x)[Len(s) + 1] = x
                                    /\ \A i \in 1 .. Len(s) : Append(s, x)[i] = s[i]
<1>1. \A x \in Content : <<x>> \in Seq(Content) OBVIOUS
<1> QED BY <1>1, Appended

-----------------------------------------------------------------------------
(* Types.                                                                  *)

LEMMA TypeParts ==
  /\ TypeInv <=> /\ PylonTypes /\ LineTypes /\ NameTypes /\ WhereTypes /\ CountTypes /\ HistoryTypes /\ Movers
  /\ TypeInv' <=> /\ PylonTypes' /\ LineTypes' /\ NameTypes' /\ WhereTypes' /\ CountTypes' /\ HistoryTypes' /\ Movers'
BY DEF TypeInv, TypeOK

\* What a step leaves alone keeps its type.
LEMMA Alone ==
  /\ PylonTypes /\ UNCHANGED pylon => PylonTypes'
  /\ LineTypes /\ UNCHANGED <<outbound, inbound, serving, toServer, toPylon>> => LineTypes'
  /\ NameTypes /\ UNCHANGED <<receivers, table>> => NameTypes'
  /\ WhereTypes /\ UNCHANGED where => WhereTypes'
  /\ CountTypes /\ UNCHANGED <<count, moved, restarted>> => CountTypes'
  /\ HistoryTypes /\ UNCHANGED history => HistoryTypes'
  /\ Movers /\ UNCHANGED <<where, moved>> => Movers'
BY DEF PylonTypes, LineTypes, NameTypes, WhereTypes, CountTypes, HistoryTypes, Movers, pylon, history

LEMMA PlaceFields ==
  /\ \A x \in Place : x.step \in Steps /\ x.node \in Pylons
  /\ \A s \in Steps, p \in Pylons : [step |-> s, node |-> p] \in Place
                                    /\ [step |-> s, node |-> p].step = s /\ [step |-> s, node |-> p].node = p
BY DEF Place

LEMMA WhereFacts ==
  ASSUME WhereTypes, NEW e \in Entities
  PROVE  where[e] \in Place /\ where[e].step \in Steps /\ where[e].node \in Pylons
BY PlaceFields DEF WhereTypes

\* A step of an entity: it stays where it is.
LEMMA GoesOn ==
  ASSUME WhereTypes, NEW e \in Entities, NEW s \in Steps, Goes(e, s)
  PROVE  /\ WhereTypes'
         /\ where'[e].step = s /\ where'[e].node = where[e].node
         /\ \A f \in Entities : f # e => where'[f] = where[f]
         /\ \A f \in Entities : where'[f].node = where[f].node
<1>1. where[e] = [step |-> where[e].step, node |-> where[e].node] /\ where[e].node \in Pylons
  BY DEF WhereTypes, Place
<1>2. where' = [where EXCEPT ![e] = [step |-> s, node |-> where[e].node]]
  <2>1. [where[e] EXCEPT !.step = s] = [step |-> s, node |-> where[e].node] BY <1>1
  <2>2. where' = [where EXCEPT ![e] = [where[e] EXCEPT !.step = s]] BY DEF Goes
  <2> QED BY <2>1, <2>2
<1>3. [step |-> s, node |-> where[e].node] \in Place BY <1>1, PlaceFields
<1> QED BY <1>2, <1>3, PlaceFields DEF WhereTypes

\* An entity is started somewhere.
LEMMA GoesTo ==
  ASSUME WhereTypes, NEW e \in Entities, NEW p \in Pylons, NEW s \in Steps,
         where' = [where EXCEPT ![e] = [step |-> s, node |-> p]]
  PROVE  /\ WhereTypes'
         /\ where'[e].step = s /\ where'[e].node = p
         /\ \A f \in Entities : f # e => where'[f] = where[f]
BY PlaceFields DEF WhereTypes

LEMMA TypeInvInit == Init => TypeInv
<1> SUFFICES ASSUME Init PROVE TypeInv OBVIOUS
<1>1. PylonTypes BY DEF Init, PylonTypes
<1>2. LineTypes BY DEF Init, LineTypes
<1>3. NameTypes BY DEF Init, NameTypes
<1>4. WhereTypes
  <2>1. \A e \in Entities : (IF e \in Agents THEN Home[e] ELSE e) \in Pylons BY NamesAssumption DEF Entities
  <2>2. \A e \in Entities : where[e] \in Place BY <2>1, PlaceFields DEF Init, Steps
  <2> QED BY <2>2 DEF Init, WhereTypes
<1>5. CountTypes BY BoundsAssumption DEF Init, CountTypes
<1>6. HistoryTypes BY DEF Init, HistoryTypes
<1>7. Movers BY DEF Init, Movers, Entities
<1> QED BY <1>1, <1>2, <1>3, <1>4, <1>5, <1>6, <1>7, TypeParts

LEMMA LostTypes ==
  ASSUME HistoryTypes, NEW m \in Message, Drop(m), UNCHANGED <<received, calm>>
  PROVE  HistoryTypes'
BY MessageKinds DEF HistoryTypes, Drop

\* The elements of the lines.
LEMMA LineFacts ==
  ASSUME LineTypes, NEW p \in Pylons
  PROVE  /\ outbound[p] \in Seq(Message) /\ toServer[p] \in Seq(Message)
         /\ inbound[p] \in Seq(Content) /\ toPylon[p] \in Seq(Content)
         /\ serving[p] \in Content \cup {Nobody}
         /\ outbound[p] # <<>> => Head(outbound[p]) \in Message /\ Tail(outbound[p]) \in Seq(Message)
         /\ toServer[p] # <<>> => Head(toServer[p]) \in Message /\ Tail(toServer[p]) \in Seq(Message)
         /\ inbound[p] # <<>> => Head(inbound[p]) \in Content /\ Tail(inbound[p]) \in Seq(Content)
         /\ toPylon[p] # <<>> => Head(toPylon[p]) \in Content /\ Tail(toPylon[p]) \in Seq(Content)
<1>1. /\ outbound[p] \in Seq(Message) /\ toServer[p] \in Seq(Message)
      /\ inbound[p] \in Seq(Content) /\ toPylon[p] \in Seq(Content)
      /\ serving[p] \in Content \cup {Nobody}
  BY DEF LineTypes
<1> QED BY <1>1, HeadTail

LEMMA ContentIsMessage == Content \subseteq Message /\ Seq(Content) \subseteq Seq(Message)
BY DEF Message

LEMMA LocalFacts ==
  ASSUME NameTypes, NEW p \in Pylons, NEW m \in Message, Local(p, m)
  PROVE  m \in Content /\ m.to \in receivers[p] /\ m.to \in Entities
BY MessageKinds DEF Local, NameTypes

LEMMA TypesOpen ==
  ASSUME TypeInv, NEW p \in Pylons, Open(p)
  PROVE  TypeInv'
BY TypeParts, Alone DEF Open, PylonTypes, thread, network, agents

LEMMA TypesSuspend ==
  ASSUME TypeInv, NEW p \in Pylons, Suspend(p)
  PROVE  TypeInv'
BY TypeParts, Alone DEF Suspend, PylonTypes, thread, network, agents

LEMMA TypesStop ==
  ASSUME TypeInv, NEW p \in Pylons, Stop(p)
  PROVE  TypeInv'
<1>1. PylonTypes' BY TypeParts DEF Stop, PylonTypes
<1>2. HistoryTypes' BY TypeParts DEF Stop, HistoryTypes
<1> QED BY <1>1, <1>2, TypeParts, Alone DEF Stop, thread, network, agents

LEMMA TypesClose ==
  ASSUME TypeInv, NEW p \in Pylons, Close(p)
  PROVE  TypeInv'
<1>1. PylonTypes' BY TypeParts DEF Close, PylonTypes
<1>2. PICK n \in 0 .. Len(toServer[p]) :
          /\ toServer' = [toServer EXCEPT ![p] = SubSeq(@, 1, n)]
          /\ lost' = lost \cup {toPylon[p][i] : i \in DOMAIN toPylon[p]}
                          \cup ({toServer[p][i] : i \in n + 1 .. Len(toServer[p])} \ Registration)
  BY DEF Close
<1>3. toServer[p] \in Seq(Message) /\ toPylon[p] \in Seq(Content) BY TypeParts, LineFacts
<1>4. LineTypes'
  <2>1. SubSeq(toServer[p], 1, n) \in Seq(Message) BY <1>3, Prefix
  <2> QED BY <1>2, <2>1, TypeParts DEF Close, LineTypes, thread
<1>5. HistoryTypes'
  <2>1. \A i \in n + 1 .. Len(toServer[p]) : toServer[p][i] \in Message BY <1>3, ElementIn
  <2>2. \A i \in DOMAIN toPylon[p] : toPylon[p][i] \in Content BY <1>3
  <2>3. {toPylon[p][i] : i \in DOMAIN toPylon[p]} \subseteq Content BY <2>2
  <2>4. {toServer[p][i] : i \in n + 1 .. Len(toServer[p])} \ Registration \subseteq Content
    BY <2>1, MessageKinds
  <2> QED BY <1>2, <2>3, <2>4, TypeParts DEF Close, HistoryTypes
<1> QED BY <1>1, <1>4, <1>5, TypeParts, Alone DEF Close, agents

LEMMA TypesServeOutbound ==
  ASSUME TypeInv, NEW p \in Pylons, ServeOutbound(p)
  PROVE  TypeInv'
<1> DEFINE m == Head(outbound[p])
<1>1. m \in Message /\ Tail(outbound[p]) \in Seq(Message) /\ toServer[p] \in Seq(Message)
  BY TypeParts, LineFacts DEF ServeOutbound
<1>2. Local(p, m) => m \in Content BY <1>1, TypeParts, LocalFacts
<1>3. \/ Local(p, m) /\ serving' = [serving EXCEPT ![p] = m] /\ UNCHANGED <<toServer, lost>>
      \/ UNCHANGED <<serving, lost>> /\ toServer' = [toServer EXCEPT ![p] = Append(@, m)]
      \/ UNCHANGED <<serving, toServer>> /\ Drop(m)
  BY DEF ServeOutbound
<1>4. outbound' = [outbound EXCEPT ![p] = Tail(@)] /\ UNCHANGED <<pylon, inbound, receivers, toPylon, table, agents, received, calm>>
  BY DEF ServeOutbound
<1> HIDE DEF m
<1>5. Append(toServer[p], m) \in Seq(Message) BY <1>1, Appended
<1>6. LineTypes' BY <1>1, <1>2, <1>3, <1>4, <1>5, TypeParts DEF LineTypes
<1>7. HistoryTypes' BY <1>1, <1>3, <1>4, TypeParts, LostTypes DEF HistoryTypes
<1> QED BY <1>4, <1>6, <1>7, TypeParts, Alone DEF agents

LEMMA TypesServeInbound ==
  ASSUME TypeInv, NEW p \in Pylons, ServeInbound(p)
  PROVE  TypeInv'
<1> DEFINE m == Head(inbound[p])
<1>1. m \in Content /\ m \in Message /\ Tail(inbound[p]) \in Seq(Content)
  BY TypeParts, LineFacts, ContentIsMessage DEF ServeInbound
<1>2. \/ serving' = [serving EXCEPT ![p] = m] /\ UNCHANGED lost
      \/ UNCHANGED serving /\ Drop(m)
  BY DEF ServeInbound
<1>3. inbound' = [inbound EXCEPT ![p] = Tail(@)] /\ UNCHANGED <<pylon, outbound, receivers, network, agents, received, calm>>
  BY DEF ServeInbound
<1> HIDE DEF m
<1>4. LineTypes' BY <1>1, <1>2, <1>3, TypeParts DEF LineTypes, network
<1>5. HistoryTypes' BY <1>1, <1>2, <1>3, TypeParts, LostTypes DEF HistoryTypes
<1> QED BY <1>3, <1>4, <1>5, TypeParts, Alone DEF network, agents

\* What a delivery does: the wave is dropped, or taken, or an agent is started.
LEMMA DeliverCases ==
  ASSUME TypeInv, NEW p \in Pylons, Deliver(p)
  PROVE  /\ serving[p] \in Content
         /\ serving' = [serving EXCEPT ![p] = Nobody]
         /\ UNCHANGED <<pylon, outbound, inbound, receivers, network, count, moved, restarted, calm>>
         /\ \/ Drop(serving[p]) /\ UNCHANGED <<received, where>>
            \/ /\ serving[p] \in Wave /\ Local(p, serving[p]) /\ ~Refuses(serving[p].to, p)
               /\ received' = [received EXCEPT ![serving[p].to] = Append(@, [wave |-> serving[p], by |-> p])]
               /\ UNCHANGED <<lost, where>>
            \/ /\ serving[p] \in Transit /\ Local(p, serving[p])
               /\ where' = [where EXCEPT ![serving[p].from] = [step |-> "putting", node |-> p]]
               /\ UNCHANGED <<received, lost>>
<1>1. serving[p] \in Content BY TypeParts, LineFacts DEF Deliver
<1>2. (serving[p].kind = "wave" => serving[p] \in Wave) /\ (serving[p].kind = "agent" => serving[p] \in Transit)
  BY <1>1, MessageKinds
<1> QED BY <1>1, <1>2 DEF Deliver, Receive

LEMMA TypesDeliver ==
  ASSUME TypeInv, NEW p \in Pylons, Deliver(p)
  PROVE  TypeInv'
<1> DEFINE m == serving[p]
<1>1. /\ m \in Content
      /\ serving' = [serving EXCEPT ![p] = Nobody]
      /\ UNCHANGED <<pylon, outbound, inbound, receivers, network, count, moved, restarted, calm>>
      /\ \/ Drop(m) /\ UNCHANGED <<received, where>>
         \/ /\ m \in Wave
            /\ received' = [received EXCEPT ![m.to] = Append(@, [wave |-> m, by |-> p])]
            /\ UNCHANGED <<lost, where>>
         \/ /\ m \in Transit
            /\ where' = [where EXCEPT ![m.from] = [step |-> "putting", node |-> p]]
            /\ UNCHANGED <<received, lost>>
  BY DeliverCases
<1> HIDE DEF m
<1>2. LineTypes' BY <1>1, TypeParts DEF LineTypes, network
<1>3. HistoryTypes' /\ WhereTypes' /\ Movers'
  <2>1. CASE Drop(m) /\ UNCHANGED <<received, where>>
    BY <1>1, <2>1, TypeParts, Alone, LostTypes, MessageKinds DEF Movers
  <2>2. CASE /\ m \in Wave
             /\ received' = [received EXCEPT ![m.to] = Append(@, [wave |-> m, by |-> p])]
             /\ UNCHANGED <<lost, where>>
    <3>1. m.to \in Agents BY <2>2, WaveFields
    <3>2. [wave |-> m, by |-> p] \in Receipt /\ received[m.to] \in Seq(Receipt)
      BY <2>2, <3>1, TypeParts DEF Receipt, HistoryTypes
    <3>3. Append(received[m.to], [wave |-> m, by |-> p]) \in Seq(Receipt) BY <3>2, Appended
    <3>4. HistoryTypes' BY <1>1, <2>2, <3>1, <3>3, TypeParts DEF HistoryTypes
    <3> QED BY <1>1, <2>2, <3>4, TypeParts, Alone DEF Movers
  <2>3. CASE /\ m \in Transit
             /\ where' = [where EXCEPT ![m.from] = [step |-> "putting", node |-> p]]
             /\ UNCHANGED <<received, lost>>
    <3>1. m.from \in Entities BY <2>3, TransitFields DEF Entities
    <3>2. /\ WhereTypes' /\ where'[m.from].step = "putting"
          /\ \A f \in Entities : f # m.from => where'[f] = where[f]
      BY <2>3, <3>1, TypeParts, GoesTo DEF Steps
    <3>3. Movers'
      <4> SUFFICES ASSUME NEW a \in Agents, where'[a].step \in {"stopping", "removed"} PROVE moved'[a] >= 1
        BY DEF Movers
      <4>1. where'[a] = where[a] BY <3>2 DEF Entities
      <4> QED BY <1>1, <4>1, TypeParts DEF Movers
    <3> QED BY <1>1, <2>3, <3>2, <3>3, TypeParts, Alone DEF history
  <2> QED BY <1>1, <2>1, <2>2, <2>3
<1> QED BY <1>1, <1>2, <1>3, TypeParts, Alone DEF network

LEMMA TypesRead ==
  ASSUME TypeInv, NEW p \in Pylons, Read(p)
  PROVE  TypeInv'
<1>1. /\ inbound[p] \in Seq(Content) /\ Head(toPylon[p]) \in Content /\ Tail(toPylon[p]) \in Seq(Content)
  BY TypeParts, LineFacts DEF Read
<1>2. Append(inbound[p], Head(toPylon[p])) \in Seq(Content) BY <1>1, Appended
<1>3. LineTypes' BY <1>1, <1>2, TypeParts DEF LineTypes, Read
<1> QED BY <1>3, TypeParts, Alone DEF Read, agents

\* What the server does with the first message of a socket.
LEMMA ServerCases ==
  ASSUME TypeInv, NEW p \in Pylons, Server(p)
  PROVE  /\ Incoming(p) \in Message /\ toServer[p] # <<>>
         /\ toServer' = [toServer EXCEPT ![p] = Tail(@)]
         /\ UNCHANGED <<pylon, outbound, thread, receivers, agents, received, calm>>
         /\ \/ /\ Incoming(p).kind = "reg" /\ Incoming(p) \in Registration
               /\ table' = [table EXCEPT ![Incoming(p).from] = p] /\ UNCHANGED <<toPylon, lost>>
            \/ /\ Incoming(p).kind = "unreg" /\ Incoming(p) \in Registration
               /\ table' = [table EXCEPT ![Incoming(p).from] = IF @ = p THEN Nobody ELSE @]
               /\ UNCHANGED <<toPylon, lost>>
            \/ /\ Incoming(p) \in Content /\ UNCHANGED table
               /\ \/ /\ table[Incoming(p).to] \in Pylons /\ conn[table[Incoming(p).to]] = "open"
                     /\ toPylon' = [toPylon EXCEPT ![table[Incoming(p).to]] = Append(@, Incoming(p))]
                     /\ UNCHANGED lost
                  \/ /\ table[Incoming(p).to] = Nobody \/ conn[table[Incoming(p).to]] # "open"
                     /\ Drop(Incoming(p)) /\ UNCHANGED toPylon
<1>1. toServer[p] # <<>> /\ Incoming(p) \in Message BY TypeParts, LineFacts DEF Server, Incoming
<1>2. /\ Incoming(p).kind \in {"reg", "unreg"} => Incoming(p) \in Registration
      /\ Incoming(p).kind \in {"wave", "agent"} => Incoming(p) \in Content /\ Incoming(p).to \in Entities
  BY <1>1, MessageKinds DEF Content
<1>3. Incoming(p).to \in Entities => table[Incoming(p).to] \in Pylons \cup {Nobody} BY TypeParts DEF NameTypes
<1> QED BY <1>1, <1>2, <1>3 DEF Server, ServerRegister, ServerUnregister, ServerRoute

LEMMA TypesServer ==
  ASSUME TypeInv, NEW p \in Pylons, Server(p)
  PROVE  TypeInv'
<1> DEFINE m == Incoming(p)
<1>1. /\ m \in Message /\ toServer[p] # <<>>
      /\ toServer' = [toServer EXCEPT ![p] = Tail(@)]
      /\ UNCHANGED <<pylon, outbound, thread, receivers, agents, received, calm>>
      /\ \/ /\ m \in Registration
            /\ table' = [table EXCEPT ![m.from] = p] /\ UNCHANGED <<toPylon, lost>>
         \/ /\ m \in Registration
            /\ table' = [table EXCEPT ![m.from] = IF @ = p THEN Nobody ELSE @]
            /\ UNCHANGED <<toPylon, lost>>
         \/ /\ m \in Content /\ UNCHANGED table
            /\ \/ /\ table[m.to] \in Pylons
                  /\ toPylon' = [toPylon EXCEPT ![table[m.to]] = Append(@, m)]
                  /\ UNCHANGED lost
               \/ Drop(m) /\ UNCHANGED toPylon
  BY ServerCases
<1> HIDE DEF m
<1>2. Tail(toServer[p]) \in Seq(Message) BY <1>1, TypeParts, LineFacts
<1>3. \A q \in Pylons : m \in Content => Append(toPylon[q], m) \in Seq(Content)
  BY TypeParts, LineFacts, Appended
<1>4. LineTypes' BY <1>1, <1>2, <1>3, TypeParts DEF LineTypes, thread
<1>5. NameTypes'
  <2>1. m \in Registration => m.from \in Entities BY RegistrationFields
  <2> QED BY <1>1, <2>1, TypeParts DEF NameTypes
<1>6. HistoryTypes' BY <1>1, TypeParts, LostTypes DEF HistoryTypes
<1> QED BY <1>1, <1>4, <1>5, <1>6, TypeParts, Alone DEF agents

LEMMA AppendTypes ==
  ASSUME LineTypes, NEW p \in Pylons, NEW m \in Message, outbound' = [outbound EXCEPT ![p] = Append(@, m)],
         UNCHANGED <<thread, network>>
  PROVE  LineTypes'
<1>1. Append(outbound[p], m) \in Seq(Message) BY LineFacts, Appended
<1> QED BY <1>1 DEF LineTypes, thread, network

LEMMA TypesPut ==
  ASSUME TypeInv, NEW e \in Entities, Put(e)
  PROVE  TypeInv'
<1>1. where[e].node \in Pylons BY TypeParts, WhereFacts
<1>2. Goes(e, "in") \/ Goes(e, "adding") BY DEF Put
<1>3. WhereTypes' /\ where'[e].step \in {"in", "adding"} /\ \A f \in Entities : f # e => where'[f] = where[f]
  BY <1>2, TypeParts, GoesOn DEF Steps
<1>4. Movers' BY <1>3, TypeParts DEF Movers, Entities, Put
<1>5. NameTypes' BY <1>1, TypeParts DEF NameTypes, Put, network
<1> QED BY <1>3, <1>4, <1>5, TypeParts, Alone DEF Put, thread, network, history

LEMMA TypesAdd ==
  ASSUME TypeInv, NEW e \in Entities, Add(e)
  PROVE  TypeInv'
<1>1. where[e].node \in Pylons BY TypeParts, WhereFacts
<1>2. WhereTypes' /\ where'[e].step = "in" /\ \A f \in Entities : f # e => where'[f] = where[f]
  BY TypeParts, GoesOn DEF Steps, Add
<1>3. Movers' BY <1>2, TypeParts DEF Movers, Entities, Add
<1>4. LineTypes'
  <2>1. [kind |-> "reg", from |-> e] \in Message BY RegistrationFields, MessageKinds
  <2> QED BY <1>1, <2>1, TypeParts, AppendTypes DEF Add
<1> QED BY <1>2, <1>3, <1>4, TypeParts, Alone DEF Add, network, history

LEMMA TypesPostMove ==
  ASSUME TypeInv, NEW a \in Agents, PostMove(a)
  PROVE  TypeInv'
<1>1. WhereTypes' /\ \A f \in Entities : f # a => where'[f] = where[f]
  BY TypeParts, GoesOn DEF Steps, PostMove, Entities
<1>2. moved' = [moved EXCEPT ![a] = @ + 1] /\ moved[a] < Moves[a] /\ moved[a] \in Nat /\ Moves[a] \in Nat
  BY TypeParts, BoundsAssumption DEF PostMove, CountTypes
<1>3. CountTypes' BY <1>2, TypeParts DEF PostMove, CountTypes
<1>4. Movers'
  <2> SUFFICES ASSUME NEW b \in Agents, where'[b].step \in {"stopping", "removed"} PROVE moved'[b] >= 1
    BY DEF Movers
  <2>1. moved'[a] = moved[a] + 1 /\ (b # a => moved'[b] = moved[b]) BY <1>2, TypeParts DEF CountTypes
  <2>2. b # a => where'[b] = where[b] BY <1>1 DEF Entities
  <2> QED BY <1>2, <2>1, <2>2, TypeParts DEF Movers
<1>5. HistoryTypes' BY TypeParts DEF HistoryTypes, PostMove
<1> QED BY <1>1, <1>3, <1>4, <1>5, TypeParts, Alone DEF PostMove, thread, network

LEMMA TypesRemove ==
  ASSUME TypeInv, NEW a \in Agents, Remove(a)
  PROVE  TypeInv'
<1>1. a \in Entities /\ where[a].node \in Pylons BY TypeParts, WhereFacts DEF Entities
<1>2. WhereTypes' /\ \A f \in Entities : f # a => where'[f] = where[f]
  BY <1>1, TypeParts, GoesOn DEF Steps, Remove
<1>3. Movers'
  <2> SUFFICES ASSUME NEW b \in Agents, where'[b].step \in {"stopping", "removed"} PROVE moved'[b] >= 1
    BY DEF Movers
  <2>1. b # a => where'[b] = where[b] BY <1>2 DEF Entities
  <2> QED BY <2>1, TypeParts DEF Movers, Remove
<1>4. NameTypes' BY <1>1, TypeParts DEF NameTypes, Remove, network
<1> QED BY <1>2, <1>3, <1>4, TypeParts, Alone DEF Remove, thread, network, history

\* What an agent sends after its registration: itself.
LEMMA LeaveSends ==
  ASSUME TypeInv, NEW a \in Agents, Leave(a)
  PROVE  /\ a \in Entities /\ where[a].node \in Pylons /\ where[a].step = "removed"
         /\ Goes(a, "away")
         /\ UNCHANGED <<pylon, thread, receivers, network, count, moved, restarted, received, lost>>
         /\ \E q \in Destinations(where[a].node) : \E m \in Transit :
               /\ m.from = a /\ m.nr = moved[a] /\ m.to = q /\ q \in Pylons
               /\ [kind |-> "unreg", from |-> a] \in Registration
               /\ outbound' = [outbound EXCEPT ![where[a].node] = @ \o <<[kind |-> "unreg", from |-> a], m>>]
               /\ calm' = IF Settled(q) /\ Connected(where[a].node) THEN calm \cup {m} ELSE calm
<1>1. a \in Entities /\ where[a].node \in Pylons /\ where[a].step = "removed"
  BY TypeParts, WhereFacts DEF Entities, Leave
<1>2. moved[a] \in 1 .. Moves[a] BY <1>1, TypeParts, BoundsAssumption DEF Movers, CountTypes
<1>3. PICK q \in Destinations(where[a].node) :
          LET m == [kind |-> "agent", from |-> a, nr |-> moved[a], to |-> q] IN
          /\ outbound' = [outbound EXCEPT ![where[a].node] = @ \o <<[kind |-> "unreg", from |-> a], m>>]
          /\ calm' = IF Settled(q) /\ Connected(where[a].node) THEN calm \cup {m} ELSE calm
  BY DEF Leave
<1>4. q \in Pylons BY DEF Destinations
<1> DEFINE m == [kind |-> "agent", from |-> a, nr |-> moved[a], to |-> q]
<1>5. m \in Transit /\ m.from = a /\ m.nr = moved[a] /\ m.to = q BY <1>2, <1>4, TransitFields
<1>6. [kind |-> "unreg", from |-> a] \in Registration BY <1>1, RegistrationFields
<1>7. /\ outbound' = [outbound EXCEPT ![where[a].node] = @ \o <<[kind |-> "unreg", from |-> a], m>>]
      /\ calm' = IF Settled(q) /\ Connected(where[a].node) THEN calm \cup {m} ELSE calm
  BY <1>3
<1> HIDE DEF m
<1>8. /\ Goes(a, "away")
      /\ UNCHANGED <<pylon, thread, receivers, network, count, moved, restarted, received, lost>>
  BY DEF Leave
<1>9. \E n \in Transit :
             /\ n.from = a /\ n.nr = moved[a] /\ n.to = q /\ q \in Pylons
             /\ [kind |-> "unreg", from |-> a] \in Registration
             /\ outbound' = [outbound EXCEPT ![where[a].node] = @ \o <<[kind |-> "unreg", from |-> a], n>>]
             /\ calm' = IF Settled(q) /\ Connected(where[a].node) THEN calm \cup {n} ELSE calm
  BY <1>4, <1>5, <1>6, <1>7
<1> QED BY <1>1, <1>8, <1>9

LEMMA TypesLeave ==
  ASSUME TypeInv, NEW a \in Agents, Leave(a)
  PROVE  TypeInv'
<1>1. /\ a \in Entities /\ where[a].node \in Pylons
      /\ Goes(a, "away")
      /\ UNCHANGED <<pylon, thread, receivers, network, count, moved, restarted, received, lost>>
  BY LeaveSends
<1>2. \E q \in Destinations(where[a].node) : \E m \in Transit :
             /\ m.from = a /\ m.nr = moved[a] /\ m.to = q /\ q \in Pylons
             /\ [kind |-> "unreg", from |-> a] \in Registration
             /\ outbound' = [outbound EXCEPT ![where[a].node] = @ \o <<[kind |-> "unreg", from |-> a], m>>]
             /\ calm' = IF Settled(q) /\ Connected(where[a].node) THEN calm \cup {m} ELSE calm
  BY LeaveSends
<1> PICK q \in Destinations(where[a].node) : \E m \in Transit :
             /\ m.from = a /\ m.nr = moved[a] /\ m.to = q /\ q \in Pylons
             /\ [kind |-> "unreg", from |-> a] \in Registration
             /\ outbound' = [outbound EXCEPT ![where[a].node] = @ \o <<[kind |-> "unreg", from |-> a], m>>]
             /\ calm' = IF Settled(q) /\ Connected(where[a].node) THEN calm \cup {m} ELSE calm
  BY <1>2
<1>9. PICK m \in Transit :
             /\ m.from = a /\ m.nr = moved[a] /\ m.to = q /\ q \in Pylons
             /\ [kind |-> "unreg", from |-> a] \in Registration
             /\ outbound' = [outbound EXCEPT ![where[a].node] = @ \o <<[kind |-> "unreg", from |-> a], m>>]
             /\ calm' = IF Settled(q) /\ Connected(where[a].node) THEN calm \cup {m} ELSE calm
  OBVIOUS
<1>3. WhereTypes' /\ where'[a].step = "away" /\ \A f \in Entities : f # a => where'[f] = where[f]
  BY <1>1, TypeParts, GoesOn DEF Steps
<1>4. Movers'
  <2> SUFFICES ASSUME NEW b \in Agents, where'[b].step \in {"stopping", "removed"} PROVE moved'[b] >= 1
    BY DEF Movers
  <2>1. where'[b] = where[b] BY <1>3 DEF Entities
  <2> QED BY <1>1, <2>1, TypeParts DEF Movers
<1>5. LineTypes'
  <2> DEFINE u == [kind |-> "unreg", from |-> a]
  <2>1. u \in Message /\ m \in Message /\ outbound[where[a].node] \in Seq(Message)
    BY <1>1, <1>9, TypeParts, LineFacts DEF Message, Content
  <2> HIDE DEF u
  <2>2. <<u, m>> \in Seq(Message) BY <2>1
  <2>3. outbound[where[a].node] \o <<u, m>> \in Seq(Message) BY <2>1, <2>2, Concat
  <2>4. outbound' = [outbound EXCEPT ![where[a].node] = @ \o <<u, m>>] BY <1>9 DEF u
  <2> QED BY <1>1, <2>3, <2>4, TypeParts DEF LineTypes, thread, network
<1>6. HistoryTypes'
  <2>1. m \in Content BY DEF Content
  <2> QED BY <1>1, <1>9, <2>1, TypeParts DEF HistoryTypes
<1> QED BY <1>1, <1>3, <1>4, <1>5, <1>6, TypeParts, Alone DEF network

LEMMA SendSends ==
  ASSUME TypeInv, NEW a \in Agents, Send(a)
  PROVE  /\ a \in Entities /\ where[a].node \in Pylons /\ where[a].step \in {"in", "stopping"}
         /\ count[a] < Quota[a] /\ count' = [count EXCEPT ![a] = @ + 1]
         /\ UNCHANGED <<pylon, thread, receivers, network, where, moved, restarted, received, lost>>
         /\ \E m \in Wave :
               /\ m.from = a /\ m.nr = count[a] + 1 /\ m.to # a
               /\ outbound' = [outbound EXCEPT ![where[a].node] = Append(@, m)]
               /\ calm' = IF Settled(m.to) /\ Connected(where[a].node) THEN calm \cup {m} ELSE calm
<1>1. a \in Entities /\ where[a].node \in Pylons /\ where[a].step \in {"in", "stopping"}
  BY TypeParts, WhereFacts DEF Entities, Send
<1>2. count[a] + 1 \in 1 .. Quota[a] BY TypeParts, BoundsAssumption DEF CountTypes, Send
<1>3. PICK b \in Agents \ {a} :
          LET m == [kind |-> "wave", from |-> a, nr |-> count[a] + 1, to |-> b] IN
          /\ outbound' = [outbound EXCEPT ![where[a].node] = Append(@, m)]
          /\ calm' = IF Settled(b) /\ Connected(where[a].node) THEN calm \cup {m} ELSE calm
  BY DEF Send
<1> DEFINE m == [kind |-> "wave", from |-> a, nr |-> count[a] + 1, to |-> b]
<1>4. m \in Wave /\ m.from = a /\ m.nr = count[a] + 1 /\ m.to = b BY <1>2, WaveFields
<1>5. /\ outbound' = [outbound EXCEPT ![where[a].node] = Append(@, m)]
      /\ calm' = IF Settled(m.to) /\ Connected(where[a].node) THEN calm \cup {m} ELSE calm
  BY <1>3, <1>4
<1> HIDE DEF m
<1> QED BY <1>1, <1>4, <1>5 DEF Send

LEMMA TypesSend ==
  ASSUME TypeInv, NEW a \in Agents, Send(a)
  PROVE  TypeInv'
<1>1. /\ a \in Entities /\ where[a].node \in Pylons
      /\ count[a] < Quota[a] /\ count' = [count EXCEPT ![a] = @ + 1]
      /\ UNCHANGED <<pylon, thread, receivers, network, where, moved, restarted, received, lost>>
  BY SendSends
<1>2. PICK m \in Wave :
             /\ outbound' = [outbound EXCEPT ![where[a].node] = Append(@, m)]
             /\ calm' = IF Settled(m.to) /\ Connected(where[a].node) THEN calm \cup {m} ELSE calm
  BY SendSends
<1>3. m \in Message /\ m \in Content BY DEF Message, Content
<1>4. LineTypes' BY <1>1, <1>2, <1>3, TypeParts, AppendTypes
<1>5. CountTypes' BY <1>1, TypeParts, BoundsAssumption DEF CountTypes
<1>6. HistoryTypes' BY <1>1, <1>2, <1>3, TypeParts DEF HistoryTypes
<1> QED BY <1>1, <1>4, <1>5, <1>6, TypeParts, Alone DEF network

LEMMA RestartGoes ==
  ASSUME TypeInv, NEW a \in Agents, Restart(a)
  PROVE  /\ a \in MayRestart \ restarted /\ restarted' = restarted \cup {a}
         /\ \A p \in Pylons : ~InSeq(toServer[p], [kind |-> "reg", from |-> a])
         /\ \E q \in Pylons : /\ conn[q] = "open" /\ WhereTypes' /\ where'[a].step = "putting" /\ where'[a].node = q
                              /\ \A f \in Entities : f # a => where'[f] = where[f]
         /\ UNCHANGED <<pylon, outbound, thread, receivers, network, count, moved, history>>
<1>1. PICK q \in Pylons : conn[q] = "open" /\ where' = [where EXCEPT ![a] = [step |-> "putting", node |-> q]]
  BY DEF Restart
<1>2. /\ WhereTypes' /\ where'[a].step = "putting" /\ where'[a].node = q
      /\ \A f \in Entities : f # a => where'[f] = where[f]
  BY <1>1, TypeParts, GoesTo DEF Entities, Steps
<1> QED BY <1>1, <1>2 DEF Restart

LEMMA TypesRestart ==
  ASSUME TypeInv, NEW a \in Agents, Restart(a)
  PROVE  TypeInv'
<1>1. /\ WhereTypes' /\ where'[a].step = "putting"
      /\ \A f \in Entities : f # a => where'[f] = where[f]
      /\ UNCHANGED <<pylon, outbound, thread, receivers, network, count, moved, history>>
      /\ restarted' = restarted \cup {a} /\ a \in MayRestart
  BY RestartGoes
<1>2. Movers'
  <2> SUFFICES ASSUME NEW b \in Agents, where'[b].step \in {"stopping", "removed"} PROVE moved'[b] >= 1
    BY DEF Movers
  <2>1. where'[b] = where[b] BY <1>1 DEF Entities
  <2> QED BY <1>1, <2>1, TypeParts DEF Movers
<1>3. CountTypes' BY <1>1, TypeParts DEF CountTypes
<1> QED BY <1>1, <1>2, <1>3, TypeParts, Alone DEF thread, network

LEMMA TypesStopCopy ==
  ASSUME TypeInv, NEW a \in Agents, StopCopy(a)
  PROVE  TypeInv'
<1>1. PICK p \in Pylons :
          /\ receivers' = [receivers EXCEPT ![p] = @ \ {a}]
          /\ outbound' = [outbound EXCEPT ![p] = Append(@, [kind |-> "unreg", from |-> a])]
          /\ UNCHANGED <<pylon, thread, network, agents, history>>
  BY DEF StopCopy
<1>2. [kind |-> "unreg", from |-> a] \in Message BY RegistrationFields, MessageKinds DEF Entities
<1>3. LineTypes' BY <1>1, <1>2, TypeParts, AppendTypes
<1>4. NameTypes' BY <1>1, TypeParts DEF NameTypes, network
<1> QED BY <1>1, <1>3, <1>4, TypeParts, Alone DEF agents

LEMMA TypeInvNext == TypeInv /\ [Next]_vars => TypeInv'
<1> SUFFICES ASSUME TypeInv, [Next]_vars PROVE TypeInv' OBVIOUS
<1>1. CASE UNCHANGED vars BY <1>1, TypeParts, Alone DEF vars, pylon, thread, network, agents, history
<1>2. CASE Next
  BY <1>2, TypesOpen, TypesClose, TypesSuspend, TypesStop, TypesServeOutbound, TypesServeInbound, TypesDeliver,
    TypesRead, TypesServer, TypesPut, TypesAdd, TypesPostMove, TypesRemove, TypesLeave, TypesSend, TypesRestart,
    TypesStopCopy DEF Next
<1> QED BY <1>1, <1>2

\* The types: what a line carries and where an entity can be (WebSocketPylon
\* 363-406, WebSocketServerEntity 132-171); a pylon is never given something
\* that is not a wave or an agent.
THEOREM PylonTypesHold == Spec => []TypeInv
BY TypeInvInit, TypeInvNext, PTL DEF Spec

-----------------------------------------------------------------------------
(* The two lines of a pylon, and what a step does to them.                 *)

LEMMA HandFacts ==
  ASSUME LineTypes, NEW p \in Pylons
  PROVE  /\ Hand(p) \in Seq(Content) /\ Held(p) \in {0, 1} /\ Held(p) \in Nat
         /\ serving[p] = Nobody => Hand(p) = <<>> /\ Held(p) = 0
         /\ serving[p] # Nobody => Hand(p) = <<serving[p]>> /\ Held(p) = 1
BY DEF Hand, Held, LineTypes

LEMMA StreamFacts ==
  ASSUME LineTypes, NEW p \in Pylons
  PROVE  /\ Stream(p) \in Seq(Message) /\ Len(Stream(p)) \in Nat /\ DOMAIN Stream(p) = 1 .. Len(Stream(p))
         /\ Served(p) \in Nat /\ Len(outbound[p]) \in Nat
         /\ Len(Stream(p)) = Served(p) + Len(outbound[p]) /\ Served(p) <= Len(Stream(p))
         /\ \A i \in 1 .. Len(Stream(p)) : Stream(p)[i] \in Message
         /\ \A i \in 1 .. Served(p) : Stream(p)[i] = toServer[p][i]
         /\ \A i \in 1 .. Len(outbound[p]) : Stream(p)[Served(p) + i] = outbound[p][i]
<1>1. toServer[p] \in Seq(Message) /\ outbound[p] \in Seq(Message) BY LineFacts
<1>2. Stream(p) \in Seq(Message) BY <1>1, MessageConcat DEF Stream
<1>3. /\ Len(Stream(p)) = Served(p) + Len(outbound[p])
      /\ \A i \in 1 .. Served(p) : Stream(p)[i] = toServer[p][i]
      /\ \A i \in 1 .. Len(outbound[p]) : Stream(p)[Served(p) + i] = outbound[p][i]
  <2> DEFINE s == toServer[p]
             t == outbound[p]
  <2>1. s \in Seq(Message) /\ t \in Seq(Message) BY <1>1
  <2> HIDE DEF s, t
  <2>2. Len(s \o t) = Len(s) + Len(t) BY <2>1, MessageConcat
  <2>3. \A i \in 1 .. Len(s) : (s \o t)[i] = s[i] BY <2>1, MessageConcat
  <2>4. \A i \in 1 .. Len(t) : (s \o t)[Len(s) + i] = t[i] BY <2>1, MessageConcat
  <2> QED BY <2>2, <2>3, <2>4 DEF Stream, Served, s, t
<1>4. Served(p) \in Nat /\ Len(outbound[p]) \in Nat BY <1>1, ElementIn DEF Served
<1> QED BY <1>2, <1>3, <1>4, ElementIn

LEMMA PipeFacts ==
  ASSUME LineTypes, NEW p \in Pylons
  PROVE  /\ Pipe(p) \in Seq(Content) /\ Len(Pipe(p)) \in Nat /\ DOMAIN Pipe(p) = 1 .. Len(Pipe(p))
         /\ Held(p) \in {0, 1} /\ Held(p) <= Len(Pipe(p))
         /\ Len(Pipe(p)) = Held(p) + Len(inbound[p]) + Len(toPylon[p])
         /\ Len(inbound[p]) \in Nat /\ Len(toPylon[p]) \in Nat
         /\ \A i \in 1 .. Len(Pipe(p)) : Pipe(p)[i] \in Content
         /\ Held(p) = 1 => serving[p] = Pipe(p)[1] /\ serving[p] # Nobody
         /\ Held(p) = 0 => serving[p] = Nobody
         /\ \A i \in 1 .. Len(inbound[p]) : Pipe(p)[Held(p) + i] = inbound[p][i]
         /\ \A i \in 1 .. Len(toPylon[p]) : Pipe(p)[Held(p) + Len(inbound[p]) + i] = toPylon[p][i]
<1> DEFINE h == Hand(p) \o inbound[p]
           k == Len(inbound[p])
           n == Len(toPylon[p])
<1>1. Hand(p) \in Seq(Content) /\ inbound[p] \in Seq(Content) /\ toPylon[p] \in Seq(Content)
  BY LineFacts, HandFacts
<1>2. /\ h \in Seq(Content) /\ Len(h) = Held(p) + k
      /\ \A i \in 1 .. Held(p) : h[i] = Hand(p)[i]
      /\ \A i \in 1 .. k : h[Held(p) + i] = inbound[p][i]
  BY <1>1, ContentConcat DEF Held
<1> HIDE DEF h
<1>13. h \in Seq(Content) BY <1>2
<1>3. /\ h \o toPylon[p] \in Seq(Content) /\ Len(h \o toPylon[p]) = Len(h) + n
      /\ \A i \in 1 .. Len(h) : (h \o toPylon[p])[i] = h[i]
      /\ \A i \in 1 .. n : (h \o toPylon[p])[Len(h) + i] = toPylon[p][i]
  <2> DEFINE t == toPylon[p]
  <2>1. t \in Seq(Content) /\ n = Len(t) BY <1>1 DEF n
  <2> HIDE DEF t
  <2>2. h \o t \in Seq(Content) /\ Len(h \o t) = Len(h) + Len(t) BY <1>13, <2>1, ContentConcat
  <2>3. \A i \in 1 .. Len(h) : (h \o t)[i] = h[i] BY <1>13, <2>1, ContentConcat
  <2>4. \A i \in 1 .. Len(t) : (h \o t)[Len(h) + i] = t[i] BY <1>13, <2>1, ContentConcat
  <2> QED BY <2>1, <2>2, <2>3, <2>4 DEF t
<1>4. Pipe(p) = h \o toPylon[p] BY DEF Pipe, h
<1>5. k \in Nat /\ n \in Nat BY <1>1, ElementIn
<1> HIDE DEF k, n
<1>6. Pipe(p) \in Seq(Content) /\ Len(Pipe(p)) = Held(p) + k + n /\ Held(p) \in {0, 1}
  BY <1>2, <1>3, <1>4, HandFacts
<1>7. \A i \in 1 .. k : Pipe(p)[Held(p) + i] = inbound[p][i]
  <2> SUFFICES ASSUME NEW i \in 1 .. k PROVE Pipe(p)[Held(p) + i] = inbound[p][i] OBVIOUS
  <2>1. Held(p) + i \in 1 .. Len(h) BY <1>2, <1>5, <1>6
  <2> QED BY <1>2, <1>3, <1>4, <2>1
<1>8. \A i \in 1 .. n : Pipe(p)[Held(p) + k + i] = toPylon[p][i] BY <1>2, <1>3, <1>4
<1>9. Held(p) = 1 => serving[p] = Pipe(p)[1]
  <2>1. Held(p) = 1 => Hand(p) = <<serving[p]>> /\ 1 \in 1 .. Held(p) /\ 1 \in 1 .. Len(h)
    BY <1>2, <1>5, HandFacts
  <2> QED BY <1>2, <1>3, <1>4, <2>1
<1>10. (Held(p) = 1 => serving[p] # Nobody) /\ (Held(p) = 0 => serving[p] = Nobody) BY HandFacts
<1>11. Len(Pipe(p)) \in Nat /\ Held(p) <= Len(Pipe(p)) BY <1>5, <1>6
<1>12. DOMAIN Pipe(p) = 1 .. Len(Pipe(p)) /\ \A i \in 1 .. Len(Pipe(p)) : Pipe(p)[i] \in Content
  BY <1>6, ElementIn
<1> QED BY <1>5, <1>6, <1>7, <1>8, <1>9, <1>10, <1>11, <1>12 DEF k, n

LEMMA StreamStays ==
  ASSUME NEW p \in Pylons, toServer'[p] = toServer[p], outbound'[p] = outbound[p]
  PROVE  SameStream(p)
BY DEF SameStream, Stream, Served

LEMMA PipeStays ==
  ASSUME NEW p \in Pylons, serving'[p] = serving[p], inbound'[p] = inbound[p], toPylon'[p] = toPylon[p]
  PROVE  SamePipe(p)
BY DEF SamePipe, Pipe, Hand, Held

LEMMA LinesStill ==
  ASSUME UNCHANGED <<outbound, thread, toServer, toPylon>>
  PROVE  \A q \in Pylons : SameStream(q) /\ SamePipe(q)
BY StreamStays, PipeStays DEF thread

LEMMA LinesClose ==
  ASSUME TypeInv, TypeInv', NEW p \in Pylons, Close(p)
  PROVE  /\ \A q \in Pylons : q # p => SameStream(q) /\ SamePipe(q)
         /\ Held(p)' = Held(p)
         /\ \E n, c \in Nat :
              /\ n <= Served(p) /\ Cut(Stream(p), Stream(p)', n, Served(p)) /\ Served(p)' = n
              /\ Held(p) <= c /\ Cut(Pipe(p), Pipe(p)', c, Len(Pipe(p)))
              /\ lost \subseteq lost'
              /\ \A x \in lost' : \/ x \in lost
                                  \/ \E i \in n + 1 .. Served(p) : x = Stream(p)[i]
                                  \/ \E i \in c + 1 .. Len(Pipe(p)) : x = Pipe(p)[i]
<1>1. LineTypes /\ LineTypes' BY TypeParts
<1>2. PICK n \in 0 .. Len(toServer[p]) :
          /\ toServer' = [toServer EXCEPT ![p] = SubSeq(@, 1, n)]
          /\ lost' = lost \cup {toPylon[p][i] : i \in DOMAIN toPylon[p]}
                          \cup ({toServer[p][i] : i \in n + 1 .. Len(toServer[p])} \ Registration)
  BY DEF Close
<1>3. /\ toServer'[p] = SubSeq(toServer[p], 1, n) /\ toPylon'[p] = <<>>
      /\ \A q \in Pylons : q # p => toServer'[q] = toServer[q] /\ toPylon'[q] = toPylon[q]
      /\ UNCHANGED <<outbound, thread>>
  BY <1>1, <1>2 DEF Close, LineTypes
<1>4. \A q \in Pylons : q # p => SameStream(q) /\ SamePipe(q) BY <1>3, StreamStays, PipeStays DEF thread
<1>5. Held(p)' = Held(p) BY <1>3 DEF Held, Hand, thread
<1>6. toServer[p] \in Seq(Message) /\ outbound[p] \in Seq(Message) /\ toPylon[p] \in Seq(Content)
  BY <1>1, LineFacts
<1>7. /\ n \in Nat /\ n <= Served(p) /\ Served(p) \in Nat
      /\ Cut(Stream(p), Stream(p)', n, Served(p)) /\ Served(p)' = n
  <2>1. n \in Nat /\ n <= Served(p) /\ Served(p) \in Nat /\ Len(toServer[p]) \in Nat
    BY <1>6, ElementIn DEF Served
  <2>2. SubSeq(toServer[p], 1, n) \in Seq(Message) /\ Len(SubSeq(toServer[p], 1, n)) = n BY <1>6, Prefix
  <2>3. Cut(toServer[p], SubSeq(toServer[p], 1, n), n, Len(toServer[p])) BY <1>6, CutPrefix
  <2>4. Cut(toServer[p] \o outbound[p], SubSeq(toServer[p], 1, n) \o outbound[p], n, Len(toServer[p]))
    BY <1>6, <2>1, <2>2, <2>3, CutFront
  <2> QED BY <1>3, <2>1, <2>2, <2>4 DEF Stream, Served
<1> DEFINE h == Hand(p) \o inbound[p]
           c == Len(h)
<1>8. Hand(p) \in Seq(Content) /\ inbound[p] \in Seq(Content) BY <1>1, LineFacts, HandFacts
<1>9. h \in Seq(Content) /\ c = Held(p) + Len(inbound[p]) /\ c \in Nat /\ Held(p) <= c
  BY <1>1, <1>8, ContentConcat, HandFacts DEF Held
<1>10. Cut(Pipe(p), Pipe(p)', c, Len(Pipe(p)))
  <2>1. Pipe(p)' = h \o <<>> /\ Pipe(p) = h \o toPylon[p] BY <1>3 DEF Pipe, Hand, thread
  <2> HIDE DEF h
  <2>2. h \o <<>> = h BY <1>9
  <2>3. Len(h \o toPylon[p]) = c + Len(toPylon[p]) /\ \A i \in 1 .. c : (h \o toPylon[p])[i] = h[i]
    BY <1>6, <1>9, ContentConcat
  <2>4. Len(h \o toPylon[p]) \in Nat /\ c \in Nat /\ c <= Len(h \o toPylon[p]) /\ \A i \in 1 .. c : Skip(i, c, Len(h \o toPylon[p])) = i
    BY <1>6, <1>9, <2>3, ElementIn DEF Skip
  <2>5. Len(h) = Len(h \o toPylon[p]) - (Len(h \o toPylon[p]) - c) BY <1>6, <1>9, <2>3, ElementIn
  <2> QED BY <2>1, <2>2, <2>3, <2>4, <2>5 DEF Cut
<1>11. lost \subseteq lost' BY <1>2
<1>12. ASSUME NEW x \in lost', x \notin lost
       PROVE  \/ \E i \in n + 1 .. Served(p) : x = Stream(p)[i]
              \/ \E i \in c + 1 .. Len(Pipe(p)) : x = Pipe(p)[i]
  <2>1. CASE \E i \in DOMAIN toPylon[p] : x = toPylon[p][i]
    <3>1. PICK i \in DOMAIN toPylon[p] : x = toPylon[p][i] BY <2>1
    <3>2. i \in 1 .. Len(toPylon[p]) /\ Len(toPylon[p]) \in Nat BY <1>6, <3>1, ElementIn
    <3>3. Pipe(p)[c + i] = toPylon[p][i] /\ Len(Pipe(p)) = c + Len(toPylon[p]) BY <1>1, <1>9, <3>2, PipeFacts
    <3>5. c \in Nat BY <1>9
    <3> HIDE DEF c
    <3>4. c + i \in c + 1 .. Len(Pipe(p)) BY <3>2, <3>3, <3>5
    <3> QED BY <3>1, <3>3, <3>4
  <2>2. CASE \E i \in n + 1 .. Len(toServer[p]) : x = toServer[p][i]
    <3>1. PICK i \in n + 1 .. Len(toServer[p]) : x = toServer[p][i] BY <2>2
    <3>2. i \in n + 1 .. Served(p) /\ i \in 1 .. Served(p) BY <1>7, <3>1 DEF Served
    <3> QED BY <1>1, <3>1, <3>2, StreamFacts
  <2> QED BY <1>2, <1>12, <2>1, <2>2
<1> HIDE DEF c
<1>13. \A x \in lost' : \/ x \in lost
                        \/ \E i \in n + 1 .. Served(p) : x = Stream(p)[i]
                        \/ \E i \in c + 1 .. Len(Pipe(p)) : x = Pipe(p)[i]
  BY <1>12
<1> QED BY <1>4, <1>5, <1>7, <1>9, <1>10, <1>11, <1>13

\* A message leaves OUTBOUND without leaving the pylon.
LEMMA OutboundCut ==
  ASSUME LineTypes, NEW p \in Pylons, outbound[p] # <<>>, outbound'[p] = Tail(outbound[p]), toServer'[p] = toServer[p]
  PROVE  Cut(Stream(p), Stream(p)', Served(p), Served(p) + 1) /\ Served(p)' = Served(p)
<1>1. toServer[p] \in Seq(Message) /\ outbound[p] \in Seq(Message) /\ Tail(outbound[p]) \in Seq(Message)
  BY LineFacts
<1>2. Cut(outbound[p], Tail(outbound[p]), 0, 1) BY <1>1, CutTail
<1>3. Cut(toServer[p] \o outbound[p], toServer[p] \o Tail(outbound[p]), Len(toServer[p]) + 0, Len(toServer[p]) + 1)
  BY <1>1, <1>2, CutBack
<1>4. Len(toServer[p]) + 0 = Len(toServer[p]) BY <1>1, ElementIn
<1> QED BY <1>3, <1>4 DEF Stream, Served

LEMMA LinesServeOutbound ==
  ASSUME TypeInv, TypeInv', NEW p \in Pylons, ServeOutbound(p)
  PROVE  /\ \A q \in Pylons : q # p => SameStream(q) /\ SamePipe(q)
         /\ Held(p) = 0 /\ Served(p) + 1 \in 1 .. Len(Stream(p))
         /\ p \notin stopped \cup suspended
         /\ UNCHANGED <<pylon, receivers, table, agents, received, calm>>
         /\ \/ /\ Local(p, Stream(p)[Served(p) + 1]) /\ UNCHANGED lost
               /\ Cut(Stream(p), Stream(p)', Served(p), Served(p) + 1) /\ Served(p)' = Served(p)
               /\ Cut(Pipe(p)', Pipe(p), 0, 1) /\ Pipe(p)'[1] = Stream(p)[Served(p) + 1] /\ Held(p)' = 1
            \/ /\ ~Local(p, Stream(p)[Served(p) + 1]) /\ UNCHANGED lost /\ conn[p] = "open"
               /\ Stream(p)' = Stream(p) /\ Served(p)' = Served(p) + 1 /\ SamePipe(p)
            \/ /\ ~Local(p, Stream(p)[Served(p) + 1]) /\ Drop(Stream(p)[Served(p) + 1]) /\ conn[p] # "open"
               /\ Cut(Stream(p), Stream(p)', Served(p), Served(p) + 1) /\ Served(p)' = Served(p)
               /\ SamePipe(p)
<1>1. LineTypes /\ LineTypes' BY TypeParts
<1> DEFINE m == Head(outbound[p])
<1>2. /\ p \notin stopped \cup suspended /\ serving[p] = Nobody /\ outbound[p] # <<>>
      /\ UNCHANGED <<pylon, inbound, receivers, toPylon, table, agents, received, calm>>
      /\ outbound' = [outbound EXCEPT ![p] = Tail(@)]
      /\ \/ Local(p, m) /\ serving' = [serving EXCEPT ![p] = m] /\ UNCHANGED <<toServer, lost>>
         \/ /\ ~Local(p, m) /\ UNCHANGED <<serving, lost>> /\ conn[p] = "open"
            /\ toServer' = [toServer EXCEPT ![p] = Append(@, m)]
         \/ ~Local(p, m) /\ UNCHANGED <<serving, toServer>> /\ conn[p] # "open" /\ Drop(m)
  BY DEF ServeOutbound
<1>3. /\ outbound'[p] = Tail(outbound[p]) /\ \A q \in Pylons : q # p => outbound'[q] = outbound[q]
      /\ \A q \in Pylons : q # p => serving'[q] = serving[q] /\ toServer'[q] = toServer[q]
  BY <1>1, <1>2 DEF LineTypes
<1>4. \A q \in Pylons : q # p => SameStream(q) /\ SamePipe(q) BY <1>2, <1>3, StreamStays, PipeStays
<1>5. /\ toServer[p] \in Seq(Message) /\ outbound[p] \in Seq(Message) /\ Tail(outbound[p]) \in Seq(Message)
      /\ m \in Message /\ m = outbound[p][1] /\ Len(outbound[p]) >= 1
  BY <1>1, <1>2, LineFacts, HeadTail
<1>6. Held(p) = 0 BY <1>1, <1>2, HandFacts
<1>7. Served(p) + 1 \in 1 .. Len(Stream(p)) /\ Stream(p)[Served(p) + 1] = m
  <2>1. 1 \in 1 .. Len(outbound[p]) BY <1>5, ElementIn
  <2> QED BY <1>1, <1>5, <2>1, StreamFacts
<1>8. toServer'[p] = toServer[p] => Cut(Stream(p), Stream(p)', Served(p), Served(p) + 1) /\ Served(p)' = Served(p)
  BY <1>1, <1>2, <1>3, OutboundCut
<1>9. serving'[p] = serving[p] => SamePipe(p) BY <1>2, PipeStays
<1>10. ASSUME toServer' = [toServer EXCEPT ![p] = Append(@, m)]
       PROVE  Stream(p)' = Stream(p) /\ Served(p)' = Served(p) + 1
  <2> HIDE DEF m
  <2>1. toServer'[p] = Append(toServer[p], m) BY <1>1, <1>10 DEF LineTypes
  <2>2. Append(toServer[p], m) = toServer[p] \o <<m>> /\ Len(Append(toServer[p], m)) = Len(toServer[p]) + 1
    BY <1>5, MessageAppend
  <2>3. <<m>> \in Seq(Message) BY <1>5
  <2>4. (toServer[p] \o <<m>>) \o Tail(outbound[p]) = toServer[p] \o (<<m>> \o Tail(outbound[p]))
    BY <1>5, <2>3, MessageAssociates
  <2>5. <<m>> \o Tail(outbound[p]) = outbound[p] BY <1>2, <1>5, HeadAgain DEF m
  <2> QED BY <1>3, <2>1, <2>2, <2>4, <2>5 DEF Stream, Served
<1>11. ASSUME Local(p, m), serving' = [serving EXCEPT ![p] = m]
       PROVE  Cut(Pipe(p)', Pipe(p), 0, 1) /\ Pipe(p)'[1] = m /\ Held(p)' = 1
  <2>1. m \in Content BY <1>5, <1>11, TypeParts, LocalFacts
  <2> HIDE DEF m
  <2>2. serving'[p] = m /\ m # Nobody BY <1>1, <1>11, <2>1, MessageKinds DEF LineTypes
  <2>3. Held(p)' = 1 /\ Hand(p)' = <<m>> BY <2>2 DEF Hand, Held
  <2>4. inbound[p] \in Seq(Content) /\ toPylon[p] \in Seq(Content) /\ <<m>> \in Seq(Content)
    BY <1>1, <2>1, LineFacts
  <2>5. Pipe(p) = (<<>> \o inbound[p]) \o toPylon[p] /\ <<>> \o inbound[p] = inbound[p]
    BY <1>2, <2>4 DEF Pipe, Hand
  <2>6. Pipe(p)' = (<<m>> \o inbound[p]) \o toPylon[p] BY <1>2, <2>2 DEF Pipe, Hand
  <2>7. (<<m>> \o inbound[p]) \o toPylon[p] = <<m>> \o (inbound[p] \o toPylon[p]) BY <2>4, ContentAssociates
  <2> DEFINE r == inbound[p] \o toPylon[p]
  <2>8. r \in Seq(Content) /\ Pipe(p) = r /\ Pipe(p)' = <<m>> \o r BY <2>4, <2>5, <2>6, <2>7, ContentConcat
  <2> HIDE DEF r
  <2>9. <<m>> \o r \in Seq(Content) /\ <<m>> \o r # <<>> /\ Tail(<<m>> \o r) = r /\ (<<m>> \o r)[1] = m
    BY <2>4, <2>8
  <2>10. Cut(<<m>> \o r, Tail(<<m>> \o r), 0, 1) BY <2>9, CutTail
  <2> QED BY <2>3, <2>8, <2>9, <2>10
<1> HIDE DEF m
<1>12. \/ /\ Local(p, m) /\ UNCHANGED lost
          /\ Cut(Stream(p), Stream(p)', Served(p), Served(p) + 1) /\ Served(p)' = Served(p)
          /\ Cut(Pipe(p)', Pipe(p), 0, 1) /\ Pipe(p)'[1] = m /\ Held(p)' = 1
       \/ /\ ~Local(p, m) /\ UNCHANGED lost /\ conn[p] = "open"
          /\ Stream(p)' = Stream(p) /\ Served(p)' = Served(p) + 1 /\ SamePipe(p)
       \/ /\ ~Local(p, m) /\ Drop(m) /\ conn[p] # "open"
          /\ Cut(Stream(p), Stream(p)', Served(p), Served(p) + 1) /\ Served(p)' = Served(p)
          /\ SamePipe(p)
  BY <1>2, <1>8, <1>9, <1>10, <1>11
<1> QED BY <1>2, <1>4, <1>6, <1>7, <1>12

LEMMA LinesServeInbound ==
  ASSUME TypeInv, TypeInv', NEW p \in Pylons, ServeInbound(p)
  PROVE  /\ \A q \in Pylons : SameStream(q)
         /\ \A q \in Pylons : q # p => SamePipe(q)
         /\ Held(p) = 0 /\ 1 \in 1 .. Len(Pipe(p))
         /\ UNCHANGED <<pylon, receivers, table, agents, received, calm>>
         /\ \/ Local(p, Pipe(p)[1]) /\ UNCHANGED lost /\ Pipe(p)' = Pipe(p) /\ Held(p)' = 1
            \/ /\ ~Local(p, Pipe(p)[1]) /\ Drop(Pipe(p)[1])
               /\ Cut(Pipe(p), Pipe(p)', 0, 1) /\ Held(p)' = 0
<1>1. LineTypes /\ LineTypes' BY TypeParts
<1> DEFINE m == Head(inbound[p])
<1>2. /\ serving[p] = Nobody /\ inbound[p] # <<>>
      /\ UNCHANGED <<pylon, outbound, receivers, network, agents, received, calm>>
      /\ inbound' = [inbound EXCEPT ![p] = Tail(@)]
      /\ \/ Local(p, m) /\ serving' = [serving EXCEPT ![p] = m] /\ UNCHANGED lost
         \/ ~Local(p, m) /\ UNCHANGED serving /\ Drop(m)
  BY DEF ServeInbound
<1>3. /\ inbound'[p] = Tail(inbound[p]) /\ \A q \in Pylons : q # p => inbound'[q] = inbound[q]
      /\ \A q \in Pylons : q # p => serving'[q] = serving[q]
      /\ UNCHANGED <<outbound, toServer, toPylon, table>>
  BY <1>1, <1>2 DEF LineTypes, network
<1>4. (\A q \in Pylons : SameStream(q)) /\ (\A q \in Pylons : q # p => SamePipe(q))
  BY <1>3, StreamStays, PipeStays
<1>5. /\ inbound[p] \in Seq(Content) /\ toPylon[p] \in Seq(Content) /\ Tail(inbound[p]) \in Seq(Content)
      /\ m \in Content /\ m # Nobody /\ m = inbound[p][1] /\ Len(inbound[p]) >= 1
  BY <1>1, <1>2, LineFacts, HeadTail, MessageKinds
<1>6. Held(p) = 0 BY <1>1, <1>2, HandFacts
<1>7. 1 \in 1 .. Len(Pipe(p)) /\ Pipe(p)[1] = m
  <2>1. 1 \in 1 .. Len(inbound[p]) /\ Len(inbound[p]) \in Nat BY <1>5, ElementIn
  <2>2. 0 + 1 = 1 OBVIOUS
  <2>3. Pipe(p)[Held(p) + 1] = inbound[p][1] BY <1>1, <2>1, PipeFacts
  <2> QED BY <1>1, <1>5, <1>6, <2>1, <2>2, <2>3, PipeFacts
<1>8. Pipe(p) = inbound[p] \o toPylon[p]
  <2>1. Pipe(p) = (<<>> \o inbound[p]) \o toPylon[p] /\ <<>> \o inbound[p] = inbound[p]
    BY <1>2, <1>5 DEF Pipe, Hand
  <2> QED BY <2>1
<1>9. ASSUME serving' = [serving EXCEPT ![p] = m] PROVE Pipe(p)' = Pipe(p) /\ Held(p)' = 1
  <2>1. serving'[p] = m BY <1>1, <1>9 DEF LineTypes
  <2>2. Held(p)' = 1 /\ Pipe(p)' = (<<m>> \o Tail(inbound[p])) \o toPylon[p]
    BY <1>3, <1>5, <2>1 DEF Held, Hand, Pipe
  <2>3. <<m>> \o Tail(inbound[p]) = inbound[p] BY <1>2, <1>5, HeadAgain
  <2> QED BY <1>8, <2>2, <2>3
<1>10. ASSUME UNCHANGED serving PROVE Cut(Pipe(p), Pipe(p)', 0, 1) /\ Held(p)' = 0
  <2>1. Held(p)' = Held(p) BY <1>10 DEF Held, Hand
  <2>2. Pipe(p)' = (<<>> \o Tail(inbound[p])) \o toPylon[p] /\ <<>> \o Tail(inbound[p]) = Tail(inbound[p])
    <3>1. Hand(p)' = <<>> /\ inbound'[p] = Tail(inbound[p]) /\ toPylon'[p] = toPylon[p]
      BY <1>2, <1>3, <1>10 DEF Hand
    <3>2. Pipe(p)' = (<<>> \o Tail(inbound[p])) \o toPylon[p] BY <3>1 DEF Pipe
    <3>3. <<>> \o Tail(inbound[p]) = Tail(inbound[p]) BY <1>5
    <3> QED BY <3>2, <3>3
  <2>3. Cut(inbound[p], Tail(inbound[p]), 0, 1) BY <1>2, <1>5, CutTail
  <2>4. Cut(inbound[p] \o toPylon[p], Tail(inbound[p]) \o toPylon[p], 0, 1) BY <1>5, <2>3, CutFront
  <2> QED BY <1>6, <1>8, <2>1, <2>2, <2>4
<1> HIDE DEF m
<1>11. \/ Local(p, m) /\ UNCHANGED lost /\ Pipe(p)' = Pipe(p) /\ Held(p)' = 1
       \/ ~Local(p, m) /\ Drop(m) /\ Cut(Pipe(p), Pipe(p)', 0, 1) /\ Held(p)' = 0
  BY <1>2, <1>9, <1>10
<1> QED BY <1>2, <1>3, <1>4, <1>6, <1>7, <1>11

LEMMA LinesDeliver ==
  ASSUME TypeInv, TypeInv', NEW p \in Pylons, Deliver(p)
  PROVE  /\ \A q \in Pylons : SameStream(q)
         /\ \A q \in Pylons : q # p => SamePipe(q)
         /\ Held(p) = 1 /\ 1 \in 1 .. Len(Pipe(p)) /\ serving[p] = Pipe(p)[1]
         /\ Cut(Pipe(p), Pipe(p)', 0, 1) /\ Held(p)' = 0
<1>1. LineTypes /\ LineTypes' BY TypeParts
<1>2. /\ serving[p] # Nobody /\ serving' = [serving EXCEPT ![p] = Nobody]
      /\ UNCHANGED <<pylon, outbound, inbound, receivers, network, count, moved, restarted, calm>>
  BY DEF Deliver
<1>3. /\ serving'[p] = Nobody /\ \A q \in Pylons : q # p => serving'[q] = serving[q]
      /\ UNCHANGED <<outbound, inbound, toServer, toPylon>>
  BY <1>1, <1>2 DEF LineTypes, network
<1>4. (\A q \in Pylons : SameStream(q)) /\ (\A q \in Pylons : q # p => SamePipe(q))
  BY <1>3, StreamStays, PipeStays
<1>5. Held(p) = 1 BY <1>1, <1>2, HandFacts
<1>6. 1 \in 1 .. Len(Pipe(p)) /\ serving[p] = Pipe(p)[1] BY <1>1, <1>5, PipeFacts
<1>7. serving[p] \in Content /\ inbound[p] \in Seq(Content) /\ toPylon[p] \in Seq(Content)
  BY <1>1, <1>2, LineFacts
<1>8. Pipe(p) = (<<serving[p]>> \o inbound[p]) \o toPylon[p] BY <1>2 DEF Pipe, Hand
<1>9. Pipe(p)' = (<<>> \o inbound[p]) \o toPylon[p] /\ <<>> \o inbound[p] = inbound[p] /\ Held(p)' = 0
  BY <1>3, <1>7 DEF Pipe, Hand, Held
<1> DEFINE h == <<serving[p]>> \o inbound[p]
<1>10. h \in Seq(Content) /\ h # <<>> /\ Tail(h) = inbound[p] BY <1>7
<1> HIDE DEF h
<1>11. Cut(h, inbound[p], 0, 1) BY <1>10, CutTail
<1>12. Cut(h \o toPylon[p], inbound[p] \o toPylon[p], 0, 1) BY <1>7, <1>10, <1>11, CutFront
<1> QED BY <1>4, <1>5, <1>6, <1>8, <1>9, <1>12 DEF h

LEMMA LinesRead ==
  ASSUME TypeInv, TypeInv', NEW p \in Pylons, Read(p)
  PROVE  \A q \in Pylons : SameStream(q) /\ SamePipe(q)
<1>1. LineTypes /\ LineTypes' BY TypeParts
<1> DEFINE m == Head(toPylon[p])
<1>2. /\ toPylon[p] # <<>> /\ UNCHANGED <<outbound, serving, toServer>>
      /\ inbound'[p] = Append(inbound[p], m) /\ toPylon'[p] = Tail(toPylon[p])
      /\ \A q \in Pylons : q # p => inbound'[q] = inbound[q] /\ toPylon'[q] = toPylon[q]
  BY <1>1 DEF Read, LineTypes
<1>3. /\ inbound[p] \in Seq(Content) /\ toPylon[p] \in Seq(Content) /\ Tail(toPylon[p]) \in Seq(Content)
      /\ m \in Content /\ Hand(p) \in Seq(Content) /\ <<m>> \in Seq(Content)
  BY <1>1, <1>2, LineFacts, HandFacts
<1>4. Append(inbound[p], m) = inbound[p] \o <<m>> BY <1>3, ContentAppend
<1>5. <<m>> \o Tail(toPylon[p]) = toPylon[p] BY <1>2, <1>3, HeadAgain
<1> HIDE DEF m
<1>6. Pipe(p)' = (Hand(p) \o (inbound[p] \o <<m>>)) \o Tail(toPylon[p]) BY <1>2, <1>4 DEF Pipe, Hand
<1> DEFINE h == Hand(p) \o inbound[p]
<1>7. h \in Seq(Content) /\ Hand(p) \o (inbound[p] \o <<m>>) = h \o <<m>>
  <2>1. h \in Seq(Content) BY <1>3, ContentConcat
  <2>2. Hand(p) \o (inbound[p] \o <<m>>) = h \o <<m>> BY <1>3, ContentAssociates
  <2> QED BY <2>1, <2>2
<1>8. Pipe(p) = h \o toPylon[p] BY DEF Pipe
<1> HIDE DEF h
<1>9. (h \o <<m>>) \o Tail(toPylon[p]) = h \o (<<m>> \o Tail(toPylon[p])) BY <1>3, <1>7, ContentAssociates
<1>10. SamePipe(p) BY <1>2, <1>5, <1>6, <1>7, <1>8, <1>9 DEF SamePipe, Held, Hand
<1>11. \A q \in Pylons : q # p => SamePipe(q) BY <1>2, PipeStays
<1> QED BY <1>2, <1>10, <1>11, StreamStays

LEMMA LinesServer ==
  ASSUME TypeInv, TypeInv', NEW p \in Pylons, Server(p)
  PROVE  /\ \A q \in Pylons : q # p => SameStream(q)
         /\ 1 \in 1 .. Served(p) /\ 1 \in 1 .. Len(Stream(p)) /\ Incoming(p) = Stream(p)[1] /\ Incoming(p) \in Message
         /\ Cut(Stream(p), Stream(p)', 0, 1) /\ Served(p)' = Served(p) - 1
         /\ \A q \in Pylons : \/ SamePipe(q)
                              \/ /\ table[Incoming(p).to] = q /\ Incoming(p) \in Content
                                 /\ Pipe(q)' = Append(Pipe(q), Incoming(p)) /\ Held(q)' = Held(q)
<1>1. LineTypes /\ LineTypes' BY TypeParts
<1> DEFINE m == Incoming(p)
<1>2. /\ m \in Message /\ toServer[p] # <<>>
      /\ toServer' = [toServer EXCEPT ![p] = Tail(@)]
      /\ UNCHANGED <<outbound, thread>>
      /\ \/ UNCHANGED toPylon
         \/ /\ m \in Content /\ table[m.to] \in Pylons
            /\ toPylon' = [toPylon EXCEPT ![table[m.to]] = Append(@, m)]
  BY ServerCases
<1>3. /\ toServer'[p] = Tail(toServer[p])
      /\ \A q \in Pylons : q # p => toServer'[q] = toServer[q]
      /\ \A q \in Pylons : \/ toPylon'[q] = toPylon[q]
                           \/ m \in Content /\ table[m.to] = q /\ toPylon'[q] = Append(toPylon[q], m)
  BY <1>1, <1>2 DEF LineTypes
<1>4. \A q \in Pylons : q # p => SameStream(q) BY <1>2, <1>3, StreamStays
<1>5. toServer[p] \in Seq(Message) /\ outbound[p] \in Seq(Message) /\ Tail(toServer[p]) \in Seq(Message)
  BY <1>1, <1>2, LineFacts
<1>6. m = toServer[p][1] /\ Len(toServer[p]) >= 1 /\ Len(Tail(toServer[p])) = Len(toServer[p]) - 1
  BY <1>2, <1>5, HeadTail DEF Incoming
<1>7. 1 \in 1 .. Served(p) /\ 1 \in 1 .. Len(Stream(p)) /\ m = Stream(p)[1]
  <2>1. 1 \in 1 .. Served(p) BY <1>5, <1>6, ElementIn DEF Served
  <2> QED BY <1>1, <1>6, <2>1, StreamFacts
<1>8. Cut(Stream(p), Stream(p)', 0, 1)
  <2>1. Cut(toServer[p], Tail(toServer[p]), 0, 1) BY <1>2, <1>5, CutTail
  <2>2. Cut(toServer[p] \o outbound[p], Tail(toServer[p]) \o outbound[p], 0, 1) BY <1>5, <2>1, CutFront
  <2> QED BY <1>2, <1>3, <2>2 DEF Stream
<1>9. Served(p)' = Served(p) - 1 BY <1>3, <1>6 DEF Served
<1> HIDE DEF m
<1>10. ASSUME NEW q \in Pylons, m \in Content, toPylon'[q] = Append(toPylon[q], m)
       PROVE  Pipe(q)' = Append(Pipe(q), m) /\ Held(q)' = Held(q)
  <2> DEFINE h == Hand(q) \o inbound[q]
  <2>1. Pipe(q)' = h \o Append(toPylon[q], m) /\ Pipe(q) = h \o toPylon[q] /\ Held(q)' = Held(q)
    BY <1>2, <1>10 DEF Pipe, Hand, Held, thread
  <2>2. Hand(q) \in Seq(Content) /\ inbound[q] \in Seq(Content) /\ toPylon[q] \in Seq(Content)
    BY <1>1, LineFacts, HandFacts
  <2>3. h \in Seq(Content) BY <2>2, ContentConcat
  <2> HIDE DEF h
  <2>4. Append(toPylon[q], m) = toPylon[q] \o <<m>> /\ <<m>> \in Seq(Content) BY <1>10, <2>2, ContentAppend
  <2>5. h \o (toPylon[q] \o <<m>>) = (h \o toPylon[q]) \o <<m>> /\ h \o toPylon[q] \in Seq(Content)
    <3>1. h \o (toPylon[q] \o <<m>>) = (h \o toPylon[q]) \o <<m>> BY <2>2, <2>3, <2>4, ContentAssociates
    <3>2. h \o toPylon[q] \in Seq(Content) BY <2>2, <2>3, ContentConcat
    <3> QED BY <3>1, <3>2
  <2>6. Append(h \o toPylon[q], m) = (h \o toPylon[q]) \o <<m>> BY <1>10, <2>5, ContentAppend
  <2> QED BY <2>1, <2>4, <2>5, <2>6
<1>11. ASSUME NEW q \in Pylons
       PROVE  \/ SamePipe(q)
              \/ m \in Content /\ table[m.to] = q /\ Pipe(q)' = Append(Pipe(q), m) /\ Held(q)' = Held(q)
  <2>1. CASE toPylon'[q] = toPylon[q] BY <1>2, <2>1, PipeStays DEF thread
  <2>2. CASE m \in Content /\ table[m.to] = q /\ toPylon'[q] = Append(toPylon[q], m) BY <1>10, <2>2
  <2> QED BY <1>3, <2>1, <2>2
<1> QED BY <1>2, <1>4, <1>7, <1>8, <1>9, <1>11 DEF m

LEMMA LinesAppend ==
  ASSUME LineTypes, NEW p \in Pylons, NEW m \in Message, outbound' = [outbound EXCEPT ![p] = Append(@, m)],
         UNCHANGED <<thread, network>>
  PROVE  /\ \A q \in Pylons : SamePipe(q)
         /\ \A q \in Pylons : q # p => SameStream(q)
         /\ Stream(p)' = Append(Stream(p), m) /\ Served(p)' = Served(p)
<1>1. /\ outbound'[p] = Append(outbound[p], m) /\ \A q \in Pylons : q # p => outbound'[q] = outbound[q]
      /\ UNCHANGED <<toServer, toPylon, thread>>
  BY DEF LineTypes, network
<1>2. (\A q \in Pylons : SamePipe(q)) /\ (\A q \in Pylons : q # p => SameStream(q))
  BY <1>1, StreamStays, PipeStays DEF thread
<1>3. toServer[p] \in Seq(Message) /\ outbound[p] \in Seq(Message) /\ <<m>> \in Seq(Message) BY LineFacts
<1>4. Append(outbound[p], m) = outbound[p] \o <<m>> BY <1>3, MessageAppend
<1>5. /\ toServer[p] \o (outbound[p] \o <<m>>) = (toServer[p] \o outbound[p]) \o <<m>>
      /\ toServer[p] \o outbound[p] \in Seq(Message)
  <2>1. toServer[p] \o (outbound[p] \o <<m>>) = (toServer[p] \o outbound[p]) \o <<m>> BY <1>3, MessageAssociates
  <2>2. toServer[p] \o outbound[p] \in Seq(Message) BY <1>3, MessageConcat
  <2> QED BY <2>1, <2>2
<1>6. Append(toServer[p] \o outbound[p], m) = (toServer[p] \o outbound[p]) \o <<m>> BY <1>5, MessageAppend
<1> QED BY <1>1, <1>2, <1>4, <1>5, <1>6 DEF Stream, Served

LEMMA LinesLeave ==
  ASSUME LineTypes, NEW p \in Pylons, NEW u \in Message, NEW m \in Message,
         outbound' = [outbound EXCEPT ![p] = @ \o <<u, m>>], UNCHANGED <<thread, network>>
  PROVE  /\ \A q \in Pylons : SamePipe(q)
         /\ \A q \in Pylons : q # p => SameStream(q)
         /\ Stream(p)' = Stream(p) \o <<u, m>> /\ Served(p)' = Served(p)
<1>1. /\ outbound'[p] = outbound[p] \o <<u, m>> /\ \A q \in Pylons : q # p => outbound'[q] = outbound[q]
      /\ UNCHANGED <<toServer, toPylon, thread>>
  BY DEF LineTypes, network
<1>2. (\A q \in Pylons : SamePipe(q)) /\ (\A q \in Pylons : q # p => SameStream(q))
  BY <1>1, StreamStays, PipeStays DEF thread
<1>3. toServer[p] \in Seq(Message) /\ outbound[p] \in Seq(Message) /\ <<u, m>> \in Seq(Message) BY LineFacts
<1>4. toServer[p] \o (outbound[p] \o <<u, m>>) = (toServer[p] \o outbound[p]) \o <<u, m>>
  BY <1>3, MessageAssociates
<1> QED BY <1>1, <1>2, <1>4 DEF Stream, Served

-----------------------------------------------------------------------------
(* The places on the lines, what a step keeps of them and in what order.   *)

LEMMA LineLength ==
  ASSUME LineTypes, NEW k \in Kinds, NEW p \in Pylons
  PROVE  /\ Line(k, p) \in Seq(Message) /\ Len(Line(k, p)) \in Nat
         /\ \A i \in 1 .. Len(Line(k, p)) : Line(k, p)[i] \in Message
         /\ k = "pipe" => \A i \in 1 .. Len(Line(k, p)) : Line(k, p)[i] \in Content
BY StreamFacts, PipeFacts, ContentIsMessage DEF Line, Kinds

LEMMA SpotFacts ==
  ASSUME LineTypes
  PROVE  /\ \A k \in Kinds, p \in Pylons : \A i \in 1 .. Len(Line(k, p)) :
               <<k, p, i>> \in Spots /\ Item(<<k, p, i>>) = Line(k, p)[i]
         /\ \A s \in Spots : /\ s[1] \in Kinds /\ s[2] \in Pylons /\ s[3] \in 1 .. Len(Line(s[1], s[2])) /\ s[3] \in Nat
                             /\ s = <<s[1], s[2], s[3]>> /\ Item(s) = Line(s[1], s[2])[s[3]] /\ Item(s) \in Message
<1>1. ASSUME NEW k \in Kinds, NEW p \in Pylons, NEW i \in 1 .. Len(Line(k, p))
      PROVE  <<k, p, i>> \in Spots /\ Item(<<k, p, i>>) = Line(k, p)[i]
  <2>1. i \in Nat BY LineLength
  <2> QED BY <2>1 DEF Spots, Item
<1>2. ASSUME NEW s \in Spots
      PROVE  /\ s[1] \in Kinds /\ s[2] \in Pylons /\ s[3] \in 1 .. Len(Line(s[1], s[2])) /\ s[3] \in Nat
             /\ s = <<s[1], s[2], s[3]>> /\ Item(s) = Line(s[1], s[2])[s[3]] /\ Item(s) \in Message
  <2>1. s \in Kinds \X Pylons \X Nat /\ s[3] \in 1 .. Len(Line(s[1], s[2])) BY DEF Spots
  <2>2. s[1] \in Kinds /\ s[2] \in Pylons /\ s[3] \in Nat /\ s = <<s[1], s[2], s[3]>>
    <3>1. PICK k \in Kinds, p \in Pylons, i \in Nat : s = <<k, p, i>> BY <2>1
    <3> QED BY <3>1
  <2> QED BY <2>1, <2>2, LineLength DEF Item
<1> QED BY <1>1, <1>2

LEMMA SpotsNext ==
  \A s \in Spots' : /\ s[1] \in Kinds /\ s[2] \in Pylons /\ s[3] \in 1 .. Len(Line(s[1], s[2])')
                    /\ s = <<s[1], s[2], s[3]>> /\ Item(s)' = (Line(s[1], s[2])')[s[3]]
<1> SUFFICES ASSUME NEW s \in Spots'
             PROVE  /\ s[1] \in Kinds /\ s[2] \in Pylons /\ s[3] \in 1 .. Len(Line(s[1], s[2])')
                    /\ s = <<s[1], s[2], s[3]>> /\ Item(s)' = (Line(s[1], s[2])')[s[3]]
  OBVIOUS
<1>1. s \in Kinds \X Pylons \X Nat /\ s[3] \in 1 .. Len(Line(s[1], s[2])') BY DEF Spots
<1>2. s[1] \in Kinds /\ s[2] \in Pylons /\ s = <<s[1], s[2], s[3]>> BY <1>1
<1> QED BY <1>1, <1>2 DEF Item

LEMMA ThinFacts ==
  ASSUME NEW a, NEW b, NEW c \in Nat, NEW d \in Nat, Cut(a, b, c, d), Len(a) \in Nat
  PROVE  /\ \A i \in 1 .. Len(b) : /\ Skip(i, c, d) \in 1 .. Len(a) /\ b[i] = a[Skip(i, c, d)]
                                   /\ (Skip(i, c, d) <= c \/ Skip(i, c, d) > d)
         /\ \A i, j \in 1 .. Len(b) : i < j <=> Skip(i, c, d) < Skip(j, c, d)
         /\ \A j \in 1 .. Len(a) : j <= c \/ j > d => \E i \in 1 .. Len(b) : Skip(i, c, d) = j
<1>1. /\ \A i \in 1 .. Len(b) : /\ Skip(i, c, d) \in 1 .. Len(a) /\ b[i] = a[Skip(i, c, d)]
                                 /\ (Skip(i, c, d) <= c \/ Skip(i, c, d) > d)
      /\ \A i, j \in 1 .. Len(b) : i < j <=> Skip(i, c, d) < Skip(j, c, d)
  BY CutFacts
<1>2. c <= d /\ d <= Len(a) /\ Len(b) = Len(a) - (d - c) BY DEF Cut
<1>3. ASSUME NEW j \in 1 .. Len(a), j <= c \/ j > d PROVE \E i \in 1 .. Len(b) : Skip(i, c, d) = j
  <2>1. CASE j <= c
    <3>1. j \in 1 .. Len(b) /\ Skip(j, c, d) = j BY <1>2, <2>1 DEF Skip
    <3> QED BY <3>1
  <2>2. CASE j > d
    <3>1. j - (d - c) \in 1 .. Len(b) /\ Skip(j - (d - c), c, d) = j BY <1>2, <2>2 DEF Skip
    <3> QED BY <3>1
  <2> QED BY <1>3, <2>1, <2>2
<1> QED BY <1>1, <1>3

LEMMA ThickFacts ==
  ASSUME NEW a, NEW b, NEW c \in Nat, NEW d \in Nat, Cut(b, a, c, d), Len(b) \in Nat
  PROVE  /\ \A i \in 1 .. Len(b) : i <= c \/ i > d => Back(i, c, d) \in 1 .. Len(a) /\ b[i] = a[Back(i, c, d)]
         /\ \A i, j \in 1 .. Len(b) : (i <= c \/ i > d) /\ (j <= c \/ j > d) =>
                (i < j <=> Back(i, c, d) < Back(j, c, d))
         /\ \A j \in 1 .. Len(a) : \E i \in 1 .. Len(b) : (i <= c \/ i > d) /\ Back(i, c, d) = j
<1>1. c <= d /\ d <= Len(b) /\ Len(a) = Len(b) - (d - c) /\ \A i \in 1 .. Len(a) : a[i] = b[Skip(i, c, d)]
  BY DEF Cut
<1>2. ASSUME NEW i \in 1 .. Len(b), i <= c \/ i > d
      PROVE  Back(i, c, d) \in 1 .. Len(a) /\ b[i] = a[Back(i, c, d)]
  <2>1. Back(i, c, d) \in 1 .. Len(a) /\ Skip(Back(i, c, d), c, d) = i BY <1>1, <1>2 DEF Skip, Back
  <2> QED BY <1>1, <2>1
<1>3. \A i, j \in 1 .. Len(b) : (i <= c \/ i > d) /\ (j <= c \/ j > d) =>
          (i < j <=> Back(i, c, d) < Back(j, c, d))
  BY <1>1 DEF Back
<1>4. ASSUME NEW j \in 1 .. Len(a) PROVE \E i \in 1 .. Len(b) : (i <= c \/ i > d) /\ Back(i, c, d) = j
  <2>1. Skip(j, c, d) \in 1 .. Len(b) /\ (Skip(j, c, d) <= c \/ Skip(j, c, d) > d) /\ Back(Skip(j, c, d), c, d) = j
    BY <1>1 DEF Skip, Back
  <2> QED BY <2>1
<1> QED BY <1>2, <1>3, <1>4

LEMMA LengthNext ==
  ASSUME LineTypes', NEW k \in Kinds, NEW p \in Pylons
  PROVE  Len(Line(k, p)') \in Nat
BY StreamFacts, PipeFacts DEF Line, Kinds

LEMMA NewPlace ==
  ASSUME LineTypes', NEW k \in Kinds, NEW p \in Pylons, NEW i \in 1 .. Len(Line(k, p)')
  PROVE  <<k, p, i>> \in Spots' /\ Item(<<k, p, i>>)' = (Line(k, p)')[i]
<1>1. i \in Nat BY LengthNext
<1> QED BY <1>1 DEF Spots, Item

\* A line is cut.
LEMMA LineThins ==
  ASSUME LineTypes, NEW k \in Kinds, NEW p \in Pylons, NEW c \in Nat, NEW d \in Nat, Cut(Line(k, p), Line(k, p)', c, d),
         NEW g, NEW N, NEW G, \A i \in 1 .. Len(Line(k, p)') : <<k, p, i>> \notin N /\ g[<<k, p, i>>] = Skip(i, c, d),
         \A j \in 1 .. Len(Line(k, p)) : <<k, p, j>> \in G => j > c /\ j <= d,
         \A j \in 1 .. Len(Line(k, p)) : j > c /\ j <= d => <<k, p, j>> \in G
  PROVE  KeepsLine(g, N, G, k, p)
<1>1. Len(Line(k, p)) \in Nat BY LineLength
<1>2. ASSUME NEW i \in 1 .. Len(Line(k, p)')
      PROVE  /\ g[<<k, p, i>>] \in 1 .. Len(Line(k, p)) /\ <<k, p, g[<<k, p, i>>]>> \notin G
             /\ (Line(k, p)')[i] = Line(k, p)[g[<<k, p, i>>]]
  <2>1. /\ Skip(i, c, d) \in 1 .. Len(Line(k, p)) /\ (Line(k, p)')[i] = Line(k, p)[Skip(i, c, d)]
        /\ (Skip(i, c, d) <= c \/ Skip(i, c, d) > d)
    BY <1>1, ThinFacts
  <2> QED BY <2>1
<1>3. ASSUME NEW i \in 1 .. Len(Line(k, p)'), NEW j \in 1 .. Len(Line(k, p)')
      PROVE  i < j <=> g[<<k, p, i>>] < g[<<k, p, j>>]
  BY <1>1, ThinFacts
<1>4. ASSUME NEW j \in 1 .. Len(Line(k, p)), <<k, p, j>> \notin G
      PROVE  \E i \in 1 .. Len(Line(k, p)') : <<k, p, i>> \notin N /\ g[<<k, p, i>>] = j
  <2>1. j <= c \/ j > d BY <1>4
  <2>2. PICK i \in 1 .. Len(Line(k, p)') : Skip(i, c, d) = j BY <1>1, <2>1, ThinFacts
  <2> QED BY <2>2
<1> QED BY <1>2, <1>3, <1>4 DEF KeepsLine

\* A line grows.
LEMMA LineThickens ==
  ASSUME LineTypes', NEW k \in Kinds, NEW p \in Pylons, NEW c \in Nat, NEW d \in Nat, Cut(Line(k, p)', Line(k, p), c, d),
         NEW g, NEW N, NEW G, \A i \in 1 .. Len(Line(k, p)') : g[<<k, p, i>>] = Back(i, c, d),
         \A i \in 1 .. Len(Line(k, p)') : <<k, p, i>> \in N => i > c /\ i <= d,
         \A i \in 1 .. Len(Line(k, p)') : i > c /\ i <= d => <<k, p, i>> \in N,
         \A j : <<k, p, j>> \notin G
  PROVE  KeepsLine(g, N, G, k, p)
<1>1. Len(Line(k, p)') \in Nat BY LengthNext
<1>2. \A i \in 1 .. Len(Line(k, p)') : <<k, p, i>> \notin N => i <= c \/ i > d BY <1>1
<1>3. ASSUME NEW i \in 1 .. Len(Line(k, p)'), <<k, p, i>> \notin N
      PROVE  /\ g[<<k, p, i>>] \in 1 .. Len(Line(k, p)) /\ (Line(k, p)')[i] = Line(k, p)[g[<<k, p, i>>]]
  <2>1. i <= c \/ i > d BY <1>2, <1>3
  <2>2. Back(i, c, d) \in 1 .. Len(Line(k, p)) /\ (Line(k, p)')[i] = Line(k, p)[Back(i, c, d)]
    BY <1>1, <2>1, ThickFacts
  <2> QED BY <2>2
<1>4. ASSUME NEW i \in 1 .. Len(Line(k, p)'), NEW j \in 1 .. Len(Line(k, p)'), <<k, p, i>> \notin N, <<k, p, j>> \notin N
      PROVE  i < j <=> g[<<k, p, i>>] < g[<<k, p, j>>]
  <2>1. (i <= c \/ i > d) /\ (j <= c \/ j > d) BY <1>2, <1>4
  <2>2. i < j <=> Back(i, c, d) < Back(j, c, d) BY <1>1, <2>1, ThickFacts
  <2> QED BY <2>2
<1>5. ASSUME NEW j \in 1 .. Len(Line(k, p))
      PROVE  \E i \in 1 .. Len(Line(k, p)') : <<k, p, i>> \notin N /\ g[<<k, p, i>>] = j
  <2>1. PICK i \in 1 .. Len(Line(k, p)') : (i <= c \/ i > d) /\ Back(i, c, d) = j BY <1>1, ThickFacts
  <2>2. <<k, p, i>> \notin N BY <1>1, <2>1
  <2> QED BY <2>1, <2>2
<1> QED BY <1>3, <1>4, <1>5 DEF KeepsLine

LEMMA LineStays ==
  ASSUME LineTypes, NEW k \in Kinds, NEW p \in Pylons, SameLine(k, p), NEW g, NEW N, NEW G,
         \A i \in 1 .. Len(Line(k, p)') : <<k, p, i>> \notin N /\ g[<<k, p, i>>] = i, \A j : <<k, p, j>> \notin G
  PROVE  KeepsLine(g, N, G, k, p)
BY DEF SameLine, KeepsLine

LEMMA KeptLines ==
  ASSUME LineTypes, NEW N, NEW G, NEW g, \A k \in Kinds, p \in Pylons : KeepsLine(g, N, G, k, p)
  PROVE  \E f : Kept(f, N, G) /\ \A s \in Spots' \ N : f[s][3] = g[s]
<1> DEFINE f == [s \in Spots' \ N |-> <<s[1], s[2], g[s]>>]
<1>1. f = [s \in Spots' \ N |-> f[s]] OBVIOUS
<1>2. \A s \in Spots' \ N : f[s] = <<s[1], s[2], g[s]>> OBVIOUS
<1> HIDE DEF f
<1>3. ASSUME NEW s \in Spots' \ N
      PROVE  f[s] \in Spots \ G /\ Item(s)' = Item(f[s]) /\ f[s][1] = s[1] /\ f[s][2] = s[2] /\ f[s][3] = g[s]
  <2>1. /\ s[1] \in Kinds /\ s[2] \in Pylons /\ s[3] \in 1 .. Len(Line(s[1], s[2])')
        /\ s = <<s[1], s[2], s[3]>> /\ Item(s)' = (Line(s[1], s[2])')[s[3]]
    BY SpotsNext
  <2>2. /\ g[s] \in 1 .. Len(Line(s[1], s[2])) /\ <<s[1], s[2], g[s]>> \notin G
        /\ (Line(s[1], s[2])')[s[3]] = Line(s[1], s[2])[g[s]]
    BY <2>1 DEF KeepsLine
  <2>3. <<s[1], s[2], g[s]>> \in Spots /\ Item(<<s[1], s[2], g[s]>>) = Line(s[1], s[2])[g[s]]
    BY <2>1, <2>2, SpotFacts
  <2>4. f[s] = <<s[1], s[2], g[s]>> /\ f[s][1] = s[1] /\ f[s][2] = s[2] /\ f[s][3] = g[s] BY <1>2
  <2> QED BY <2>1, <2>2, <2>3, <2>4
<1>4. f \in [Spots' \ N -> Spots \ G] BY <1>1, <1>3
<1>5. ASSUME NEW s \in Spots' \ N, NEW t \in Spots' \ N, s[1] = t[1], s[2] = t[2]
      PROVE  s[3] < t[3] <=> f[s][3] < f[t][3]
  <2>1. /\ s[1] \in Kinds /\ s[2] \in Pylons /\ s[3] \in 1 .. Len(Line(s[1], s[2])') /\ s = <<s[1], s[2], s[3]>>
        /\ t[3] \in 1 .. Len(Line(s[1], s[2])') /\ t = <<s[1], s[2], t[3]>>
    BY <1>5, SpotsNext
  <2>2. s[3] < t[3] <=> g[s] < g[t] BY <2>1 DEF KeepsLine
  <2> QED BY <1>3, <2>2
<1>6. ASSUME NEW t \in Spots \ G PROVE \E s \in Spots' \ N : f[s] = t
  <2>1. t[1] \in Kinds /\ t[2] \in Pylons /\ t[3] \in 1 .. Len(Line(t[1], t[2])) /\ t = <<t[1], t[2], t[3]>>
    BY SpotFacts
  <2>2. PICK i \in 1 .. Len(Line(t[1], t[2])') : <<t[1], t[2], i>> \notin N /\ g[<<t[1], t[2], i>>] = t[3]
    BY <2>1 DEF KeepsLine
  <2>3. <<t[1], t[2], i>> \in Spots' \ N
    <3>1. i \in Nat BY <2>2
    <3> QED BY <2>1, <2>2, <3>1 DEF Spots
  <2>4. f[<<t[1], t[2], i>>] = <<t[1], t[2], t[3]>> BY <1>2, <2>2, <2>3
  <2> QED BY <2>1, <2>3, <2>4
<1>7. Kept(f, N, G) BY <1>3, <1>4, <1>5, <1>6 DEF Kept
<1> QED BY <1>3, <1>7

\* Two lines are cut.
LEMMA KeptCuts ==
  ASSUME LineTypes, LineTypes', NEW k \in Kinds, NEW p \in Pylons, NEW l \in Kinds, NEW q \in Pylons, k # l,
         NEW c \in Nat, NEW d \in Nat, NEW e \in Nat, NEW h \in Nat,
         Cut(Line(k, p), Line(k, p)', c, d), Cut(Line(l, q), Line(l, q)', e, h),
         \A m \in Kinds, r \in Pylons : (m # k \/ r # p) /\ (m # l \/ r # q) => SameLine(m, r)
  PROVE  \E f : /\ Kept(f, {}, Pieces(k, p, c, d, l, q, e, h))
                /\ \A s \in Spots' : f[s][3] = IF On(s, k, p) THEN Skip(s[3], c, d)
                                               ELSE IF On(s, l, q) THEN Skip(s[3], e, h) ELSE s[3]
<1> DEFINE g == [s \in Spots' |-> IF On(s, k, p) THEN Skip(s[3], c, d)
                                  ELSE IF On(s, l, q) THEN Skip(s[3], e, h) ELSE s[3]]
           G == Pieces(k, p, c, d, l, q, e, h)
           N == {}
<1>1. \A s \in Spots' : g[s] = IF On(s, k, p) THEN Skip(s[3], c, d)
                               ELSE IF On(s, l, q) THEN Skip(s[3], e, h) ELSE s[3]
  OBVIOUS
<1>2. (\A t : t \in G <=> t \in Spots /\ (Piece(t, k, p, c, d) \/ Piece(t, l, q, e, h))) /\ \A s : s \notin N
  BY DEF Pieces
<1> HIDE DEF g, G, N
<1>3. ASSUME NEW m \in Kinds, NEW r \in Pylons PROVE KeepsLine(g, N, G, m, r)
  <2>0. /\ \A i \in 1 .. Len(Line(m, r)') : <<m, r, i>> \in Spots'
        /\ \A j \in 1 .. Len(Line(m, r)) : <<m, r, j>> \in Spots
        /\ \A i, n, x : On(<<m, r, i>>, n, x) <=> m = n /\ r = x
    BY SpotFacts, NewPlace DEF On
  <2>1. CASE m = k /\ r = p BY <1>1, <1>2, <2>0, <2>1, LineThins DEF Piece
  <2>2. CASE m = l /\ r = q BY <1>1, <1>2, <2>0, <2>2, LineThins DEF Piece
  <2>3. CASE (m # k \/ r # p) /\ (m # l \/ r # q) BY <1>1, <1>2, <2>0, <2>3, LineStays DEF Piece
  <2> QED BY <2>1, <2>2, <2>3
<1>4. PICK f : Kept(f, N, G) /\ \A s \in Spots' \ N : f[s][3] = g[s] BY <1>3, KeptLines
<1>5. Kept(f, {}, Pieces(k, p, c, d, l, q, e, h)) /\ \A s \in Spots' : f[s][3] = g[s] BY <1>4 DEF G, N
<1> QED BY <1>1, <1>5

\* One line is cut and another grows.
LEMMA KeptMove ==
  ASSUME LineTypes, LineTypes', NEW k \in Kinds, NEW p \in Pylons, NEW l \in Kinds, NEW q \in Pylons, k # l,
         NEW c \in Nat, NEW d \in Nat, NEW e \in Nat, NEW h \in Nat,
         Cut(Line(k, p), Line(k, p)', c, d), Cut(Line(l, q)', Line(l, q), e, h),
         \A m \in Kinds, r \in Pylons : (m # k \/ r # p) /\ (m # l \/ r # q) => SameLine(m, r)
  PROVE  \E f : /\ Kept(f, Grown(l, q, e, h), Gone(k, p, c, d))
                /\ \A s \in Spots' \ Grown(l, q, e, h) : f[s][3] = IF On(s, k, p) THEN Skip(s[3], c, d)
                                               ELSE IF On(s, l, q) THEN Back(s[3], e, h) ELSE s[3]
<1> DEFINE g == [s \in Spots' |-> IF On(s, k, p) THEN Skip(s[3], c, d)
                                  ELSE IF On(s, l, q) THEN Back(s[3], e, h) ELSE s[3]]
           G == Gone(k, p, c, d)
           N == Grown(l, q, e, h)
<1>1. \A s \in Spots' : g[s] = IF On(s, k, p) THEN Skip(s[3], c, d)
                               ELSE IF On(s, l, q) THEN Back(s[3], e, h) ELSE s[3]
  OBVIOUS
<1>2. /\ \A t : t \in G <=> t \in Spots /\ Piece(t, k, p, c, d)
      /\ \A s : s \in N <=> s \in Spots' /\ Piece(s, l, q, e, h)
  BY DEF Gone, Grown
<1> HIDE DEF g, G, N
<1>3. ASSUME NEW m \in Kinds, NEW r \in Pylons PROVE KeepsLine(g, N, G, m, r)
  <2>0. /\ \A i \in 1 .. Len(Line(m, r)') : <<m, r, i>> \in Spots'
        /\ \A j \in 1 .. Len(Line(m, r)) : <<m, r, j>> \in Spots
        /\ \A i, n, x : On(<<m, r, i>>, n, x) <=> m = n /\ r = x
    BY SpotFacts, NewPlace DEF On
  <2>1. CASE m = k /\ r = p BY <1>1, <1>2, <2>0, <2>1, LineThins DEF Piece
  <2>2. CASE m = l /\ r = q BY <1>1, <1>2, <2>0, <2>2, LineThickens DEF Piece
  <2>3. CASE (m # k \/ r # p) /\ (m # l \/ r # q) BY <1>1, <1>2, <2>0, <2>3, LineStays DEF Piece
  <2> QED BY <2>1, <2>2, <2>3
<1>4. PICK f : Kept(f, N, G) /\ \A s \in Spots' \ N : f[s][3] = g[s] BY <1>3, KeptLines
<1> QED BY <1>1, <1>4 DEF G, N

LEMMA OneSpot ==
  ASSUME LineTypes, NEW k \in Kinds, NEW p \in Pylons, NEW c \in Nat
  PROVE  /\ c + 1 \in 1 .. Len(Line(k, p)) => Gone(k, p, c, c + 1) = {<<k, p, c + 1>>}
         /\ Gone(k, p, c, c) = {}
<1>1. \A t \in Spots : t[3] \in Nat /\ t = <<t[1], t[2], t[3]>> BY SpotFacts
<1>2. ASSUME c + 1 \in 1 .. Len(Line(k, p)) PROVE Gone(k, p, c, c + 1) = {<<k, p, c + 1>>}
  <2>1. <<k, p, c + 1>> \in Spots BY <1>2, SpotFacts
  <2>2. ASSUME NEW t \in Gone(k, p, c, c + 1) PROVE t = <<k, p, c + 1>>
    <3>1. t \in Spots /\ t[1] = k /\ t[2] = p /\ t[3] > c /\ t[3] <= c + 1 BY DEF Gone, Piece, On
    <3> QED BY <1>1, <3>1
  <2>3. <<k, p, c + 1>> \in Gone(k, p, c, c + 1) BY <2>1 DEF Gone, Piece, On
  <2> QED BY <2>2, <2>3
<1>3. Gone(k, p, c, c) = {} BY <1>1 DEF Gone, Piece
<1> QED BY <1>2, <1>3

LEMMA OneSpotNext ==
  ASSUME LineTypes', NEW k \in Kinds, NEW p \in Pylons, NEW c \in Nat
  PROVE  /\ c + 1 \in 1 .. Len(Line(k, p)') => Grown(k, p, c, c + 1) = {<<k, p, c + 1>>}
         /\ Grown(k, p, c, c) = {}
<1>1. \A t \in Spots' : t[3] \in Nat /\ t = <<t[1], t[2], t[3]>>
  <2>1. ASSUME NEW t \in Spots' PROVE t[3] \in Nat
    <3>1. t[1] \in Kinds /\ t[2] \in Pylons /\ t[3] \in 1 .. Len(Line(t[1], t[2])') BY SpotsNext
    <3>2. Len(Line(t[1], t[2])') \in Nat BY <3>1, LengthNext
    <3> QED BY <3>1, <3>2
  <2> QED BY <2>1, SpotsNext
<1>2. ASSUME c + 1 \in 1 .. Len(Line(k, p)') PROVE Grown(k, p, c, c + 1) = {<<k, p, c + 1>>}
  <2>1. <<k, p, c + 1>> \in Spots' BY <1>2 DEF Spots
  <2>2. ASSUME NEW t \in Grown(k, p, c, c + 1) PROVE t = <<k, p, c + 1>>
    <3>1. t \in Spots' /\ t[1] = k /\ t[2] = p /\ t[3] > c /\ t[3] <= c + 1 BY DEF Grown, Piece, On
    <3> QED BY <1>1, <3>1
  <2>3. <<k, p, c + 1>> \in Grown(k, p, c, c + 1) BY <2>1 DEF Grown, Piece, On
  <2> QED BY <2>2, <2>3
<1>3. Grown(k, p, c, c) = {} BY <1>1 DEF Grown, Piece
<1> QED BY <1>2, <1>3

LEMMA NoCut == \A s : Len(s) \in Nat => Cut(s, s, 0, 0)
BY DEF Cut, Skip

LEMMA KindLines == /\ "stream" \in Kinds /\ "pipe" \in Kinds
                   /\ \A k \in Kinds : k = "stream" \/ k = "pipe"
                   /\ \A p : Line("stream", p) = Stream(p) /\ Line("pipe", p) = Pipe(p)
                   /\ \A p : Line("stream", p)' = Stream(p)' /\ Line("pipe", p)' = Pipe(p)'
BY DEF Kinds, Line

LEMMA CarriedSame ==
  ASSUME LineTypes, LineTypes', \A k \in Kinds, p \in Pylons : SameLine(k, p)
  PROVE  \E f : Carried(f)
<1> DEFINE f == [s \in Spots' |-> s]
<1>1. ASSUME NEW s \in Spots' PROVE s \in Spots /\ Item(s)' = Item(s)
  <2>1. /\ s[1] \in Kinds /\ s[2] \in Pylons /\ s[3] \in 1 .. Len(Line(s[1], s[2])')
        /\ s = <<s[1], s[2], s[3]>> /\ Item(s)' = (Line(s[1], s[2])')[s[3]]
    BY SpotsNext
  <2>2. Line(s[1], s[2])' = Line(s[1], s[2]) BY <2>1 DEF SameLine
  <2>3. <<s[1], s[2], s[3]>> \in Spots /\ Item(<<s[1], s[2], s[3]>>) = Line(s[1], s[2])[s[3]]
    BY <2>1, <2>2, SpotFacts
  <2> QED BY <2>1, <2>2, <2>3
<1>2. Carried(f) BY <1>1 DEF Carried
<1> QED BY <1>2

\* Two places do not come from the same one.
LEMMA KeptOnce ==
  ASSUME LineTypes', NEW f, NEW N, NEW G, Kept(f, N, G), NEW s \in Spots' \ N, NEW t \in Spots' \ N, f[s] = f[t]
  PROVE  s = t
<1>1. s[1] = t[1] /\ s[2] = t[2] /\ ((s[3] < t[3]) <=> (f[s][3] < f[s][3])) /\ ((t[3] < s[3]) <=> (f[s][3] < f[s][3]))
  BY DEF Kept
<1>2. s[1] \in Kinds /\ s[2] \in Pylons /\ s[3] \in 1 .. Len(Line(s[1], s[2])') /\ s = <<s[1], s[2], s[3]>>
      /\ t[3] \in 1 .. Len(Line(t[1], t[2])') /\ t = <<t[1], t[2], t[3]>>
  BY SpotsNext
<1>3. s[3] \in Nat /\ t[3] \in Nat BY <1>1, <1>2, LengthNext
<1> QED BY <1>1, <1>2, <1>3

\* Two lines are cut.
LEMMA CarriedCuts ==
  ASSUME LineTypes, LineTypes', NEW k \in Kinds, NEW p \in Pylons, NEW l \in Kinds, NEW q \in Pylons, k # l,
         NEW c \in Nat, NEW d \in Nat, NEW e \in Nat, NEW h \in Nat,
         Cut(Line(k, p), Line(k, p)', c, d), Cut(Line(l, q), Line(l, q)', e, h),
         \A m \in Kinds, r \in Pylons : (m # k \/ r # p) /\ (m # l \/ r # q) => SameLine(m, r)
  PROVE  \E f : Carried(f) /\ \A s \in Spots' : f[s] \notin Pieces(k, p, c, d, l, q, e, h)
<1> DEFINE N == {}
           G == Pieces(k, p, c, d, l, q, e, h)
<1>1. PICK f : Kept(f, N, G) BY KeptCuts
<1>2. Spots' \ N = Spots' OBVIOUS
<1> HIDE DEF N, G
<1>3. Carried(f) BY <1>1, <1>2, KeptOnce DEF Kept, Carried
<1>4. \A s \in Spots' : f[s] \notin G BY <1>1, <1>2 DEF Kept
<1> QED BY <1>3, <1>4 DEF G

\* One line is cut.
LEMMA CarriedCut ==
  ASSUME LineTypes, LineTypes', NEW k \in Kinds, NEW p \in Pylons, NEW c \in Nat, NEW d \in Nat,
         Cut(Line(k, p), Line(k, p)', c, d),
         \A l \in Kinds, q \in Pylons : l # k \/ q # p => SameLine(l, q)
  PROVE  \E f : Carried(f) /\ \A s \in Spots' : \A i \in c + 1 .. d : f[s] # <<k, p, i>>
<1>1. PICK l \in Kinds : l # k BY DEF Kinds
<1>2. PICK e \in Nat : Cut(Line(l, p), Line(l, p)', e, e) BY <1>1, LineLength, NoCut DEF SameLine
<1>3. \A m \in Kinds, r \in Pylons : (m # k \/ r # p) /\ (m # l \/ r # p) => SameLine(m, r) OBVIOUS
<1>4. PICK f : Carried(f) /\ \A s \in Spots' : f[s] \notin Pieces(k, p, c, d, l, p, e, e)
  BY <1>1, <1>2, <1>3, CarriedCuts
<1>5. \A t \in Spots : t \notin Pieces(k, p, c, d, l, p, e, e) => \A i \in c + 1 .. d : t # <<k, p, i>>
  BY DEF Pieces, Piece, On
<1> QED BY <1>4, <1>5 DEF Carried

\* A message goes from a line to another one.
LEMMA CarriedMove ==
  ASSUME LineTypes, LineTypes', NEW k \in Kinds, NEW p \in Pylons, NEW l \in Kinds, NEW q \in Pylons, k # l,
         NEW c \in Nat, NEW e \in Nat,
         Cut(Line(k, p), Line(k, p)', c, c + 1), Cut(Line(l, q)', Line(l, q), e, e + 1),
         (Line(l, q)')[e + 1] = Line(k, p)[c + 1],
         \A m \in Kinds, r \in Pylons : (m # k \/ r # p) /\ (m # l \/ r # q) => SameLine(m, r)
  PROVE  \E f : Carried(f)
<1>1. c + 1 \in 1 .. Len(Line(k, p)) /\ e + 1 \in 1 .. Len(Line(l, q)')
  <2>1. Len(Line(k, p)) \in Nat /\ Len(Line(l, q)') \in Nat BY LineLength, LengthNext
  <2>2. c + 1 <= Len(Line(k, p)) /\ e + 1 <= Len(Line(l, q)') BY DEF Cut
  <2> QED BY <2>1, <2>2
<1> DEFINE old == <<k, p, c + 1>>
           new == <<l, q, e + 1>>
<1>2. c + 1 \in Nat /\ e + 1 \in Nat OBVIOUS
<1>3. Gone(k, p, c, c + 1) = {old} /\ Grown(l, q, e, e + 1) = {new} BY <1>1, OneSpot, OneSpotNext
<1>4. old \in Spots /\ new \in Spots' /\ Item(new)' = Item(old) BY <1>1, SpotFacts, NewPlace
<1> HIDE DEF old, new
<1>5. PICK f : Kept(f, {new}, {old})
  <2>1. \E f : Kept(f, Grown(l, q, e, e + 1), Gone(k, p, c, c + 1)) BY <1>2, KeptMove
  <2> QED BY <1>3, <2>1
<1> DEFINE g == [s \in Spots' |-> IF s = new THEN old ELSE f[s]]
<1>6. ASSUME NEW s \in Spots', s # new PROVE g[s] = f[s] /\ f[s] \in Spots \ {old} /\ Item(s)' = Item(f[s])
  BY <1>5, <1>6 DEF Kept
<1>7. g[new] = old /\ g = [s \in Spots' |-> g[s]] BY <1>4
<1> HIDE DEF g
<1>8. \A s, t \in Spots' : g[s] = g[t] => s = t
  <2> SUFFICES ASSUME NEW s \in Spots', NEW t \in Spots', g[s] = g[t] PROVE s = t OBVIOUS
  <2>1. CASE s # new /\ t # new BY <1>5, <1>6, <2>1, KeptOnce
  <2> QED BY <1>6, <1>7, <2>1
<1>9. (\A s \in Spots' : g[s] \in Spots /\ Item(s)' = Item(g[s])) /\ g \in [Spots' -> Spots] BY <1>4, <1>6, <1>7
<1> QED BY <1>8, <1>9 DEF Carried

-----------------------------------------------------------------------------
(* No wave and no agent is doubled.                                        *)

LEMMA SameFacts ==
  ASSUME NEW m, NEW n, Same(m, n)
  PROVE  Same(n, m) /\ m.kind = n.kind /\ m.from = n.from /\ m.nr = n.nr
         /\ (\A x : Same(n, x) <=> Same(m, x)) /\ (\A x : Same(x, n) <=> Same(x, m))
BY DEF Same

LEMMA ReceivedFacts ==
  ASSUME HistoryTypes, NEW b \in Agents, NEW j \in DOMAIN received[b]
  PROVE  /\ received[b][j].wave \in Wave /\ received[b][j].by \in Pylons /\ received[b][j].wave \in Content
         /\ j \in 1 .. Len(received[b]) /\ Len(received[b]) \in Nat
<1>1. received[b] \in Seq(Receipt) BY DEF HistoryTypes
<1>2. received[b][j] \in Receipt /\ j \in 1 .. Len(received[b]) /\ Len(received[b]) \in Nat BY <1>1
<1> QED BY <1>2 DEF Receipt, Content

LEMMA NoSpots == Init => Spots = {}
<1> SUFFICES ASSUME Init, NEW s \in Spots PROVE FALSE OBVIOUS
<1>1. LineTypes BY TypeInvInit, TypeParts
<1>2. s[1] \in Kinds /\ s[2] \in Pylons /\ s[3] \in 1 .. Len(Line(s[1], s[2])) BY <1>1, SpotFacts
<1>3. Len(Stream(s[2])) = 0 BY <1>1, <1>2, StreamFacts DEF Init, Served
<1>4. Len(Pipe(s[2])) = 0
  <2>1. serving[s[2]] = Nobody /\ Len(inbound[s[2]]) = 0 /\ Len(toPylon[s[2]]) = 0 BY <1>2 DEF Init
  <2>2. Held(s[2]) = 0 BY <1>1, <1>2, <2>1, HandFacts
  <2> QED BY <1>1, <1>2, <2>1, <2>2, PipeFacts
<1> QED BY <1>2, <1>3, <1>4 DEF Line

LEMMA CopiesInit == Init => Copies
<1> SUFFICES ASSUME Init PROVE Copies OBVIOUS
<1>2. Spots = {} BY NoSpots
<1>3. Once /\ Sent BY <1>2 DEF Once, Sent
<1>4. LostKnown BY DEF Init, LostKnown
<1>5. Taken BY DEF Init, Taken
<1> QED BY <1>3, <1>4, <1>5 DEF Copies

\* What is carried stays single.
LEMMA OnceCarried ==
  ASSUME LineTypes, Once, NEW f, Carried(f)
  PROVE  Once'
<1> SUFFICES ASSUME NEW s \in Spots', NEW t \in Spots', Item(s)' \in Content, Item(t)' \in Content, Same(Item(s)', Item(t)')
             PROVE  s = t
  BY DEF Once, Same
<1>1. f[s] \in Spots /\ f[t] \in Spots /\ Item(s)' = Item(f[s]) /\ Item(t)' = Item(f[t]) BY DEF Carried
<1>2. f[s] = f[t] BY <1>1 DEF Once
<1> QED BY <1>2 DEF Carried

\* A step that carries, and drops only what it does not carry.
LEMMA CopiesCarried ==
  ASSUME TypeInv, TypeInv', Copies, NEW f, Carried(f), UNCHANGED received,
         \A m \in Content : Known(m) => Known(m)',
         \A s \in Spots', m \in Content : m = Item(f[s]) => Underway(m)',
         \A x \in lost' : x \in lost \/ \E t \in Spots : x = Item(t) /\ \A s \in Spots' : f[s] # t
  PROVE  Copies'
<1>1. LineTypes /\ HistoryTypes /\ LineTypes' /\ HistoryTypes' BY TypeParts
<1>2. Once /\ Sent /\ LostKnown /\ Taken BY DEF Copies
<1>3. Once' BY <1>1, <1>2, OnceCarried
<1>4. ASSUME NEW x \in lost', x \notin lost
      PROVE  /\ Known(x) /\ Fresh(x) /\ x \in Content
             /\ \A s \in Spots', m \in Content : m = Item(f[s]) => ~Same(m, x)
  <2>1. PICK t \in Spots : x = Item(t) /\ \A s \in Spots' : f[s] # t BY <1>4
  <2>2. x \in Content BY <1>1 DEF HistoryTypes
  <2>3. Known(x) /\ Fresh(x) BY <1>2, <2>1, <2>2 DEF Sent
  <2>4. ASSUME NEW s \in Spots', NEW m \in Content, m = Item(f[s]), Same(m, x) PROVE FALSE
    <3>1. f[s] \in Spots BY DEF Carried
    <3>2. f[s] = t BY <1>2, <2>1, <2>2, <2>4, <3>1 DEF Once
    <3> QED BY <2>1, <3>2
  <2> QED BY <2>2, <2>3, <2>4
<1>5. Sent'
  <2> SUFFICES ASSUME NEW s \in Spots', NEW m \in Content, m = Item(s)'
               PROVE  Known(m)' /\ Underway(m)' /\ Fresh(m)'
    BY DEF Sent, Known, Underway, Fresh
  <2>1. f[s] \in Spots /\ m = Item(f[s]) BY DEF Carried
  <2>2. Known(m) /\ Fresh(m) BY <1>2, <2>1 DEF Sent
  <2>3. Fresh(m)' BY <1>4, <2>1, <2>2 DEF Fresh
  <2> QED BY <2>1, <2>2, <2>3
<1>6. LostKnown'
  <2> SUFFICES ASSUME NEW x \in lost' PROVE Known(x)' BY DEF LostKnown
  <2>1. Known(x) /\ x \in Content BY <1>1, <1>2, <1>4 DEF LostKnown, HistoryTypes
  <2> QED BY <2>1
<1>7. Taken'
  <2> SUFFICES ASSUME NEW b \in Agents, NEW j \in DOMAIN received[b]
               PROVE  /\ Known(received[b][j].wave)'
                      /\ \A n \in lost' : ~Same(received[b][j].wave, n)
    BY <1>2 DEF Taken
  <2> DEFINE w == received[b][j].wave
  <2>1. w \in Content BY <1>1, ReceivedFacts
  <2>2. Known(w) /\ \A n \in lost : ~Same(w, n) BY <1>2 DEF Taken
  <2>3. ASSUME NEW n \in lost', n \notin lost, Same(w, n) PROVE FALSE BY <1>4, <2>3, SameFacts DEF Fresh
  <2>4. \A m : m = w => Known(m)' BY <2>1, <2>2
  <2>5. w' = w OBVIOUS
  <2>6. Known(w)' BY <2>4, <2>5 DEF Known
  <2> QED BY <2>2, <2>3, <2>6
<1> QED BY <1>3, <1>5, <1>6, <1>7 DEF Copies

\* A step that carries all but one wave, which is taken.
LEMMA CopiesTaken ==
  ASSUME TypeInv, TypeInv', Copies, NEW f, Carried(f), UNCHANGED <<lost, count, moved, where>>,
         NEW t \in Spots, \A s \in Spots' : f[s] # t,
         NEW w \in Wave, w = Item(t), NEW p \in Pylons,
         received' = [received EXCEPT ![w.to] = Append(@, [wave |-> w, by |-> p])]
  PROVE  Copies'
<1>1. LineTypes /\ HistoryTypes /\ LineTypes' /\ HistoryTypes' BY TypeParts
<1>2. Once /\ Sent /\ LostKnown /\ Taken BY DEF Copies
<1>3. Once' BY <1>1, <1>2, OnceCarried
<1>4. w \in Content /\ w.to \in Agents BY WaveFields DEF Content
<1>5. Known(w) /\ Fresh(w) BY <1>2, <1>4 DEF Sent
<1>6. \A m : (Known(m)' <=> Known(m)) /\ (Underway(m)' <=> Underway(m)) BY DEF Known, Underway
<1>7. ASSUME NEW b \in Agents, NEW j \in DOMAIN received'[b]
      PROVE  \/ j \in DOMAIN received[b] /\ received'[b][j] = received[b][j]
             \/ b = w.to /\ j = Len(received[b]) + 1 /\ received'[b][j].wave = w
  <2>1. received[b] \in Seq(Receipt) BY <1>1 DEF HistoryTypes
  <2>2. CASE b # w.to BY <1>1, <2>2 DEF HistoryTypes
  <2>3. CASE b = w.to
    <3> DEFINE r == [wave |-> w, by |-> p]
    <3>1. r.wave = w /\ r \in Receipt BY DEF Receipt
    <3>2. received'[b] = Append(received[b], r) BY <1>1, <2>3 DEF HistoryTypes
    <3> HIDE DEF r
    <3>3. j \in 1 .. Len(received[b]) + 1 BY <2>1, <3>1, <3>2
    <3>4. (j \in 1 .. Len(received[b]) => Append(received[b], r)[j] = received[b][j])
          /\ Append(received[b], r)[Len(received[b]) + 1] = r /\ Len(received[b]) \in Nat
      BY <2>1, <3>1, Appended
    <3>5. DOMAIN received[b] = 1 .. Len(received[b]) BY <2>1
    <3> QED BY <2>3, <3>1, <3>2, <3>3, <3>4, <3>5
  <2> QED BY <2>2, <2>3
<1>8. Sent'
  <2> SUFFICES ASSUME NEW s \in Spots', NEW m \in Content, m = Item(s)'
               PROVE  Known(m)' /\ Underway(m)' /\ Fresh(m)'
    BY DEF Sent, Known, Underway, Fresh
  <2>1. f[s] \in Spots /\ m = Item(f[s]) /\ f[s] # t BY DEF Carried
  <2>2. Known(m) /\ Fresh(m) /\ Underway(m) BY <1>2, <2>1 DEF Sent
  <2>3. ~Same(m, w) BY <1>2, <1>4, <2>1 DEF Once
  <2>4. Fresh(m)' BY <1>7, <2>2, <2>3 DEF Fresh
  <2> QED BY <1>6, <2>2, <2>4
<1>9. LostKnown' BY <1>2, <1>6 DEF LostKnown
<1>10. ASSUME NEW b \in Agents, NEW j \in DOMAIN received'[b], NEW x, x = received'[b][j].wave
       PROVE  /\ Known(x)' /\ x.to = b /\ \A n \in lost : ~Same(x, n)
              /\ \A c \in Agents : \A k \in DOMAIN received'[c] : Same(x, received'[c][k].wave) => b = c /\ j = k
  <2>1. CASE j \in DOMAIN received[b] /\ received'[b][j] = received[b][j]
    <3>1. Known(x) /\ x.to = b /\ \A n \in lost : ~Same(x, n) BY <1>2, <1>10, <2>1 DEF Taken
    <3>2. ~Same(x, w)
      <4>1. ~Same(w, received[b][j].wave) BY <1>5, <2>1 DEF Fresh
      <4> QED BY <1>10, <2>1, <4>1 DEF Same
    <3>3. ASSUME NEW c \in Agents, NEW k \in DOMAIN received'[c], Same(x, received'[c][k].wave) PROVE b = c /\ j = k
      <4>1. k \in DOMAIN received[c] /\ received'[c][k] = received[c][k] BY <1>7, <3>2, <3>3
      <4> QED BY <1>2, <1>10, <2>1, <3>3, <4>1 DEF Taken
    <3> QED BY <1>6, <3>1, <3>3
  <2>2. CASE b = w.to /\ j = Len(received[b]) + 1 /\ received'[b][j].wave = w
    <3>1. Known(w) /\ \A n \in lost : ~Same(w, n) BY <1>5 DEF Fresh
    <3>2. ASSUME NEW c \in Agents, NEW k \in DOMAIN received'[c], Same(w, received'[c][k].wave) PROVE b = c /\ j = k
      <4>1. ~(k \in DOMAIN received[c] /\ received'[c][k] = received[c][k]) BY <1>5, <3>2 DEF Fresh
      <4> QED BY <1>7, <2>2, <4>1
    <3> QED BY <1>6, <1>10, <2>2, <3>1, <3>2
  <2> QED BY <1>7, <2>1, <2>2
<1>11. Taken'
  <2> SUFFICES ASSUME NEW b \in Agents, NEW j \in DOMAIN received'[b]
               PROVE  /\ Known(received[b][j].wave)' /\ received'[b][j].wave.to = b
                      /\ \A n \in lost' : ~Same(received'[b][j].wave, n)
                      /\ \A c \in Agents : \A k \in DOMAIN received'[c] :
                             Same(received'[b][j].wave, received'[c][k].wave) => b = c /\ j = k
    BY DEF Taken
  <2>1. \A x : x = received'[b][j].wave =>
           /\ Known(x)' /\ x.to = b /\ \A n \in lost : ~Same(x, n)
           /\ \A c \in Agents : \A k \in DOMAIN received'[c] : Same(x, received'[c][k].wave) => b = c /\ j = k
    BY <1>10
  <2>2. \A x : x = received'[b][j].wave => Known(x)' BY <2>1
  <2>3. Known(received[b][j].wave)' BY <2>2 DEF Known
  <2> QED BY <2>1, <2>3
<1> QED BY <1>3, <1>8, <1>9, <1>11 DEF Copies

LEMMA KnownStays ==
  ASSUME TypeInv, TypeInv',
         \A a \in Agents : /\ moved'[a] = moved[a] /\ count'[a] >= count[a]
                           /\ where[a].step \notin {"stopping", "removed"} => where'[a].step \notin {"stopping", "removed"}
  PROVE  \A m \in Content : Known(m) => Known(m)'
<1> SUFFICES ASSUME NEW m \in Content, Known(m) PROVE Known(m)' OBVIOUS
<1>1. m.from \in Agents /\ m.nr \in Nat BY MessageKinds
<1>2. count[m.from] \in Nat /\ count'[m.from] \in Nat BY <1>1, TypeParts DEF CountTypes
<1> QED BY <1>1, <1>2 DEF Known

LEMMA UnderwayStays ==
  ASSUME TypeInv, Copies, NEW e \in Entities, where[e].step # "away",
         \A f \in Entities : f # e => where'[f] = where[f],
         \A a \in Agents : a # e => moved'[a] = moved[a]
  PROVE  \A s \in Spots, m \in Content : m = Item(s) => Underway(m)'
<1> SUFFICES ASSUME NEW s \in Spots, NEW m \in Content, m = Item(s), m.kind = "agent"
             PROVE  m.nr = moved'[m.from] /\ where'[m.from].step = "away"
  BY DEF Underway
<1>1. m.from \in Agents /\ m.from \in Entities BY MessageKinds DEF Entities
<1>2. m.nr = moved[m.from] /\ where[m.from].step = "away" BY DEF Copies, Sent, Underway
<1>3. m.from # e BY <1>2
<1> QED BY <1>1, <1>2, <1>3

LEMMA AllSameLines ==
  ASSUME \A q \in Pylons : SameStream(q) /\ SamePipe(q)
  PROVE  \A k \in Kinds, q \in Pylons : SameLine(k, q)
BY DEF SameLine, Line, SameStream, SamePipe

\* A step that moves nothing.
LEMMA CopiesStill ==
  ASSUME TypeInv, TypeInv', Copies, \A q \in Pylons : SameStream(q) /\ SamePipe(q), UNCHANGED <<received, lost>>,
         \A m \in Content : Known(m) => Known(m)',
         \A s \in Spots, m \in Content : m = Item(s) => Underway(m)'
  PROVE  Copies'
<1>1. PICK f : Carried(f) BY TypeParts, AllSameLines, CarriedSame
<1>2. \A s \in Spots', m \in Content : m = Item(f[s]) => Underway(m)' BY <1>1 DEF Carried
<1> QED BY <1>1, <1>2, CopiesCarried

LEMMA UnderwaySame ==
  ASSUME Copies, UNCHANGED <<where, moved>>
  PROVE  \A s \in Spots, m \in Content : m = Item(s) => Underway(m)'
BY DEF Copies, Sent, Underway

LEMMA KnownSame ==
  ASSUME UNCHANGED <<where, moved, count>>
  PROVE  \A m \in Content : Known(m) => Known(m)'
BY DEF Known

\* A step that carries, while the entities do nothing.
LEMMA CopiesCarriedAlone ==
  ASSUME TypeInv, TypeInv', Copies, NEW f, Carried(f), UNCHANGED <<agents, received>>,
         \A x \in lost' : x \in lost \/ \E t \in Spots : x = Item(t) /\ \A s \in Spots' : f[s] # t
  PROVE  Copies'
<1>1. \A s \in Spots', m \in Content : m = Item(f[s]) => Underway(m)' BY UnderwaySame DEF Carried, agents
<1>2. \A m \in Content : Known(m) => Known(m)' BY KnownSame DEF agents
<1> QED BY <1>1, <1>2, CopiesCarried

\* The same, and what is dropped is cut out of a line.
LEMMA CopiesCut ==
  ASSUME TypeInv, TypeInv', Copies, NEW k \in Kinds, NEW p \in Pylons, NEW c \in Nat,
         Cut(Line(k, p), Line(k, p)', c, c + 1),
         \A l \in Kinds, q \in Pylons : l # k \/ q # p => SameLine(l, q),
         UNCHANGED <<agents, received>>, \A x \in lost' : x \in lost \/ x = Line(k, p)[c + 1]
  PROVE  Copies'
<1>1. c + 1 \in Nat OBVIOUS
<1>2. LineTypes /\ LineTypes' BY TypeParts
<1>3. PICK f : Carried(f) /\ \A s \in Spots' : \A i \in c + 1 .. c + 1 : f[s] # <<k, p, i>>
  BY <1>1, <1>2, CarriedCut
<1>4. \A s \in Spots' : f[s] # <<k, p, c + 1>> BY <1>1, <1>3
<1>5. c + 1 \in 1 .. Len(Line(k, p)) BY <1>2, LineLength DEF Cut
<1>6. <<k, p, c + 1>> \in Spots /\ Item(<<k, p, c + 1>>) = Line(k, p)[c + 1] BY <1>2, <1>5, SpotFacts
<1>7. \A x \in lost' : x \in lost \/ \E t \in Spots : x = Item(t) /\ \A s \in Spots' : f[s] # t BY <1>4, <1>6
<1> QED BY <1>3, <1>7, CopiesCarriedAlone

\* A line grows by some registrations and at most one message that is new.
LEMMA CopiesGrow ==
  ASSUME TypeInv, TypeInv', Copies, NEW p \in Pylons, NEW t \in Seq(Message),
         \A i \in 1 .. Len(t) : i # Len(t) => t[i] \notin Content,
         Stream(p)' = Stream(p) \o t, \A q \in Pylons : q # p => SameStream(q), \A q \in Pylons : SamePipe(q),
         UNCHANGED <<received, lost>>,
         \A m \in Content : Known(m) => Known(m)',
         \A s \in Spots, m \in Content : m = Item(s) => Underway(m)',
         \A m \in Content : m = t[Len(t)] => Known(m)' /\ Underway(m)' /\ \A x \in Content : Known(x) => ~Same(x, m)
  PROVE  Copies'
<1>1. LineTypes /\ HistoryTypes /\ LineTypes' /\ HistoryTypes' BY TypeParts
<1>2. Once /\ Sent /\ LostKnown /\ Taken BY DEF Copies
<1> DEFINE n == Len(Stream(p))
           new == <<"stream", p, n + Len(t)>>
<1>3. /\ Stream(p) \in Seq(Message) /\ n \in Nat /\ Len(t) \in Nat
      /\ Len(Stream(p)') = n + Len(t)
      /\ \A i \in 1 .. n : (Stream(p)')[i] = Stream(p)[i]
      /\ \A i \in 1 .. Len(t) : (Stream(p)')[n + i] = t[i]
  <2>1. Stream(p) \in Seq(Message) /\ n \in Nat /\ Len(t) \in Nat BY <1>1, StreamFacts, ElementIn
  <2> DEFINE s == Stream(p)
  <2>2. s \in Seq(Message) BY <2>1
  <2> HIDE DEF s
  <2>3. Len(s \o t) = Len(s) + Len(t) BY <2>2, MessageConcat
  <2>4. \A i \in 1 .. Len(s) : (s \o t)[i] = s[i] BY <2>2, MessageConcat
  <2>5. \A i \in 1 .. Len(t) : (s \o t)[Len(s) + i] = t[i] BY <2>2, MessageConcat
  <2> QED BY <2>1, <2>3, <2>4, <2>5 DEF s
<1> HIDE DEF n
<1>4. ASSUME NEW s \in Spots', NEW m \in Content, m = Item(s)'
      PROVE  \/ s \in Spots /\ Item(s) = m
             \/ s = new /\ m = t[Len(t)]
  <2>1. /\ s[1] \in Kinds /\ s[2] \in Pylons /\ s[3] \in 1 .. Len(Line(s[1], s[2])')
        /\ s = <<s[1], s[2], s[3]>> /\ Item(s)' = (Line(s[1], s[2])')[s[3]]
    BY SpotsNext
  <2>2. CASE s[1] # "stream" \/ s[2] # p
    <3>1. Line(s[1], s[2])' = Line(s[1], s[2]) BY <2>1, <2>2 DEF Line, SameStream, SamePipe, Kinds
    <3>2. <<s[1], s[2], s[3]>> \in Spots /\ Item(<<s[1], s[2], s[3]>>) = Line(s[1], s[2])[s[3]]
      BY <1>1, <2>1, <3>1, SpotFacts
    <3> QED BY <1>4, <2>1, <3>1, <3>2
  <2>3. CASE s[1] = "stream" /\ s[2] = p
    <3>1. s[3] \in 1 .. n + Len(t) /\ m = (Stream(p)')[s[3]] /\ s = <<"stream", p, s[3]>>
      BY <1>3, <1>4, <2>1, <2>3 DEF Line
    <3>2. CASE s[3] <= n
      <4>1. s[3] \in 1 .. n BY <1>3, <3>1, <3>2
      <4>2. s[3] \in 1 .. Len(Line("stream", p)) /\ Line("stream", p)[s[3]] = m /\ "stream" \in Kinds
        BY <1>3, <3>1, <4>1 DEF Line, Kinds, n
      <4>3. <<"stream", p, s[3]>> \in Spots /\ Item(<<"stream", p, s[3]>>) = Line("stream", p)[s[3]]
        BY <1>1, <4>2, SpotFacts
      <4> QED BY <3>1, <4>2, <4>3
    <3>3. CASE s[3] > n
      <4>1. s[3] - n \in 1 .. Len(t) /\ n + (s[3] - n) = s[3] BY <1>3, <3>1, <3>3
      <4>2. m = t[s[3] - n] BY <1>3, <3>1, <4>1
      <4>3. s[3] - n = Len(t) BY <4>1, <4>2
      <4>4. s[3] = n + Len(t) BY <1>3, <3>1, <4>1, <4>3
      <4> QED BY <3>1, <4>2, <4>3, <4>4
    <3> QED BY <1>3, <3>1, <3>2, <3>3
  <2> QED BY <2>1, <2>2, <2>3
<1>5. ASSUME NEW s \in Spots, NEW m \in Content, m = t[Len(t)], Item(s) \in Content PROVE ~Same(Item(s), m)
  BY <1>2, <1>5 DEF Sent
<1>6. Once'
  <2> SUFFICES ASSUME NEW s \in Spots', NEW r \in Spots', NEW m \in Content, NEW l \in Content,
                      m = Item(s)', l = Item(r)', Same(m, l)
               PROVE  s = r
    BY DEF Once
  <2>1. CASE (s \in Spots /\ Item(s) = m) /\ (r \in Spots /\ Item(r) = l) BY <1>2, <2>1 DEF Once
  <2>2. CASE (s \in Spots /\ Item(s) = m) /\ (r = new /\ l = t[Len(t)]) BY <1>5, <2>2
  <2>3. CASE (s = new /\ m = t[Len(t)]) /\ (r \in Spots /\ Item(r) = l) BY <1>5, <2>3, SameFacts
  <2>4. CASE s = new /\ r = new BY <2>4
  <2> QED BY <1>4, <2>1, <2>2, <2>3, <2>4
<1>7. Sent'
  <2> SUFFICES ASSUME NEW s \in Spots', NEW m \in Content, m = Item(s)'
               PROVE  Known(m)' /\ Underway(m)' /\ Fresh(m)'
    BY DEF Sent, Known, Underway, Fresh
  <2>1. CASE s \in Spots /\ Item(s) = m
    <3>1. Known(m) /\ Fresh(m) BY <1>2, <2>1 DEF Sent
    <3> QED BY <2>1, <3>1 DEF Fresh
  <2>2. CASE m = t[Len(t)]
    <3>1. \A x \in lost : x \in Content /\ Known(x) BY <1>1, <1>2 DEF LostKnown, HistoryTypes
    <3>2. \A b \in Agents : \A j \in DOMAIN received[b] : received[b][j].wave \in Content /\ Known(received[b][j].wave)
      BY <1>1, <1>2, ReceivedFacts DEF Taken
    <3>3. Fresh(m) BY <2>2, <3>1, <3>2 DEF Fresh, Same
    <3> QED BY <2>2, <3>3 DEF Fresh
  <2> QED BY <1>4, <2>1, <2>2
<1>8. LostKnown' BY <1>1, <1>2 DEF LostKnown, HistoryTypes
<1>9. Taken'
  <2> SUFFICES ASSUME NEW b \in Agents, NEW j \in DOMAIN received[b] PROVE Known(received[b][j].wave)'
    BY <1>2 DEF Taken
  <2>1. \A x : x = received[b][j].wave => Known(x)' BY <1>1, <1>2, ReceivedFacts DEF Taken
  <2>2. received'[b][j].wave = received[b][j].wave OBVIOUS
  <2> QED BY <2>1, <2>2 DEF Known
<1> QED BY <1>6, <1>7, <1>8, <1>9 DEF Copies

\* The steps.
LEMMA CopiesQuiet ==
  ASSUME TypeInv, TypeInv', Copies, UNCHANGED <<outbound, thread, toServer, toPylon, agents, received, lost>>
  PROVE  Copies'
BY LinesStill, CopiesStill, UnderwaySame, KnownSame DEF agents

LEMMA CopiesClose ==
  ASSUME TypeInv, TypeInv', Copies, NEW p \in Pylons, Close(p)
  PROVE  Copies'
<1>1. LineTypes /\ LineTypes' BY TypeParts
<1>2. PICK n \in Nat, c \in Nat :
            /\ n <= Served(p) /\ Cut(Stream(p), Stream(p)', n, Served(p)) /\ Served(p)' = n
            /\ Held(p) <= c /\ Cut(Pipe(p), Pipe(p)', c, Len(Pipe(p)))
            /\ lost \subseteq lost'
            /\ \A x \in lost' : \/ x \in lost
                                \/ \E i \in n + 1 .. Served(p) : x = Stream(p)[i]
                                \/ \E i \in c + 1 .. Len(Pipe(p)) : x = Pipe(p)[i]
  BY LinesClose
<1>3. \A q \in Pylons : q # p => SameStream(q) /\ SamePipe(q) BY LinesClose
<1>11. PICK d \in Nat, h \in Nat : d = Served(p) /\ h = Len(Pipe(p)) BY <1>1, StreamFacts, PipeFacts
<1>4. /\ d \in Nat /\ h \in Nat /\ d <= Len(Stream(p)) /\ "stream" \in Kinds /\ "pipe" \in Kinds
      /\ Line("stream", p) = Stream(p) /\ Line("pipe", p) = Pipe(p)
      /\ Line("stream", p)' = Stream(p)' /\ Line("pipe", p)' = Pipe(p)'
      /\ Len(Stream(p)) \in Nat
  BY <1>1, <1>11, StreamFacts, PipeFacts DEF Line, Kinds
<1>5. \A l \in Kinds, q \in Pylons : q # p => SameLine(l, q) BY <1>3 DEF SameLine, Line, SameStream, SamePipe
<1>6. Cut(Line("stream", p), Line("stream", p)', n, d) /\ Cut(Line("pipe", p), Line("pipe", p)', c, h)
  BY <1>2, <1>4, <1>11
<1>7. PICK f : Carried(f) /\ \A s \in Spots' : f[s] \notin Pieces("stream", p, n, d, "pipe", p, c, h)
  BY <1>1, <1>5, <1>6, CarriedCuts, KindLines
<1>12. \A t \in Spots : t \notin Pieces("stream", p, n, d, "pipe", p, c, h) =>
          /\ \A i \in n + 1 .. d : t # <<"stream", p, i>>
          /\ \A i \in c + 1 .. h : t # <<"pipe", p, i>>
  BY DEF Pieces, Piece, On
<1>13. \A s \in Spots' : f[s] \in Spots BY <1>7 DEF Carried
<1>8. ASSUME NEW x \in lost', x \notin lost PROVE \E t \in Spots : x = Item(t) /\ \A s \in Spots' : f[s] # t
  <2>1. CASE \E i \in n + 1 .. d : x = Stream(p)[i]
    <3>1. PICK i \in n + 1 .. d : x = Stream(p)[i] BY <2>1
    <3>2. i \in 1 .. Len(Line("stream", p)) BY <1>4, <3>1
    <3>3. <<"stream", p, i>> \in Spots /\ Item(<<"stream", p, i>>) = x BY <1>1, <1>4, <3>1, <3>2, SpotFacts
    <3> QED BY <1>7, <1>12, <1>13, <3>3
  <2>2. CASE \E i \in c + 1 .. h : x = Pipe(p)[i]
    <3>1. PICK i \in c + 1 .. h : x = Pipe(p)[i] BY <2>2
    <3>2. i \in 1 .. Len(Line("pipe", p)) BY <1>4, <1>11, <3>1
    <3>3. <<"pipe", p, i>> \in Spots /\ Item(<<"pipe", p, i>>) = x BY <1>1, <1>4, <3>1, <3>2, SpotFacts
    <3> QED BY <1>7, <1>12, <1>13, <3>3
  <2> QED BY <1>2, <1>8, <1>11, <2>1, <2>2
<1>9. UNCHANGED <<agents, received>> BY DEF Close
<1> QED BY <1>7, <1>8, <1>9, CopiesCarriedAlone

LEMMA CopiesServeOutbound ==
  ASSUME TypeInv, TypeInv', Copies, NEW p \in Pylons, ServeOutbound(p)
  PROVE  Copies'
<1>1. LineTypes /\ LineTypes' BY TypeParts
<1>2. /\ \A q \in Pylons : q # p => SameStream(q) /\ SamePipe(q)
      /\ UNCHANGED <<agents, received>>
  BY LinesServeOutbound
<1> DEFINE n == Served(p)
           m == Stream(p)[n + 1]
<1>3. /\ n \in Nat /\ n + 1 \in Nat /\ n + 1 \in 1 .. Len(Stream(p)) /\ "stream" \in Kinds /\ "pipe" \in Kinds
      /\ Line("stream", p) = Stream(p) /\ Line("pipe", p) = Pipe(p)
      /\ Line("stream", p)' = Stream(p)' /\ Line("pipe", p)' = Pipe(p)'
  BY <1>1, LinesServeOutbound, StreamFacts DEF Line, Kinds
<1>4. CASE /\ UNCHANGED lost /\ Cut(Stream(p), Stream(p)', n, n + 1)
           /\ Cut(Pipe(p)', Pipe(p), 0, 1) /\ Pipe(p)'[1] = m
  <2>1. \A l \in Kinds, q \in Pylons : (l # "stream" \/ q # p) /\ (l # "pipe" \/ q # p) => SameLine(l, q)
    BY <1>2 DEF SameLine, Line, SameStream, SamePipe, Kinds
  <2> HIDE DEF n
  <2>2. /\ Cut(Line("stream", p), Line("stream", p)', n, n + 1) /\ Cut(Line("pipe", p)', Line("pipe", p), 0, 0 + 1)
        /\ (Line("pipe", p)')[0 + 1] = Line("stream", p)[n + 1] /\ 0 \in Nat /\ "stream" # "pipe"
    BY <1>3, <1>4
  <2>3. PICK f : Carried(f) BY <1>1, <1>3, <2>1, <2>2, CarriedMove
  <2> QED BY <1>2, <1>4, <2>3, CopiesCarriedAlone
<1>5. CASE UNCHANGED lost /\ Stream(p)' = Stream(p) /\ SamePipe(p)
  <2>1. \A k \in Kinds, q \in Pylons : SameLine(k, q) BY <1>2, <1>5 DEF SameLine, Line, SameStream, SamePipe
  <2>2. PICK f : Carried(f) BY <1>1, <2>1, CarriedSame
  <2> QED BY <1>2, <1>5, <2>2, CopiesCarriedAlone
<1>6. CASE Drop(m) /\ Cut(Stream(p), Stream(p)', n, n + 1) /\ SamePipe(p)
  <2>1. \A l \in Kinds, q \in Pylons : l # "stream" \/ q # p => SameLine(l, q)
    BY <1>2, <1>6 DEF SameLine, Line, SameStream, SamePipe, Kinds
  <2>2. \A x \in lost' : x \in lost \/ x = Line("stream", p)[n + 1] BY <1>3, <1>6 DEF Drop
  <2>3. Cut(Line("stream", p), Line("stream", p)', n, n + 1) BY <1>3, <1>6
  <2> HIDE DEF n
  <2> QED BY <1>2, <1>3, <2>1, <2>2, <2>3, CopiesCut
<1> QED BY <1>4, <1>5, <1>6, LinesServeOutbound

LEMMA CopiesServeInbound ==
  ASSUME TypeInv, TypeInv', Copies, NEW p \in Pylons, ServeInbound(p)
  PROVE  Copies'
<1>1. LineTypes /\ LineTypes' BY TypeParts
<1>2. /\ (\A q \in Pylons : SameStream(q)) /\ \A q \in Pylons : q # p => SamePipe(q)
      /\ UNCHANGED <<agents, received>>
  BY LinesServeInbound
<1>3. CASE UNCHANGED lost /\ Pipe(p)' = Pipe(p)
  <2>1. \A k \in Kinds, q \in Pylons : SameLine(k, q) BY <1>2, <1>3 DEF SameLine, Line, SameStream, SamePipe
  <2>2. PICK f : Carried(f) BY <1>1, <2>1, CarriedSame
  <2> QED BY <1>2, <1>3, <2>2, CopiesCarriedAlone
<1>4. CASE Drop(Pipe(p)[1]) /\ Cut(Pipe(p), Pipe(p)', 0, 1)
  <2>1. \A l \in Kinds, q \in Pylons : l # "pipe" \/ q # p => SameLine(l, q)
    BY <1>2 DEF SameLine, Line, SameStream, SamePipe, Kinds
  <2>2. /\ \A x \in lost' : x \in lost \/ x = Line("pipe", p)[0 + 1]
        /\ Cut(Line("pipe", p), Line("pipe", p)', 0, 0 + 1) /\ "pipe" \in Kinds /\ 0 \in Nat
    BY <1>4 DEF Drop, Line, Kinds
  <2> QED BY <1>2, <2>1, <2>2, CopiesCut
<1> QED BY <1>3, <1>4, LinesServeInbound

LEMMA CopiesDeliver ==
  ASSUME TypeInv, TypeInv', Copies, NEW p \in Pylons, Deliver(p)
  PROVE  Copies'
<1>1. LineTypes /\ LineTypes' /\ WhereTypes BY TypeParts
<1> DEFINE m == serving[p]
<1>2. /\ (\A q \in Pylons : SameStream(q)) /\ \A q \in Pylons : q # p => SamePipe(q)
      /\ Cut(Pipe(p), Pipe(p)', 0, 1) /\ m = Pipe(p)[1] /\ 1 \in 1 .. Len(Pipe(p))
  BY LinesDeliver
<1>3. /\ m \in Content /\ UNCHANGED <<count, moved, restarted>>
      /\ \/ Drop(m) /\ UNCHANGED <<received, where>>
         \/ /\ m \in Wave
            /\ received' = [received EXCEPT ![m.to] = Append(@, [wave |-> m, by |-> p])]
            /\ UNCHANGED <<lost, where>>
         \/ /\ m \in Transit
            /\ where' = [where EXCEPT ![m.from] = [step |-> "putting", node |-> p]]
            /\ UNCHANGED <<received, lost>>
  BY DeliverCases
<1> HIDE DEF m
<1>4. \A l \in Kinds, q \in Pylons : l # "pipe" \/ q # p => SameLine(l, q)
  BY <1>2 DEF SameLine, Line, SameStream, SamePipe, Kinds
<1>5. /\ Cut(Line("pipe", p), Line("pipe", p)', 0, 0 + 1) /\ m = Line("pipe", p)[0 + 1] /\ "pipe" \in Kinds /\ 0 \in Nat
      /\ Cut(Line("pipe", p), Line("pipe", p)', 0, 1) /\ 1 \in 1 .. Len(Line("pipe", p)) /\ m = Line("pipe", p)[1]
      /\ 1 \in Nat
  BY <1>2 DEF Line, Kinds
<1> DEFINE t == <<"pipe", p, 1>>
<1>6. t \in Spots /\ Item(t) = m BY <1>1, <1>5, SpotFacts
<1>7. PICK f : Carried(f) /\ \A s \in Spots' : \A i \in 0 + 1 .. 1 : f[s] # <<"pipe", p, i>>
  BY <1>1, <1>4, <1>5, CarriedCut
<1>8. \A s \in Spots' : f[s] # t BY <1>7
<1> HIDE DEF t
<1>9. CASE Drop(m) /\ UNCHANGED <<received, where>>
  <2>1. \A x \in lost' : x \in lost \/ x = m BY <1>9 DEF Drop
  <2>2. \A x \in lost' : x \in lost \/ \E r \in Spots : x = Item(r) /\ \A s \in Spots' : f[s] # r
    BY <1>6, <1>8, <2>1
  <2> QED BY <1>3, <1>7, <1>9, <2>2, CopiesCarriedAlone DEF agents
<1>10. CASE /\ m \in Wave
            /\ received' = [received EXCEPT ![m.to] = Append(@, [wave |-> m, by |-> p])]
            /\ UNCHANGED <<lost, where>>
  BY <1>3, <1>6, <1>7, <1>8, <1>10, CopiesTaken
<1>11. CASE /\ m \in Transit
            /\ where' = [where EXCEPT ![m.from] = [step |-> "putting", node |-> p]]
            /\ UNCHANGED <<received, lost>>
  <2>1. m.kind = "agent" /\ m.from \in Agents /\ m.from \in Entities BY <1>11, TransitFields DEF Entities
  <2>2. /\ where'[m.from].step = "putting" /\ \A g \in Entities : g # m.from => where'[g] = where[g]
    BY <1>1, <1>11, <2>1, GoesTo DEF Steps
  <2>3. \A x \in Content : Known(x) => Known(x)'
    <3>1. \A a \in Agents : where[a].step \notin {"stopping", "removed"} => where'[a].step \notin {"stopping", "removed"}
      BY <2>2 DEF Entities
    <3>2. \A a \in Agents : moved'[a] = moved[a] /\ count'[a] >= count[a] BY <1>3, TypeParts DEF CountTypes
    <3> QED BY <3>1, <3>2, KnownStays
  <2>4. ASSUME NEW s \in Spots', NEW x \in Content, x = Item(f[s]) PROVE Underway(x)'
    <3> SUFFICES ASSUME x.kind = "agent" PROVE x.nr = moved'[x.from] /\ where'[x.from].step = "away"
      BY DEF Underway
    <3>1. f[s] \in Spots /\ x.from \in Agents BY <1>7, <2>4, MessageKinds DEF Carried
    <3>2. x.nr = moved[x.from] /\ where[x.from].step = "away" BY <2>4, <3>1 DEF Copies, Sent, Underway
    <3>3. m.nr = moved[m.from] BY <1>3, <1>6, <2>1 DEF Copies, Sent, Underway
    <3>4. x.from # m.from
      <4> SUFFICES ASSUME x.from = m.from PROVE FALSE OBVIOUS
      <4>1. Same(x, m) BY <2>1, <3>2, <3>3 DEF Same
      <4>2. f[s] = t BY <1>3, <1>6, <2>4, <3>1, <4>1 DEF Copies, Once
      <4> QED BY <1>8, <4>2
    <3> QED BY <1>3, <2>2, <3>1, <3>2, <3>4 DEF Entities
  <2>5. \A x \in lost' : x \in lost BY <1>11
  <2> QED BY <1>7, <1>11, <2>3, <2>4, <2>5, CopiesCarried
<1> QED BY <1>3, <1>9, <1>10, <1>11

LEMMA CopiesServer ==
  ASSUME TypeInv, TypeInv', Copies, NEW p \in Pylons, Server(p)
  PROVE  Copies'
<1>1. LineTypes /\ LineTypes' BY TypeParts
<1> DEFINE m == Incoming(p)
<1>2. /\ \A q \in Pylons : q # p => SameStream(q)
      /\ m = Stream(p)[1] /\ m \in Message /\ Cut(Stream(p), Stream(p)', 0, 1)
      /\ \A q \in Pylons : \/ SamePipe(q)
                           \/ table[m.to] = q /\ m \in Content /\ Pipe(q)' = Append(Pipe(q), m)
  BY LinesServer
<1>3. /\ UNCHANGED <<agents, received>>
      /\ \/ UNCHANGED <<toPylon, thread, lost>>
         \/ UNCHANGED <<toPylon, thread>> /\ Drop(m)
         \/ m \in Content /\ table[m.to] \in Pylons /\ UNCHANGED lost
  BY ServerCases
<1> HIDE DEF m
<1>4. /\ Cut(Line("stream", p), Line("stream", p)', 0, 0 + 1) /\ m = Line("stream", p)[0 + 1]
      /\ "stream" \in Kinds /\ "pipe" \in Kinds /\ 0 \in Nat
      /\ \A q \in Pylons : Line("pipe", q) = Pipe(q) /\ Line("pipe", q)' = Pipe(q)'
  BY <1>2 DEF Line, Kinds
<1>5. CASE \A q \in Pylons : SamePipe(q)
  <2>1. \A l \in Kinds, q \in Pylons : l # "stream" \/ q # p => SameLine(l, q)
    BY <1>2, <1>5 DEF SameLine, Line, SameStream, SamePipe, Kinds
  <2>2. \A x \in lost' : x \in lost \/ x = Line("stream", p)[0 + 1] BY <1>3, <1>4 DEF Drop
  <2> QED BY <1>3, <1>4, <2>1, <2>2, CopiesCut
<1>6. CASE m \in Content /\ table[m.to] \in Pylons /\ UNCHANGED lost /\ \E q \in Pylons : q = table[m.to] /\ ~SamePipe(q)
  <2>0. PICK q \in Pylons : q = table[m.to] /\ ~SamePipe(q) BY <1>6
  <2>1. q \in Pylons /\ Pipe(q)' = Append(Pipe(q), m) /\ Pipe(q) \in Seq(Content) BY <1>1, <1>2, <2>0, PipeFacts
  <2>2. \A l \in Kinds, r \in Pylons : (l # "stream" \/ r # p) /\ (l # "pipe" \/ r # q) => SameLine(l, r)
    BY <1>2, <2>0 DEF SameLine, Line, SameStream, SamePipe, Kinds
  <2> DEFINE s == Pipe(q)
             e == Len(s)
             u == Append(s, m)
  <2>3. s \in Seq(Content) /\ e \in Nat BY <2>1, ElementIn
  <2>4. Len(u) = e + 1 /\ u[e + 1] = m /\ \A i \in 1 .. e : u[i] = s[i] BY <1>6, <2>3, ContentAppend
  <2> HIDE DEF u
  <2>5. Cut(u, s, e, e + 1) BY <2>3, <2>4 DEF Cut, Skip
  <2>6. Line("pipe", q)' = u /\ Line("pipe", q) = s BY <1>4, <2>1 DEF u
  <2> HIDE DEF s, e
  <2>7. Cut(Line("pipe", q)', Line("pipe", q), e, e + 1) /\ (Line("pipe", q)')[e + 1] = Line("stream", p)[0 + 1]
    BY <1>4, <2>4, <2>5, <2>6
  <2>8. PICK f : Carried(f) BY <1>1, <1>4, <2>1, <2>2, <2>3, <2>7, CarriedMove
  <2> QED BY <1>3, <1>6, <2>8, CopiesCarriedAlone
<1>7. UNCHANGED <<toPylon, thread>> => \A q \in Pylons : SamePipe(q) BY PipeStays DEF thread
<1> QED BY <1>2, <1>3, <1>5, <1>6, <1>7

LEMMA CopiesGoes ==
  ASSUME TypeInv, TypeInv', Copies, NEW e \in Entities, where[e].step # "away",
         \A f \in Entities : f # e => where'[f] = where[f],
         where'[e].step \in {"stopping", "removed"} => where[e].step \in {"stopping", "removed"},
         UNCHANGED <<outbound, thread, toServer, toPylon, moved, count, received, lost>>
  PROVE  Copies'
<1>1. \A m \in Content : Known(m) => Known(m)'
  <2>1. \A a \in Agents : where[a].step \notin {"stopping", "removed"} => where'[a].step \notin {"stopping", "removed"}
    BY DEF Entities
  <2>2. \A a \in Agents : moved'[a] = moved[a] /\ count'[a] >= count[a] BY TypeParts DEF CountTypes
  <2> QED BY <2>1, <2>2, KnownStays
<1>2. \A s \in Spots, m \in Content : m = Item(s) => Underway(m)' BY UnderwayStays
<1> QED BY <1>1, <1>2, LinesStill, CopiesStill

LEMMA CopiesPut ==
  ASSUME TypeInv, TypeInv', Copies, NEW e \in Entities, Put(e)
  PROVE  Copies'
<1>1. where[e].step # "away" /\ (Goes(e, "in") \/ Goes(e, "adding")) BY DEF Put
<1>2. (\A f \in Entities : f # e => where'[f] = where[f]) /\ where'[e].step \in {"in", "adding"}
  BY <1>1, TypeParts, GoesOn DEF Steps
<1> QED BY <1>1, <1>2, CopiesGoes DEF Put, network, history

LEMMA CopiesRemove ==
  ASSUME TypeInv, TypeInv', Copies, NEW a \in Agents, Remove(a)
  PROVE  Copies'
<1>1. where[a].step = "stopping" /\ Goes(a, "removed") /\ a \in Entities BY DEF Remove, Entities
<1>2. \A f \in Entities : f # a => where'[f] = where[f] BY <1>1, TypeParts, GoesOn DEF Steps
<1> QED BY <1>1, <1>2, CopiesGoes DEF Remove, network, history

LEMMA CopiesPostMove ==
  ASSUME TypeInv, TypeInv', Copies, NEW a \in Agents, PostMove(a)
  PROVE  Copies'
<1>1. where[a].step = "in" /\ Goes(a, "stopping") /\ a \in Entities BY DEF PostMove, Entities
<1>2. \A f \in Entities : f # a => where'[f] = where[f] BY <1>1, TypeParts, GoesOn DEF Steps
<1>3. /\ moved[a] \in Nat /\ moved'[a] = moved[a] + 1 /\ \A b \in Agents : b # a => moved'[b] = moved[b]
      /\ UNCHANGED count
  BY TypeParts DEF CountTypes, PostMove
<1>4. ASSUME NEW m \in Content, Known(m) PROVE Known(m)'
  <2>1. m.from \in Agents /\ m.from \in Entities /\ m.nr \in Nat BY MessageKinds DEF Entities
  <2>2. CASE m.from # a BY <1>2, <1>3, <1>4, <2>1, <2>2 DEF Known
  <2>3. CASE m.from = a BY <1>3, <1>4, <2>1, <2>3 DEF Known
  <2> QED BY <2>2, <2>3
<1>5. \A s \in Spots, m \in Content : m = Item(s) => Underway(m)' BY <1>1, <1>2, <1>3, UnderwayStays
<1> QED BY <1>4, <1>5, LinesStill, CopiesStill DEF PostMove, network

LEMMA CopiesRestart ==
  ASSUME TypeInv, TypeInv', Copies, NEW a \in Agents, Restart(a)
  PROVE  Copies'
<1>1. /\ where'[a].step = "putting" /\ \A f \in Entities : f # a => where'[f] = where[f]
      /\ UNCHANGED <<pylon, outbound, thread, receivers, network, count, moved, history>>
  BY RestartGoes
<1>2. \/ where[a].step = "in"
      \/ where[a].step = "away" /\ \E m \in lost \cap Transit : m.from = a /\ m.nr = moved[a]
  BY DEF Restart
<1>3. \A m \in Content : Known(m) => Known(m)'
  <2>1. \A b \in Agents : where[b].step \notin {"stopping", "removed"} => where'[b].step \notin {"stopping", "removed"}
    BY <1>1 DEF Entities
  <2>2. \A b \in Agents : moved'[b] = moved[b] /\ count'[b] >= count[b] BY <1>1, TypeParts DEF CountTypes
  <2> QED BY <2>1, <2>2, KnownStays
<1>4. ASSUME NEW s \in Spots, NEW x \in Content, x = Item(s) PROVE Underway(x)'
  <2> SUFFICES ASSUME x.kind = "agent" PROVE x.nr = moved'[x.from] /\ where'[x.from].step = "away"
    BY DEF Underway
  <2>1. x.from \in Agents /\ x.from \in Entities BY MessageKinds DEF Entities
  <2>2. x.nr = moved[x.from] /\ where[x.from].step = "away" /\ Fresh(x) BY <1>4 DEF Copies, Sent, Underway
  <2>3. x.from # a
    <3> SUFFICES ASSUME x.from = a PROVE FALSE OBVIOUS
    <3>1. PICK m \in lost \cap Transit : m.from = a /\ m.nr = moved[a] BY <1>2, <2>2
    <3>2. Same(x, m) BY <2>2, <3>1, TransitFields DEF Same
    <3> QED BY <2>2, <3>1, <3>2 DEF Fresh
  <2> QED BY <1>1, <2>1, <2>2, <2>3
<1> QED BY <1>1, <1>3, <1>4, LinesStill, CopiesStill DEF network, history

LEMMA SingleSeq ==
  ASSUME NEW m \in Message
  PROVE  /\ <<m>> \in Seq(Message) /\ Len(<<m>>) = 1 /\ <<m>>[1] = m
         /\ \A i \in 1 .. Len(<<m>>) : i # Len(<<m>>) => <<m>>[i] \notin Content
OBVIOUS

LEMMA GrownByOne ==
  ASSUME LineTypes, NEW p \in Pylons, NEW m \in Message, outbound' = [outbound EXCEPT ![p] = Append(@, m)],
         UNCHANGED <<thread, network>>
  PROVE  /\ \A q \in Pylons : SamePipe(q)
         /\ \A q \in Pylons : q # p => SameStream(q)
         /\ Stream(p)' = Stream(p) \o <<m>>
<1>1. Stream(p) \in Seq(Message) BY StreamFacts
<1>2. Append(Stream(p), m) = Stream(p) \o <<m>> BY <1>1, MessageAppend
<1> QED BY <1>2, LinesAppend

LEMMA CopiesTell ==
  ASSUME TypeInv, TypeInv', Copies, NEW p \in Pylons, NEW m \in Registration,
         outbound' = [outbound EXCEPT ![p] = Append(@, m)], UNCHANGED <<thread, network, received, lost>>,
         \A x \in Content : Known(x) => Known(x)',
         \A s \in Spots, x \in Content : x = Item(s) => Underway(x)'
  PROVE  Copies'
<1>1. m \in Message /\ m \notin Content BY MessageKinds
<1>2. /\ \A q \in Pylons : SamePipe(q)
      /\ \A q \in Pylons : q # p => SameStream(q)
      /\ Stream(p)' = Stream(p) \o <<m>>
  BY <1>1, TypeParts, GrownByOne
<1> DEFINE t == <<m>>
<1>3. t \in Seq(Message) /\ (\A i \in 1 .. Len(t) : i # Len(t) => t[i] \notin Content) /\ t[Len(t)] \notin Content
  BY <1>1, SingleSeq
<1>4. Stream(p)' = Stream(p) \o t BY <1>2
<1> HIDE DEF t
<1> QED BY <1>2, <1>3, <1>4, CopiesGrow

LEMMA CopiesAdd ==
  ASSUME TypeInv, TypeInv', Copies, NEW e \in Entities, Add(e)
  PROVE  Copies'
<1>1. where[e].node \in Pylons /\ where[e].step = "adding" /\ Goes(e, "in") BY TypeParts, WhereFacts DEF Add
<1>2. (\A f \in Entities : f # e => where'[f] = where[f]) /\ where'[e].step = "in"
  BY <1>1, TypeParts, GoesOn DEF Steps
<1>3. [kind |-> "reg", from |-> e] \in Registration BY RegistrationFields
<1>4. \A x \in Content : Known(x) => Known(x)'
  <2>1. \A a \in Agents : where[a].step \notin {"stopping", "removed"} => where'[a].step \notin {"stopping", "removed"}
    BY <1>2 DEF Entities
  <2>2. \A a \in Agents : moved'[a] = moved[a] /\ count'[a] >= count[a] BY TypeParts DEF CountTypes, Add
  <2> QED BY <2>1, <2>2, KnownStays
<1>5. \A s \in Spots, x \in Content : x = Item(s) => Underway(x)' BY <1>1, <1>2, UnderwayStays DEF Add
<1> QED BY <1>1, <1>3, <1>4, <1>5, CopiesTell DEF Add, history

LEMMA CopiesStopCopy ==
  ASSUME TypeInv, TypeInv', Copies, NEW a \in Agents, StopCopy(a)
  PROVE  Copies'
<1>1. PICK p \in Pylons :
          /\ outbound' = [outbound EXCEPT ![p] = Append(@, [kind |-> "unreg", from |-> a])]
          /\ UNCHANGED <<pylon, thread, network, agents, history>>
  BY DEF StopCopy
<1>2. [kind |-> "unreg", from |-> a] \in Registration BY RegistrationFields DEF Entities
<1> QED BY <1>1, <1>2, CopiesTell, KnownSame, UnderwaySame DEF agents, history

LEMMA CopiesSend ==
  ASSUME TypeInv, TypeInv', Copies, NEW a \in Agents, Send(a)
  PROVE  Copies'
<1>1. /\ where[a].node \in Pylons
      /\ count' = [count EXCEPT ![a] = @ + 1]
      /\ UNCHANGED <<pylon, thread, receivers, network, where, moved, restarted, received, lost>>
  BY SendSends
<1>2. PICK m \in Wave :
             /\ m.from = a /\ m.nr = count[a] + 1
             /\ outbound' = [outbound EXCEPT ![where[a].node] = Append(@, m)]
  BY SendSends
<1>3. m \in Message /\ m \in Content /\ m.kind = "wave" BY WaveFields DEF Message, Content
<1>4. PICK p \in Pylons : p = where[a].node BY <1>1
<1>5. /\ \A q \in Pylons : SamePipe(q)
      /\ \A q \in Pylons : q # p => SameStream(q)
      /\ Stream(p)' = Stream(p) \o <<m>>
  BY <1>1, <1>2, <1>3, <1>4, TypeParts, GrownByOne
<1>6. count[a] \in Nat /\ count'[a] = count[a] + 1 /\ \A b \in Agents : b # a => count'[b] = count[b]
  BY <1>1, TypeParts DEF CountTypes
<1>7. \A x \in Content : Known(x) => Known(x)'
  <2>1. \A b \in Agents : count[b] \in Nat BY TypeParts DEF CountTypes
  <2>2. \A b \in Agents : moved'[b] = moved[b] /\ count'[b] >= count[b] BY <1>1, <1>6, <2>1
  <2>3. \A b \in Agents : where'[b] = where[b] BY <1>1
  <2> QED BY <2>2, <2>3, KnownStays
<1>8. \A s \in Spots, x \in Content : x = Item(s) => Underway(x)' BY <1>1, UnderwaySame
<1>9. Known(m)' /\ Underway(m)' /\ \A x \in Content : Known(x) => ~Same(x, m)
  <2>1. Known(m)' /\ Underway(m)' BY <1>2, <1>3, <1>6 DEF Known, Underway
  <2>2. ASSUME NEW x \in Content, Known(x), Same(x, m) PROVE FALSE BY <1>2, <1>3, <1>6, <2>2 DEF Known, Same
  <2> QED BY <2>1, <2>2
<1> DEFINE t == <<m>>
<1>10. t \in Seq(Message) /\ (\A i \in 1 .. Len(t) : i # Len(t) => t[i] \notin Content) /\ t[Len(t)] = m
  BY <1>3, SingleSeq
<1>11. Stream(p)' = Stream(p) \o t BY <1>5
<1> HIDE DEF t
<1> QED BY <1>1, <1>5, <1>7, <1>8, <1>9, <1>10, <1>11, CopiesGrow

LEMMA CopiesLeave ==
  ASSUME TypeInv, TypeInv', Copies, NEW a \in Agents, Leave(a)
  PROVE  Copies'
<1>1. /\ a \in Entities /\ where[a].node \in Pylons /\ where[a].step = "removed"
      /\ Goes(a, "away")
      /\ UNCHANGED <<pylon, thread, receivers, network, count, moved, restarted, received, lost>>
  BY LeaveSends
<1>2. PICK p \in Pylons : p = where[a].node BY <1>1
<1> DEFINE u == [kind |-> "unreg", from |-> a]
<1>3. \E m \in Transit : /\ m.from = a /\ m.nr = moved[a] /\ u \in Registration
                         /\ outbound' = [outbound EXCEPT ![p] = @ \o <<u, m>>]
  BY <1>2, LeaveSends
<1> HIDE DEF u
<1>4. PICK m \in Transit : /\ m.from = a /\ m.nr = moved[a] /\ u \in Registration
                           /\ outbound' = [outbound EXCEPT ![p] = @ \o <<u, m>>]
  BY <1>3
<1>5. m \in Message /\ m \in Content /\ m.kind = "agent" /\ u \in Message /\ u \notin Content
  BY <1>4, TransitFields, MessageKinds DEF Content
<1>6. /\ \A q \in Pylons : SamePipe(q)
      /\ \A q \in Pylons : q # p => SameStream(q)
      /\ Stream(p)' = Stream(p) \o <<u, m>>
  BY <1>1, <1>4, <1>5, TypeParts, LinesLeave
<1>7. (\A f \in Entities : f # a => where'[f] = where[f]) /\ where'[a].step = "away"
  BY <1>1, TypeParts, GoesOn DEF Steps
<1>8. \A x \in Content : Known(x) => Known(x)'
  <2>1. \A b \in Agents : where[b].step \notin {"stopping", "removed"} => where'[b].step \notin {"stopping", "removed"}
    BY <1>7 DEF Entities
  <2>2. \A b \in Agents : moved'[b] = moved[b] /\ count'[b] >= count[b] BY <1>1, TypeParts DEF CountTypes
  <2> QED BY <2>1, <2>2, KnownStays
<1>9. \A s \in Spots, x \in Content : x = Item(s) => Underway(x)' BY <1>1, <1>7, UnderwayStays
<1>10. Known(m)' /\ Underway(m)' /\ \A x \in Content : Known(x) => ~Same(x, m)
  <2>1. moved[a] \in Nat /\ moved' = moved BY <1>1, TypeParts DEF CountTypes
  <2>2. Known(m)' /\ Underway(m)' BY <1>4, <1>5, <1>7, <2>1 DEF Known, Underway
  <2>3. ASSUME NEW x \in Content, Known(x), Same(x, m) PROVE FALSE BY <1>1, <1>4, <1>5, <2>3 DEF Known, Same
  <2> QED BY <2>2, <2>3
<1> DEFINE t == <<u, m>>
<1>11. t \in Seq(Message) /\ (\A i \in 1 .. Len(t) : i # Len(t) => t[i] \notin Content) /\ t[Len(t)] = m BY <1>5
<1>12. Stream(p)' = Stream(p) \o t BY <1>6
<1> HIDE DEF t
<1> QED BY <1>1, <1>6, <1>8, <1>9, <1>10, <1>11, <1>12, CopiesGrow

LEMMA CopiesNext == TypeInv /\ TypeInv' /\ Copies /\ [Next]_vars => Copies'
<1> SUFFICES ASSUME TypeInv, TypeInv', Copies, [Next]_vars PROVE Copies' OBVIOUS
<1>1. CASE UNCHANGED vars BY <1>1, CopiesQuiet DEF vars, network, history
<1>2. ASSUME NEW p \in Pylons, Open(p) \/ Suspend(p) \/ Stop(p) PROVE Copies'
  BY <1>2, CopiesQuiet DEF Open, Suspend, Stop, network, history
<1>3. ASSUME NEW p \in Pylons, Read(p) PROVE Copies'
  BY <1>3, LinesRead, CopiesStill, KnownSame, UnderwaySame DEF Read, agents, history
<1> QED BY <1>1, <1>2, <1>3, CopiesClose, CopiesServeOutbound, CopiesServeInbound, CopiesDeliver, CopiesServer,
    CopiesPut, CopiesAdd, CopiesPostMove, CopiesRemove, CopiesLeave, CopiesSend, CopiesRestart, CopiesStopCopy
    DEF Next

\* What is on a way is at a place.
LEMMA OnALine ==
  ASSUME LineTypes, NEW m \in Content, OnTheWay(m)
  PROVE  \E s \in Spots : Item(s) = m
<1>1. PICK p \in Pylons : InSeq(outbound[p], m) \/ InSeq(toServer[p], m) \/ InSeq(toPylon[p], m)
                          \/ InSeq(inbound[p], m) \/ serving[p] = m
  BY DEF OnTheWay
<1>2. /\ outbound[p] \in Seq(Message) /\ toServer[p] \in Seq(Message)
      /\ inbound[p] \in Seq(Content) /\ toPylon[p] \in Seq(Content)
  BY LineFacts
<1>3. ASSUME NEW i \in 1 .. Len(Stream(p)), Stream(p)[i] = m PROVE \E s \in Spots : Item(s) = m
  <2>1. "stream" \in Kinds /\ Line("stream", p) = Stream(p) BY DEF Kinds, Line
  <2>2. i \in 1 .. Len(Line("stream", p)) /\ Line("stream", p)[i] = m BY <1>3, <2>1
  <2>3. <<"stream", p, i>> \in Spots /\ Item(<<"stream", p, i>>) = Line("stream", p)[i]
    BY <1>1, <2>1, <2>2, SpotFacts
  <2> QED BY <2>2, <2>3
<1>4. ASSUME NEW i \in 1 .. Len(Pipe(p)), Pipe(p)[i] = m PROVE \E s \in Spots : Item(s) = m
  <2>1. "pipe" \in Kinds /\ Line("pipe", p) = Pipe(p) BY DEF Kinds, Line
  <2>2. i \in 1 .. Len(Line("pipe", p)) /\ Line("pipe", p)[i] = m BY <1>4, <2>1
  <2>3. <<"pipe", p, i>> \in Spots /\ Item(<<"pipe", p, i>>) = Line("pipe", p)[i] BY <1>1, <2>1, <2>2, SpotFacts
  <2> QED BY <2>2, <2>3
<1>5. CASE InSeq(outbound[p], m)
  <2>1. PICK i \in 1 .. Len(outbound[p]) : outbound[p][i] = m BY <1>2, <1>5 DEF InSeq
  <2>2. Served(p) + i \in 1 .. Len(Stream(p)) /\ Stream(p)[Served(p) + i] = m BY <2>1, StreamFacts
  <2> QED BY <1>3, <2>2
<1>6. CASE InSeq(toServer[p], m)
  <2>1. PICK i \in 1 .. Len(toServer[p]) : toServer[p][i] = m BY <1>2, <1>6 DEF InSeq
  <2>2. i \in 1 .. Served(p) BY <2>1 DEF Served
  <2>3. i \in 1 .. Len(Stream(p)) /\ Stream(p)[i] = m BY <1>1, <2>1, <2>2, StreamFacts
  <2> QED BY <1>3, <2>3
<1>7. CASE InSeq(inbound[p], m)
  <2>1. PICK i \in 1 .. Len(inbound[p]) : inbound[p][i] = m BY <1>2, <1>7 DEF InSeq
  <2>2. Held(p) + i \in 1 .. Len(Pipe(p)) /\ Pipe(p)[Held(p) + i] = m BY <2>1, PipeFacts
  <2> QED BY <1>4, <2>2
<1>8. CASE InSeq(toPylon[p], m)
  <2>1. PICK i \in 1 .. Len(toPylon[p]) : toPylon[p][i] = m BY <1>2, <1>8 DEF InSeq
  <2>2. Pipe(p)[Held(p) + Len(inbound[p]) + i] = m BY <2>1, PipeFacts
  <2>3. /\ Held(p) \in {0, 1} /\ Len(inbound[p]) \in Nat /\ Len(toPylon[p]) \in Nat
        /\ Len(Pipe(p)) = Held(p) + Len(inbound[p]) + Len(toPylon[p])
    BY PipeFacts
  <2>4. Held(p) + Len(inbound[p]) + i \in 1 .. Len(Pipe(p)) BY <2>1, <2>3
  <2> QED BY <1>4, <2>2, <2>4
<1>9. CASE serving[p] = m
  <2>1. Held(p) = 1 /\ 1 \in 1 .. Len(Pipe(p)) /\ Pipe(p)[1] = m BY <1>9, MessageKinds, HandFacts, PipeFacts
  <2> QED BY <1>4, <2>1
<1> QED BY <1>1, <1>5, <1>6, <1>7, <1>8, <1>9

LEMMA CopiesOnce == TypeInv /\ Copies => OnceOnly
<1> SUFFICES ASSUME TypeInv, Copies, NEW a \in Agents
             PROVE  LET transits == {m \in Transit : m.from = a /\ OnTheWay(m)} IN
                    /\ \A i, j \in DOMAIN received[a] :
                           /\ received[a][i].wave \notin lost
                           /\ received[a][i] = received[a][j] => i = j
                    /\ Cardinality(transits) <= 1
                    /\ transits # {} => where[a].step = "away"
  BY DEF OnceOnly
<1> DEFINE transits == {m \in Transit : m.from = a /\ OnTheWay(m)}
<1>1. LineTypes /\ Once /\ Sent /\ Taken BY TypeParts DEF Copies
<1>2. ASSUME NEW i \in DOMAIN received[a], NEW j \in DOMAIN received[a]
      PROVE  /\ received[a][i].wave \notin lost
             /\ received[a][i] = received[a][j] => i = j
  <2>1. Same(received[a][i].wave, received[a][i].wave) BY DEF Same
  <2>2. received[a][i] = received[a][j] => Same(received[a][i].wave, received[a][j].wave) BY DEF Same
  <2>3. /\ \A n \in lost : ~Same(received[a][i].wave, n)
        /\ Same(received[a][i].wave, received[a][j].wave) => i = j
    BY <1>1 DEF Taken
  <2> QED BY <2>1, <2>2, <2>3
<1>3. ASSUME NEW m \in transits
      PROVE  /\ m \in Content /\ m.kind = "agent" /\ m.from = a /\ m.nr = moved[a] /\ where[a].step = "away"
             /\ \E s \in Spots : Item(s) = m
  <2>1. m \in Content /\ m.kind = "agent" /\ m.from = a /\ OnTheWay(m) BY TransitFields DEF Content
  <2>2. PICK s \in Spots : Item(s) = m BY <1>1, <2>1, OnALine
  <2> QED BY <1>1, <2>1, <2>2 DEF Sent, Underway
<1>4. ASSUME NEW m \in transits, NEW n \in transits PROVE m = n
  <2>1. Same(m, n) BY <1>3 DEF Same
  <2>2. PICK s \in Spots : Item(s) = m BY <1>3
  <2>3. PICK t \in Spots : Item(t) = n BY <1>3
  <2>4. m \in Content /\ n \in Content BY <1>3
  <2>5. s = t BY <1>1, <2>1, <2>2, <2>3, <2>4 DEF Once
  <2> QED BY <2>2, <2>3, <2>5
<1>5. Cardinality(transits) <= 1
  <2>1. CASE transits = {} BY <2>1, FS_EmptySet
  <2>2. CASE transits # {}
    <3>1. PICK m : m \in transits BY <2>2
    <3>2. transits = {m} BY <1>4, <3>1
    <3> HIDE DEF transits
    <3>3. Cardinality({m}) = 1 BY FS_Singleton
    <3> QED BY <3>2, <3>3
  <2> QED BY <2>1, <2>2
<1> QED BY <1>2, <1>3, <1>5

\* Nothing is doubled: a wave is dropped or taken, not both and not twice; an
\* agent is on its way once, and runs nowhere meanwhile (WebSocketPylon 363-406,
\* Node 437-469, MobileCompositeAgent 224-236).
THEOREM NothingDoubled == Spec => []OnceOnly
<1>1. Init => TypeInv /\ Copies BY TypeInvInit, CopiesInit
<1>2. TypeInv /\ Copies /\ [Next]_vars => TypeInv' /\ Copies' BY TypeInvNext, CopiesNext
<1>3. TypeInv /\ Copies => OnceOnly BY CopiesOnce
<1> QED BY <1>1, <1>2, <1>3, PTL DEF Spec

-----------------------------------------------------------------------------
(* What each step does to the order on the lines.                          *)

LEMMA WrittenNext == \A s : Written(s)' <=> s[1] = "stream" /\ s[3] <= Served(s[2])'
BY DEF Written

LEMMA HeldNext ==
  ASSUME LineTypes', NEW p \in Pylons
  PROVE  Held(p)' \in Nat /\ Served(p)' \in Nat
BY DEF Held, Hand, Served, LineTypes

\* The lines stay as they are.
LEMMA KeptSame ==
  ASSUME LineTypes, LineTypes', \A k \in Kinds, q \in Pylons : SameLine(k, q)
  PROVE  /\ Spots' = Spots /\ \A s \in Spots : Item(s)' = Item(s)
         /\ \E f : Kept(f, {}, {}) /\ \A s \in Spots : f[s] = s
<1>1. ASSUME NEW s \in Spots' PROVE s \in Spots /\ Item(s)' = Item(s)
  <2>1. /\ s[1] \in Kinds /\ s[2] \in Pylons /\ s[3] \in 1 .. Len(Line(s[1], s[2])')
        /\ s = <<s[1], s[2], s[3]>> /\ Item(s)' = (Line(s[1], s[2])')[s[3]]
    BY SpotsNext
  <2>2. Line(s[1], s[2])' = Line(s[1], s[2]) BY <2>1 DEF SameLine
  <2>3. <<s[1], s[2], s[3]>> \in Spots /\ Item(<<s[1], s[2], s[3]>>) = Line(s[1], s[2])[s[3]]
    BY <2>1, <2>2, SpotFacts
  <2> QED BY <2>1, <2>2, <2>3
<1>2. ASSUME NEW s \in Spots PROVE s \in Spots'
  <2>1. s[1] \in Kinds /\ s[2] \in Pylons /\ s[3] \in 1 .. Len(Line(s[1], s[2])) /\ s \in Kinds \X Pylons \X Nat
    BY SpotFacts DEF Spots
  <2>2. Line(s[1], s[2])' = Line(s[1], s[2]) BY <2>1 DEF SameLine
  <2> QED BY <2>1, <2>2 DEF Spots
<1>3. Spots' = Spots BY <1>1, <1>2
<1> DEFINE f == [s \in Spots |-> s]
<1>4. f \in [Spots -> Spots] /\ \A s \in Spots : f[s] = s OBVIOUS
<1> HIDE DEF f
<1>5. Kept(f, {}, {}) BY <1>1, <1>3, <1>4 DEF Kept
<1> QED BY <1>1, <1>3, <1>4, <1>5

LEMMA FlowSame ==
  ASSUME LineTypes, LineTypes', \A k \in Kinds, q \in Pylons : SameLine(k, q),
         \A q \in Pylons : Served(q)' = Served(q) /\ Held(q)' >= Held(q)
  PROVE  \E f : Flow(f, {}, {}) /\ \A s \in Spots : f[s] = s
<1>1. Spots' = Spots BY KeptSame
<1>2. PICK f : Kept(f, {}, {}) /\ \A s \in Spots : f[s] = s BY KeptSame
<1>3. ASSUME NEW s \in Spots
      PROVE  /\ Written(s)' <=> Written(f[s])
             /\ s[1] = "pipe" /\ s[3] > Held(s[2])' => f[s][3] > Held(s[2])
  <2>1. s[2] \in Pylons /\ s[3] \in Nat /\ f[s] = s BY <1>2, SpotFacts
  <2>2. Held(s[2]) \in Nat /\ Held(s[2])' \in Nat BY <2>1, HandFacts, HeldNext
  <2> QED BY <2>1, <2>2, WrittenNext DEF Written
<1>4. Flow(f, {}, {}) BY <1>1, <1>2, <1>3 DEF Flow
<1> QED BY <1>2, <1>4

LEMMA FlowStill ==
  ASSUME LineTypes, LineTypes', \A q \in Pylons : SameStream(q) /\ SamePipe(q)
  PROVE  \E f : Flow(f, {}, {}) /\ \A s \in Spots : f[s] = s
<1>1. \A k \in Kinds, q \in Pylons : SameLine(k, q) BY AllSameLines
<1>2. \A q \in Pylons : Served(q)' = Served(q) /\ Held(q)' >= Held(q)
  <2>1. \A q \in Pylons : Held(q) \in Nat BY HandFacts
  <2> QED BY <2>1 DEF SameStream, SamePipe
<1> QED BY <1>1, <1>2, FlowSame

LEMMA FlowMove ==
  ASSUME LineTypes, LineTypes', NEW k \in Kinds, NEW p \in Pylons, NEW l \in Kinds, NEW q \in Pylons, k # l,
         NEW c \in Nat, NEW e \in Nat, NEW h \in {e, e + 1}, MovesOne(k, p, c, l, q, e, h)
  PROVE  \E f : /\ h = e => Flow(f, {}, {<<k, p, c + 1>>})
                /\ h # e => Flow(f, {<<l, q, e + 1>>}, {<<k, p, c + 1>>})
<1>0. /\ Cut(Line(k, p), Line(k, p)', c, c + 1) /\ Cut(Line(l, q)', Line(l, q), e, h)
      /\ \A m \in Kinds, r \in Pylons : (m # k \/ r # p) /\ (m # l \/ r # q) => SameLine(m, r)
  BY DEF MovesOne
<1>01. /\ \/ k = "stream" /\ c = Served(p) /\ Served(p)' = Served(p)
          \/ k = "stream" /\ c = 0 /\ Served(p)' = Served(p) - 1
          \/ k = "pipe" /\ Served(p)' = Served(p)
       /\ \A r \in Pylons : r # p => Served(r)' = Served(r)
       /\ l = "stream" => h = e
  BY DEF MovesOne
<1>02. /\ \A r \in Pylons : ~(k = "pipe" /\ r = p) /\ ~(l = "pipe" /\ r = q /\ h # e) => Held(r)' = Held(r)
       /\ k = "pipe" => c = 0 /\ (Held(p)' = Held(p) - 1 \/ (Held(p)' = 0 /\ Held(p) = 0))
       /\ l = "pipe" /\ h # e => \/ e = 0 /\ Held(q) = 0 /\ Held(q)' = 1
                                 \/ e >= Held(q) /\ Held(q)' = Held(q)
  BY DEF MovesOne
<1>1. PICK f : /\ Kept(f, Grown(l, q, e, h), Gone(k, p, c, c + 1))
               /\ \A s \in Spots' \ Grown(l, q, e, h) : f[s][3] = IF On(s, k, p) THEN Skip(s[3], c, c + 1)
                                                        ELSE IF On(s, l, q) THEN Back(s[3], e, h) ELSE s[3]
  <2>1. c + 1 \in Nat /\ h \in Nat OBVIOUS
  <2> QED BY <1>0, <2>1, KeptMove
<1>2. c + 1 \in 1 .. Len(Line(k, p)) /\ (h # e => e + 1 \in 1 .. Len(Line(l, q)'))
  <2>1. Len(Line(k, p)) \in Nat /\ Len(Line(l, q)') \in Nat BY LineLength, LengthNext
  <2> QED BY <1>0, <2>1 DEF Cut
<1>3. Gone(k, p, c, c + 1) = {<<k, p, c + 1>>} BY <1>2, OneSpot
<1> DEFINE N == IF h = e THEN {} ELSE {<<l, q, e + 1>>}
<1>4. Grown(l, q, e, h) = N
  <2>1. CASE h = e BY <2>1, OneSpotNext
  <2>2. CASE h # e
    <3>1. h = e + 1 /\ N = {<<l, q, e + 1>>} BY <2>2
    <3>2. Grown(l, q, e, e + 1) = {<<l, q, e + 1>>} BY <1>2, <2>2, OneSpotNext
    <3> QED BY <3>1, <3>2
  <2> QED BY <2>1, <2>2
<1> HIDE DEF N
<1>5. ASSUME NEW s \in Spots' \ N
      PROVE  Written(s)' <=> Written(f[s])
  <2>1. /\ s[1] \in Kinds /\ s[2] \in Pylons /\ s[3] \in 1 .. Len(Line(s[1], s[2])')
        /\ f[s][1] = s[1] /\ f[s][2] = s[2]
    BY <1>1, <1>4, SpotsNext DEF Kept
  <2>2. f[s][3] = IF On(s, k, p) THEN Skip(s[3], c, c + 1) ELSE IF On(s, l, q) THEN Back(s[3], e, h) ELSE s[3]
    BY <1>1, <1>4
  <2>3. s[3] \in Nat /\ s[3] >= 1 /\ Served(s[2]) \in Nat
    <3>1. Len(Line(s[1], s[2])') \in Nat BY <2>1, LengthNext
    <3>2. Served(s[2]) \in Nat BY <2>1, StreamFacts
    <3> QED BY <2>1, <3>1, <3>2
  <2>4. CASE s[1] = "pipe" BY <2>1, <2>4, WrittenNext DEF Written
  <2>5. CASE s[1] = "stream" /\ On(s, k, p)
    <3>1. f[s][3] = Skip(s[3], c, c + 1) /\ k = "stream" /\ s[2] = p BY <2>2, <2>5 DEF On
    <3>2. f[s][3] = IF s[3] <= c THEN s[3] ELSE s[3] + 1 BY <2>3, <3>1 DEF Skip
    <3>3. s[3] <= Served(p)' <=> f[s][3] <= Served(p) BY <1>01, <2>3, <3>1, <3>2
    <3> QED BY <2>1, <2>5, <3>1, <3>3, WrittenNext DEF Written
  <2>6. CASE s[1] = "stream" /\ ~On(s, k, p)
    <3>1. f[s][3] = s[3]
      <4>1. On(s, l, q) => h = e BY <1>01, <2>6 DEF On
      <4> QED BY <2>2, <2>3, <2>6, <4>1 DEF Back
    <3>2. Served(s[2])' = Served(s[2]) BY <1>01, <2>1, <2>6 DEF On
    <3> QED BY <2>1, <2>6, <3>1, <3>2, WrittenNext DEF Written
  <2> QED BY <2>1, <2>4, <2>5, <2>6 DEF Kinds
<1>6. ASSUME NEW s \in Spots' \ N, s[1] = "pipe", s[3] > Held(s[2])'
      PROVE  f[s][3] > Held(s[2])
  <2>1. /\ s[1] \in Kinds /\ s[2] \in Pylons /\ s[3] \in 1 .. Len(Line(s[1], s[2])') BY SpotsNext
  <2>2. f[s][3] = IF On(s, k, p) THEN Skip(s[3], c, c + 1) ELSE IF On(s, l, q) THEN Back(s[3], e, h) ELSE s[3]
    BY <1>1, <1>4
  <2>3. s[3] \in Nat /\ s[3] >= 1 /\ Held(s[2]) \in Nat /\ Held(s[2])' \in Nat
    <3>1. Len(Line(s[1], s[2])') \in Nat BY <2>1, LengthNext
    <3>2. Held(s[2]) \in Nat /\ Held(s[2])' \in Nat BY <2>1, HandFacts, HeldNext
    <3> QED BY <2>1, <3>1, <3>2
  <2>4. CASE On(s, k, p)
    <3>1. c = 0 /\ (Held(p)' = Held(p) - 1 \/ (Held(p)' = 0 /\ Held(p) = 0)) /\ s[2] = p
      BY <1>02, <1>6, <2>4 DEF On
    <3>2. f[s][3] = s[3] + 1 BY <2>2, <2>3, <2>4, <3>1 DEF Skip
    <3> QED BY <1>6, <2>3, <3>1, <3>2
  <2>5. CASE ~On(s, k, p) /\ On(s, l, q) /\ h # e
    <3>1. \/ e = 0 /\ Held(q) = 0 /\ Held(q)' = 1
          \/ e >= Held(q) /\ Held(q)' = Held(q)
      BY <1>02, <1>6, <2>5 DEF On
    <3>2. f[s][3] = (IF s[3] <= e THEN s[3] ELSE s[3] - 1) /\ s[2] = q BY <2>2, <2>3, <2>5 DEF Back, On
    <3>3. s[3] # e + 1
      <4>1. s = <<s[1], s[2], s[3]>> BY SpotsNext
      <4> QED BY <2>5, <4>1 DEF N, On
    <3> QED BY <1>6, <2>3, <3>1, <3>2, <3>3
  <2>6. CASE ~On(s, k, p) /\ (On(s, l, q) => h = e)
    <3>1. f[s][3] = s[3] BY <2>2, <2>3, <2>6 DEF Back
    <3>2. Held(s[2])' = Held(s[2]) BY <1>02, <1>6, <2>1, <2>6 DEF On
    <3> QED BY <1>6, <3>1, <3>2
  <2> QED BY <2>4, <2>5, <2>6
<1>7. Flow(f, N, {<<k, p, c + 1>>}) BY <1>1, <1>3, <1>4, <1>5, <1>6 DEF Flow
<1>10. (h = e => N = {}) /\ (h # e => N = {<<l, q, e + 1>>}) BY DEF N
<1> QED BY <1>7, <1>10

LEMMA OtherLines ==
  ASSUME NEW p \in Pylons, \A q \in Pylons : q # p => SameStream(q) /\ SamePipe(q)
  PROVE  /\ \A m \in Kinds, r \in Pylons : r # p => SameLine(m, r)
         /\ \A r \in Pylons : r # p => Served(r)' = Served(r) /\ Held(r)' = Held(r)
BY KindLines DEF SameLine, SameStream, SamePipe

\* A connection goes: what was written before a message that still arrives arrives.
LEMMA FlowClose ==
  ASSUME TypeInv, TypeInv', NEW p \in Pylons, Close(p)
  PROVE  \E f, G : /\ Flow(f, {}, G)
                   /\ \A g \in G : g[1] = "stream" => g[2] = p /\ Written(g)
                   /\ \A g \in G, s \in Spots' : On(g, "stream", p) /\ On(s, "stream", p) /\ Written(f[s]) => f[s][3] < g[3]
<1>1. LineTypes /\ LineTypes' BY TypeParts
<1>2. /\ \A q \in Pylons : q # p => SameStream(q) /\ SamePipe(q)
      /\ Held(p)' = Held(p)
  BY LinesClose
<1>3. PICK n \in Nat, c \in Nat :
            /\ n <= Served(p) /\ Cut(Stream(p), Stream(p)', n, Served(p)) /\ Served(p)' = n
            /\ Held(p) <= c /\ Cut(Pipe(p), Pipe(p)', c, Len(Pipe(p)))
  BY LinesClose
<1>4. Served(p) \in Nat /\ Len(Pipe(p)) \in Nat /\ Held(p) \in Nat BY <1>1, StreamFacts, PipeFacts, HandFacts
<1> DEFINE d == Served(p)
           h == Len(Pipe(p))
<1>5. d \in Nat /\ h \in Nat /\ Cut(Line("stream", p), Line("stream", p)', n, d) /\ Cut(Line("pipe", p), Line("pipe", p)', c, h)
  BY <1>3, <1>4, KindLines
<1>6. \A m \in Kinds, r \in Pylons : (m # "stream" \/ r # p) /\ (m # "pipe" \/ r # p) => SameLine(m, r)
  BY <1>2, OtherLines, KindLines
<1>7. d = Served(p) /\ h = Len(Pipe(p)) OBVIOUS
<1> HIDE DEF d, h
<1> DEFINE G == Pieces("stream", p, n, d, "pipe", p, c, h)
<1>8. PICK f : /\ Kept(f, {}, G)
               /\ \A s \in Spots' : f[s][3] = IF On(s, "stream", p) THEN Skip(s[3], n, d)
                                              ELSE IF On(s, "pipe", p) THEN Skip(s[3], c, h) ELSE s[3]
  BY <1>1, <1>5, <1>6, KeptCuts, KindLines
<1>9. ASSUME NEW s \in Spots'
      PROVE  /\ Written(s)' <=> Written(f[s])
             /\ s[1] = "pipe" /\ s[3] > Held(s[2])' => f[s][3] > Held(s[2])
             /\ On(s, "stream", p) /\ Written(f[s]) => f[s][3] <= n
  <2>1. /\ s[1] \in Kinds /\ s[2] \in Pylons /\ s[3] \in 1 .. Len(Line(s[1], s[2])')
        /\ f[s][1] = s[1] /\ f[s][2] = s[2]
    BY <1>8, SpotsNext DEF Kept
  <2>2. s[3] \in Nat /\ s[3] >= 1 /\ Held(s[2]) \in Nat /\ Served(s[2]) \in Nat
    <3>1. Len(Line(s[1], s[2])') \in Nat BY <1>1, <2>1, LengthNext
    <3> QED BY <1>1, <2>1, <3>1, StreamFacts, HandFacts
  <2>3. CASE On(s, "stream", p)
    <3>1. f[s][3] = IF s[3] <= n THEN s[3] ELSE s[3] + (d - n) BY <1>8, <2>3 DEF Skip
    <3>2. s[1] = "stream" /\ s[2] = p BY <2>3 DEF On
    <3>3. (s[3] <= Served(p)' <=> f[s][3] <= Served(p)) /\ (f[s][3] <= Served(p) => f[s][3] <= n)
      BY <1>3, <1>5, <1>7, <2>2, <3>1
    <3> QED BY <2>1, <3>2, <3>3, WrittenNext DEF Written
  <2>4. CASE On(s, "pipe", p)
    <3>1. s[1] = "pipe" /\ s[2] = p BY <2>4 DEF On
    <3>2. f[s][3] = IF s[3] <= c THEN s[3] ELSE s[3] + (h - c) BY <1>8, <2>4, <3>1 DEF Skip, On
    <3>3. c <= h BY <1>3, <1>7 DEF Cut
    <3>4. s[3] > Held(p)' => f[s][3] > Held(p) BY <1>2, <1>5, <2>2, <3>1, <3>2, <3>3
    <3> QED BY <2>1, <3>1, <3>4, WrittenNext DEF Written, On
  <2>5. CASE ~On(s, "stream", p) /\ ~On(s, "pipe", p)
    <3>1. f[s][3] = s[3] /\ s[2] # p BY <1>8, <2>1, <2>5, KindLines DEF On
    <3>2. Served(s[2])' = Served(s[2]) /\ Held(s[2])' = Held(s[2]) BY <1>2, <2>1, <3>1, OtherLines
    <3> QED BY <2>1, <2>5, <3>1, <3>2, WrittenNext DEF Written
  <2> QED BY <2>3, <2>4, <2>5
<1>10. Flow(f, {}, G) BY <1>8, <1>9 DEF Flow
<1>11. ASSUME NEW g \in G, g[1] = "stream" PROVE g[2] = p /\ g[3] > n /\ Written(g)
  BY <1>7, <1>11 DEF G, Pieces, Piece, On, Written
<1>12. \A g \in G, s \in Spots' : On(g, "stream", p) /\ On(s, "stream", p) /\ Written(f[s]) => f[s][3] < g[3]
  <2> SUFFICES ASSUME NEW g \in G, NEW s \in Spots', On(g, "stream", p), On(s, "stream", p), Written(f[s])
               PROVE  f[s][3] < g[3]
    OBVIOUS
  <2>1. f[s][3] <= n /\ g[3] > n BY <1>9, <1>11 DEF On
  <2>2. f[s] \in Spots /\ g \in Spots BY <1>8 DEF Kept, G, Pieces
  <2>3. f[s][3] \in Nat /\ g[3] \in Nat BY <1>1, <2>2, SpotFacts
  <2> QED BY <2>1, <2>3
<1> QED BY <1>10, <1>11, <1>12

LEMMA FlowServeOutbound ==
  ASSUME TypeInv, TypeInv', NEW p \in Pylons, ServeOutbound(p)
  PROVE  LET o == <<"stream", p, Served(p) + 1>>
             n == <<"pipe", p, 1>>
         IN  /\ o \in Spots /\ ~Written(o) /\ Held(p) = 0
             /\ p \notin stopped \cup suspended
             /\ UNCHANGED <<pylon, receivers, table, agents, received, calm>>
             /\ \/ /\ Local(p, Item(o)) /\ UNCHANGED lost
                   /\ n \in Spots' /\ Item(n)' = Item(o) /\ Held(p)' = 1
                   /\ \E f : Flow(f, {n}, {o})
                \/ /\ ~Local(p, Item(o)) /\ conn[p] = "open" /\ UNCHANGED lost
                   /\ Spots' = Spots /\ (\A s \in Spots : Item(s)' = Item(s))
                   /\ \A s \in Spots : Written(s)' <=> Written(s) \/ s = o
                   /\ \A q \in Pylons : Held(q)' = Held(q)
                \/ /\ ~Local(p, Item(o)) /\ conn[p] # "open" /\ Drop(Item(o))
                   /\ \E f : Flow(f, {}, {o})
<1> DEFINE o == <<"stream", p, Served(p) + 1>>
           n == <<"pipe", p, 1>>
<1>1. LineTypes /\ LineTypes' BY TypeParts
<1>2. /\ \A q \in Pylons : q # p => SameStream(q) /\ SamePipe(q)
      /\ Held(p) = 0 /\ Served(p) + 1 \in 1 .. Len(Stream(p))
      /\ p \notin stopped \cup suspended
      /\ UNCHANGED <<pylon, receivers, table, agents, received, calm>>
  BY LinesServeOutbound
<1>3. o \in Spots /\ Item(o) = Stream(p)[Served(p) + 1]
  <2>1. Served(p) + 1 \in 1 .. Len(Line("stream", p)) /\ Line("stream", p) = Stream(p) /\ "stream" \in Kinds
    BY <1>2, KindLines
  <2> QED BY <1>1, <2>1, SpotFacts
<1>4. ~Written(o) /\ Served(p) \in Nat /\ Len(Pipe(p)) \in Nat /\ Held(p) \in Nat
  <2>1. Served(p) \in Nat /\ Len(Pipe(p)) \in Nat /\ Held(p) \in Nat BY <1>1, StreamFacts, PipeFacts, HandFacts
  <2> QED BY <2>1 DEF Written
<1>5. CASE /\ Local(p, Stream(p)[Served(p) + 1]) /\ UNCHANGED lost
           /\ Cut(Stream(p), Stream(p)', Served(p), Served(p) + 1) /\ Served(p)' = Served(p)
           /\ Cut(Pipe(p)', Pipe(p), 0, 1) /\ Pipe(p)'[1] = Stream(p)[Served(p) + 1] /\ Held(p)' = 1
  <2> DEFINE c == Served(p)
  <2>1. c \in Nat /\ c = Served(p) BY <1>4
  <2> HIDE DEF c
  <2>2. /\ Cut(Line("stream", p), Line("stream", p)', c, c + 1) /\ Cut(Line("pipe", p)', Line("pipe", p), 0, 1)
        /\ (Line("pipe", p)')[1] = Stream(p)[c + 1]
    BY <1>5, <2>1, KindLines
  <2>3. \A m \in Kinds, r \in Pylons : (m # "stream" \/ r # p) /\ (m # "pipe" \/ r # p) => SameLine(m, r)
    BY <1>2, OtherLines, KindLines
  <2>4. \A r \in Pylons : r # p => Served(r)' = Served(r) /\ Held(r)' = Held(r) BY <1>2, OtherLines
  <2>5. Served(p)' = c /\ Held(p)' = 1 /\ Held(p) = 0 BY <1>2, <1>5, <2>1
  <2>6. \E f : /\ Flow(f, {<<"pipe", p, 1>>}, {<<"stream", p, c + 1>>})
               /\ <<"pipe", p, 1>> \in Spots' /\ Item(<<"pipe", p, 1>>)' = (Line("pipe", p)')[1]
    <3> DEFINE e == 0
               h == 1
    <3>1. "stream" \in Kinds /\ "pipe" \in Kinds /\ e \in Nat /\ h \in {e, e + 1} /\ e + 1 = 1 /\ h # e
      BY KindLines
    <3>2. MovesOne("stream", p, c, "pipe", p, e, h) BY <2>1, <2>2, <2>3, <2>4, <2>5 DEF MovesOne
    <3> HIDE DEF e, h
    <3>3. \E f : h # e => Flow(f, {<<"pipe", p, e + 1>>}, {<<"stream", p, c + 1>>})
      BY <1>1, <2>1, <3>1, <3>2, FlowMove
    <3>4. \E f : Flow(f, {<<"pipe", p, 1>>}, {<<"stream", p, c + 1>>}) BY <3>1, <3>3
    <3>5. 1 \in 1 .. Len(Line("pipe", p)')
      <4>1. Len(Line("pipe", p)') \in Nat BY <1>1, <3>1, LengthNext
      <4> QED BY <2>2, <4>1 DEF Cut
    <3>6. <<"pipe", p, 1>> \in Spots' /\ Item(<<"pipe", p, 1>>)' = (Line("pipe", p)')[1]
      BY <1>1, <3>1, <3>5, NewPlace
    <3> QED BY <3>4, <3>6
  <2> QED BY <1>2, <1>3, <1>4, <1>5, <2>1, <2>2, <2>6
<1>6. CASE /\ ~Local(p, Stream(p)[Served(p) + 1]) /\ UNCHANGED lost /\ conn[p] = "open"
           /\ Stream(p)' = Stream(p) /\ Served(p)' = Served(p) + 1 /\ SamePipe(p)
  <2>1. \A k \in Kinds, q \in Pylons : SameLine(k, q)
    BY <1>2, <1>6, KindLines DEF SameLine, SameStream, SamePipe
  <2>2. Spots' = Spots /\ \A s \in Spots : Item(s)' = Item(s) BY <1>1, <2>1, KeptSame
  <2>3. ASSUME NEW s \in Spots PROVE Written(s)' <=> Written(s) \/ s = o
    <3>1. s[2] \in Pylons /\ s[3] \in Nat /\ s = <<s[1], s[2], s[3]>> BY <1>1, SpotFacts
    <3>2. CASE s[1] = "stream" /\ s[2] = p BY <1>4, <1>6, <3>1, <3>2, WrittenNext DEF Written
    <3>3. CASE ~(s[1] = "stream" /\ s[2] = p)
      <4>1. s # o BY <3>3
      <4>2. s[2] # p => Served(s[2])' = Served(s[2]) BY <1>2, <3>1 DEF SameStream
      <4> QED BY <3>3, <4>1, <4>2, WrittenNext DEF Written
    <3> QED BY <3>2, <3>3
  <2>4. \A q \in Pylons : Held(q)' = Held(q) BY <1>2, <1>6 DEF SamePipe
  <2> QED BY <1>2, <1>3, <1>4, <1>6, <2>2, <2>3, <2>4
<1>7. CASE /\ ~Local(p, Stream(p)[Served(p) + 1]) /\ Drop(Stream(p)[Served(p) + 1]) /\ conn[p] # "open"
           /\ Cut(Stream(p), Stream(p)', Served(p), Served(p) + 1) /\ Served(p)' = Served(p)
           /\ SamePipe(p)
  <2> DEFINE c == Served(p)
  <2>1. c \in Nat /\ c = Served(p) BY <1>4
  <2> HIDE DEF c
  <2>2. Cut(Line("stream", p), Line("stream", p)', c, c + 1) /\ Cut(Line("pipe", p)', Line("pipe", p), 0, 0)
    BY <1>4, <1>7, <2>1, KindLines, NoCut DEF SamePipe
  <2>3. \A m \in Kinds, r \in Pylons : (m # "stream" \/ r # p) /\ (m # "pipe" \/ r # p) => SameLine(m, r)
    BY <1>2, OtherLines, KindLines
  <2>4. \A r \in Pylons : r # p => Served(r)' = Served(r) /\ Held(r)' = Held(r) BY <1>2, OtherLines
  <2>5. Served(p)' = c /\ Held(p)' = Held(p) BY <1>7, <2>1 DEF SamePipe
  <2>6. \E f : Flow(f, {}, {<<"stream", p, c + 1>>})
    <3>1. "stream" \in Kinds /\ "pipe" \in Kinds /\ 0 \in Nat /\ 0 \in {0, 0 + 1} BY KindLines
    <3>2. MovesOne("stream", p, c, "pipe", p, 0, 0) BY <2>1, <2>2, <2>3, <2>4, <2>5 DEF MovesOne
    <3>3. \E f : 0 = 0 => Flow(f, {}, {<<"stream", p, c + 1>>}) BY <1>1, <2>1, <3>1, <3>2, FlowMove
    <3> QED BY <3>3
  <2> QED BY <1>2, <1>3, <1>4, <1>7, <2>1, <2>2, <2>6
<1> HIDE DEF o, n
<1> QED BY <1>5, <1>6, <1>7, LinesServeOutbound DEF o, n

LEMMA PipeLengthNext ==
  ASSUME LineTypes', NEW q \in Pylons
  PROVE  Len(Pipe(q))' = Held(q)' + Len(inbound[q])' + Len(toPylon[q])'
<1> DEFINE a == Hand(q)'
           b == inbound'[q]
           c == toPylon'[q]
<1>1. a \in Seq(Content) /\ b \in Seq(Content) /\ c \in Seq(Content) BY DEF Hand, LineTypes
<1>2. Pipe(q)' = (a \o b) \o c /\ Held(q)' = Len(a) BY DEF Pipe, Held
<1> HIDE DEF a, b, c
<1>3. Len((a \o b) \o c) = Len(a) + Len(b) + Len(c) BY <1>1, ContentConcat
<1> QED BY <1>2, <1>3 DEF b, c

\* The front of a pipe goes.
LEMMA FlowFront ==
  ASSUME LineTypes, LineTypes', NEW p \in Pylons,
         \A q \in Pylons : SameStream(q), \A q \in Pylons : q # p => SamePipe(q),
         Cut(Pipe(p), Pipe(p)', 0, 1), Held(p)' = 0
  PROVE  \E f : Flow(f, {}, {<<"pipe", p, 1>>})
<1> DEFINE c == 0
<1>1. "stream" \in Kinds /\ "pipe" \in Kinds /\ c \in Nat /\ c \in {c, c + 1} /\ c + 1 = 1 /\ c = 0 BY KindLines
<1>2. Cut(Line("pipe", p), Line("pipe", p)', c, c + 1) BY KindLines
<1> HIDE DEF c
<1>3. Cut(Line("stream", p)', Line("stream", p), c, c)
  <2>1. Len(Stream(p)) \in Nat BY StreamFacts
  <2> QED BY <1>1, <2>1, KindLines, NoCut DEF SameStream
<1>4. \A m \in Kinds, r \in Pylons : (m # "pipe" \/ r # p) /\ (m # "stream" \/ r # p) => SameLine(m, r)
  BY KindLines DEF SameLine, SameStream, SamePipe
<1>5. MovesOne("pipe", p, c, "stream", p, c, c)
  <2>1. \A r \in Pylons : Served(r)' = Served(r) /\ (r # p => Held(r)' = Held(r)) BY DEF SameStream, SamePipe
  <2>2. Held(p)' = Held(p) - 1 \/ (Held(p)' = 0 /\ Held(p) = 0)
    <3>1. Held(p) \in {0, 1} BY HandFacts
    <3> QED BY <3>1
  <2> QED BY <1>1, <1>2, <1>3, <1>4, <2>1, <2>2 DEF MovesOne
<1>6. \E f : c = c => Flow(f, {}, {<<"pipe", p, c + 1>>}) BY <1>1, <1>5, FlowMove
<1> QED BY <1>1, <1>6

LEMMA FlowServeInbound ==
  ASSUME TypeInv, TypeInv', NEW p \in Pylons, ServeInbound(p)
  PROVE  /\ UNCHANGED <<pylon, receivers, table, agents, received, calm>>
         /\ <<"pipe", p, 1>> \in Spots
         /\ \/ /\ Local(p, Item(<<"pipe", p, 1>>)) /\ UNCHANGED lost
               /\ \E f : Flow(f, {}, {}) /\ \A s \in Spots : f[s] = s
            \/ /\ ~Local(p, Item(<<"pipe", p, 1>>)) /\ Drop(Item(<<"pipe", p, 1>>))
               /\ \E f : Flow(f, {}, {<<"pipe", p, 1>>})
<1>1. LineTypes /\ LineTypes' BY TypeParts
<1>2. /\ \A q \in Pylons : SameStream(q)
      /\ \A q \in Pylons : q # p => SamePipe(q)
      /\ Held(p) = 0 /\ 1 \in 1 .. Len(Pipe(p))
      /\ UNCHANGED <<pylon, receivers, table, agents, received, calm>>
  BY LinesServeInbound
<1>3. \/ Local(p, Pipe(p)[1]) /\ UNCHANGED lost /\ Pipe(p)' = Pipe(p) /\ Held(p)' = 1
      \/ /\ ~Local(p, Pipe(p)[1]) /\ Drop(Pipe(p)[1])
         /\ Cut(Pipe(p), Pipe(p)', 0, 1) /\ Held(p)' = 0
  BY LinesServeInbound
<1>4. <<"pipe", p, 1>> \in Spots /\ Item(<<"pipe", p, 1>>) = Pipe(p)[1]
  <2>1. 1 \in 1 .. Len(Line("pipe", p)) /\ "pipe" \in Kinds BY <1>2, KindLines
  <2> QED BY <1>1, <2>1, SpotFacts, KindLines
<1>5. CASE Local(p, Pipe(p)[1]) /\ UNCHANGED lost /\ Pipe(p)' = Pipe(p) /\ Held(p)' = 1
  <2>1. \A k \in Kinds, q \in Pylons : SameLine(k, q)
    BY <1>2, <1>5, KindLines DEF SameLine, SameStream, SamePipe
  <2>2. \A q \in Pylons : Served(q)' = Served(q) /\ Held(q)' >= Held(q)
    <3>1. \A q \in Pylons : Held(q) \in Nat BY <1>1, HandFacts
    <3> QED BY <1>2, <1>5, <3>1 DEF SameStream, SamePipe
  <2>3. \E f : Flow(f, {}, {}) /\ \A s \in Spots : f[s] = s BY <1>1, <2>1, <2>2, FlowSame
  <2> QED BY <1>2, <1>4, <1>5, <2>3
<1>6. CASE /\ ~Local(p, Pipe(p)[1]) /\ Drop(Pipe(p)[1])
           /\ Cut(Pipe(p), Pipe(p)', 0, 1) /\ Held(p)' = 0
  <2>1. \E f : Flow(f, {}, {<<"pipe", p, 1>>}) BY <1>1, <1>2, <1>6, FlowFront
  <2> QED BY <1>2, <1>4, <1>6, <2>1
<1> QED BY <1>3, <1>5, <1>6

LEMMA FlowDeliver ==
  ASSUME TypeInv, TypeInv', NEW p \in Pylons, Deliver(p)
  PROVE  /\ <<"pipe", p, 1>> \in Spots /\ Item(<<"pipe", p, 1>>) = serving[p] /\ Held(p) = 1
         /\ \E f : Flow(f, {}, {<<"pipe", p, 1>>})
<1>1. LineTypes /\ LineTypes' BY TypeParts
<1>2. /\ \A q \in Pylons : SameStream(q)
      /\ \A q \in Pylons : q # p => SamePipe(q)
      /\ Held(p) = 1 /\ 1 \in 1 .. Len(Pipe(p)) /\ serving[p] = Pipe(p)[1]
      /\ Cut(Pipe(p), Pipe(p)', 0, 1) /\ Held(p)' = 0
  BY LinesDeliver
<1>3. <<"pipe", p, 1>> \in Spots /\ Item(<<"pipe", p, 1>>) = serving[p]
  <2>1. 1 \in 1 .. Len(Line("pipe", p)) /\ "pipe" \in Kinds BY <1>2, KindLines
  <2> QED BY <1>1, <1>2, <2>1, SpotFacts, KindLines
<1>5. /\ \A q \in Pylons : SameStream(q)
      /\ \A q \in Pylons : q # p => SamePipe(q)
      /\ Cut(Pipe(p), Pipe(p)', 0, 1)
  BY <1>2
<1>6. Held(p)' = 0 BY <1>2
<1>4. \E f : Flow(f, {}, {<<"pipe", p, 1>>}) BY <1>1, <1>5, <1>6, FlowFront
<1> QED BY <1>2, <1>3, <1>4

LEMMA FlowServer ==
  ASSUME TypeInv, TypeInv', NEW p \in Pylons, Server(p)
  PROVE  LET o == <<"stream", p, 1>>
         IN  /\ o \in Spots /\ Written(o) /\ Item(o) = Incoming(p)
             /\ \/ /\ \E f : Flow(f, {}, {o})
                   /\ UNCHANGED toPylon
                \/ \E q \in Pylons : \E n \in Spots' :
                      /\ table[Incoming(p).to] = q /\ conn[q] = "open" /\ Incoming(p) \in Content
                      /\ n = <<"pipe", q, Len(Pipe(q)) + 1>> /\ Item(n)' = Incoming(p)
                      /\ \E f : Flow(f, {n}, {o})
<1> DEFINE o == <<"stream", p, 1>>
<1>1. LineTypes /\ LineTypes' BY TypeParts
<1>2. /\ \A q \in Pylons : q # p => SameStream(q)
      /\ 1 \in 1 .. Served(p) /\ 1 \in 1 .. Len(Stream(p)) /\ Incoming(p) = Stream(p)[1] /\ Incoming(p) \in Message
      /\ Cut(Stream(p), Stream(p)', 0, 1) /\ Served(p)' = Served(p) - 1
  BY LinesServer
<1>3. \A q \in Pylons : \/ SamePipe(q)
                        \/ /\ table[Incoming(p).to] = q /\ Incoming(p) \in Content
                           /\ Pipe(q)' = Append(Pipe(q), Incoming(p)) /\ Held(q)' = Held(q)
  BY LinesServer
<1>4. o \in Spots /\ Item(o) = Incoming(p) /\ Written(o)
  <2>1. 1 \in 1 .. Len(Line("stream", p)) /\ "stream" \in Kinds BY <1>2, KindLines
  <2> QED BY <1>1, <1>2, <2>1, SpotFacts, KindLines DEF Written
<1>5. \A r \in Pylons : r # p => Served(r)' = Served(r) BY <1>2 DEF SameStream
<1>6. CASE \A q \in Pylons : SamePipe(q)
  <2> DEFINE c == 0
  <2>1. "stream" \in Kinds /\ "pipe" \in Kinds /\ c \in Nat /\ c \in {c, c + 1} /\ c + 1 = 1 /\ c = 0
    BY KindLines
  <2>2. Cut(Line("stream", p), Line("stream", p)', c, c + 1) BY <1>2, KindLines
  <2> HIDE DEF c
  <2>3. Cut(Line("pipe", p)', Line("pipe", p), c, c)
    <3>1. Len(Pipe(p)) \in Nat BY <1>1, PipeFacts
    <3> QED BY <1>6, <2>1, <3>1, KindLines, NoCut DEF SamePipe
  <2>4. \A m \in Kinds, r \in Pylons : (m # "stream" \/ r # p) /\ (m # "pipe" \/ r # p) => SameLine(m, r)
    BY <1>2, <1>6, KindLines DEF SameLine, SameStream, SamePipe
  <2>5. \A r \in Pylons : Held(r)' = Held(r) BY <1>6 DEF SamePipe
  <2>6. MovesOne("stream", p, c, "pipe", p, c, c) BY <1>2, <1>5, <2>1, <2>2, <2>3, <2>4, <2>5 DEF MovesOne
  <2>7. \E f : c = c => Flow(f, {}, {<<"stream", p, c + 1>>}) BY <1>1, <2>1, <2>6, FlowMove
  <2>8. \E f : Flow(f, {}, {o}) BY <2>1, <2>7
  <2>9. UNCHANGED toPylon \/ \E q \in Pylons : ~SamePipe(q)
    <3>1. \/ UNCHANGED toPylon
          \/ /\ table[Incoming(p).to] \in Pylons
             /\ toPylon' = [toPylon EXCEPT ![table[Incoming(p).to]] = Append(@, Incoming(p))]
      BY ServerCases
    <3> SUFFICES ASSUME table[Incoming(p).to] \in Pylons,
                        toPylon' = [toPylon EXCEPT ![table[Incoming(p).to]] = Append(@, Incoming(p))]
                 PROVE  FALSE
      BY <1>6, <3>1
    <3>2. PICK q \in Pylons : q = table[Incoming(p).to] OBVIOUS
    <3>3. toPylon'[q] = Append(toPylon[q], Incoming(p)) /\ serving'[q] = serving[q] /\ inbound'[q] = inbound[q]
      BY <1>1, <3>2, ServerCases DEF thread, LineTypes
    <3>4. Len(Pipe(q)) = Held(q) + Len(inbound[q]) + Len(toPylon[q]) BY <1>1, PipeFacts
    <3>5. Len(Pipe(q))' = Held(q)' + Len(inbound[q])' + Len(toPylon[q])' BY <1>1, PipeLengthNext
    <3>6. Len(Append(toPylon[q], Incoming(p))) = Len(toPylon[q]) + 1 /\ Len(toPylon[q]) \in Nat /\ Len(inbound[q]) \in Nat
      <4>1. toPylon[q] \in Seq(Message) /\ inbound[q] \in Seq(Message) /\ Incoming(p) \in Message
        BY <1>1, <1>2, ContentIsMessage, LineFacts
      <4>2. Len(Append(toPylon[q], Incoming(p))) = Len(toPylon[q]) + 1 BY <4>1, MessageAppend
      <4> QED BY <4>1, <4>2, ElementIn
    <3>7. Held(q) \in Nat BY <1>1, HandFacts
    <3> QED BY <1>6, <3>3, <3>4, <3>5, <3>6, <3>7 DEF SamePipe
  <2> QED BY <1>4, <1>6, <2>8, <2>9
<1>7. CASE ~ \A q \in Pylons : SamePipe(q)
  <2>1. PICK q \in Pylons : ~SamePipe(q) BY <1>7
  <2>2. /\ table[Incoming(p).to] = q /\ Incoming(p) \in Content
        /\ Pipe(q)' = Append(Pipe(q), Incoming(p)) /\ Held(q)' = Held(q)
    BY <1>3, <2>1
  <2>3. \A r \in Pylons : r # q => SamePipe(r) BY <1>3, <2>2
  <2>17. conn[q] = "open"
    <3>1. ~UNCHANGED toPylon
      <4>1. UNCHANGED thread BY ServerCases
      <4> QED BY <2>1, <4>1, PipeStays DEF thread
    <3> QED BY <2>2, <3>1, MessageKinds, ServerCases
  <2>20. Len(Pipe(q)) \in Nat BY <1>1, PipeFacts
  <2>21. PICK e \in Nat : e = Len(Pipe(q)) BY <2>20
  <2>22. PICK h \in Nat : h = e + 1 OBVIOUS
  <2> DEFINE c == 0
  <2>4. "stream" \in Kinds /\ "pipe" \in Kinds /\ c \in Nat /\ e \in Nat /\ h \in {e, e + 1} /\ h # e /\ c + 1 = 1 /\ c = 0
    BY <2>22, KindLines
  <2>5. Cut(Line("stream", p), Line("stream", p)', c, c + 1) BY <1>2, KindLines
  <2>6. /\ Cut(Line("pipe", q)', Line("pipe", q), e, h) /\ Len(Line("pipe", q)') = h /\ (Line("pipe", q)')[e + 1] = Incoming(p)
        /\ e >= Held(q)
    <3>1. Pipe(q) \in Seq(Content) /\ Held(q) <= Len(Pipe(q)) /\ Held(q) \in Nat BY <1>1, PipeFacts, HandFacts
    <3>2. /\ Len(Append(Pipe(q), Incoming(p))) = Len(Pipe(q)) + 1 /\ Append(Pipe(q), Incoming(p))[Len(Pipe(q)) + 1] = Incoming(p)
          /\ \A i \in 1 .. Len(Pipe(q)) : Append(Pipe(q), Incoming(p))[i] = Pipe(q)[i]
      BY <2>2, <3>1, ContentAppend
    <3>3. Len(Pipe(q)') = h /\ Pipe(q)'[e + 1] = Incoming(p) /\ \A i \in 1 .. e : Pipe(q)'[i] = Pipe(q)[i]
      BY <2>2, <2>21, <2>22, <3>2
    <3>4. Cut(Pipe(q)', Pipe(q), e, h)
      <4>1. e \in Nat /\ h \in Nat /\ e <= h /\ h <= Len(Pipe(q)') /\ Len(Pipe(q)) = Len(Pipe(q)') - (h - e)
        BY <2>4, <2>21, <2>22, <3>3
      <4>2. \A i \in 1 .. Len(Pipe(q)) : Skip(i, e, h) = i /\ Pipe(q)[i] = Pipe(q)'[i] BY <2>21, <3>3 DEF Skip
      <4> QED BY <4>1, <4>2 DEF Cut
    <3> QED BY <2>21, <3>1, <3>3, <3>4, KindLines
  <2>7. e = Len(Pipe(q)) /\ h = e + 1 BY <2>21, <2>22
  <2> HIDE DEF c
  <2>8. \A m \in Kinds, r \in Pylons : (m # "stream" \/ r # p) /\ (m # "pipe" \/ r # q) => SameLine(m, r)
    BY <1>2, <2>3, KindLines DEF SameLine, SameStream, SamePipe
  <2>9. \A r \in Pylons : Held(r)' = Held(r) BY <2>2, <2>3 DEF SamePipe
  <2>10. MovesOne("stream", p, c, "pipe", q, e, h) BY <1>2, <1>5, <2>4, <2>5, <2>6, <2>8, <2>9 DEF MovesOne
  <2>11. \E f : h # e => Flow(f, {<<"pipe", q, e + 1>>}, {<<"stream", p, c + 1>>})
    BY <1>1, <2>4, <2>10, FlowMove
  <2>12. h \in 1 .. Len(Line("pipe", q)') /\ (Line("pipe", q)')[h] = Incoming(p) BY <2>4, <2>6, <2>7
  <2>13. <<"pipe", q, h>> \in Spots' /\ Item(<<"pipe", q, h>>)' = Incoming(p)
    <3>1. <<"pipe", q, h>> \in Spots' /\ Item(<<"pipe", q, h>>)' = (Line("pipe", q)')[h]
      BY <1>1, <2>4, <2>12, NewPlace
    <3> QED BY <2>12, <3>1
  <2>14. \E f : Flow(f, {<<"pipe", q, h>>}, {o}) BY <2>4, <2>7, <2>11
  <2>15. h = Len(Pipe(q)) + 1 BY <2>7
  <2> DEFINE n == <<"pipe", q, h>>
  <2>16. /\ table[Incoming(p).to] = q /\ conn[q] = "open" /\ Incoming(p) \in Content /\ n \in Spots'
         /\ n = <<"pipe", q, Len(Pipe(q)) + 1>> /\ Item(n)' = Incoming(p)
         /\ \E f : Flow(f, {n}, {o})
    BY <2>2, <2>13, <2>14, <2>15, <2>17
  <2> HIDE DEF n
  <2> QED BY <1>4, <2>16
<1> QED BY <1>6, <1>7

LEMMA SpotsGrow ==
  ASSUME LineTypes, LineTypes', NEW p \in Pylons, NEW t \in Seq(Message), \A q \in Pylons : SamePipe(q),
         \A q \in Pylons : q # p => SameStream(q), Stream(p)' = Stream(p) \o t
  PROVE  /\ Spots' = Spots \cup Ends(p, t) /\ Spots \cap Ends(p, t) = {}
         /\ \A s \in Spots : Item(s)' = Item(s)
         /\ \A i \in 1 .. Len(t), j \in Nat : j = Len(Stream(p)) + i => Item(<<"stream", p, j>>)' = t[i]
<1>1. /\ Stream(p) \in Seq(Message) /\ Len(Stream(p)) \in Nat /\ Len(t) \in Nat
      /\ Len(Line("stream", p)') = Len(Stream(p)) + Len(t)
      /\ \A i \in 1 .. Len(Stream(p)) : (Line("stream", p)')[i] = Line("stream", p)[i]
      /\ \A i \in 1 .. Len(t) : (Line("stream", p)')[Len(Stream(p)) + i] = t[i]
  <2>1. Stream(p) \in Seq(Message) /\ Len(Stream(p)) \in Nat /\ Len(t) \in Nat BY StreamFacts, ElementIn
  <2> QED BY <2>1, MessageConcat, KindLines
<1>2. \A k \in Kinds, r \in Pylons : ~(k = "stream" /\ r = p) => Line(k, r)' = Line(k, r)
  BY KindLines DEF SameStream, SamePipe
<1>3. ASSUME NEW s \in Spots' PROVE s \in Spots \cup Ends(p, t)
  <2>1. /\ s[1] \in Kinds /\ s[2] \in Pylons /\ s[3] \in 1 .. Len(Line(s[1], s[2])') /\ s = <<s[1], s[2], s[3]>>
    BY SpotsNext
  <2>2. CASE s[3] \in 1 .. Len(Line(s[1], s[2]))
    <3>1. <<s[1], s[2], s[3]>> \in Spots BY <2>1, <2>2, SpotFacts
    <3> QED BY <2>1, <3>1
  <2>3. CASE s[3] \notin 1 .. Len(Line(s[1], s[2]))
    <3>1. s[1] = "stream" /\ s[2] = p BY <1>2, <2>1, <2>3
    <3>2. s[3] \in Len(Stream(p)) + 1 .. Len(Stream(p)) + Len(t) BY <1>1, <2>1, <2>3, <3>1, KindLines
    <3> QED BY <2>1, <3>1, <3>2 DEF Ends
  <2> QED BY <2>2, <2>3
<1>4. ASSUME NEW s \in Spots PROVE s \in Spots' /\ Item(s)' = Item(s) /\ s \notin Ends(p, t)
  <2>1. /\ s[1] \in Kinds /\ s[2] \in Pylons /\ s[3] \in 1 .. Len(Line(s[1], s[2])) /\ s = <<s[1], s[2], s[3]>>
        /\ Item(s) = Line(s[1], s[2])[s[3]]
    BY SpotFacts
  <2>2. s[3] \in 1 .. Len(Line(s[1], s[2])') /\ (Line(s[1], s[2])')[s[3]] = Line(s[1], s[2])[s[3]]
    <3>1. CASE s[1] = "stream" /\ s[2] = p
      <4>1. s[3] \in 1 .. Len(Stream(p)) BY <2>1, <3>1, KindLines
      <4>2. s[3] \in 1 .. Len(Line("stream", p)') BY <1>1, <4>1
      <4> QED BY <1>1, <3>1, <4>1, <4>2
    <3>2. CASE ~(s[1] = "stream" /\ s[2] = p) BY <1>2, <2>1, <3>2
    <3> QED BY <3>1, <3>2
  <2>3. <<s[1], s[2], s[3]>> \in Spots' /\ Item(<<s[1], s[2], s[3]>>)' = (Line(s[1], s[2])')[s[3]]
    BY <2>1, <2>2, NewPlace
  <2>4. ASSUME s \in Ends(p, t) PROVE FALSE
    <3>1. s[1] = "stream" /\ s[2] = p /\ s[3] \in Len(Stream(p)) + 1 .. Len(Stream(p)) + Len(t) BY <2>4 DEF Ends
    <3> QED BY <1>1, <2>1, <3>1, KindLines
  <2> QED BY <2>1, <2>2, <2>3, <2>4
<1>5. ASSUME NEW i \in 1 .. Len(t), NEW j \in Nat, j = Len(Stream(p)) + i
      PROVE  Item(<<"stream", p, j>>)' = t[i]
  <2>1. j \in 1 .. Len(Line("stream", p)') /\ (Line("stream", p)')[j] = t[i] BY <1>1, <1>5
  <2>2. Item(<<"stream", p, j>>)' = (Line("stream", p)')[j] BY <2>1, NewPlace, KindLines
  <2> QED BY <2>1, <2>2
<1>6. ASSUME NEW s \in Ends(p, t) PROVE s \in Spots'
  <2>1. PICK i \in Len(Stream(p)) + 1 .. Len(Stream(p)) + Len(t) : s = <<"stream", p, i>> BY DEF Ends
  <2>2. i \in 1 .. Len(Line("stream", p)') BY <1>1, <2>1
  <2> QED BY <2>1, <2>2, NewPlace, KindLines
<1> QED BY <1>3, <1>4, <1>5, <1>6

LEMMA FlowGrow ==
  ASSUME LineTypes, LineTypes', NEW p \in Pylons, NEW t \in Seq(Message), \A q \in Pylons : SamePipe(q),
         \A q \in Pylons : q # p => SameStream(q), Stream(p)' = Stream(p) \o t, Served(p)' = Served(p)
  PROVE  /\ \E f : Flow(f, Ends(p, t), {})
         /\ \A n \in Ends(p, t) : n \in Spots' /\ ~Written(n)'
<1> DEFINE N == Ends(p, t)
           G == {}
           f == [s \in Spots |-> s]
<1>1. /\ Spots' = Spots \cup N /\ Spots \cap N = {} /\ \A s \in Spots : Item(s)' = Item(s) BY SpotsGrow
<1>2. /\ f \in [Spots -> Spots] /\ (\A s \in Spots : f[s] = s) /\ Spots \ G = Spots OBVIOUS
<1>3. \A n \in N : n[1] = "stream" /\ n[2] = p /\ n[3] > Len(Stream(p)) /\ n[3] \in Nat
  <2>1. Len(Stream(p)) \in Nat BY StreamFacts
  <2> QED BY <2>1 DEF Ends
<1> HIDE DEF f, N, G
<1>4. Spots' \ N = Spots BY <1>1
<1>5. Kept(f, N, G)
  <2>1. f \in [Spots' \ N -> Spots \ G] BY <1>2, <1>4
  <2>2. \A s \in Spots' \ N : Item(s)' = Item(f[s]) /\ f[s][1] = s[1] /\ f[s][2] = s[2] BY <1>1, <1>2, <1>4
  <2>3. \A s, u \in Spots' \ N : s[1] = u[1] /\ s[2] = u[2] => (s[3] < u[3] <=> f[s][3] < f[u][3]) BY <1>2, <1>4
  <2>4. \A u \in Spots \ G : \E s \in Spots' \ N : f[s] = u BY <1>2, <1>4
  <2> QED BY <2>1, <2>2, <2>3, <2>4 DEF Kept
<1>6. \A r \in Pylons : Served(r)' = Served(r) /\ Held(r)' = Held(r) BY DEF SameStream, SamePipe
<1>7. ASSUME NEW s \in Spots
      PROVE  /\ Written(s)' <=> Written(f[s])
             /\ s[1] = "pipe" /\ s[3] > Held(s[2])' => f[s][3] > Held(s[2])
  <2>1. s[2] \in Pylons /\ f[s] = s BY <1>2, SpotFacts
  <2> QED BY <1>6, <2>1, WrittenNext DEF Written
<1>8. Flow(f, N, G) BY <1>4, <1>5, <1>7 DEF Flow
<1>9. ASSUME NEW n \in N PROVE n \in Spots' /\ ~Written(n)'
  <2>1. Served(p)' = Served(p) /\ Served(p) \in Nat /\ Served(p) <= Len(Stream(p)) /\ Len(Stream(p)) \in Nat
    BY <1>6, StreamFacts
  <2>2. n[1] = "stream" /\ n[2] = p /\ n[3] > Len(Stream(p)) /\ n[3] \in Nat BY <1>3
  <2>3. ~(n[3] <= Served(n[2])') BY <2>1, <2>2
  <2> QED BY <1>1, <2>3, WrittenNext
<1>10. \E g : Flow(g, N, G) BY <1>8
<1> QED BY <1>9, <1>10 DEF N, G

\* One message is added, or two.
LEMMA FlowAppend ==
  ASSUME TypeInv, TypeInv', NEW p \in Pylons, NEW m \in Message, outbound' = [outbound EXCEPT ![p] = Append(@, m)],
         UNCHANGED <<thread, network>>
  PROVE  \E n \in Spots' : /\ On(n, "stream", p) /\ ~Written(n)' /\ Item(n)' = m
                           /\ \A s \in Spots' : On(s, "stream", p) => s[3] <= n[3]
                           /\ Spots' = Spots \cup {n} /\ \E f : Flow(f, {n}, {})
<1>1. LineTypes /\ LineTypes' /\ Stream(p) \in Seq(Message) /\ Len(Stream(p)) \in Nat BY TypeParts, StreamFacts
<1>2. (\A q \in Pylons : SamePipe(q)) /\ (\A q \in Pylons : q # p => SameStream(q)) /\ Served(p)' = Served(p)
  BY <1>1, LinesAppend
<1> DEFINE t == <<m>>
<1>3. t \in Seq(Message) /\ Len(t) = 1 /\ t[1] = m BY SingleSeq
<1>4. Stream(p)' = Stream(p) \o t BY <1>1, GrownByOne
<1> HIDE DEF t
<1>5. /\ Spots' = Spots \cup Ends(p, t)
      /\ \A i \in 1 .. Len(t), j \in Nat : j = Len(Stream(p)) + i => Item(<<"stream", p, j>>)' = t[i]
  BY <1>1, <1>2, <1>3, <1>4, SpotsGrow
<1>6. PICK j \in Nat : j = Len(Stream(p)) + 1 BY <1>1
<1> DEFINE n == <<"stream", p, j>>
<1>7. Ends(p, t) = {n} BY <1>1, <1>3, <1>6 DEF Ends
<1>8. Item(n)' = m BY <1>3, <1>5, <1>6
<1>9. (\E f : Flow(f, {n}, {})) /\ n \in Spots' /\ ~Written(n)'
  <2>1. (\E f : Flow(f, Ends(p, t), {})) /\ \A x \in Ends(p, t) : x \in Spots' /\ ~Written(x)'
    BY <1>1, <1>2, <1>3, <1>4, FlowGrow
  <2> QED BY <1>7, <2>1
<1>10. ASSUME NEW s \in Spots', On(s, "stream", p) PROVE s[3] <= j
  <2>1. s[3] \in 1 .. Len(Line("stream", p)') BY <1>10, SpotsNext DEF On
  <2>2. Len(Line("stream", p)') = Len(Stream(p)) + 1
    <3>1. Line("stream", p)' = Stream(p) \o t BY <1>1, <1>3, <1>4, KindLines
    <3>2. Len(Stream(p) \o t) = Len(Stream(p)) + Len(t) BY <1>1, <1>3, MessageConcat
    <3> QED BY <1>3, <3>1, <3>2
  <2> QED BY <1>1, <1>6, <2>1, <2>2
<1>11. n[1] = "stream" /\ n[2] = p /\ n[3] = j /\ Spots' = Spots \cup {n} BY <1>5, <1>7
<1> HIDE DEF n
<1> QED BY <1>8, <1>9, <1>10, <1>11 DEF On

LEMMA FlowLeave ==
  ASSUME TypeInv, TypeInv', NEW p \in Pylons, NEW u \in Message, NEW m \in Message,
         Farewell(p, u, m)
  PROVE  \E n, x \in Spots' : FarewellAt(p, u, m, x, n)
<1>1. LineTypes /\ LineTypes' /\ Stream(p) \in Seq(Message) /\ Len(Stream(p)) \in Nat BY TypeParts, StreamFacts
<1> DEFINE t == <<u, m>>
<1>2. /\ (\A q \in Pylons : SamePipe(q)) /\ (\A q \in Pylons : q # p => SameStream(q)) /\ Served(p)' = Served(p)
      /\ Stream(p)' = Stream(p) \o t
  BY <1>1, LinesLeave DEF Farewell
<1>3. t \in Seq(Message) /\ Len(t) = 2 /\ t[1] = u /\ t[2] = m OBVIOUS
<1> HIDE DEF t
<1>5. /\ Spots' = Spots \cup Ends(p, t)
      /\ \A i \in 1 .. Len(t), j \in Nat : j = Len(Stream(p)) + i => Item(<<"stream", p, j>>)' = t[i]
  BY <1>1, <1>2, <1>3, SpotsGrow
<1>6. PICK j \in Nat : j = Len(Stream(p)) + 1 BY <1>1
<1>12. PICK k \in Nat : k = Len(Stream(p)) + 2 BY <1>1
<1> DEFINE x == <<"stream", p, j>>
           n == <<"stream", p, k>>
<1>7. Ends(p, t) = {x, n}
  <2>1. Len(Stream(p)) + 1 .. Len(Stream(p)) + 2 = {j, k} BY <1>1, <1>6, <1>12
  <2> QED BY <1>3, <2>1 DEF Ends
<1>8. Item(x)' = u /\ Item(n)' = m
  <2>1. 1 \in 1 .. Len(t) /\ 2 \in 1 .. Len(t) BY <1>3
  <2> QED BY <1>3, <1>5, <1>6, <1>12, <2>1
<1>9. (\E f : Flow(f, {x, n}, {})) /\ n \in Spots' /\ ~Written(n)' /\ x \in Spots' /\ ~Written(x)'
  <2>1. (\E f : Flow(f, Ends(p, t), {})) /\ \A y \in Ends(p, t) : y \in Spots' /\ ~Written(y)'
    BY <1>1, <1>2, <1>3, FlowGrow
  <2> QED BY <1>7, <2>1
<1>10. ASSUME NEW s \in Spots', On(s, "stream", p) PROVE s[3] <= k
  <2>1. s[3] \in 1 .. Len(Line("stream", p)') BY <1>10, SpotsNext DEF On
  <2>2. Len(Line("stream", p)') = Len(Stream(p)) + 2
    <3>1. Line("stream", p)' = Stream(p) \o t BY <1>1, <1>2, <1>3, KindLines
    <3>2. Len(Stream(p) \o t) = Len(Stream(p)) + Len(t) BY <1>1, <1>3, MessageConcat
    <3> QED BY <1>3, <3>1, <3>2
  <2> QED BY <1>1, <1>12, <2>1, <2>2
<1>11. /\ n[1] = "stream" /\ n[2] = p /\ n[3] = k /\ x[1] = "stream" /\ x[2] = p /\ x[3] + 1 = k
       /\ Spots' = Spots \cup {x, n}
  BY <1>1, <1>5, <1>6, <1>7, <1>12
<1> HIDE DEF x, n
<1>13. On(n, "stream", p) /\ On(x, "stream", p) /\ x[3] + 1 = n[3] BY <1>11 DEF On
<1>14. \A s \in Spots' : On(s, "stream", p) => s[3] <= n[3] BY <1>10, <1>11
<1> QED BY <1>8, <1>9, <1>11, <1>13, <1>14 DEF FarewellAt

-----------------------------------------------------------------------------
(* Who is registered with which pylon.                                     *)

LEMMA DeadNext ==
  ASSUME TypeInv, [Next]_vars
  PROVE  \A p \in Pylons : (Dead(p) => Dead(p)') /\ (conn[p] # "connecting" => conn'[p] # "connecting")
<1> DEFINE Remains == \A p \in Pylons : (Dead(p) => Dead(p)') /\ (conn[p] # "connecting" => conn'[p] # "connecting")
<1>1. PylonTypes BY TypeParts
<1>2. CASE UNCHANGED pylon BY <1>2 DEF pylon, Dead
<1>3. ASSUME NEW p \in Pylons, Open(p) \/ Close(p) \/ Suspend(p) \/ Stop(p) PROVE Remains
  BY <1>1, <1>3 DEF Open, Close, Suspend, Stop, PylonTypes, Dead
<1>4. ASSUME NEW p \in Pylons, ServeOutbound(p) \/ ServeInbound(p) \/ Deliver(p) \/ Read(p) \/ Server(p)
      PROVE  UNCHANGED pylon
  BY <1>4 DEF ServeOutbound, ServeInbound, Deliver, Read, Server
<1>5. ASSUME NEW e \in Entities, Put(e) \/ Add(e) PROVE UNCHANGED pylon BY <1>5 DEF Put, Add
<1>6. ASSUME NEW a \in Agents, PostMove(a) \/ Remove(a) \/ Leave(a) \/ Send(a) \/ Restart(a) \/ StopCopy(a)
      PROVE  UNCHANGED pylon
  BY <1>6 DEF PostMove, Remove, Leave, Send, Restart, StopCopy
<1>7. CASE UNCHANGED vars BY <1>2, <1>7 DEF vars
<1> QED BY <1>2, <1>3, <1>4, <1>5, <1>6, <1>7 DEF Next

LEMMA CarriedAway ==
  ASSUME TypeInv, Copies, NEW s \in Spots, Item(s) \in Transit
  PROVE  /\ Item(s).from \in Agents /\ Item(s).from \in Entities /\ where[Item(s).from].step = "away"
         /\ Item(s).nr = moved[Item(s).from] /\ Fresh(Item(s)) /\ Item(s).to \in Pylons
<1>1. Item(s) \in Content /\ Item(s).kind = "agent" /\ Item(s).from \in Agents /\ Item(s).to \in Pylons
  BY TransitFields DEF Content
<1>2. Underway(Item(s)) /\ Fresh(Item(s)) BY <1>1 DEF Copies, Sent
<1> QED BY <1>1, <1>2 DEF Underway, Entities

\* The new places say nothing of an agent that is registered there.
LEMMA StrangersFlow ==
  ASSUME TypeInv, TypeInv', Copies, Strangers, NEW f, NEW N, NEW G, Flow(f, N, G),
         \A n \in N : n[1] = "pipe" /\ Item(n)' \in Transit => Item(n)'.from \notin receivers'[n[2]],
         \A p \in Pylons : \A e \in receivers'[p] : e \in receivers[p] \/ where[e].step # "away"
  PROVE  Strangers'
<1>1. ASSUME NEW s \in Spots' \ N, s[1] = "pipe", Item(s)' \in Transit
      PROVE  Item(s)'.from \notin receivers'[s[2]]
  <2>1. f[s] \in Spots /\ Item(s)' = Item(f[s]) /\ f[s][1] = "pipe" /\ f[s][2] = s[2] BY <1>1 DEF Flow, Kept
  <2>2. Item(f[s]).from \notin receivers[s[2]] /\ where[Item(f[s]).from].step = "away"
    BY <1>1, <2>1, CarriedAway DEF Strangers
  <2>3. s[2] \in Pylons BY SpotsNext
  <2> QED BY <2>1, <2>2, <2>3
<1>2. \A s \in Spots' : s \in N \/ s \in Spots' \ N OBVIOUS
<1> QED BY <1>1, <1>2 DEF Strangers

\* A step after which everybody runs where he ran, and is registered where he was.
LEMMA ListedStill ==
  ASSUME TypeInv, Named, [Next]_vars, UNCHANGED <<where, receivers, restarted>>
  PROVE  Listed' /\ Present' /\ Started'
<1>1. \A p \in Pylons : (Dead(p) => Dead(p)') /\ (conn[p] # "connecting" => conn'[p] # "connecting") BY DeadNext
<1>2. Listed' BY <1>1 DEF Named, Listed
<1>3. Present' BY DEF Named, Present
<1>4. Started'
  <2>1. \A e \in Entities : where[e].node \in Pylons BY TypeParts, WhereFacts
  <2> QED BY <1>1, <2>1 DEF Named, Started
<1> QED BY <1>2, <1>3, <1>4

LEMMA NamedInit == Init => Named
<1> SUFFICES ASSUME Init PROVE Named OBVIOUS
<1>1. TypeInv BY TypeInvInit
<1>2. \A p \in Pylons : receivers[p] = {} BY DEF Init
<1>3. \A e \in Entities : where[e].step = "putting" /\ where[e].node \in Pylons
  BY <1>1, TypeParts, WhereFacts DEF Init
<1>4. Strangers
  <2>1. \A s \in Spots : s[2] \in Pylons BY <1>1, TypeParts, SpotFacts
  <2> QED BY <1>2, <2>1 DEF Strangers
<1> QED BY <1>2, <1>3, <1>4 DEF Named, Listed, Present, Started

\* The steps that leave the lines as they are, and who takes them.
LEMMA FlowQuiet ==
  ASSUME TypeInv, TypeInv',
         \/ UNCHANGED <<outbound, thread, toServer, toPylon>>
         \/ \E p \in Pylons : Read(p)
  PROVE  \E f : Flow(f, {}, {}) /\ \A s \in Spots : f[s] = s
<1>1. LineTypes /\ LineTypes' BY TypeParts
<1>2. \A q \in Pylons : SameStream(q) /\ SamePipe(q) BY <1>1, LinesStill, LinesRead
<1> QED BY <1>1, <1>2, FlowStill

LEMMA NamedQuiet ==
  ASSUME TypeInv, TypeInv', Copies, Named, [Next]_vars, UNCHANGED <<where, receivers, restarted>>,
         \/ UNCHANGED <<outbound, thread, toServer, toPylon>>
         \/ \E p \in Pylons : Read(p)
  PROVE  Named'
<1>1. PICK f : Flow(f, {}, {}) BY FlowQuiet
<1>2. \A p \in Pylons : \A e \in receivers'[p] : e \in receivers[p] \/ where[e].step # "away" OBVIOUS
<1>3. Strangers' BY <1>1, <1>2, StrangersFlow DEF Named
<1> QED BY <1>3, ListedStill DEF Named

\* A message goes on or away, and the entities do nothing.
LEMMA NamedFlow ==
  ASSUME TypeInv, TypeInv', Copies, Named, [Next]_vars, UNCHANGED <<where, receivers, restarted>>,
         NEW f, NEW N, NEW G, Flow(f, N, G),
         \A n \in N : n[1] = "pipe" => n[2] \in Pylons /\ ~Dead(n[2]) /\ \E t \in Spots : Item(n)' = Item(t)
  PROVE  Named'
<1>1. \A p \in Pylons : \A e \in receivers'[p] : e \in receivers[p] \/ where[e].step # "away" OBVIOUS
<1>2. ASSUME NEW n \in N, n[1] = "pipe", Item(n)' \in Transit PROVE Item(n)'.from \notin receivers'[n[2]]
  <2>1. n[2] \in Pylons /\ ~Dead(n[2]) BY <1>2
  <2>2. PICK t \in Spots : Item(n)' = Item(t) BY <1>2
  <2>3. where[Item(t).from].step = "away" BY <1>2, <2>2, CarriedAway
  <2>4. Item(t).from \notin receivers[n[2]] BY <2>1, <2>3 DEF Named, Listed
  <2> QED BY <2>2, <2>4
<1>3. Strangers' BY <1>1, <1>2, StrangersFlow DEF Named
<1> QED BY <1>3, ListedStill DEF Named

LEMMA NamedServeOutbound ==
  ASSUME TypeInv, TypeInv', Copies, Named, [Next]_vars, NEW p \in Pylons, ServeOutbound(p)
  PROVE  Named'
<1> DEFINE o == <<"stream", p, Served(p) + 1>>
           n == <<"pipe", p, 1>>
<1>1. /\ o \in Spots /\ p \notin suspended /\ UNCHANGED <<where, receivers, restarted>>
      /\ \/ n \in Spots' /\ Item(n)' = Item(o) /\ \E f : Flow(f, {n}, {o})
         \/ Spots' = Spots /\ (\A s \in Spots : Item(s)' = Item(s))
         \/ \E f : Flow(f, {}, {o})
  BY FlowServeOutbound DEF agents
<1>2. n[1] = "pipe" /\ n[2] = p /\ ~Dead(p) BY <1>1 DEF Dead
<1> HIDE DEF o, n
<1>3. CASE n \in Spots' /\ Item(n)' = Item(o) /\ \E f : Flow(f, {n}, {o}) BY <1>1, <1>2, <1>3, NamedFlow
<1>4. CASE Spots' = Spots /\ (\A s \in Spots : Item(s)' = Item(s))
  <2>1. Strangers' BY <1>1, <1>4 DEF Named, Strangers
  <2> QED BY <1>1, <2>1, ListedStill DEF Named
<1>5. CASE \E f : Flow(f, {}, {o}) BY <1>1, <1>5, NamedFlow
<1> QED BY <1>1, <1>3, <1>4, <1>5

LEMMA NamedServeInbound ==
  ASSUME TypeInv, TypeInv', Copies, Named, [Next]_vars, NEW p \in Pylons, ServeInbound(p)
  PROVE  Named'
<1>1. UNCHANGED <<where, receivers, restarted>> /\ \E f, G : Flow(f, {}, G)
  <2>1. UNCHANGED <<where, receivers, restarted>> BY FlowServeInbound DEF agents
  <2>2. (\E f : Flow(f, {}, {})) \/ \E f : Flow(f, {}, {<<"pipe", p, 1>>}) BY FlowServeInbound
  <2> QED BY <2>1, <2>2
<1> QED BY <1>1, NamedFlow

LEMMA NamedServer ==
  ASSUME TypeInv, TypeInv', Copies, Named, [Next]_vars, NEW p \in Pylons, Server(p)
  PROVE  Named'
<1>1. UNCHANGED <<where, receivers, restarted>> BY ServerCases DEF agents
<1> DEFINE o == <<"stream", p, 1>>
<1>2. /\ o \in Spots /\ Item(o) = Incoming(p)
      /\ \/ \E f : Flow(f, {}, {o})
         \/ \E q \in Pylons : \E n \in Spots' :
                /\ table[Incoming(p).to] = q /\ Incoming(p) \in Content
                /\ n = <<"pipe", q, Len(Pipe(q)) + 1>> /\ Item(n)' = Incoming(p)
                /\ conn[q] = "open"
                /\ \E f : Flow(f, {n}, {o})
  BY FlowServer
<1> HIDE DEF o
<1>3. CASE \E f : Flow(f, {}, {o}) BY <1>1, <1>3, NamedFlow
<1>4. ASSUME NEW q \in Pylons, NEW n \in Spots', table[Incoming(p).to] = q, n[2] = q, Incoming(p) \in Content,
             Item(n)' = Incoming(p), conn[q] = "open", NEW f, Flow(f, {n}, {o})
      PROVE  Named'
  <2>2. ~Dead(q) BY <1>4 DEF Dead
  <2> QED BY <1>1, <1>2, <1>4, <2>2, NamedFlow
<1>5. \A q \in Pylons, n \in Spots' : n = <<"pipe", q, Len(Pipe(q)) + 1>> => n[2] = q OBVIOUS
<1> QED BY <1>2, <1>3, <1>4, <1>5

LEMMA NamedClose ==
  ASSUME TypeInv, TypeInv', Copies, Named, [Next]_vars, NEW p \in Pylons, Close(p)
  PROVE  Named'
<1>1. UNCHANGED <<where, receivers, restarted>> BY DEF Close, agents
<1>2. PICK f, G : Flow(f, {}, G) BY FlowClose
<1> QED BY <1>1, <1>2, NamedFlow

\* What remains to be shown of it.
LEMMA NamedAlike ==
  ASSUME TypeInv, TypeInv', Named, [Next]_vars, NEW e \in Entities, Alike(e), Strangers',
         \A p \in Pylons : e \in receivers'[p] => \/ p = where'[e].node /\ where'[e].step \in {"adding", "in", "stopping"}
                                                  \/ e \in restarted' /\ Dead(p)',
         where'[e].step \in {"adding", "in", "stopping"} => e \in receivers'[where'[e].node],
         where'[e].step = "putting" => e \notin receivers'[where'[e].node],
         where'[e].step # "putting" => conn'[where'[e].node] # "connecting"
  PROVE  Named'
<1>1. \A p \in Pylons : (Dead(p) => Dead(p)') /\ (conn[p] # "connecting" => conn'[p] # "connecting") BY DeadNext
<1>2. \A f \in Entities : where[f].node \in Pylons BY TypeParts, WhereFacts
<1>3. \A p \in Pylons : receivers'[p] \subseteq Entities BY TypeParts DEF NameTypes
<1>4. Listed'
  <2> SUFFICES ASSUME NEW p \in Pylons, NEW f \in receivers'[p]
               PROVE  \/ p = where'[f].node /\ where'[f].step \in {"adding", "in", "stopping"}
                      \/ f \in restarted' /\ Dead(p)'
    BY DEF Listed
  <2>1. CASE f = e BY <2>1
  <2>2. CASE f # e
    <3>1. f \in Entities /\ f \in receivers[p] /\ where'[f] = where[f] BY <1>3, <2>2 DEF Alike
    <3>2. \/ p = where[f].node /\ where[f].step \in {"adding", "in", "stopping"}
          \/ f \in restarted /\ Dead(p)
      BY <3>1 DEF Named, Listed
    <3> QED BY <1>1, <3>1, <3>2 DEF Alike
  <2> QED BY <2>1, <2>2
<1>5. Present'
  <2> SUFFICES ASSUME NEW f \in Entities
               PROVE  /\ where'[f].step \in {"adding", "in", "stopping"} => f \in receivers'[where'[f].node]
                      /\ where'[f].step = "putting" => f \notin receivers'[where'[f].node]
    BY DEF Present
  <2>1. CASE f = e BY <2>1
  <2>2. CASE f # e BY <1>2, <2>2 DEF Named, Present, Alike
  <2> QED BY <2>1, <2>2
<1>6. Started'
  <2> SUFFICES ASSUME NEW f \in Entities, where'[f].step # "putting"
               PROVE  conn'[where'[f].node] # "connecting"
    BY DEF Started
  <2>1. CASE f = e BY <2>1
  <2>2. CASE f # e BY <1>1, <1>2, <2>2 DEF Named, Started, Alike
  <2> QED BY <2>1, <2>2
<1> QED BY <1>4, <1>5, <1>6 DEF Named

\* The places stay, or those that are added are no agents in a pipe.
LEMMA StrangersAlike ==
  ASSUME TypeInv, TypeInv', Copies, Named, NEW f, NEW N, NEW G, Flow(f, N, G), \A n \in N : n[1] = "stream",
         \A p \in Pylons : \A e \in receivers'[p] : e \in receivers[p] \/ where[e].step # "away"
  PROVE  Strangers'
<1>1. \A n \in N : n[1] # "pipe" OBVIOUS
<1> QED BY <1>1, StrangersFlow DEF Named

LEMMA PutCases ==
  ASSUME TypeInv, Named, NEW e \in Entities, Put(e)
  PROVE  /\ where[e].node \in Pylons /\ where[e].step = "putting" /\ conn[where[e].node] # "connecting"
         /\ e \notin receivers[where[e].node]
         /\ where'[e].step = "adding" /\ where'[e].node = where[e].node
         /\ \A f \in Entities : f # e => where'[f] = where[f]
         /\ receivers' = [receivers EXCEPT ![where[e].node] = @ \cup {e}]
         /\ UNCHANGED <<pylon, outbound, thread, network, count, moved, restarted, history>>
<1>1. where[e].node \in Pylons /\ where[e].step = "putting" /\ e \notin receivers[where[e].node]
  BY TypeParts, WhereFacts DEF Put, Named, Present
<1>2. Goes(e, "adding") /\ receivers' = [receivers EXCEPT ![where[e].node] = @ \cup {e}] BY <1>1 DEF Put
<1>3. /\ where'[e].step = "adding" /\ where'[e].node = where[e].node
      /\ \A f \in Entities : f # e => where'[f] = where[f]
  BY <1>2, TypeParts, GoesOn DEF Steps
<1> QED BY <1>1, <1>2, <1>3 DEF Put

LEMMA NamedPut ==
  ASSUME TypeInv, TypeInv', Copies, Named, [Next]_vars, NEW e \in Entities, Put(e)
  PROVE  Named'
<1>1. PICK p \in Pylons : p = where[e].node BY TypeParts, WhereFacts
<1>2. /\ where[e].step = "putting" /\ conn[p] # "connecting" /\ e \notin receivers[p]
      /\ where'[e].step = "adding" /\ where'[e].node = p
      /\ \A f \in Entities : f # e => where'[f] = where[f]
      /\ UNCHANGED <<pylon, outbound, thread, network, count, moved, restarted, history>>
  BY <1>1, PutCases
<1>3. receivers'[p] = receivers[p] \cup {e} /\ \A q \in Pylons : q # p => receivers'[q] = receivers[q]
  BY <1>1, PutCases, TypeParts DEF NameTypes
<1>4. Alike(e) BY <1>2, <1>3 DEF Alike
<1>5. PICK f : Flow(f, {}, {}) BY <1>2, FlowQuiet DEF network
<1>6. \A q \in Pylons : \A x \in receivers'[q] : x \in receivers[q] \/ where[x].step # "away" BY <1>2, <1>3
<1>7. Strangers' BY <1>5, <1>6, StrangersAlike
<1>8. ASSUME NEW q \in Pylons, e \in receivers'[q], q # p PROVE e \in restarted' /\ Dead(q)'
  <2>1. e \in receivers[q] /\ restarted' = restarted BY <1>2, <1>3, <1>8
  <2>2. e \in restarted /\ Dead(q) BY <1>1, <1>2, <1>8, <2>1 DEF Named, Listed
  <2> QED BY <2>1, <2>2, DeadNext
<1> QED BY <1>2, <1>3, <1>4, <1>7, <1>8, NamedAlike DEF pylon

LEMMA NamedGoes ==
  ASSUME TypeInv, TypeInv', Copies, Named, [Next]_vars, NEW e \in Entities, NEW s \in {"in", "stopping"},
         where[e].step \in {"adding", "in"}, Goes(e, s), UNCHANGED <<receivers, restarted>>, Strangers'
  PROVE  Named'
<1>1. PICK p \in Pylons : p = where[e].node BY TypeParts, WhereFacts
<1>2. where'[e].step = s /\ where'[e].node = p /\ \A f \in Entities : f # e => where'[f] = where[f]
  BY <1>1, TypeParts, GoesOn DEF Steps
<1>3. Alike(e) BY <1>2 DEF Alike
<1>4. e \in receivers[p] /\ conn[p] # "connecting" BY <1>1 DEF Named, Present, Started
<1>5. conn'[p] # "connecting" /\ \A q \in Pylons : Dead(q) => Dead(q)' BY <1>4, DeadNext
<1>6. ASSUME NEW q \in Pylons, e \in receivers'[q], q # p PROVE e \in restarted' /\ Dead(q)'
  <2>1. e \in receivers[q] /\ restarted' = restarted BY <1>6
  <2>2. e \in restarted /\ Dead(q) BY <1>1, <1>6, <2>1 DEF Named, Listed
  <2> QED BY <1>5, <2>1, <2>2
<1> QED BY <1>2, <1>3, <1>4, <1>5, <1>6, NamedAlike

LEMMA NamedAdd ==
  ASSUME TypeInv, TypeInv', Copies, Named, [Next]_vars, NEW e \in Entities, Add(e)
  PROVE  Named'
<1>1. /\ where[e].step = "adding" /\ Goes(e, "in")
      /\ outbound' = [outbound EXCEPT ![where[e].node] = Append(@, [kind |-> "reg", from |-> e])]
      /\ UNCHANGED <<pylon, thread, receivers, network, count, moved, restarted, history>>
  BY DEF Add
<1>2. where[e].node \in Pylons /\ [kind |-> "reg", from |-> e] \in Message
  BY TypeParts, WhereFacts, RegistrationFields, MessageKinds
<1>3. PICK n \in Spots' : On(n, "stream", where[e].node) /\ \E f : Flow(f, {n}, {}) BY <1>1, <1>2, FlowAppend
<1>4. n[1] = "stream" /\ \A p \in Pylons : \A x \in receivers'[p] : x \in receivers[p] \/ where[x].step # "away"
  BY <1>1, <1>3 DEF On
<1>5. Strangers' BY <1>3, <1>4, StrangersAlike
<1> QED BY <1>1, <1>5, NamedGoes

LEMMA NamedPostMove ==
  ASSUME TypeInv, TypeInv', Copies, Named, [Next]_vars, NEW a \in Agents, PostMove(a)
  PROVE  Named'
<1>1. /\ where[a].step = "in" /\ Goes(a, "stopping") /\ a \in Entities
      /\ UNCHANGED <<outbound, thread, toServer, toPylon, receivers, restarted>>
  BY DEF PostMove, Entities, network
<1>2. PICK f : Flow(f, {}, {}) BY <1>1, FlowQuiet
<1>3. \A p \in Pylons : \A x \in receivers'[p] : x \in receivers[p] \/ where[x].step # "away" BY <1>1
<1>4. Strangers' BY <1>2, <1>3, StrangersAlike
<1> QED BY <1>1, <1>4, NamedGoes

LEMMA NamedSend ==
  ASSUME TypeInv, TypeInv', Copies, Named, [Next]_vars, NEW a \in Agents, Send(a)
  PROVE  Named'
<1>1. /\ where[a].node \in Pylons /\ UNCHANGED <<where, receivers, restarted, thread, network>>
      /\ \E m \in Wave : outbound' = [outbound EXCEPT ![where[a].node] = Append(@, m)]
  BY SendSends
<1>2. PICK m \in Message : outbound' = [outbound EXCEPT ![where[a].node] = Append(@, m)]
  BY <1>1 DEF Message, Content
<1>3. PICK n \in Spots' : On(n, "stream", where[a].node) /\ \E f : Flow(f, {n}, {}) BY <1>1, <1>2, FlowAppend
<1>4. n[1] # "pipe" BY <1>3 DEF On
<1> QED BY <1>1, <1>3, <1>4, NamedFlow

LEMMA NamedRemove ==
  ASSUME TypeInv, TypeInv', Copies, Named, [Next]_vars, NEW a \in Agents, Remove(a)
  PROVE  Named'
<1>1. PICK p \in Pylons : p = where[a].node BY TypeParts, WhereFacts DEF Entities
<1>2. /\ where[a].step = "stopping" /\ Goes(a, "removed") /\ a \in Entities
      /\ receivers' = [receivers EXCEPT ![p] = @ \ {a}]
      /\ UNCHANGED <<outbound, thread, toServer, toPylon, restarted>>
  BY <1>1 DEF Remove, Entities, network
<1>3. where'[a].step = "removed" /\ where'[a].node = p /\ \A f \in Entities : f # a => where'[f] = where[f]
  BY <1>1, <1>2, TypeParts, GoesOn DEF Steps
<1>4. receivers'[p] = receivers[p] \ {a} /\ \A q \in Pylons : q # p => receivers'[q] = receivers[q]
  BY <1>2, TypeParts DEF NameTypes
<1>5. PICK f : Flow(f, {}, {}) BY <1>2, FlowQuiet
<1>6. Alike(a) BY <1>2, <1>3, <1>4 DEF Alike
<1>7. \A q \in Pylons : \A x \in receivers'[q] : x \in receivers[q] \/ where[x].step # "away" BY <1>4
<1>8. Strangers' BY <1>5, <1>7, StrangersAlike
<1>9. conn[p] # "connecting" BY <1>1, <1>2 DEF Named, Started
<1>10. conn'[p] # "connecting" /\ \A q \in Pylons : Dead(q) => Dead(q)' BY <1>9, DeadNext
<1>11. ASSUME NEW q \in Pylons, a \in receivers'[q] PROVE a \in restarted' /\ Dead(q)'
  <2>1. q # p /\ a \in receivers[q] /\ restarted' = restarted BY <1>2, <1>4, <1>11
  <2>2. a \in restarted /\ Dead(q) BY <1>1, <2>1 DEF Named, Listed
  <2> QED BY <1>10, <2>1, <2>2
<1> QED BY <1>2, <1>3, <1>6, <1>8, <1>10, <1>11, NamedAlike

LEMMA NamedLeave ==
  ASSUME TypeInv, TypeInv', Copies, Named, [Next]_vars, NEW a \in Agents, Leave(a)
  PROVE  Named'
<1>1. PICK p \in Pylons : p = where[a].node BY LeaveSends
<1>2. /\ a \in Entities /\ where[a].step = "removed" /\ Goes(a, "away")
      /\ UNCHANGED <<pylon, thread, receivers, network, count, moved, restarted, received, lost>>
  BY LeaveSends
<1> DEFINE u == [kind |-> "unreg", from |-> a]
<1>3. \E m \in Transit : u \in Registration /\ outbound' = [outbound EXCEPT ![p] = @ \o <<u, m>>]
  BY <1>1, LeaveSends
<1> HIDE DEF u
<1>4. PICK m \in Message : u \in Message /\ outbound' = [outbound EXCEPT ![p] = @ \o <<u, m>>]
  BY <1>3, MessageKinds DEF Message, Content
<1>5. PICK n \in Spots', x \in Spots' : On(n, "stream", p) /\ On(x, "stream", p) /\ \E f : Flow(f, {x, n}, {})
  <2>1. Farewell(p, u, m) BY <1>2, <1>4 DEF Farewell
  <2>2. PICK n \in Spots', x \in Spots' : FarewellAt(p, u, m, x, n) BY <1>4, <2>1, FlowLeave
  <2> QED BY <2>2 DEF FarewellAt
<1>6. n[1] = "stream" /\ x[1] = "stream" /\ \A q \in Pylons : \A y \in receivers'[q] : y \in receivers[q] \/ where[y].step # "away"
  BY <1>2, <1>5 DEF On
<1>7. Strangers' BY <1>5, <1>6, StrangersAlike
<1>8. where'[a].step = "away" /\ where'[a].node = p /\ \A f \in Entities : f # a => where'[f] = where[f]
  BY <1>1, <1>2, TypeParts, GoesOn DEF Steps
<1>9. Alike(a) BY <1>2, <1>8 DEF Alike
<1>10. conn[p] # "connecting" BY <1>1, <1>2 DEF Named, Started
<1>11. conn'[p] # "connecting" /\ \A q \in Pylons : Dead(q) => Dead(q)' BY <1>10, DeadNext
<1>12. ASSUME NEW q \in Pylons, a \in receivers'[q] PROVE a \in restarted' /\ Dead(q)'
  <2>1. a \in receivers[q] /\ restarted' = restarted BY <1>2, <1>12
  <2>2. a \in restarted /\ Dead(q) BY <1>2, <2>1 DEF Named, Listed
  <2> QED BY <1>11, <2>1, <2>2
<1> QED BY <1>2, <1>7, <1>8, <1>9, <1>11, <1>12, NamedAlike

LEMMA NamedStopCopy ==
  ASSUME TypeInv, TypeInv', Copies, Named, [Next]_vars, NEW a \in Agents, StopCopy(a)
  PROVE  Named'
<1>1. PICK p \in Pylons :
          /\ p # where[a].node /\ receivers' = [receivers EXCEPT ![p] = @ \ {a}]
          /\ outbound' = [outbound EXCEPT ![p] = Append(@, [kind |-> "unreg", from |-> a])]
          /\ UNCHANGED <<pylon, thread, network, agents, history>>
  BY DEF StopCopy
<1>2. a \in Entities /\ [kind |-> "unreg", from |-> a] \in Message /\ UNCHANGED <<where, restarted>>
  BY <1>1, RegistrationFields, MessageKinds DEF Entities, agents
<1>3. receivers'[p] = receivers[p] \ {a} /\ \A q \in Pylons : q # p => receivers'[q] = receivers[q]
  BY <1>1, TypeParts DEF NameTypes
<1>4. PICK n \in Spots' : On(n, "stream", p) /\ \E f : Flow(f, {n}, {}) BY <1>1, <1>2, FlowAppend
<1>5. n[1] = "stream" /\ \A q \in Pylons : \A x \in receivers'[q] : x \in receivers[q] \/ where[x].step # "away"
  BY <1>3, <1>4 DEF On
<1>6. Strangers' BY <1>4, <1>5, StrangersAlike
<1>7. Alike(a) BY <1>2, <1>3 DEF Alike
<1>8. where[a].node \in Pylons /\ \A q \in Pylons : Dead(q) => Dead(q)' BY <1>2, TypeParts, WhereFacts, DeadNext
<1>9. ASSUME NEW q \in Pylons, a \in receivers'[q]
      PROVE  \/ q = where'[a].node /\ where'[a].step \in {"adding", "in", "stopping"}
             \/ a \in restarted' /\ Dead(q)'
  <2>1. a \in receivers[q] BY <1>3, <1>9
  <2>2. \/ q = where[a].node /\ where[a].step \in {"adding", "in", "stopping"}
        \/ a \in restarted /\ Dead(q)
    BY <2>1 DEF Named, Listed
  <2> QED BY <1>2, <1>8, <2>2
<1>10. receivers'[where'[a].node] = receivers[where[a].node] BY <1>1, <1>2, <1>3, <1>8
<1>11. where'[a].step # "putting" => conn'[where'[a].node] # "connecting"
  BY <1>2, <1>8, DeadNext DEF Named, Started
<1>12. /\ where'[a].step \in {"adding", "in", "stopping"} => a \in receivers'[where'[a].node]
       /\ where'[a].step = "putting" => a \notin receivers'[where'[a].node]
  BY <1>2, <1>10 DEF Named, Present
<1> QED BY <1>2, <1>6, <1>7, <1>9, <1>11, <1>12, NamedAlike

LEMMA NamedRestart ==
  ASSUME TypeInv, TypeInv', Copies, Named, [Next]_vars, NEW a \in Agents, Restart(a)
  PROVE  Named'
<1>1. /\ a \in Entities /\ restarted' = restarted \cup {a}
      /\ UNCHANGED <<pylon, outbound, thread, receivers, network, count, moved, history>>
  BY RestartGoes DEF Entities
<1>2. PICK q \in Pylons : /\ conn[q] = "open" /\ where'[a].step = "putting" /\ where'[a].node = q
                          /\ \A f \in Entities : f # a => where'[f] = where[f]
  BY RestartGoes
<1>3. PICK p \in Pylons : p = where[a].node BY <1>1, TypeParts, WhereFacts
<1>4. \/ where[a].step = "in" /\ Dead(p)
      \/ where[a].step = "away"
  BY <1>3 DEF Restart, Dead
<1>5. PICK f : Flow(f, {}, {}) BY <1>1, FlowQuiet DEF network
<1>6. \A r \in Pylons : \A x \in receivers'[r] : x \in receivers[r] \/ where[x].step # "away" BY <1>1
<1>7. Strangers' BY <1>5, <1>6, StrangersAlike
<1>8. Alike(a) BY <1>1, <1>2 DEF Alike
<1>9. ASSUME NEW r \in Pylons, a \in receivers'[r] PROVE Dead(r) /\ a \in restarted' /\ Dead(r)'
  <2>1. a \in receivers[r] BY <1>1, <1>9
  <2>2. Dead(r) BY <1>3, <1>4, <2>1 DEF Named, Listed
  <2>3. Dead(r)' /\ a \in restarted' BY <1>1, <2>2, DeadNext
  <2> QED BY <2>2, <2>3
<1>10. a \notin receivers'[q] BY <1>2, <1>9 DEF Dead
<1> QED BY <1>1, <1>2, <1>7, <1>8, <1>9, <1>10, NamedAlike

LEMMA NamedDeliver ==
  ASSUME TypeInv, TypeInv', Copies, Named, [Next]_vars, NEW p \in Pylons, Deliver(p)
  PROVE  Named'
<1> DEFINE o == <<"pipe", p, 1>>
<1>1. o \in Spots /\ Item(o) = serving[p] /\ o[1] = "pipe" /\ o[2] = p /\ \E f : Flow(f, {}, {o}) BY FlowDeliver
<1> HIDE DEF o
<1>2. UNCHANGED <<pylon, receivers, restarted>> BY DeliverCases
<1>3. CASE UNCHANGED where BY <1>1, <1>2, <1>3, NamedFlow
<1>4. ASSUME serving[p] \in Transit, where' = [where EXCEPT ![serving[p].from] = [step |-> "putting", node |-> p]]
      PROVE  Named'
  <2> DEFINE e == serving[p].from
  <2>1. e \in Entities /\ where[e].step = "away" /\ e \notin receivers[p]
    BY <1>1, <1>4, CarriedAway DEF Named, Strangers
  <2>2. where'[e].step = "putting" /\ where'[e].node = p /\ \A f \in Entities : f # e => where'[f] = where[f]
    BY <1>4, <2>1, TypeParts, GoesTo DEF Steps
  <2> HIDE DEF e
  <2>3. Alike(e) BY <1>2, <2>2 DEF Alike
  <2>4. PICK f : Flow(f, {}, {o}) BY <1>1
  <2>5. \A r \in Pylons : \A x \in receivers'[r] : x \in receivers[r] \/ where[x].step # "away" BY <1>2
  <2>6. Strangers' BY <2>4, <2>5, StrangersAlike
  <2>7. ASSUME NEW r \in Pylons, e \in receivers'[r] PROVE e \in restarted' /\ Dead(r)'
    <3>1. e \in receivers[r] /\ restarted' = restarted BY <1>2, <2>7
    <3>2. e \in restarted /\ Dead(r) BY <2>1, <3>1 DEF Named, Listed
    <3> QED BY <3>1, <3>2, DeadNext
  <2> QED BY <1>2, <2>1, <2>2, <2>3, <2>6, <2>7, NamedAlike
<1> QED BY <1>3, <1>4, DeliverCases

LEMMA NamedNext == TypeInv /\ TypeInv' /\ Copies /\ Named /\ [Next]_vars => Named'
<1> SUFFICES ASSUME TypeInv, TypeInv', Copies, Named, [Next]_vars PROVE Named' OBVIOUS
<1>1. CASE UNCHANGED vars BY <1>1, NamedQuiet DEF vars, network, agents
<1>2. ASSUME NEW p \in Pylons, Open(p) \/ Suspend(p) \/ Stop(p) PROVE Named'
  BY <1>2, NamedQuiet DEF Open, Suspend, Stop, network, agents
<1>3. ASSUME NEW p \in Pylons, Read(p) PROVE Named' BY <1>3, NamedQuiet DEF Read, agents
<1> QED BY <1>1, <1>2, <1>3, NamedClose, NamedServeOutbound, NamedServeInbound, NamedDeliver, NamedServer,
    NamedPut, NamedAdd, NamedPostMove, NamedRemove, NamedLeave, NamedSend, NamedRestart, NamedStopCopy
    DEF Next

-----------------------------------------------------------------------------
(* What is on the way to the server about an entity.                       *)

LEMMA RegFlow ==
  ASSUME NEW f, NEW N, NEW G, Flow(f, N, G), NEW s \in Spots' \ N, \A p \in Pylons : Dead(p) => Dead(p)', Reg(s)'
  PROVE  /\ f[s] \in Spots /\ Reg(f[s]) /\ Item(s)' = Item(f[s]) /\ f[s][1] = s[1] /\ f[s][2] = s[2] /\ s[1] = "stream"
         /\ s[2] \in Pylons /\ (Written(s)' <=> Written(f[s]))
<1>1. /\ f[s] \in Spots /\ Item(s)' = Item(f[s]) /\ f[s][1] = s[1] /\ f[s][2] = s[2]
      /\ (Written(s)' <=> Written(f[s]))
  BY DEF Flow, Kept
<1>2. s[2] \in Pylons BY SpotsNext
<1>3. Item(s)'.kind = "reg" /\ s[1] = "stream" /\ (Written(s)' \/ ~Dead(s[2])') BY DEF Reg, Active
<1> QED BY <1>1, <1>2, <1>3 DEF Reg, Active

LEMMA RegistersFlow ==
  ASSUME TypeInv, TypeInv', Registers, NEW f, NEW N, NEW G, Flow(f, N, G), Follow(f, N), Rightly(N),
         \A p \in Pylons : Dead(p) => Dead(p)',
         \A s \in Spots : Reg(s) => where'[Item(s).from].node = where[Item(s).from].node
  PROVE  Registers'
<1> SUFFICES ASSUME NEW s \in Spots', Reg(s)'
             PROVE  /\ s[2] = where'[Item(s)'.from].node
                    /\ \A t \in Spots' : Item(t)' \in Transit /\ Item(t)'.from = Item(s)'.from => t[2] = s[2] /\ (t[1] = "stream" => s[3] < t[3])
  <2>1. (\A s \in Spots' : Reg(s)' =>
            /\ s[2] = where'[Item(s)'.from].node
            /\ \A t \in Spots' : Item(t)' \in Transit /\ Item(t)'.from = Item(s)'.from => t[2] = s[2] /\ (t[1] = "stream" => s[3] < t[3]))
        => Registers'
    BY DEF Registers, Carries
  <2> QED BY <2>1
<1>1. CASE s \in N
  <2>1. Item(s)'.kind = "reg" BY DEF Reg
  <2> QED BY <1>1, <2>1 DEF Rightly
<1>2. CASE s \notin N
  <2>2. /\ f[s] \in Spots /\ Reg(f[s]) /\ Item(s)' = Item(f[s]) /\ f[s][1] = s[1] /\ f[s][2] = s[2] /\ s[1] = "stream"
    BY <1>2, RegFlow
  <2>3. /\ f[s][2] = where[Item(f[s]).from].node
        /\ \A t \in Spots : Carries(t, Item(f[s]).from) => t[2] = f[s][2] /\ (t[1] = "stream" => f[s][3] < t[3])
    BY <2>2 DEF Registers
  <2>4. s[2] = where'[Item(s)'.from].node BY <2>2, <2>3
  <2>5. ASSUME NEW t \in Spots', Item(t)' \in Transit, Item(t)'.from = Item(s)'.from
        PROVE  t[2] = s[2] /\ (t[1] = "stream" => s[3] < t[3])
    <3>1. CASE t \in N BY <1>2, <2>2, <2>5, <3>1 DEF Follow
    <3>2. CASE t \notin N
      <4>1. /\ f[t] \in Spots /\ Item(t)' = Item(f[t]) /\ f[t][1] = t[1] /\ f[t][2] = t[2]
            /\ s[1] = t[1] /\ s[2] = t[2] => (s[3] < t[3] <=> f[s][3] < f[t][3])
        BY <1>2, <3>2 DEF Flow, Kept
      <4>2. f[t][2] = f[s][2] /\ (f[t][1] = "stream" => f[s][3] < f[t][3]) BY <2>2, <2>3, <2>5, <4>1 DEF Carries
      <4> QED BY <2>2, <4>1, <4>2
    <3> QED BY <3>1, <3>2
  <2>6. \A t \in Spots' : Item(t)' \in Transit /\ Item(t)'.from = Item(s)'.from => t[2] = s[2] /\ (t[1] = "stream" => s[3] < t[3])
    BY <2>5 DEF Carries
  <2> QED BY <2>4, <2>6
<1> QED BY <1>1, <1>2

\* What leaves a stream was written, or the first that was not.
LEMMA WaitsFlow ==
  ASSUME TypeInv, TypeInv', Registers, Waits, NEW f, NEW N, NEW G, Flow(f, N, G), Rightly(N),
         \A p \in Pylons : Dead(p) => Dead(p)',
         \A g \in G : g \in Spots /\ g[1] = "stream" => Written(g) \/ g[3] = Served(g[2]) + 1,
         \A s \in Spots : Reg(s) /\ where'[Item(s).from].step = "away" =>
             \/ where[Item(s).from].step = "away"
             \/ \E n \in N : n \in Spots' /\ n[1] = "stream" /\ Item(n)' \in Transit /\ Item(n)'.from = Item(s).from
  PROVE  Waits'
<1> SUFFICES ASSUME NEW s \in Spots', Reg(s)', ~Written(s)', where'[Item(s)'.from].step = "away"
             PROVE  \E t \in Spots' : t[1] = "stream" /\ Item(t)' \in Transit /\ Item(t)'.from = Item(s)'.from
  BY DEF Waits, Carries
<1>1. s \notin N
  <2>1. Item(s)'.kind = "reg" BY DEF Reg
  <2> QED BY <2>1 DEF Rightly
<1>2. /\ f[s] \in Spots /\ Reg(f[s]) /\ Item(s)' = Item(f[s]) /\ f[s][1] = s[1] /\ f[s][2] = s[2] /\ s[1] = "stream"
      /\ s[2] \in Pylons /\ ~Written(f[s])
  BY <1>1, RegFlow
<1>3. CASE where[Item(f[s]).from].step = "away"
  <2>1. PICK t \in Spots : t[1] = "stream" /\ Carries(t, Item(f[s]).from) BY <1>2, <1>3 DEF Waits
  <2>2. t[2] = f[s][2] /\ f[s][3] < t[3] BY <1>2, <2>1 DEF Registers
  <2>3. Served(t[2]) \in Nat /\ f[s][3] \in Nat /\ t[3] \in Nat /\ t[2] \in Pylons
    <3>1. t[2] \in Pylons /\ f[s][3] \in Nat /\ t[3] \in Nat BY <1>2, TypeParts, SpotFacts
    <3> QED BY <3>1, TypeParts, StreamFacts
  <2>4. ~(t[3] <= Served(t[2])) /\ t[3] # Served(t[2]) + 1 BY <1>2, <2>2, <2>3 DEF Written
  <2>5. t \notin G BY <2>1, <2>4 DEF Written
  <2>6. PICK x \in Spots' \ N : f[x] = t BY <2>5 DEF Flow, Kept
  <2>7. Item(x)' = Item(t) /\ x[1] = "stream" BY <2>1, <2>6 DEF Flow, Kept
  <2> QED BY <1>2, <2>1, <2>7 DEF Carries
<1>4. CASE where[Item(f[s]).from].step # "away" BY <1>2, <1>4
<1> QED BY <1>3, <1>4

LEMMA AnnouncedFlow ==
  ASSUME TypeInv, TypeInv', Announced, [Next]_vars, NEW f, NEW N, NEW G, Flow(f, N, G), Follow(f, N), Rightly(N),
         \A g \in G : g \in Spots /\ g[1] = "stream" => Written(g) \/ g[3] = Served(g[2]) + 1,
         \A s \in Spots : Reg(s) =>
             /\ where'[Item(s).from].node = where[Item(s).from].node
             /\ where'[Item(s).from].step = "away" =>
                    \/ where[Item(s).from].step = "away"
                    \/ \E n \in N : n \in Spots' /\ n[1] = "stream" /\ Item(n)' \in Transit /\ Item(n)'.from = Item(s).from
  PROVE  Announced'
<1>1. Registers /\ Waits BY DEF Announced
<1>2. \A p \in Pylons : Dead(p) => Dead(p)' BY DeadNext
<1>3. Registers' BY <1>1, <1>2, RegistersFlow
<1>4. Waits' BY <1>1, <1>2, WaitsFlow
<1> QED BY <1>3, <1>4 DEF Announced

LEMMA RegNamed ==
  ASSUME TypeInv, NEW s \in Spots, Item(s).kind = "reg"
  PROVE  Item(s) \in Registration /\ Item(s).from \in Entities /\ s[2] \in Pylons
BY TypeParts, SpotFacts, MessageKinds

\* The entities stay where they are, and what is new is nothing of this.
LEMMA AnnouncedStill ==
  ASSUME TypeInv, TypeInv', Announced, [Next]_vars, NEW f, NEW N, NEW G, Flow(f, N, G),
         \A n \in N : Item(n)' \notin Transit /\ Item(n)'.kind # "reg",
         \A g \in G : g \in Spots /\ g[1] = "stream" => Written(g) \/ g[3] = Served(g[2]) + 1,
         \A e \in Entities : where'[e].node = where[e].node /\ (where'[e].step = "away" => where[e].step = "away")
  PROVE  Announced'
<1>1. Follow(f, N) /\ Rightly(N) BY DEF Follow, Rightly
<1>2. \A s \in Spots : Reg(s) => Item(s).from \in Entities BY RegNamed DEF Reg
<1> QED BY <1>1, <1>2, AnnouncedFlow

LEMMA AnnouncedQuiet ==
  ASSUME TypeInv, TypeInv', Announced, [Next]_vars,
         \/ UNCHANGED <<outbound, thread, toServer, toPylon>>
         \/ \E p \in Pylons : Read(p),
         \A e \in Entities : where'[e].node = where[e].node /\ (where'[e].step = "away" => where[e].step = "away")
  PROVE  Announced'
<1>1. PICK f : Flow(f, {}, {}) BY FlowQuiet
<1> QED BY <1>1, AnnouncedStill

LEMMA AnnouncedClose ==
  ASSUME TypeInv, TypeInv', Announced, [Next]_vars, NEW p \in Pylons, Close(p)
  PROVE  Announced'
<1>1. PICK f, G : Flow(f, {}, G) /\ \A g \in G : g[1] = "stream" => g[2] = p /\ Written(g) BY FlowClose
<1>2. UNCHANGED where BY DEF Close, agents
<1> QED BY <1>1, <1>2, AnnouncedStill

LEMMA AnnouncedServeOutbound ==
  ASSUME TypeInv, TypeInv', Announced, [Next]_vars, NEW p \in Pylons, ServeOutbound(p)
  PROVE  Announced'
<1> DEFINE o == <<"stream", p, Served(p) + 1>>
           n == <<"pipe", p, 1>>
<1>1. /\ o \in Spots /\ UNCHANGED <<where, pylon>>
      /\ \/ /\ Local(p, Item(o)) /\ n \in Spots' /\ Item(n)' = Item(o) /\ \E f : Flow(f, {n}, {o})
         \/ /\ conn[p] = "open" /\ Spots' = Spots /\ (\A s \in Spots : Item(s)' = Item(s))
            /\ \A s \in Spots : Written(s)' <=> Written(s) \/ s = o
         \/ \E f : Flow(f, {}, {o})
  BY FlowServeOutbound DEF agents
<1>2. n[1] = "pipe" /\ n[2] = p /\ o[1] = "stream" /\ o[2] = p /\ o[3] = Served(p) + 1 OBVIOUS
<1> HIDE DEF o, n
<1>3. ASSUME Local(p, Item(o)), Item(n)' = Item(o), NEW f, Flow(f, {n}, {o}) PROVE Announced'
  <2>1. Item(n)'.kind # "reg" BY <1>3 DEF Local
  <2>2. Rightly({n}) BY <2>1 DEF Rightly
  <2>3. Follow(f, {n})
    <3> SUFFICES ASSUME NEW s \in Spots' \ {n}, Reg(f[s]), Item(n)' \in Transit, Item(n)'.from = Item(f[s]).from
                 PROVE  p = s[2]
      BY <1>2 DEF Follow
    <3>1. f[s] \in Spots /\ f[s][2] = s[2] BY <1>3 DEF Flow, Kept
    <3> QED BY <1>1, <1>2, <1>3, <3>1 DEF Announced, Registers, Carries
  <2> QED BY <1>1, <1>2, <1>3, <2>2, <2>3, AnnouncedFlow
<1>4. ASSUME conn[p] = "open", Spots' = Spots, \A s \in Spots : Item(s)' = Item(s),
             \A s \in Spots : Written(s)' <=> Written(s) \/ s = o
      PROVE  Announced'
  <2>1. \A q \in Pylons : Dead(q)' <=> Dead(q) BY <1>1 DEF pylon, Dead
  <2>2. ASSUME NEW s \in Spots, Reg(s)' PROVE Reg(s)
    <3>1. Item(s).kind = "reg" /\ s[1] = "stream" /\ (Written(s)' \/ ~Dead(s[2])') BY <1>4, <2>2 DEF Reg, Active
    <3>2. s[2] \in Pylons BY TypeParts, SpotFacts
    <3>3. ~Dead(o[2]) BY <1>2, <1>4 DEF Dead
    <3> QED BY <1>4, <2>1, <3>1, <3>2, <3>3 DEF Reg, Active
  <2>3. Registers' BY <1>1, <1>4, <2>2 DEF Announced, Registers, Carries
  <2>4. Waits' BY <1>1, <1>4, <2>2 DEF Announced, Waits, Carries
  <2> QED BY <2>3, <2>4 DEF Announced
<1>5. ASSUME NEW f, Flow(f, {}, {o}) PROVE Announced' BY <1>1, <1>2, <1>5, AnnouncedStill
<1> QED BY <1>1, <1>3, <1>4, <1>5

LEMMA AnnouncedServeInbound ==
  ASSUME TypeInv, TypeInv', Announced, [Next]_vars, NEW p \in Pylons, ServeInbound(p)
  PROVE  Announced'
<1> DEFINE o == <<"pipe", p, 1>>
<1>1. UNCHANGED where /\ ((\E f : Flow(f, {}, {})) \/ \E f : Flow(f, {}, {o})) /\ o[1] # "stream"
  BY FlowServeInbound DEF agents
<1> HIDE DEF o
<1>2. ASSUME NEW f, NEW G, Flow(f, {}, G), G \in {{}, {o}} PROVE Announced'
  <2>1. \A g \in G : g[1] # "stream" BY <1>1, <1>2
  <2> QED BY <1>1, <1>2, <2>1, AnnouncedStill
<1> QED BY <1>1, <1>2

LEMMA AnnouncedDeliver ==
  ASSUME TypeInv, TypeInv', Copies, Announced, [Next]_vars, NEW p \in Pylons, Deliver(p)
  PROVE  Announced'
<1> DEFINE o == <<"pipe", p, 1>>
<1>1. o \in Spots /\ Item(o) = serving[p] /\ o[1] = "pipe" /\ o[2] = p /\ \E f : Flow(f, {}, {o}) BY FlowDeliver
<1> HIDE DEF o
<1>2. PICK f : Flow(f, {}, {o}) BY <1>1
<1>3. CASE UNCHANGED where BY <1>1, <1>2, <1>3, AnnouncedStill
<1>4. ASSUME serving[p] \in Transit, where' = [where EXCEPT ![serving[p].from] = [step |-> "putting", node |-> p]]
      PROVE  Announced'
  <2>1. serving[p].from \in Entities BY <1>1, <1>4, CarriedAway
  <2> DEFINE e == serving[p].from
  <2>2. where'[e].step = "putting" /\ where'[e].node = p /\ \A x \in Entities : x # e => where'[x] = where[x]
    BY <1>4, <2>1, TypeParts, GoesTo DEF Steps
  <2>3. ASSUME NEW s \in Spots, Reg(s)
        PROVE  /\ where'[Item(s).from].node = where[Item(s).from].node
               /\ where'[Item(s).from].step = "away" => where[Item(s).from].step = "away"
    <3>1. Item(s).from \in Entities BY <2>3, RegNamed DEF Reg
    <3>2. CASE Item(s).from = e
      <4>1. Carries(o, Item(s).from) BY <1>1, <1>4, <3>2 DEF Carries
      <4>2. s[2] = where[Item(s).from].node /\ o[2] = s[2] BY <1>1, <2>3, <4>1 DEF Announced, Registers
      <4> QED BY <1>1, <2>2, <3>2, <4>2
    <3> QED BY <2>2, <3>1, <3>2
  <2>4. Follow(f, {}) /\ Rightly({}) BY DEF Follow, Rightly
  <2> QED BY <1>1, <1>2, <2>3, <2>4, AnnouncedFlow
<1> QED BY <1>3, <1>4, DeliverCases

LEMMA AnnouncedServer ==
  ASSUME TypeInv, TypeInv', Announced, [Next]_vars, NEW p \in Pylons, Server(p)
  PROVE  Announced'
<1>1. UNCHANGED where BY ServerCases DEF agents
<1> DEFINE o == <<"stream", p, 1>>
<1>2. /\ o \in Spots /\ Written(o) /\ Item(o) = Incoming(p) /\ o[1] = "stream" /\ o[2] = p /\ o[3] = 1
      /\ \/ \E f : Flow(f, {}, {o})
         \/ \E q \in Pylons : \E n \in Spots' :
                /\ Incoming(p) \in Content /\ Item(n)' = Incoming(p)
                /\ \E f : Flow(f, {n}, {o})
  BY FlowServer
<1> HIDE DEF o
<1>3. ASSUME NEW f, Flow(f, {}, {o}) PROVE Announced' BY <1>1, <1>2, <1>3, AnnouncedStill
<1>4. ASSUME NEW n, Incoming(p) \in Content, Item(n)' = Incoming(p), NEW f, Flow(f, {n}, {o})
      PROVE  Announced'
  <2>1. Item(n)'.kind # "reg" BY <1>4, MessageKinds
  <2>2. Rightly({n}) BY <2>1 DEF Rightly
  <2>3. Follow(f, {n})
    <3> SUFFICES ASSUME NEW s \in Spots' \ {n}, Reg(f[s]), Item(n)' \in Transit, Item(n)'.from = Item(f[s]).from
                 PROVE  FALSE
      BY DEF Follow
    <3>1. f[s] \in Spots BY <1>4 DEF Flow, Kept
    <3>2. f[s][3] < o[3] BY <1>2, <1>4, <3>1 DEF Announced, Registers, Carries
    <3>3. f[s][3] \in 1 .. Len(Line(f[s][1], f[s][2])) BY <3>1, TypeParts, SpotFacts
    <3> QED BY <1>2, <3>2, <3>3
  <2> QED BY <1>1, <1>2, <1>4, <2>2, <2>3, AnnouncedFlow
<1> QED BY <1>2, <1>3, <1>4

LEMMA AnnouncedGoes ==
  ASSUME TypeInv, TypeInv', Announced, [Next]_vars, NEW e \in Entities, NEW s \in Steps, s # "away", Goes(e, s),
         UNCHANGED <<outbound, thread, toServer, toPylon>>
  PROVE  Announced'
<1>1. /\ where'[e].step = s /\ \A f \in Entities : where'[f].node = where[f].node
      /\ \A f \in Entities : f # e => where'[f] = where[f]
  BY TypeParts, GoesOn
<1> QED BY <1>1, AnnouncedQuiet

LEMMA AnnouncedAdd ==
  ASSUME TypeInv, TypeInv', Copies, Announced, [Next]_vars, NEW e \in Entities, Add(e)
  PROVE  Announced'
<1> DEFINE r == [kind |-> "reg", from |-> e]
<1>1. /\ where[e].step = "adding" /\ Goes(e, "in") /\ r.kind = "reg" /\ r.from = e
      /\ outbound' = [outbound EXCEPT ![where[e].node] = Append(@, r)] /\ UNCHANGED <<thread, network>>
  BY DEF Add
<1>2. where[e].node \in Pylons /\ r \in Registration /\ r \in Message
  BY TypeParts, WhereFacts, RegistrationFields, MessageKinds
<1> HIDE DEF r
<1>3. PICK n \in Spots' : /\ On(n, "stream", where[e].node) /\ Item(n)' = r
                          /\ Spots' = Spots \cup {n} /\ \E f : Flow(f, {n}, {})
  BY <1>1, <1>2, FlowAppend
<1>4. PICK f : Flow(f, {n}, {}) BY <1>3
<1>5. /\ where'[e].step = "in" /\ \A x \in Entities : where'[x].node = where[x].node
      /\ \A x \in Entities : x # e => where'[x] = where[x]
  BY <1>1, TypeParts, GoesOn DEF Steps
<1>6. r \notin Transit BY <1>1, TransitFields
<1>7. Follow(f, {n}) BY <1>3, <1>6 DEF Follow
<1>8. Rightly({n})
  <2>1. ASSUME NEW t \in Spots', Item(t)' \in Transit, Item(t)'.from = e PROVE FALSE
    <3>1. t # n BY <1>3, <1>6, <2>1
    <3>2. f[t] \in Spots /\ Item(t)' = Item(f[t]) BY <1>4, <3>1 DEF Flow, Kept
    <3> QED BY <1>1, <2>1, <3>2, CarriedAway
  <2> QED BY <1>1, <1>3, <1>5, <2>1 DEF Rightly, On
<1>9. \A s \in Spots : Reg(s) =>
           /\ where'[Item(s).from].node = where[Item(s).from].node
           /\ where'[Item(s).from].step = "away" => where[Item(s).from].step = "away"
  BY <1>5, RegNamed DEF Reg
<1> QED BY <1>4, <1>7, <1>8, <1>9, AnnouncedFlow

LEMMA AnnouncedSend ==
  ASSUME TypeInv, TypeInv', Announced, [Next]_vars, NEW a \in Agents, Send(a)
  PROVE  Announced'
<1>1. /\ where[a].node \in Pylons /\ UNCHANGED <<where, thread, network>>
      /\ \E m \in Wave : outbound' = [outbound EXCEPT ![where[a].node] = Append(@, m)]
  BY SendSends
<1>2. PICK m \in Message : m.kind = "wave" /\ outbound' = [outbound EXCEPT ![where[a].node] = Append(@, m)]
  BY <1>1, WaveFields DEF Message, Content
<1>3. PICK n \in Spots' : Item(n)' = m /\ \E f : Flow(f, {n}, {}) BY <1>1, <1>2, FlowAppend
<1>4. m \notin Transit /\ m.kind # "reg" BY <1>2, TransitFields
<1> QED BY <1>1, <1>3, <1>4, AnnouncedStill

LEMMA AnnouncedStopCopy ==
  ASSUME TypeInv, TypeInv', Announced, [Next]_vars, NEW a \in Agents, StopCopy(a)
  PROVE  Announced'
<1> DEFINE u == [kind |-> "unreg", from |-> a]
<1>1. PICK p \in Pylons :
          /\ outbound' = [outbound EXCEPT ![p] = Append(@, u)]
          /\ UNCHANGED <<pylon, thread, network, agents, history>>
  BY DEF StopCopy
<1>2. u \in Message /\ UNCHANGED where /\ u.kind = "unreg"
  BY <1>1, RegistrationFields, MessageKinds DEF Entities, agents
<1> HIDE DEF u
<1>3. PICK n \in Spots' : Item(n)' = u /\ \E f : Flow(f, {n}, {}) BY <1>1, <1>2, FlowAppend
<1>4. u \notin Transit /\ u.kind # "reg" BY <1>2, TransitFields
<1> QED BY <1>2, <1>3, <1>4, AnnouncedStill

LEMMA AnnouncedLeave ==
  ASSUME TypeInv, TypeInv', Announced, [Next]_vars, NEW a \in Agents, Leave(a)
  PROVE  Announced'
<1>1. PICK p \in Pylons : p = where[a].node BY LeaveSends
<1>2. /\ a \in Entities /\ Goes(a, "away") /\ UNCHANGED <<thread, network>> BY LeaveSends
<1> DEFINE u == [kind |-> "unreg", from |-> a]
<1>3. \E m \in Transit : m.from = a /\ u \in Registration /\ outbound' = [outbound EXCEPT ![p] = @ \o <<u, m>>]
  BY <1>1, LeaveSends
<1>4. u.kind = "unreg" OBVIOUS
<1> HIDE DEF u
<1>5. PICK m \in Transit : m.from = a /\ u \in Registration /\ outbound' = [outbound EXCEPT ![p] = @ \o <<u, m>>]
  BY <1>3
<1>6. m \in Message /\ u \in Message /\ u \notin Transit /\ m.kind = "agent"
  BY <1>4, <1>5, TransitFields, MessageKinds DEF Message, Content
<1>7. PICK n \in Spots', x \in Spots' :
          /\ On(n, "stream", p) /\ ~Written(n)' /\ Item(n)' = m
          /\ On(x, "stream", p) /\ ~Written(x)' /\ Item(x)' = u /\ x[3] + 1 = n[3]
          /\ \A s \in Spots' : On(s, "stream", p) => s[3] <= n[3]
          /\ Spots' = Spots \cup {x, n} /\ \E f : Flow(f, {x, n}, {})
  <2>1. Farewell(p, u, m) BY <1>2, <1>5 DEF Farewell
  <2>2. PICK n \in Spots', x \in Spots' : FarewellAt(p, u, m, x, n) BY <1>6, <2>1, FlowLeave
  <2> QED BY <2>2 DEF FarewellAt
<1>8. PICK f : Flow(f, {x, n}, {}) BY <1>7
<1>9. /\ where'[a].step = "away" /\ (\A y \in Entities : where'[y].node = where[y].node)
      /\ \A y \in Entities : y # a => where'[y] = where[y]
  BY <1>2, TypeParts, GoesOn DEF Steps
<1>10. Rightly({x, n}) BY <1>4, <1>6, <1>7 DEF Rightly
<1>11. Follow(f, {x, n})
  <2> SUFFICES ASSUME NEW s \in Spots' \ {x, n}, Reg(f[s]), a = Item(f[s]).from
               PROVE  n[2] = s[2] /\ (n[1] = "stream" => s[3] < n[3])
    BY <1>5, <1>6, <1>7 DEF Follow
  <2>1. f[s] \in Spots /\ f[s][1] = s[1] /\ f[s][2] = s[2] BY <1>8 DEF Flow, Kept
  <2>2. f[s][2] = p /\ f[s][1] = "stream" BY <1>1, <2>1 DEF Announced, Registers, Reg, Active
  <2>3. On(s, "stream", p) /\ n[1] = "stream" /\ n[2] = p BY <1>7, <2>1, <2>2 DEF On
  <2>4. s[3] <= n[3] BY <1>7, <2>3
  <2>5. s[3] # n[3]
    <3>1. s = <<s[1], s[2], s[3]>> /\ n = <<n[1], n[2], n[3]>> BY SpotsNext
    <3> QED BY <2>3, <3>1 DEF On
  <2>6. s[3] \in Nat /\ n[3] \in Nat
    <3>1. Len(Line("stream", p)') \in Nat /\ s[3] \in 1 .. Len(Line("stream", p)') /\ n[3] \in 1 .. Len(Line("stream", p)')
      BY <2>3, TypeParts, LengthNext, SpotsNext, KindLines DEF On
    <3> QED BY <3>1
  <2> QED BY <2>3, <2>4, <2>5, <2>6 DEF On
<1>12. ASSUME NEW s \in Spots, Reg(s)
       PROVE  /\ where'[Item(s).from].node = where[Item(s).from].node
              /\ where'[Item(s).from].step = "away" =>
                    \/ where[Item(s).from].step = "away"
                    \/ n[1] = "stream" /\ Item(n)' \in Transit /\ Item(n)'.from = Item(s).from
  <2>1. Item(s).from \in Entities BY <1>12, RegNamed DEF Reg
  <2> QED BY <1>5, <1>7, <1>9, <2>1 DEF On
<1>13. \A g \in {} : g \in Spots /\ g[1] = "stream" => Written(g) \/ g[3] = Served(g[2]) + 1 OBVIOUS
<1> QED BY <1>7, <1>8, <1>10, <1>11, <1>12, <1>13, AnnouncedFlow

\* An agent that is started anew: the server has read what its pylon had
\* written, and of one that was lost on its way nothing waits.
LEMMA AnnouncedRestart ==
  ASSUME TypeInv, TypeInv', Copies, Announced, [Next]_vars, NEW a \in Agents, Restart(a)
  PROVE  Announced'
<1>1. /\ a \in Entities
      /\ UNCHANGED <<pylon, outbound, thread, receivers, network, count, moved, history>>
      /\ \A p \in Pylons : ~InSeq(toServer[p], [kind |-> "reg", from |-> a])
  BY RestartGoes DEF Entities
<1>2. where'[a].step = "putting" /\ \A f \in Entities : f # a => where'[f] = where[f] BY RestartGoes
<1>3. ASSUME NEW s \in Spots, Reg(s), Item(s).from = a PROVE FALSE
  <2>1. /\ s[1] = "stream" /\ s[2] \in Pylons /\ s[3] \in 1 .. Len(Stream(s[2])) /\ Item(s) = Stream(s[2])[s[3]]
        /\ Item(s) \in Registration
    BY <1>3, TypeParts, SpotFacts, KindLines, RegNamed DEF Reg, Active
  <2>2. Item(s) = [kind |-> "reg", from |-> a] BY <1>3, <2>1 DEF Registration, Reg
  <2>3. ~Written(s)
    <3>1. ASSUME s[3] <= Served(s[2]) PROVE FALSE
      <4>1. s[3] \in 1 .. Len(toServer[s[2]]) /\ toServer[s[2]] \in Seq(Message)
        BY <2>1, <3>1, TypeParts, StreamFacts, LineFacts DEF Served
      <4>2. Stream(s[2])[s[3]] = toServer[s[2]][s[3]] BY <2>1, <4>1, TypeParts, StreamFacts DEF Served
      <4>3. s[3] \in DOMAIN toServer[s[2]] BY <4>1
      <4>4. InSeq(toServer[s[2]], [kind |-> "reg", from |-> a]) BY <2>1, <2>2, <4>2, <4>3 DEF InSeq
      <4> QED BY <1>1, <2>1, <4>4
    <3> QED BY <3>1 DEF Written
  <2>4. ~Dead(s[2]) /\ s[2] = where[a].node BY <1>3, <2>3 DEF Reg, Active, Announced, Registers
  <2>5. where[a].step = "away" /\ \E m \in lost \cap Transit : m.from = a /\ m.nr = moved[a]
    BY <2>4 DEF Restart, Dead
  <2>6. PICK t \in Spots : Carries(t, a) BY <1>3, <2>3, <2>5 DEF Announced, Waits
  <2>7. PICK m \in lost \cap Transit : m.from = a /\ m.nr = moved[a] BY <2>5
  <2>8. Item(t).from = a /\ Item(t).nr = moved[a] /\ Fresh(Item(t)) /\ Item(t).kind = "agent"
    BY <2>6, CarriedAway, TransitFields DEF Carries
  <2>9. Same(Item(t), m) BY <2>7, <2>8, TransitFields DEF Same
  <2> QED BY <2>7, <2>8, <2>9 DEF Fresh
<1>4. PICK f : Flow(f, {}, {}) BY <1>1, FlowQuiet DEF network
<1>5. Follow(f, {}) /\ Rightly({}) BY DEF Follow, Rightly
<1>6. ASSUME NEW s \in Spots, Reg(s)
      PROVE  /\ where'[Item(s).from].node = where[Item(s).from].node
             /\ where'[Item(s).from].step = "away" => where[Item(s).from].step = "away"
  BY <1>2, <1>3, <1>6, RegNamed DEF Reg
<1> QED BY <1>4, <1>5, <1>6, AnnouncedFlow

LEMMA AnnouncedInit == Init => Announced
BY NoSpots DEF Announced, Registers, Waits

LEMMA AnnouncedNext == TypeInv /\ TypeInv' /\ Copies /\ Announced /\ [Next]_vars => Announced'
<1> SUFFICES ASSUME TypeInv, TypeInv', Copies, Announced, [Next]_vars PROVE Announced' OBVIOUS
<1>1. CASE UNCHANGED vars BY <1>1, AnnouncedQuiet DEF vars, network, agents
<1>2. ASSUME NEW p \in Pylons, Open(p) \/ Suspend(p) \/ Stop(p) PROVE Announced'
  BY <1>2, AnnouncedQuiet DEF Open, Suspend, Stop, network, agents
<1>3. ASSUME NEW p \in Pylons, Read(p) PROVE Announced' BY <1>3, AnnouncedQuiet DEF Read, agents
<1>4. ASSUME NEW e \in Entities, Put(e) PROVE Announced'
  <2>1. Goes(e, "in") \/ Goes(e, "adding") BY <1>4 DEF Put
  <2> QED BY <1>4, <2>1, AnnouncedGoes DEF Put, network, Steps
<1>5. ASSUME NEW a \in Agents, PostMove(a) \/ Remove(a) PROVE Announced'
  <2>1. a \in Entities /\ (Goes(a, "stopping") \/ Goes(a, "removed")) /\ UNCHANGED <<outbound, thread, toServer, toPylon>>
    BY <1>5 DEF PostMove, Remove, network, Entities
  <2> QED BY <2>1, AnnouncedGoes DEF Steps
<1> QED BY <1>1, <1>2, <1>3, <1>4, <1>5, AnnouncedClose, AnnouncedServeOutbound, AnnouncedServeInbound,
    AnnouncedDeliver, AnnouncedServer, AnnouncedAdd, AnnouncedLeave, AnnouncedSend, AnnouncedRestart, AnnouncedStopCopy
    DEF Next

-----------------------------------------------------------------------------
(* The server follows.                                                     *)

LEMMA TellsFlow ==
  ASSUME TypeInv, TypeInv', NEW f, NEW N, NEW G, Flow(f, N, G), NEW e, NEW p, NEW s \in Spots' \ N
  PROVE  f[s] \in Spots /\ (Tells(s, e, p)' <=> Tells(f[s], e, p)) /\ Item(s)' = Item(f[s])
<1>1. f[s] \in Spots /\ Item(s)' = Item(f[s]) /\ f[s][1] = s[1] /\ f[s][2] = s[2] BY DEF Flow, Kept
<1>2. Tells(s, e, p)' <=> On(s, "stream", p) /\ Item(s)'.kind \in {"reg", "unreg"} /\ Item(s)'.from = e
  BY DEF Tells, On
<1> QED BY <1>1, <1>2 DEF Tells, On

\* The last registration stays the last.
LEMMA LastFlow ==
  ASSUME TypeInv, TypeInv', NEW f, NEW N, NEW G, Flow(f, N, G), NEW e, NEW p,
         \A n \in N : ~(Tells(n, e, p)'),
         NEW s \in Spots, s \notin G, Tells(s, e, p), Item(s).kind = "reg", \A t \in Spots : Tells(t, e, p) => t[3] <= s[3]
  PROVE  Follows(e, p)'
<1>2. PICK x \in Spots' \ N : f[x] = s BY DEF Flow, Kept
<1>3. Tells(x, e, p)' /\ Item(x)'.kind = "reg" BY <1>2, TellsFlow
<1>4. ASSUME NEW t \in Spots', Tells(t, e, p)' PROVE t[3] <= x[3]
  <2>1. t \in Spots' \ N BY <1>4
  <2>2. f[t] \in Spots /\ Tells(f[t], e, p) BY <1>4, <2>1, TellsFlow
  <2>3. f[t][3] <= s[3] BY <2>2
  <2>4. t[1] = x[1] /\ t[2] = x[2] BY <1>3, <1>4 DEF Tells, On
  <2>5. x[3] < t[3] <=> f[x][3] < f[t][3] BY <1>2, <2>1, <2>4 DEF Flow, Kept
  <2>6. f[t][3] \in Nat /\ s[3] \in Nat BY <2>2, TypeParts, SpotFacts
  <2>7. x[3] \in Nat /\ t[3] \in Nat
    <3>1. x \in Spots' /\ t \in Spots' OBVIOUS
    <3>2. x \in Kinds \X Pylons \X Nat /\ t \in Kinds \X Pylons \X Nat BY <3>1 DEF Spots
    <3> QED BY <3>2
  <2> QED BY <1>2, <2>3, <2>5, <2>6, <2>7
<1> QED BY <1>2, <1>3, <1>4 DEF Follows

LEMMA FollowsFlow ==
  ASSUME TypeInv, TypeInv', NEW f, NEW N, NEW G, Flow(f, N, G), NEW e, NEW p,
         \A n \in N : ~(Tells(n, e, p)'), \A g \in G : ~Tells(g, e, p), table'[e] = table[e], Follows(e, p)
  PROVE  Follows(e, p)'
<1>1. CASE table[e] = p /\ \A t \in Spots : ~Tells(t, e, p)
  <2>1. \A t \in Spots' : ~(Tells(t, e, p)') BY <1>1, TellsFlow
  <2> QED BY <1>1, <2>1 DEF Follows
<1>2. ASSUME NEW s \in Spots, Tells(s, e, p), Item(s).kind = "reg", \A t \in Spots : Tells(t, e, p) => t[3] <= s[3]
      PROVE  Follows(e, p)'
  <2>1. s \notin G BY <1>2
  <2> QED BY <1>2, <2>1, LastFlow
<1> QED BY <1>1, <1>2 DEF Follows

LEMMA FollowedFlow ==
  ASSUME TypeInv, TypeInv', Followed, NEW f, NEW N, NEW G, Flow(f, N, G),
         \A e \in Entities, p \in Pylons : Running(e, p)' => Unsaid(N, G, e, p)
  PROVE  Followed'
<1> SUFFICES ASSUME NEW e \in Entities, NEW p \in Pylons, where'[e].step = "in", where'[e].node = p, Connected(p)'
             PROVE  Follows(e, p)'
  BY DEF Followed
<1>1. Unsaid(N, G, e, p) BY DEF Running
<1>2. Follows(e, p) BY <1>1 DEF Followed, Unsaid
<1>3. /\ \A n \in N : ~(Tells(n, e, p)')
      /\ \A g \in G : ~Tells(g, e, p)
      /\ table'[e] = table[e]
  BY <1>1 DEF Unsaid
<1> QED BY <1>2, <1>3, FollowsFlow

LEMMA SameConnected ==
  ASSUME UNCHANGED pylon
  PROVE  \A p \in Pylons : Connected(p)' <=> Connected(p)
BY DEF pylon, Connected

\* The entities run where they ran, if they run, and nothing new is said of them.
LEMMA FollowedStill ==
  ASSUME TypeInv, TypeInv', Followed, NEW f, NEW N, NEW G, Flow(f, N, G), UNCHANGED <<pylon, table>>,
         \A e \in Entities : where'[e].step = "in" => where'[e] = where[e],
         \A n \in N : Item(n)'.kind \notin {"reg", "unreg"},
         \A g \in G : g[1] = "stream" => g \in Spots /\ Item(g).kind \notin {"reg", "unreg"}
  PROVE  Followed'
<1>1. \A n \in N : \A e, p : ~(Tells(n, e, p)') BY DEF Tells
<1>2. \A g \in G : \A e, p : ~Tells(g, e, p) BY DEF Tells, On
<1>3. ASSUME NEW e \in Entities, NEW p \in Pylons, Running(e, p)' PROVE Unsaid(N, G, e, p)
  <2>1. where'[e].step = "in" /\ where'[e].node = p /\ Connected(p) BY <1>3, SameConnected DEF Running
  <2> QED BY <1>1, <1>2, <2>1 DEF Unsaid
<1> QED BY <1>3, FollowedFlow

LEMMA FollowedQuiet ==
  ASSUME TypeInv, TypeInv', Followed, UNCHANGED <<pylon, table>>,
         \/ UNCHANGED <<outbound, thread, toServer, toPylon>>
         \/ \E p \in Pylons : Read(p),
         \A e \in Entities : where'[e].step = "in" => where'[e] = where[e]
  PROVE  Followed'
<1>1. PICK f : Flow(f, {}, {}) BY FlowQuiet
<1> QED BY <1>1, FollowedStill

\* The connection of a pylon.
LEMMA FollowedPylon ==
  ASSUME TypeInv, TypeInv', Named, Followed, NEW p \in Pylons, Open(p) \/ Suspend(p) \/ Stop(p)
  PROVE  Followed'
<1>1. UNCHANGED <<outbound, thread, toServer, toPylon, table, where>>
  BY DEF Open, Suspend, Stop, network, agents
<1>2. PICK f : Flow(f, {}, {}) BY <1>1, FlowQuiet
<1>3. ASSUME NEW q \in Pylons, Connected(q)', conn[q] # "connecting" PROVE Connected(q)
  <2>1. PylonTypes BY TypeParts
  <2> QED BY <1>3, <2>1 DEF Open, Suspend, Stop, Connected, PylonTypes
<1>4. ASSUME NEW e \in Entities, NEW q \in Pylons, Running(e, q)' PROVE Unsaid({}, {}, e, q)
  <2>1. where[e].step = "in" /\ where[e].node = q /\ Connected(q)' BY <1>1, <1>4 DEF Running
  <2>2. conn[q] # "connecting" BY <2>1 DEF Named, Started
  <2> QED BY <1>1, <1>3, <2>1, <2>2 DEF Unsaid
<1> QED BY <1>2, <1>4, FollowedFlow

LEMMA FollowedClose ==
  ASSUME TypeInv, TypeInv', Followed, NEW p \in Pylons, Close(p)
  PROVE  Followed'
<1>1. PICK f, G : Flow(f, {}, G) /\ \A g \in G : g[1] = "stream" => g[2] = p BY FlowClose
<1>2. UNCHANGED <<where, table, stopped>> /\ conn' = [conn EXCEPT ![p] = "closed"] /\ conn \in [Pylons -> {"connecting", "open", "closed"}]
  BY TypeParts DEF Close, agents, PylonTypes
<1>3. ASSUME NEW e \in Entities, NEW q \in Pylons, Running(e, q)' PROVE Unsaid({}, G, e, q)
  <2>1. where[e].step = "in" /\ where[e].node = q /\ Connected(q)' BY <1>2, <1>3 DEF Running
  <2>2. q # p /\ Connected(q) BY <1>2, <2>1 DEF Connected
  <2>3. \A g \in G : ~Tells(g, e, q) BY <1>1, <2>2 DEF Tells, On
  <2> QED BY <1>2, <2>1, <2>2, <2>3 DEF Unsaid
<1> QED BY <1>1, <1>3, FollowedFlow

LEMMA FollowedServeOutbound ==
  ASSUME TypeInv, TypeInv', Followed, NEW p \in Pylons, ServeOutbound(p)
  PROVE  Followed'
<1> DEFINE o == <<"stream", p, Served(p) + 1>>
           n == <<"pipe", p, 1>>
<1>1. /\ o \in Spots /\ UNCHANGED <<where, pylon, table>>
      /\ \/ /\ Local(p, Item(o)) /\ n \in Spots' /\ Item(n)' = Item(o) /\ \E f : Flow(f, {n}, {o})
         \/ /\ Spots' = Spots /\ (\A s \in Spots : Item(s)' = Item(s))
         \/ conn[p] # "open" /\ \E f : Flow(f, {}, {o})
  BY FlowServeOutbound DEF agents
<1>2. o[1] = "stream" /\ o[2] = p OBVIOUS
<1> HIDE DEF o, n
<1>3. ASSUME Local(p, Item(o)), Item(n)' = Item(o), NEW f, Flow(f, {n}, {o}) PROVE Followed'
  BY <1>1, <1>3, FollowedStill DEF Local
<1>4. ASSUME Spots' = Spots, \A s \in Spots : Item(s)' = Item(s) PROVE Followed'
  <2>1. \A s \in Spots : \A e, q : Tells(s, e, q)' <=> Tells(s, e, q) BY <1>4 DEF Tells, On
  <2>2. ASSUME NEW e \in Entities, NEW q \in Pylons, where'[e].step = "in", where'[e].node = q, Connected(q)'
        PROVE  Follows(e, q)'
    <3>1. Follows(e, q) BY <1>1, <2>2, SameConnected DEF Followed
    <3> QED BY <1>1, <1>4, <2>1, <3>1 DEF Follows
  <2> QED BY <2>2 DEF Followed
<1>5. ASSUME conn[p] # "open", NEW f, Flow(f, {}, {o}) PROVE Followed'
  <2>1. ASSUME NEW e \in Entities, NEW q \in Pylons, Running(e, q)' PROVE Unsaid({}, {o}, e, q)
    <3>1. where[e].step = "in" /\ where[e].node = q /\ Connected(q) BY <1>1, <2>1, SameConnected DEF Running
    <3>2. q # p BY <1>5, <3>1 DEF Connected
    <3>3. ~Tells(o, e, q) BY <1>2, <3>2 DEF Tells, On
    <3> QED BY <1>1, <3>1, <3>3 DEF Unsaid
  <2> QED BY <1>5, <2>1, FollowedFlow
<1> QED BY <1>1, <1>3, <1>4, <1>5

LEMMA FollowedServeInbound ==
  ASSUME TypeInv, TypeInv', Followed, NEW p \in Pylons, ServeInbound(p)
  PROVE  Followed'
<1> DEFINE o == <<"pipe", p, 1>>
<1>1. UNCHANGED <<where, pylon, table>> /\ ((\E f : Flow(f, {}, {})) \/ \E f : Flow(f, {}, {o})) /\ o[1] # "stream"
  BY FlowServeInbound DEF agents
<1> HIDE DEF o
<1>2. ASSUME NEW f, NEW G, Flow(f, {}, G), G \in {{}, {o}} PROVE Followed'
  <2>1. \A g \in G : g[1] # "stream" BY <1>1, <1>2
  <2> QED BY <1>1, <1>2, <2>1, FollowedStill
<1> QED BY <1>1, <1>2

LEMMA FollowedDeliver ==
  ASSUME TypeInv, TypeInv', Copies, Followed, NEW p \in Pylons, Deliver(p)
  PROVE  Followed'
<1> DEFINE o == <<"pipe", p, 1>>
<1>1. o \in Spots /\ Item(o) = serving[p] /\ o[1] = "pipe" /\ o[1] # "stream" /\ \E f : Flow(f, {}, {o})
  BY FlowDeliver
<1> HIDE DEF o
<1>2. PICK f : Flow(f, {}, {o}) BY <1>1
<1>3. UNCHANGED <<pylon, table>> BY DeliverCases DEF network
<1>4. \A e \in Entities : where'[e].step = "in" => where'[e] = where[e]
  <2>1. CASE UNCHANGED where BY <2>1
  <2>2. ASSUME serving[p] \in Transit, where' = [where EXCEPT ![serving[p].from] = [step |-> "putting", node |-> p]]
        PROVE  \A e \in Entities : where'[e].step = "in" => where'[e] = where[e]
    <3>1. serving[p].from \in Entities BY <1>1, <2>2, CarriedAway
    <3>2. where'[serving[p].from].step = "putting" /\ \A x \in Entities : x # serving[p].from => where'[x] = where[x]
      BY <2>2, <3>1, TypeParts, GoesTo DEF Steps
    <3> QED BY <3>2
  <2> QED BY <2>1, <2>2, DeliverCases
<1> QED BY <1>1, <1>2, <1>3, <1>4, FollowedStill

\* What the server reads it enters: where an entity runs it does not hear it said twice.
LEMMA FollowedServer ==
  ASSUME TypeInv, TypeInv', Announced, Followed, NEW p \in Pylons, Server(p)
  PROVE  Followed'
<1>1. UNCHANGED <<where, pylon>> BY ServerCases DEF agents
<1> DEFINE o == <<"stream", p, 1>>
<1>2. o \in Spots /\ Written(o) /\ Item(o) = Incoming(p) /\ o[1] = "stream" /\ o[2] = p /\ o[3] = 1
  BY FlowServer
<1>3. \E f, N : /\ Flow(f, N, {o})
                /\ \A n \in N : Incoming(p) \in Content /\ Item(n)' = Incoming(p)
  <2>1. CASE \E f : Flow(f, {}, {o}) BY <2>1
  <2>2. ASSUME NEW n, Incoming(p) \in Content, Item(n)' = Incoming(p), NEW f, Flow(f, {n}, {o})
        PROVE  \E g, N : /\ Flow(g, N, {o})
                         /\ \A x \in N : Incoming(p) \in Content /\ Item(x)' = Incoming(p)
    BY <2>2
  <2> HIDE DEF o
  <2> QED BY <2>1, <2>2, FlowServer DEF o
<1> HIDE DEF o
<1>4. PICK f, N : Flow(f, N, {o}) /\ \A n \in N : Incoming(p) \in Content /\ Item(n)' = Incoming(p) BY <1>3
<1>5. CASE Incoming(p) \in Content
  <2>1. UNCHANGED table BY <1>5, ServerCases, MessageKinds
  <2>2. Incoming(p).kind \notin {"reg", "unreg"} BY <1>5, MessageKinds
  <2>3. \A n \in N : Item(n)'.kind \notin {"reg", "unreg"} BY <1>4, <2>2
  <2> QED BY <1>1, <1>2, <1>4, <2>1, <2>2, <2>3, FollowedStill
<1>6. ASSUME Incoming(p) \in Registration, Incoming(p).kind \in {"reg", "unreg"}, Incoming(p) \notin Content
      PROVE  Followed'
  <2>1. PICK x \in Entities : x = Incoming(p).from BY <1>6 DEF Registration
  <2>2. N = {} BY <1>4, <1>6
  <2>3. /\ table \in [Entities -> Pylons \cup {Nobody}]
        /\ table' = [table EXCEPT ![x] = IF Incoming(p).kind = "reg" THEN p ELSE IF table[x] = p THEN Nobody ELSE table[x]]
    BY <1>6, <2>1, ServerCases, TypeParts DEF NameTypes
  <2>4. ASSUME NEW e \in Entities, NEW q \in Pylons, Running(e, q)' PROVE Follows(e, q)'
    <3>1. where[e].step = "in" /\ where[e].node = q /\ Connected(q) /\ Follows(e, q)
      BY <1>1, <2>4, SameConnected DEF Running, Followed
    <3>2. CASE e # x
      <4>1. ~Tells(o, e, q) /\ table'[e] = table[e] BY <1>2, <2>1, <2>3, <3>2 DEF Tells
      <4> QED BY <1>4, <2>2, <3>1, <4>1, FollowsFlow
    <3>3. CASE e = x /\ p # q
      <4>1. ~Tells(o, e, q) BY <1>2, <3>3 DEF Tells, On
      <4>2. Incoming(p).kind = "unreg"
        <5>1. ASSUME Incoming(p).kind = "reg" PROVE FALSE
          <6>1. Reg(o) BY <1>2, <5>1 DEF Reg, Active
          <6>2. o[2] = where[Item(o).from].node BY <1>2, <6>1 DEF Announced, Registers
          <6> QED BY <1>2, <2>1, <3>1, <3>3, <6>2
        <5> QED BY <1>6, <5>1
      <4>3. table[e] = q => table'[e] = table[e] BY <2>3, <3>3, <4>2
      <4>4. CASE table'[e] = table[e] BY <1>4, <2>2, <3>1, <4>1, <4>4, FollowsFlow
      <4>5. CASE \E s \in Spots : /\ Tells(s, e, q) /\ Item(s).kind = "reg"
                                  /\ \A t \in Spots : Tells(t, e, q) => t[3] <= s[3]
        BY <1>4, <2>2, <4>1, <4>5, LastFlow
      <4> QED BY <3>1, <4>3, <4>4, <4>5 DEF Follows
    <3>4. CASE e = x /\ p = q
      <4>1. Tells(o, e, q) BY <1>2, <1>6, <2>1, <3>4 DEF Tells, On
      <4>2. PICK s \in Spots : /\ Tells(s, e, q) /\ Item(s).kind = "reg"
                               /\ \A t \in Spots : Tells(t, e, q) => t[3] <= s[3]
        BY <1>2, <3>1, <4>1 DEF Follows
      <4>3. CASE s # o BY <1>4, <2>2, <4>2, <4>3, LastFlow
      <4>4. CASE s = o
        <5>1. ASSUME NEW t \in Spots, Tells(t, e, q) PROVE t = o
          <6>1. t[3] <= 1 BY <1>2, <4>2, <4>4, <5>1
          <6>2. t[3] \in 1 .. Len(Line(t[1], t[2])) /\ t = <<t[1], t[2], t[3]>> /\ o = <<o[1], o[2], o[3]>> /\ t[3] \in Nat
            BY <1>2, TypeParts, SpotFacts
          <6>3. t[3] = 1 BY <6>1, <6>2
          <6>4. t[1] = "stream" /\ t[2] = p BY <3>4, <5>1 DEF Tells, On
          <6> QED BY <1>2, <6>2, <6>3, <6>4
        <5>2. ASSUME NEW t \in Spots' PROVE ~(Tells(t, e, q)')
          <6>1. f[t] \in Spots \ {o} /\ (Tells(t, e, q)' <=> Tells(f[t], e, q))
            <7>1. t \in Spots' \ N BY <2>2
            <7> QED BY <1>4, <7>1, TellsFlow DEF Flow, Kept
          <6> QED BY <5>1, <6>1
        <5>3. table'[e] = q BY <1>2, <2>3, <3>4, <4>2, <4>4
        <5> QED BY <5>2, <5>3 DEF Follows
      <4> QED BY <4>3, <4>4
    <3> QED BY <3>2, <3>3, <3>4
  <2> QED BY <2>4 DEF Followed, Running
<1> QED BY <1>5, <1>6, ServerCases, MessageKinds

LEMMA FollowedAdd ==
  ASSUME TypeInv, TypeInv', Followed, NEW e \in Entities, Add(e)
  PROVE  Followed'
<1> DEFINE r == [kind |-> "reg", from |-> e]
<1>1. /\ where[e].step = "adding" /\ Goes(e, "in") /\ r.kind = "reg" /\ r.from = e
      /\ outbound' = [outbound EXCEPT ![where[e].node] = Append(@, r)] /\ UNCHANGED <<pylon, thread, network, table>>
  BY DEF Add, network
<1>2. where[e].node \in Pylons /\ r \in Message BY TypeParts, WhereFacts, RegistrationFields, MessageKinds
<1> HIDE DEF r
<1>3. PICK p \in Pylons : p = where[e].node BY <1>2
<1>4. PICK n \in Spots' : /\ On(n, "stream", p) /\ Item(n)' = r
                          /\ \A s \in Spots' : On(s, "stream", p) => s[3] <= n[3]
                          /\ \E f : Flow(f, {n}, {})
  BY <1>1, <1>2, <1>3, FlowAppend
<1>5. PICK f : Flow(f, {n}, {}) BY <1>4
<1>6. /\ \A x \in Entities : where'[x].node = where[x].node
      /\ \A x \in Entities : x # e => where'[x] = where[x]
  BY <1>1, TypeParts, GoesOn DEF Steps
<1>7. ASSUME NEW x \in Entities, NEW q \in Pylons, Running(x, q)' PROVE Follows(x, q)'
  <2>1. where'[x].step = "in" /\ where[x].node = q /\ Connected(q)
    BY <1>1, <1>6, <1>7, SameConnected DEF Running
  <2>2. CASE x = e
    <3>1. Tells(n, x, q)' /\ Item(n)'.kind = "reg" BY <1>1, <1>3, <1>4, <2>1, <2>2 DEF Tells, On
    <3>2. \A t \in Spots' : Tells(t, x, q)' => t[3] <= n[3] BY <1>3, <1>4, <2>1, <2>2 DEF Tells, On
    <3> QED BY <3>1, <3>2 DEF Follows
  <2>3. CASE x # e
    <3>1. Follows(x, q) BY <1>6, <2>1, <2>3 DEF Followed
    <3>2. ~(Tells(n, x, q)') BY <1>1, <1>4, <2>3 DEF Tells
    <3> QED BY <1>1, <1>5, <3>1, <3>2, FollowsFlow
  <2> QED BY <2>2, <2>3
<1> QED BY <1>7 DEF Followed, Running

LEMMA FollowedSend ==
  ASSUME TypeInv, TypeInv', Followed, NEW a \in Agents, Send(a)
  PROVE  Followed'
<1>1. /\ where[a].node \in Pylons /\ UNCHANGED <<where, pylon, thread, network, table>>
      /\ \E m \in Wave : outbound' = [outbound EXCEPT ![where[a].node] = Append(@, m)]
  BY SendSends DEF network
<1>2. PICK m \in Message : m.kind = "wave" /\ outbound' = [outbound EXCEPT ![where[a].node] = Append(@, m)]
  BY <1>1, WaveFields DEF Message, Content
<1>3. PICK n \in Spots' : Item(n)' = m /\ \E f : Flow(f, {n}, {}) BY <1>1, <1>2, FlowAppend
<1> QED BY <1>1, <1>2, <1>3, FollowedStill

LEMMA FollowedStopCopy ==
  ASSUME TypeInv, TypeInv', Followed, NEW a \in Agents, StopCopy(a)
  PROVE  Followed'
<1> DEFINE u == [kind |-> "unreg", from |-> a]
<1>1. PICK p \in Pylons :
          /\ p # where[a].node /\ outbound' = [outbound EXCEPT ![p] = Append(@, u)]
          /\ UNCHANGED <<pylon, thread, network, agents, history>>
  BY DEF StopCopy
<1>2. u \in Message /\ UNCHANGED <<where, table, pylon>> /\ u.kind = "unreg" /\ u.from = a
  BY <1>1, RegistrationFields, MessageKinds DEF Entities, agents, network
<1> HIDE DEF u
<1>3. PICK n \in Spots' : On(n, "stream", p) /\ Item(n)' = u /\ \E f : Flow(f, {n}, {})
  BY <1>1, <1>2, FlowAppend
<1>4. ASSUME NEW x \in Entities, NEW q \in Pylons, Running(x, q)' PROVE Unsaid({n}, {}, x, q)
  <2>1. where[x].step = "in" /\ where[x].node = q /\ Connected(q) BY <1>2, <1>4, SameConnected DEF Running
  <2>2. ~(Tells(n, x, q)') BY <1>1, <1>2, <1>3, <2>1 DEF Tells, On
  <2> QED BY <1>2, <2>1, <2>2 DEF Unsaid
<1> QED BY <1>3, <1>4, FollowedFlow

LEMMA FollowedLeave ==
  ASSUME TypeInv, TypeInv', Followed, NEW a \in Agents, Leave(a)
  PROVE  Followed'
<1>1. PICK p \in Pylons : p = where[a].node BY LeaveSends
<1>2. /\ a \in Entities /\ Goes(a, "away") /\ UNCHANGED <<pylon, thread, network, table>>
  BY LeaveSends DEF network
<1> DEFINE u == [kind |-> "unreg", from |-> a]
<1>3. \E m \in Transit : m.from = a /\ u \in Registration /\ outbound' = [outbound EXCEPT ![p] = @ \o <<u, m>>]
  BY <1>1, LeaveSends
<1>4. u.from = a OBVIOUS
<1> HIDE DEF u
<1>5. PICK m \in Transit : m.from = a /\ u \in Registration /\ outbound' = [outbound EXCEPT ![p] = @ \o <<u, m>>]
  BY <1>3
<1>6. m \in Message /\ u \in Message BY <1>5, TransitFields, MessageKinds DEF Message, Content
<1>7. PICK n \in Spots', x \in Spots' :
          /\ On(n, "stream", p) /\ ~Written(n)' /\ Item(n)' = m
          /\ On(x, "stream", p) /\ ~Written(x)' /\ Item(x)' = u /\ x[3] + 1 = n[3]
          /\ \A s \in Spots' : On(s, "stream", p) => s[3] <= n[3]
          /\ Spots' = Spots \cup {x, n} /\ \E f : Flow(f, {x, n}, {})
  <2>1. Farewell(p, u, m) BY <1>2, <1>5 DEF Farewell
  <2>2. PICK n \in Spots', x \in Spots' : FarewellAt(p, u, m, x, n) BY <1>6, <2>1, FlowLeave
  <2> QED BY <2>2 DEF FarewellAt
<1>8. PICK f : Flow(f, {x, n}, {}) BY <1>7
<1>9. where'[a].step = "away" /\ \A y \in Entities : y # a => where'[y] = where[y]
  BY <1>2, TypeParts, GoesOn DEF Steps
<1>10. ASSUME NEW y \in Entities, NEW q \in Pylons, Running(y, q)' PROVE Unsaid({x, n}, {}, y, q)
  <2>1. y # a /\ where[y].step = "in" /\ where[y].node = q /\ Connected(q)
    BY <1>2, <1>9, <1>10, SameConnected DEF Running
  <2>2. ~(Tells(x, y, q)') /\ ~(Tells(n, y, q)') BY <1>4, <1>5, <1>7, <2>1 DEF Tells
  <2> QED BY <1>2, <2>1, <2>2 DEF Unsaid
<1> QED BY <1>8, <1>10, FollowedFlow

LEMMA FollowedGoes ==
  ASSUME TypeInv, TypeInv', Followed, NEW e \in Entities, NEW s \in Steps, s # "in", Goes(e, s),
         UNCHANGED <<pylon, outbound, thread, toServer, toPylon, table>>
  PROVE  Followed'
<1>1. where'[e].step = s /\ \A f \in Entities : f # e => where'[f] = where[f] BY TypeParts, GoesOn
<1> QED BY <1>1, FollowedQuiet

LEMMA FollowedInit == Init => Followed
<1> SUFFICES ASSUME Init PROVE Followed OBVIOUS
<1>1. \A e \in Entities : where[e].step = "putting" BY DEF Init
<1> QED BY <1>1 DEF Followed

LEMMA FollowedNext == TypeInv /\ TypeInv' /\ Copies /\ Named /\ Announced /\ Followed /\ [Next]_vars => Followed'
<1> SUFFICES ASSUME TypeInv, TypeInv', Copies, Named, Announced, Followed, [Next]_vars PROVE Followed' OBVIOUS
<1>1. CASE UNCHANGED vars BY <1>1, FollowedQuiet DEF vars, network, agents
<1>2. ASSUME NEW p \in Pylons, Read(p) PROVE Followed' BY <1>2, FollowedQuiet DEF Read, agents
<1>3. ASSUME NEW e \in Entities, Put(e) PROVE Followed'
  <2>1. /\ where'[e].step = "adding" /\ \A f \in Entities : f # e => where'[f] = where[f]
        /\ UNCHANGED <<pylon, outbound, thread, toServer, toPylon, table>>
    BY <1>3, PutCases DEF network
  <2> QED BY <2>1, FollowedQuiet
<1>4. ASSUME NEW a \in Agents, PostMove(a) \/ Remove(a) PROVE Followed'
  <2>1. a \in Entities /\ (Goes(a, "stopping") \/ Goes(a, "removed"))
        /\ UNCHANGED <<pylon, outbound, thread, toServer, toPylon, table>>
    BY <1>4 DEF PostMove, Remove, network, Entities
  <2> QED BY <2>1, FollowedGoes DEF Steps
<1>5. ASSUME NEW a \in Agents, Restart(a) PROVE Followed'
  <2>1. /\ where'[a].step = "putting" /\ \A f \in Entities : f # a => where'[f] = where[f]
        /\ UNCHANGED <<pylon, outbound, thread, toServer, toPylon, table>>
    BY <1>5, RestartGoes DEF network
  <2> QED BY <2>1, FollowedQuiet
<1> QED BY <1>1, <1>2, <1>3, <1>4, <1>5, FollowedPylon, FollowedClose, FollowedServeOutbound, FollowedServeInbound,
    FollowedDeliver, FollowedServer, FollowedAdd, FollowedLeave, FollowedSend, FollowedStopCopy
    DEF Next

\* What a pylon has to say is in one of its queues.
LEMMA InALine ==
  ASSUME LineTypes, NEW s \in Spots, s[1] = "stream"
  PROVE  InSeq(outbound[s[2]], Item(s)) \/ InSeq(toServer[s[2]], Item(s))
<1>0. PICK p \in Pylons : p = s[2] BY SpotFacts
<1>1. PICK i \in 1 .. Len(Stream(p)) : p = s[2] /\ Item(s) = Stream(p)[i] BY <1>0, SpotFacts, KindLines
<1>2. outbound[p] \in Seq(Message) /\ toServer[p] \in Seq(Message) /\ Served(p) = Len(toServer[p])
  BY LineFacts DEF Served
<1>3. CASE i <= Served(p)
  <2>1. i \in 1 .. Served(p) BY <1>2, <1>3
  <2>2. Stream(p)[i] = toServer[p][i] /\ i \in DOMAIN toServer[p] BY <1>2, <2>1, StreamFacts
  <2> QED BY <1>1, <2>2 DEF InSeq
<1>4. CASE ~(i <= Served(p))
  <2>1. /\ Len(Stream(p)) = Served(p) + Len(outbound[p]) /\ Served(p) \in Nat /\ Len(outbound[p]) \in Nat
        /\ Len(Stream(p)) \in Nat
    BY StreamFacts
  <2>2. PICK j \in 1 .. Len(outbound[p]) : i = Served(p) + j
    <3>1. i - Served(p) \in 1 .. Len(outbound[p]) /\ i = Served(p) + (i - Served(p)) BY <1>4, <2>1
    <3> QED BY <3>1
  <2>3. Stream(p)[Served(p) + j] = outbound[p][j] /\ j \in DOMAIN outbound[p]
    <3>1. j \in DOMAIN outbound[p] BY <1>2, <2>2
    <3> QED BY <3>1, StreamFacts
  <2> QED BY <1>1, <2>2, <2>3 DEF InSeq
<1> QED BY <1>3, <1>4

LEMMA FollowedTable == TypeInv /\ Followed => TableFollows
<1> SUFFICES ASSUME TypeInv, Followed, NEW e \in Entities, where[e].step = "in", Connected(where[e].node), ~Registering(e)
             PROVE  table[e] = where[e].node
  BY DEF TableFollows
<1>1. PICK p \in Pylons : p = where[e].node BY TypeParts, WhereFacts
<1>2. Follows(e, p) BY <1>1 DEF Followed
<1>3. ASSUME NEW s \in Spots, Tells(s, e, p) PROVE FALSE
  <2>1. s[1] = "stream" /\ s[2] = p /\ Item(s).kind \in {"reg", "unreg"} /\ Item(s).from = e /\ Item(s) \in Registration
    BY <1>3, TypeParts, SpotFacts, MessageKinds DEF Tells, On
  <2>2. Item(s) = [kind |-> Item(s).kind, from |-> e] BY <2>1 DEF Registration
  <2>3. InSeq(outbound[p], Item(s)) \/ InSeq(toServer[p], Item(s)) BY <2>1, TypeParts, InALine
  <2>4. PICK k \in {"reg", "unreg"} : k = Item(s).kind BY <2>1
  <2> QED BY <2>2, <2>3, <2>4 DEF Registering
<1> QED BY <1>1, <1>2, <1>3 DEF Follows

\* The server follows the agents, through moves, lost connections, old copies and
\* what they still say: it is the newest registration that it has
\* (WebSocketServerEntity 148-171).
THEOREM ServerFollows == Spec => []TableFollows
<1> DEFINE Inv == TypeInv /\ Copies /\ Named /\ Announced /\ Followed
<1>1. Init => Inv BY TypeInvInit, CopiesInit, NamedInit, AnnouncedInit, FollowedInit
<1>2. Inv /\ [Next]_vars => Inv' BY TypeInvNext, CopiesNext, NamedNext, AnnouncedNext, FollowedNext
<1>3. Inv => TableFollows BY FollowedTable
<1> QED BY <1>1, <1>2, <1>3, PTL DEF Spec

-----------------------------------------------------------------------------
(* What is sent in a calm arrives.                                         *)

LEMMA KnownNext == TypeInv /\ TypeInv' /\ [Next]_vars => \A m \in Content : Known(m) => Known(m)'
<1> SUFFICES ASSUME TypeInv, TypeInv', [Next]_vars PROVE \A m \in Content : Known(m) => Known(m)' OBVIOUS
<1>0. \A a \in Agents : count[a] \in Nat /\ moved[a] \in Nat /\ a \in Entities
  BY TypeParts DEF CountTypes, Entities
<1>1. CASE UNCHANGED vars BY <1>1, KnownSame DEF vars, agents
<1>2. ASSUME NEW p \in Pylons, \/ Open(p) \/ Close(p) \/ Suspend(p) \/ Stop(p)
                               \/ ServeOutbound(p) \/ ServeInbound(p) \/ Read(p) \/ Server(p)
      PROVE  UNCHANGED agents
  BY <1>2 DEF Open, Close, Suspend, Stop, ServeOutbound, ServeInbound, Read, Server
<1>3. CASE UNCHANGED agents BY <1>3, KnownSame DEF agents
<1>4. ASSUME UNCHANGED <<moved, count>>, NEW e \in Entities, where'[e].step \notin {"stopping", "removed"} \/ where[e].step = "stopping",
             \A f \in Entities : f # e => where'[f] = where[f]
      PROVE  \A m \in Content : Known(m) => Known(m)'
  <2>1. \A a \in Agents : where[a].step \notin {"stopping", "removed"} => where'[a].step \notin {"stopping", "removed"}
    BY <1>0, <1>4
  <2> QED BY <1>0, <1>4, <2>1, KnownStays
<1>5. ASSUME NEW p \in Pylons, Deliver(p) PROVE \A m \in Content : Known(m) => Known(m)'
  <2>1. serving[p] \in Transit => serving[p].from \in Entities BY TransitFields DEF Entities
  <2>2. CASE UNCHANGED where BY <1>5, <2>2, DeliverCases, KnownSame
  <2>3. CASE serving[p] \in Transit /\ where' = [where EXCEPT ![serving[p].from] = [step |-> "putting", node |-> p]]
    <3>1. where'[serving[p].from].step = "putting" /\ \A f \in Entities : f # serving[p].from => where'[f] = where[f]
      BY <2>1, <2>3, TypeParts, GoesTo DEF Steps
    <3> QED BY <1>4, <1>5, <2>1, <2>3, <3>1, DeliverCases
  <2> QED BY <1>5, <2>2, <2>3, DeliverCases
<1>6. ASSUME NEW e \in Entities, NEW s \in Steps, Goes(e, s), UNCHANGED <<moved, count>>,
             s \notin {"stopping", "removed"} \/ where[e].step = "stopping"
      PROVE  \A m \in Content : Known(m) => Known(m)'
  BY <1>4, <1>6, TypeParts, GoesOn
<1>7. ASSUME NEW e \in Entities, Put(e) \/ Add(e) PROVE \A m \in Content : Known(m) => Known(m)'
  <2>1. (Goes(e, "in") \/ Goes(e, "adding")) /\ UNCHANGED <<moved, count>> BY <1>7 DEF Put, Add
  <2> QED BY <1>6, <2>1 DEF Steps
<1>8. ASSUME NEW a \in Agents, Remove(a) \/ Leave(a) PROVE \A m \in Content : Known(m) => Known(m)'
  <2>1. ((Goes(a, "removed") /\ where[a].step = "stopping") \/ Goes(a, "away")) /\ UNCHANGED <<moved, count>> /\ a \in Entities
    BY <1>0, <1>8 DEF Remove, Leave
  <2> QED BY <1>6, <2>1 DEF Steps
<1>9. ASSUME NEW a \in Agents, Send(a) PROVE \A m \in Content : Known(m) => Known(m)'
  <2>1. UNCHANGED <<moved, where>> /\ count' = [count EXCEPT ![a] = @ + 1] /\ count \in [Agents -> Nat]
    BY <1>9, SendSends, TypeParts DEF CountTypes
  <2>2. \A b \in Agents : count'[b] >= count[b] BY <1>0, <2>1
  <2> QED BY <2>1, <2>2, KnownStays
<1>10. ASSUME NEW a \in Agents, Restart(a) PROVE \A m \in Content : Known(m) => Known(m)'
  <2>1. a \in Entities /\ UNCHANGED <<moved, count>> /\ where'[a].step = "putting" /\ \A f \in Entities : f # a => where'[f] = where[f]
    BY <1>0, <1>10, RestartGoes
  <2> QED BY <1>4, <2>1
<1>11. ASSUME NEW a \in Agents, StopCopy(a) PROVE UNCHANGED agents BY <1>11 DEF StopCopy
<1>12. ASSUME NEW a \in Agents, PostMove(a), NEW m \in Content, Known(m) PROVE Known(m)'
  <2>1. /\ where[a].step = "in" /\ moved' = [moved EXCEPT ![a] = @ + 1] /\ Goes(a, "stopping") /\ UNCHANGED count
        /\ moved \in [Agents -> Nat]
    BY <1>12, TypeParts DEF PostMove, CountTypes
  <2>2. m.from \in Agents /\ m.nr \in Nat /\ m.from \in Entities BY MessageKinds DEF Entities
  <2>3. \A f \in Entities : f # a => where'[f] = where[f] BY <1>0, <2>1, TypeParts, GoesOn DEF Steps
  <2>4. CASE m.from = a
    <3>1. moved'[a] = moved[a] + 1 /\ moved[a] \in Nat BY <1>0, <2>1
    <3> QED BY <1>12, <2>1, <2>2, <2>4, <3>1 DEF Known
  <2>5. CASE m.from # a
    <3>1. moved'[m.from] = moved[m.from] BY <2>1, <2>2, <2>5
    <3> QED BY <1>12, <2>1, <2>2, <2>3, <2>5, <3>1 DEF Known
  <2> QED BY <2>4, <2>5
<1> QED BY <1>1, <1>2, <1>3, <1>5, <1>7, <1>8, <1>9, <1>10, <1>11, <1>12 DEF Next

LEMMA ReachedNext ==
  ASSUME TypeInv, TypeInv', [Next]_vars, NEW m \in Wave, Reached(m)
  PROVE  Reached(m)'
<1>0. m.to \in Agents BY WaveFields
<1>1. CASE UNCHANGED received BY <1>1 DEF Reached
<1>2. ASSUME NEW p \in Pylons, Deliver(p) PROVE Reached(m)'
  <2>1. CASE UNCHANGED received BY <1>1, <2>1
  <2>2. ASSUME serving[p] \in Wave, received' = [received EXCEPT ![serving[p].to] = Append(@, [wave |-> serving[p], by |-> p])]
        PROVE  Reached(m)'
    <3>1. PICK b \in Agents : b = serving[p].to BY <2>2, WaveFields
    <3>2. PICK r \in Receipt : r = [wave |-> serving[p], by |-> p] BY <2>2 DEF Receipt
    <3>3. received \in [Agents -> Seq(Receipt)] /\ received' = [received EXCEPT ![b] = Append(@, r)]
      BY <2>2, <3>1, <3>2, TypeParts DEF HistoryTypes
    <3>4. PICK i \in DOMAIN received[m.to] : received[m.to][i].wave = m BY DEF Reached
    <3>5. i \in DOMAIN received'[m.to] /\ received'[m.to][i] = received[m.to][i]
      <4>1. CASE m.to # b BY <1>0, <3>3, <4>1
      <4>2. CASE m.to = b
        <5>1. received[b] \in Seq(Receipt) /\ received'[b] = Append(received[b], r) BY <3>3
        <5> QED BY <3>4, <4>2, <5>1
      <4> QED BY <4>1, <4>2
    <3> QED BY <3>4, <3>5 DEF Reached
  <2> QED BY <1>2, <2>1, <2>2, DeliverCases
<1>3. CASE UNCHANGED vars BY <1>1, <1>3 DEF vars, history
<1>4. ASSUME NEW p \in Pylons, \/ Open(p) \/ Close(p) \/ Suspend(p) \/ Stop(p)
                               \/ ServeOutbound(p) \/ ServeInbound(p) \/ Read(p) \/ Server(p)
      PROVE  UNCHANGED received
  BY <1>4 DEF Open, Close, Suspend, Stop, ServeOutbound, ServeInbound, Read, Server, history
<1>5. ASSUME NEW e \in Entities, Put(e) \/ Add(e) PROVE UNCHANGED received BY <1>5 DEF Put, Add, history
<1>6. ASSUME NEW a \in Agents, PostMove(a) \/ Remove(a) \/ Leave(a) \/ Send(a) \/ Restart(a) \/ StopCopy(a)
      PROVE  UNCHANGED received
  BY <1>6 DEF PostMove, Remove, Leave, Send, Restart, StopCopy, history
<1> QED BY <1>1, <1>2, <1>3, <1>4, <1>5, <1>6 DEF Next

LEMMA AwaitsFlow ==
  ASSUME TypeInv, TypeInv', [Next]_vars, NEW m \in Content, NEW p \in Pylons, Awaits(m, p),
         NEW f, NEW N, NEW G, Flow(f, N, G), where'[m.to] = where[m.to], table'[m.to] = table[m.to], m \notin lost',
         \A q \in Pylons : Connected(q) => Connected(q)',
         \A n \in N : ~(Tells(n, m.to, p)'),
         \A n \in N : Item(n)' = m => Fits(n, p)',
         \A g \in G : g \in Spots /\ Item(g) = m /\ m \in Wave => Reached(m)' \/ \E n \in N : n \in Spots' /\ Item(n)' = m
  PROVE  Awaits(m, p)'
<1>1. Known(m)' BY KnownNext DEF Awaits
<1>2. Running(m.to, p)' /\ table'[m.to] = p BY DEF Awaits, Running
<1>3. ASSUME NEW t \in Spots' PROVE ~(Tells(t, m.to, p)')
  <2>1. PICK e : e = m.to OBVIOUS
  <2>2. CASE t \notin N
    <3>1. f[t] \in Spots /\ (Tells(t, e, p)' <=> Tells(f[t], e, p)) BY <2>2, TellsFlow
    <3> QED BY <2>1, <3>1 DEF Awaits
  <2> QED BY <2>2
<1>4. ASSUME NEW s \in Spots', Item(s)' = m PROVE Fits(s, p)'
  <2>1. CASE s \notin N
    <3>1. /\ f[s] \in Spots /\ Item(f[s]) = m /\ f[s][1] = s[1] /\ f[s][2] = s[2] /\ s[2] \in Pylons
          /\ (Written(s)' <=> Written(f[s]))
      BY <1>4, <2>1, SpotsNext DEF Flow, Kept
    <3>2. Fits(f[s], p) BY <3>1 DEF Awaits
    <3> QED BY <3>1, <3>2 DEF Fits
  <2> QED BY <1>4, <2>1
<1>5. ASSUME m \in Wave PROVE Reached(m)' \/ \E s \in Spots' : Item(s)' = m
  <2>1. CASE Reached(m) BY <1>5, <2>1, ReachedNext
  <2>2. ASSUME NEW s \in Spots, Item(s) = m PROVE Reached(m)' \/ \E x \in Spots' : Item(x)' = m
    <3>1. CASE s \in G BY <1>5, <2>2, <3>1
    <3>2. CASE s \notin G
      <4>1. PICK x \in Spots' \ N : f[x] = s BY <3>2 DEF Flow, Kept
      <4>2. Item(x)' = m BY <2>2, <4>1 DEF Flow, Kept
      <4> QED BY <4>2
    <3> QED BY <3>1, <3>2
  <2> QED BY <1>5, <2>1, <2>2 DEF Awaits
<1> QED BY <1>1, <1>2, <1>3, <1>4, <1>5 DEF Awaits

\* The steps after which a message that is awaited still is.
LEMMA CalmsQuiet ==
  ASSUME TypeInv, TypeInv', [Next]_vars, Calms, UNCHANGED <<table, lost>>, calm' \subseteq calm,
         \/ UNCHANGED <<outbound, thread, toServer, toPylon>>
         \/ \E p \in Pylons : Read(p),
         \A m \in calm', p \in Pylons : Awaits(m, p) => where'[m.to] = where[m.to],
         \A q \in Pylons : Connected(q) => Connected(q)'
  PROVE  Calms'
<1>1. PICK f : Flow(f, {}, {}) BY FlowQuiet
<1> SUFFICES ASSUME NEW m \in calm' PROVE \E p \in Pylons : Awaits(m, p)' BY DEF Calms
<1>2. m \in calm /\ m \in Content BY TypeParts DEF HistoryTypes
<1>3. PICK p \in Pylons : Awaits(m, p) BY <1>2 DEF Calms
<1>4. m \notin lost' /\ where'[m.to] = where[m.to] /\ table'[m.to] = table[m.to] BY <1>3 DEF Awaits
<1> QED BY <1>1, <1>2, <1>3, <1>4, AwaitsFlow

LEMMA CalmsEmpty == calm' = {} => Calms'
BY DEF Calms

\* A message in a calm, and where it is awaited.
LEMMA CalmFacts ==
  ASSUME TypeInv, Calms, NEW m \in calm
  PROVE  /\ m \in Content /\ m \in Message /\ m.to \in Entities
         /\ \E p \in Pylons : Awaits(m, p)
<1>1. m \in Content BY TypeParts DEF HistoryTypes
<1> QED BY <1>1, MessageKinds DEF Calms, Message

\* Nobody drops it: where it is told to be delivered, the entity is registered.
LEMMA CalmLocal ==
  ASSUME TypeInv, Named, NEW m \in Content, NEW p \in Pylons, m.to \in Entities, Running(m.to, p)
  PROVE  /\ Local(p, m)
         /\ \A q \in Pylons : Local(q, m) /\ q \notin suspended => q = p
<1>1. m.to \in receivers[p] BY DEF Named, Present, Running
<1>2. m.kind \in {"wave", "agent"} BY MessageKinds
<1>3. ASSUME NEW q \in Pylons, Local(q, m), q \notin suspended PROVE q = p
  <2>1. m.to \in receivers[q] BY <1>3 DEF Local
  <2> QED BY <1>3, <2>1 DEF Named, Listed, Dead, Running
<1> QED BY <1>1, <1>2, <1>3 DEF Local

LEMMA CalmsServeOutbound ==
  ASSUME TypeInv, TypeInv', [Next]_vars, Named, Calms, NEW p \in Pylons, ServeOutbound(p)
  PROVE  Calms'
<1> DEFINE o == <<"stream", p, Served(p) + 1>>
           n == <<"pipe", p, 1>>
<1>1. /\ o \in Spots /\ ~Written(o) /\ UNCHANGED <<where, pylon, table, calm, received>> /\ p \notin suspended
      /\ \/ /\ Local(p, Item(o)) /\ UNCHANGED lost /\ n \in Spots' /\ Item(n)' = Item(o) /\ \E f : Flow(f, {n}, {o})
         \/ /\ conn[p] = "open" /\ UNCHANGED lost
            /\ Spots' = Spots /\ (\A s \in Spots : Item(s)' = Item(s))
            /\ \A s \in Spots : Written(s)' <=> Written(s) \/ s = o
         \/ conn[p] # "open" /\ Drop(Item(o)) /\ \E f : Flow(f, {}, {o})
  BY FlowServeOutbound DEF agents
<1>2. o[1] = "stream" /\ o[2] = p /\ n[1] = "pipe" /\ n[2] = p OBVIOUS
<1> HIDE DEF o, n
<1>3. \A q \in Pylons : Connected(q)' <=> Connected(q) BY <1>1, SameConnected
<1> SUFFICES ASSUME NEW m \in calm PROVE \E q \in Pylons : Awaits(m, q)' BY <1>1 DEF Calms
<1>4. m \in Content /\ m.to \in Entities BY CalmFacts
<1>5. PICK q \in Pylons : Awaits(m, q) BY CalmFacts
<1>6. ASSUME Local(p, Item(o)), UNCHANGED lost, n \in Spots', Item(n)' = Item(o), NEW f, Flow(f, {n}, {o})
      PROVE  Awaits(m, q)'
  <2>1. ~(Tells(n, m.to, q)') BY <1>2 DEF Tells, On
  <2>2. Item(n)' = m => Fits(n, q)'
    <3>1. Item(n)' = m => p = q BY <1>1, <1>4, <1>5, <1>6, CalmLocal DEF Awaits
    <3> QED BY <1>2, <3>1 DEF Fits
  <2>3. m \notin lost' BY <1>5, <1>6 DEF Awaits
  <2> QED BY <1>1, <1>3, <1>4, <1>5, <1>6, <2>1, <2>2, <2>3, AwaitsFlow
<1>7. ASSUME conn[p] = "open", UNCHANGED lost, Spots' = Spots, \A s \in Spots : Item(s)' = Item(s),
             \A s \in Spots : Written(s)' <=> Written(s) \/ s = o
      PROVE  Awaits(m, q)'
  <2>1. \A s \in Spots : Tells(s, m.to, q)' <=> Tells(s, m.to, q) BY <1>7 DEF Tells, On
  <2>2. \A s \in Spots : s[2] \in Pylons BY TypeParts, SpotFacts
  <2>3. \A s \in Spots : Fits(s, q) => Fits(s, q)' BY <1>3, <1>7, <2>2 DEF Fits
  <2>4. Known(m)' BY <1>4, <1>5, KnownNext DEF Awaits
  <2>5. Running(m.to, q)' /\ table'[m.to] = q BY <1>1, <1>3, <1>5 DEF Awaits, Running
  <2>6. \A s \in Spots' : ~(Tells(s, m.to, q)') BY <1>5, <1>7, <2>1 DEF Awaits
  <2>7. \A s \in Spots' : Item(s)' = m => Fits(s, q)' BY <1>5, <1>7, <2>3 DEF Awaits
  <2>8. m \in Wave => Reached(m)' \/ \E s \in Spots' : Item(s)' = m BY <1>1, <1>5, <1>7 DEF Awaits, Reached
  <2>9. m \notin lost' BY <1>5, <1>7 DEF Awaits
  <2> QED BY <2>4, <2>5, <2>6, <2>7, <2>8, <2>9 DEF Awaits
<1>8. ASSUME conn[p] # "open", Drop(Item(o)), NEW f, Flow(f, {}, {o}) PROVE Awaits(m, q)'
  <2>1. Item(o) # m BY <1>1, <1>2, <1>5, <1>8 DEF Awaits, Fits, Connected
  <2>2. m \notin lost' BY <1>5, <1>8, <2>1 DEF Awaits, Drop
  <2> QED BY <1>1, <1>3, <1>4, <1>5, <1>8, <2>1, <2>2, AwaitsFlow
<1> QED BY <1>1, <1>6, <1>7, <1>8

LEMMA CalmsServeInbound ==
  ASSUME TypeInv, TypeInv', [Next]_vars, Named, Calms, NEW p \in Pylons, ServeInbound(p)
  PROVE  Calms'
<1> DEFINE o == <<"pipe", p, 1>>
<1>1. /\ UNCHANGED <<where, pylon, table, calm>> /\ o \in Spots
      /\ \/ UNCHANGED lost /\ \E f : Flow(f, {}, {})
         \/ ~Local(p, Item(o)) /\ Drop(Item(o)) /\ \E f : Flow(f, {}, {o})
  BY FlowServeInbound DEF agents
<1>2. o[1] = "pipe" /\ o[2] = p OBVIOUS
<1> HIDE DEF o
<1>3. \A q \in Pylons : Connected(q)' <=> Connected(q) BY <1>1, SameConnected
<1> SUFFICES ASSUME NEW m \in calm PROVE \E q \in Pylons : Awaits(m, q)' BY <1>1 DEF Calms
<1>4. m \in Content /\ m.to \in Entities BY CalmFacts
<1>5. PICK q \in Pylons : Awaits(m, q) BY CalmFacts
<1>6. ASSUME UNCHANGED lost, NEW f, Flow(f, {}, {}) PROVE Awaits(m, q)'
  <2>1. m \notin lost' BY <1>5, <1>6 DEF Awaits
  <2> QED BY <1>1, <1>3, <1>4, <1>5, <1>6, <2>1, AwaitsFlow
<1>7. ASSUME ~Local(p, Item(o)), Drop(Item(o)), NEW f, Flow(f, {}, {o}) PROVE Awaits(m, q)'
  <2>1. ASSUME Item(o) = m PROVE FALSE
    <3>1. p = q BY <1>1, <1>2, <1>5, <2>1 DEF Awaits, Fits
    <3> QED BY <1>4, <1>5, <1>7, <2>1, <3>1, CalmLocal DEF Awaits
  <2>2. m \notin lost' BY <1>5, <1>7, <2>1 DEF Awaits, Drop
  <2> QED BY <1>1, <1>3, <1>4, <1>5, <1>7, <2>1, <2>2, AwaitsFlow
<1> QED BY <1>1, <1>6, <1>7

LEMMA CalmsDeliver ==
  ASSUME TypeInv, TypeInv', [Next]_vars, Copies, Named, Calms, NEW p \in Pylons, Deliver(p)
  PROVE  Calms'
<1> DEFINE o == <<"pipe", p, 1>>
<1>1. o \in Spots /\ Item(o) = serving[p] /\ o[1] = "pipe" /\ o[2] = p /\ \E f : Flow(f, {}, {o}) BY FlowDeliver
<1> HIDE DEF o
<1>2. PICK f : Flow(f, {}, {o}) BY <1>1
<1>3. UNCHANGED <<pylon, table, calm>> /\ serving[p] \in Content BY DeliverCases DEF network
<1>4. \A q \in Pylons : Connected(q)' <=> Connected(q) BY <1>3, SameConnected
<1> SUFFICES ASSUME NEW m \in calm PROVE \E q \in Pylons : Awaits(m, q)' BY <1>3 DEF Calms
<1>5. m \in Content /\ m.to \in Entities BY CalmFacts
<1>6. PICK q \in Pylons : Awaits(m, q) BY CalmFacts
<1>7. where'[m.to] = where[m.to]
  <2>1. CASE UNCHANGED where BY <2>1
  <2>2. ASSUME serving[p] \in Transit, where' = [where EXCEPT ![serving[p].from] = [step |-> "putting", node |-> p]]
        PROVE  where'[m.to] = where[m.to]
    <3>1. serving[p].from \in Entities /\ where[serving[p].from].step = "away" BY <1>1, <2>2, CarriedAway
    <3>2. \A x \in Entities : x # serving[p].from => where'[x] = where[x]
      BY <2>2, <3>1, TypeParts, GoesTo DEF Steps
    <3> QED BY <1>5, <1>6, <3>1, <3>2 DEF Awaits, Running
  <2> QED BY <2>1, <2>2, DeliverCases
<1>8. CASE Item(o) # m
  <2>1. m \notin lost' BY <1>1, <1>6, <1>8, DeliverCases DEF Awaits, Drop
  <2> QED BY <1>2, <1>3, <1>4, <1>5, <1>6, <1>7, <1>8, <2>1, AwaitsFlow
<1>9. CASE Item(o) = m
  <2>1. p = q BY <1>1, <1>6, <1>9 DEF Awaits, Fits
  <2>2. Local(p, serving[p]) BY <1>1, <1>5, <1>6, <1>9, <2>1, CalmLocal DEF Awaits
  <2>3. ~Refuses(m.to, p) BY <1>6 DEF Awaits, Running, Refuses, At
  <2>4. m \notin lost' /\ (m \in Wave => received' = [received EXCEPT ![m.to] = Append(@, [wave |-> m, by |-> p])])
    <3>1. /\ Receive(p, m) BY <1>1, <1>9, <2>2 DEF Deliver
    <3>2. m \in Wave => m.kind = "wave" /\ m.kind # "agent" BY WaveFields
    <3> QED BY <1>6, <2>3, <3>1, <3>2 DEF Receive, Awaits
  <2>5. m \in Wave => Reached(m)'
    <3> SUFFICES ASSUME m \in Wave PROVE Reached(m)' OBVIOUS
    <3>1. PICK b \in Agents : b = m.to BY WaveFields
    <3>2. PICK r \in Receipt : r = [wave |-> m, by |-> p] BY DEF Receipt
    <3>3. received \in [Agents -> Seq(Receipt)] /\ received' = [received EXCEPT ![b] = Append(@, r)]
      BY <2>4, <3>1, <3>2, TypeParts DEF HistoryTypes
    <3>4. received[b] \in Seq(Receipt) /\ received'[b] = Append(received[b], r) BY <3>3
    <3>5. PICK i : i = Len(received[b]) + 1 OBVIOUS
    <3>6. i \in DOMAIN received'[b] /\ received'[b][i] = r BY <3>4, <3>5
    <3> QED BY <3>1, <3>2, <3>6 DEF Reached
  <2> QED BY <1>2, <1>3, <1>4, <1>5, <1>6, <1>7, <2>4, <2>5, AwaitsFlow
<1> QED BY <1>8, <1>9

\* What the server looks up for a message that is awaited.
LEMMA RouteCases ==
  ASSUME TypeInv, TypeInv', NEW p \in Pylons, Server(p)
  PROVE  LET o == <<"stream", p, 1>>
         IN  /\ o \in Spots /\ Written(o) /\ Item(o) = Incoming(p) /\ o[1] = "stream" /\ o[2] = p
             /\ \/ \E f : /\ Flow(f, {}, {o}) /\ UNCHANGED lost /\ Incoming(p) \in Registration /\ Incoming(p).kind \in {"reg", "unreg"}
                          /\ table' = [table EXCEPT ![Incoming(p).from] = IF Incoming(p).kind = "reg" THEN p ELSE IF @ = p THEN Nobody ELSE @]
                \/ \E f : /\ Flow(f, {}, {o}) /\ Drop(Incoming(p)) /\ UNCHANGED table /\ Incoming(p) \in Content
                          /\ table[Incoming(p).to] = Nobody \/ conn[table[Incoming(p).to]] # "open"
                \/ \E n \in Spots' : /\ UNCHANGED <<lost, table>> /\ Incoming(p) \in Content
                                     /\ n[1] = "pipe" /\ n[2] = table[Incoming(p).to] /\ Item(n)' = Incoming(p)
                                     /\ \E f : Flow(f, {n}, {o})
<1> DEFINE o == <<"stream", p, 1>>
<1>1. o \in Spots /\ Written(o) /\ Item(o) = Incoming(p) /\ o[1] = "stream" /\ o[2] = p BY FlowServer
<1>2. \/ UNCHANGED toPylon /\ \E f : Flow(f, {}, {o})
      \/ \E q \in Pylons : \E n \in Spots' :
            /\ table[Incoming(p).to] = q /\ conn[q] = "open" /\ Incoming(p) \in Content
            /\ n[1] = "pipe" /\ n[2] = q /\ Item(n)' = Incoming(p)
            /\ \E f : Flow(f, {n}, {o})
  <2>1. CASE UNCHANGED toPylon /\ \E f : Flow(f, {}, {o}) BY <2>1
  <2>2. ASSUME NEW q \in Pylons, NEW n \in Spots',
               table[Incoming(p).to] = q, conn[q] = "open", Incoming(p) \in Content,
               n = <<"pipe", q, Len(Pipe(q)) + 1>>, Item(n)' = Incoming(p), \E f : Flow(f, {n}, {o})
        PROVE  \E r \in Pylons : \E x \in Spots' :
                  /\ table[Incoming(p).to] = r /\ conn[r] = "open" /\ Incoming(p) \in Content
                  /\ x[1] = "pipe" /\ x[2] = r /\ Item(x)' = Incoming(p)
                  /\ \E f : Flow(f, {x}, {o})
    <3>1. n[1] = "pipe" /\ n[2] = q BY <2>2
    <3> QED BY <2>2, <3>1
  <2> HIDE DEF o
  <2> QED BY <2>1, <2>2, FlowServer DEF o
<1> HIDE DEF o
<1>3. CASE UNCHANGED toPylon /\ \E f : Flow(f, {}, {o})
  <2>1. PICK f : Flow(f, {}, {o}) BY <1>3
  <2>2. CASE Incoming(p) \in Registration /\ Incoming(p).kind \in {"reg", "unreg"}
    <3>1. Incoming(p) \notin Content BY <2>2, MessageKinds
    <3>2. /\ table' = [table EXCEPT ![Incoming(p).from] = IF Incoming(p).kind = "reg" THEN p ELSE IF @ = p THEN Nobody ELSE @]
          /\ UNCHANGED lost
      BY <2>2, <3>1, ServerCases
    <3> QED BY <1>1, <2>1, <2>2, <3>2 DEF o
  <2>3. CASE Incoming(p) \in Content
    <3>0. Incoming(p).kind \notin {"reg", "unreg"} BY <2>3, MessageKinds
    <3>1. ASSUME NEW q \in Pylons, toPylon' = [toPylon EXCEPT ![q] = Append(@, Incoming(p))] PROVE FALSE
      <4>1. toPylon[q] \in Seq(Content) /\ toPylon \in [Pylons -> Seq(Content)]
        BY TypeParts, LineFacts DEF LineTypes
      <4>2. toPylon[q] = Append(toPylon[q], Incoming(p)) BY <1>3, <3>1, <4>1
      <4>3. Len(Append(toPylon[q], Incoming(p))) = Len(toPylon[q]) + 1 /\ Len(toPylon[q]) \in Nat BY <2>3, <4>1
      <4> QED BY <4>2, <4>3
    <3>2. UNCHANGED table /\ Drop(Incoming(p)) /\ (table[Incoming(p).to] = Nobody \/ conn[table[Incoming(p).to]] # "open")
      BY <2>3, <3>0, <3>1, ServerCases
    <3> QED BY <1>1, <2>1, <2>3, <3>2 DEF o
  <2> QED BY <2>2, <2>3, ServerCases
<1>4. ASSUME NEW q \in Pylons, NEW n \in Spots', table[Incoming(p).to] = q, conn[q] = "open", Incoming(p) \in Content,
             n[1] = "pipe", n[2] = q, Item(n)' = Incoming(p), \E f : Flow(f, {n}, {o})
      PROVE  \E x \in Spots' : /\ UNCHANGED <<lost, table>> /\ Incoming(p) \in Content
                               /\ x[1] = "pipe" /\ x[2] = table[Incoming(p).to] /\ Item(x)' = Incoming(p)
                               /\ \E f : Flow(f, {x}, {o})
  <2>1. q # Nobody /\ Incoming(p).kind \notin {"reg", "unreg"}
    BY <1>4, NobodyAssumption, MessageKinds DEF Entities
  <2>2. UNCHANGED <<lost, table>> BY <1>4, <2>1, ServerCases
  <2> QED BY <1>4, <2>2
<1> QED BY <1>1, <1>2, <1>3, <1>4 DEF o

LEMMA CalmsServer ==
  ASSUME TypeInv, TypeInv', [Next]_vars, Announced, Calms, NEW p \in Pylons, Server(p)
  PROVE  Calms'
<1>1. UNCHANGED <<where, pylon, calm>> BY ServerCases DEF agents
<1> DEFINE o == <<"stream", p, 1>>
<1>2. /\ o \in Spots /\ Written(o) /\ Item(o) = Incoming(p) /\ o[1] = "stream" /\ o[2] = p
      /\ \/ \E f : /\ Flow(f, {}, {o}) /\ UNCHANGED lost /\ Incoming(p) \in Registration /\ Incoming(p).kind \in {"reg", "unreg"}
                   /\ table' = [table EXCEPT ![Incoming(p).from] = IF Incoming(p).kind = "reg" THEN p ELSE IF @ = p THEN Nobody ELSE @]
         \/ \E f : /\ Flow(f, {}, {o}) /\ Drop(Incoming(p)) /\ UNCHANGED table /\ Incoming(p) \in Content
                   /\ table[Incoming(p).to] = Nobody \/ conn[table[Incoming(p).to]] # "open"
         \/ \E n \in Spots' : /\ UNCHANGED <<lost, table>> /\ Incoming(p) \in Content
                              /\ n[1] = "pipe" /\ n[2] = table[Incoming(p).to] /\ Item(n)' = Incoming(p)
                              /\ \E f : Flow(f, {n}, {o})
  BY RouteCases
<1> HIDE DEF o
<1>3. \A q \in Pylons : Connected(q)' <=> Connected(q) BY <1>1, SameConnected
<1> SUFFICES ASSUME NEW m \in calm PROVE \E q \in Pylons : Awaits(m, q)' BY <1>1 DEF Calms
<1>4. m \in Content /\ m.to \in Entities BY CalmFacts
<1>5. PICK q \in Pylons : Awaits(m, q) BY CalmFacts
<1>6. ASSUME NEW f, Flow(f, {}, {o}), UNCHANGED lost, Incoming(p) \in Registration, Incoming(p).kind \in {"reg", "unreg"},
             table' = [table EXCEPT ![Incoming(p).from] = IF Incoming(p).kind = "reg" THEN p ELSE IF @ = p THEN Nobody ELSE @]
      PROVE  Awaits(m, q)'
  <2>1. m \notin lost' /\ Item(o) # m BY <1>2, <1>4, <1>5, <1>6, MessageKinds DEF Awaits
  <2>2. table \in [Entities -> Pylons \cup {Nobody}] /\ table[m.to] = q BY <1>5, TypeParts DEF NameTypes, Awaits
  <2>3. table'[m.to] = table[m.to]
    <3>1. CASE Incoming(p).from # m.to BY <1>4, <1>6, <2>2, <3>1
    <3>2. CASE Incoming(p).from = m.to
      <4>1. p # q
        <5>1. ~Tells(o, m.to, q) BY <1>2, <1>5 DEF Awaits
        <5> QED BY <1>2, <1>6, <3>2, <5>1 DEF Tells, On
      <4>2. Incoming(p).kind = "unreg"
        <5>1. ASSUME Incoming(p).kind = "reg" PROVE FALSE
          <6>1. Reg(o) BY <1>2, <5>1 DEF Reg, Active
          <6>2. p = where[m.to].node BY <1>2, <3>2, <6>1 DEF Announced, Registers
          <6> QED BY <1>5, <4>1, <6>2 DEF Awaits, Running
        <5> QED BY <1>6, <5>1
      <4> QED BY <1>4, <1>6, <2>2, <3>2, <4>1, <4>2
    <3> QED BY <3>1, <3>2
  <2> QED BY <1>1, <1>3, <1>4, <1>5, <1>6, <2>1, <2>3, AwaitsFlow
<1>7. ASSUME NEW f, Flow(f, {}, {o}), Drop(Incoming(p)), UNCHANGED table, Incoming(p) \in Content,
             table[Incoming(p).to] = Nobody \/ conn[table[Incoming(p).to]] # "open"
      PROVE  Awaits(m, q)'
  <2>1. Item(o) # m
    <3>1. q # Nobody BY NobodyAssumption DEF Entities
    <3>2. table[m.to] = q /\ conn[q] = "open" BY <1>5 DEF Awaits, Running, Connected
    <3> QED BY <1>2, <1>7, <3>1, <3>2
  <2>2. m \notin lost' BY <1>2, <1>5, <1>7, <2>1 DEF Awaits, Drop
  <2> QED BY <1>1, <1>3, <1>4, <1>5, <1>7, <2>1, <2>2, AwaitsFlow
<1>8. ASSUME NEW n \in Spots', UNCHANGED <<lost, table>>, Incoming(p) \in Content,
             n[1] = "pipe", n[2] = table[Incoming(p).to], Item(n)' = Incoming(p), NEW f, Flow(f, {n}, {o})
      PROVE  Awaits(m, q)'
  <2>1. ~(Tells(n, m.to, q)') BY <1>8 DEF Tells, On
  <2>2. Item(n)' = m => Fits(n, q)' BY <1>5, <1>8 DEF Awaits, Fits
  <2>3. m \notin lost' BY <1>5, <1>8 DEF Awaits
  <2> QED BY <1>1, <1>2, <1>3, <1>4, <1>5, <1>8, <2>1, <2>2, <2>3, AwaitsFlow
<1> QED BY <1>2, <1>6, <1>7, <1>8

\* A pylon is told: what it awaits, and who runs, stays.
LEMMA CalmsTell ==
  ASSUME TypeInv, TypeInv', [Next]_vars, Calms, NEW f, NEW n, Flow(f, {n}, {}), UNCHANGED <<pylon, table, lost, calm>>,
         NEW e \in Entities, Item(n)' \notin Content, Item(n)'.from = e, NEW p \in Pylons, On(n, "stream", p),
         where[e].step # "in" \/ where[e].node # p,
         \A x \in Entities : where[x].step = "in" => where'[x] = where[x]
  PROVE  Calms'
<1> SUFFICES ASSUME NEW m \in calm PROVE \E q \in Pylons : Awaits(m, q)' BY DEF Calms
<1>1. m \in Content /\ m.to \in Entities BY CalmFacts
<1>2. PICK q \in Pylons : Awaits(m, q) BY CalmFacts
<1>3. where[m.to].step = "in" /\ where[m.to].node = q /\ m \notin lost BY <1>2 DEF Awaits, Running
<1>4. ~(Tells(n, m.to, q)') BY <1>1, <1>3 DEF Tells, On
<1> QED BY <1>1, <1>2, <1>3, <1>4, SameConnected, AwaitsFlow

LEMMA CalmsAdd ==
  ASSUME TypeInv, TypeInv', [Next]_vars, Calms, NEW e \in Entities, Add(e)
  PROVE  Calms'
<1> DEFINE r == [kind |-> "reg", from |-> e]
<1>1. /\ where[e].step = "adding" /\ Goes(e, "in") /\ r.kind = "reg" /\ r.from = e
      /\ outbound' = [outbound EXCEPT ![where[e].node] = Append(@, r)] /\ UNCHANGED <<pylon, thread, network, table, lost, calm>>
  BY DEF Add, network, history
<1>2. where[e].node \in Pylons /\ r \in Message BY TypeParts, WhereFacts, RegistrationFields, MessageKinds
<1> HIDE DEF r
<1>3. r \notin Content BY <1>1, MessageKinds
<1>4. PICK n \in Spots' : On(n, "stream", where[e].node) /\ Item(n)' = r /\ \E f : Flow(f, {n}, {})
  BY <1>1, <1>2, FlowAppend
<1>5. \A x \in Entities : where[x].step = "in" => where'[x] = where[x] BY <1>1, TypeParts, GoesOn DEF Steps
<1> QED BY <1>1, <1>2, <1>3, <1>4, <1>5, CalmsTell

LEMMA CalmsStopCopy ==
  ASSUME TypeInv, TypeInv', [Next]_vars, Calms, NEW a \in Agents, StopCopy(a)
  PROVE  Calms'
<1> DEFINE u == [kind |-> "unreg", from |-> a]
<1>1. PICK p \in Pylons :
          /\ p # where[a].node /\ outbound' = [outbound EXCEPT ![p] = Append(@, u)]
          /\ UNCHANGED <<pylon, thread, network, agents, history>>
  BY DEF StopCopy
<1>2. /\ u \in Message /\ UNCHANGED <<where, table, pylon, lost, calm>> /\ u.kind = "unreg" /\ u.from = a /\ a \in Entities
  BY <1>1, RegistrationFields, MessageKinds DEF Entities, agents, network, history
<1> HIDE DEF u
<1>3. u \notin Content BY <1>2, MessageKinds
<1>4. PICK n \in Spots' : On(n, "stream", p) /\ Item(n)' = u /\ \E f : Flow(f, {n}, {})
  BY <1>1, <1>2, FlowAppend
<1> QED BY <1>1, <1>2, <1>3, <1>4, CalmsTell

LEMMA SettledFacts ==
  ASSUME TypeInv, NEW e \in Entities, Settled(e)
  PROVE  \E p \in Pylons : Running(e, p) /\ table[e] = p /\ \A t \in Spots : ~Tells(t, e, p)
<1>1. PICK p \in Pylons : p = where[e].node BY TypeParts, WhereFacts
<1>2. ASSUME NEW t \in Spots, Tells(t, e, p) PROVE FALSE
  <2>1. t[1] = "stream" /\ t[2] = p /\ Item(t).kind \in {"reg", "unreg"} /\ Item(t).from = e /\ Item(t) \in Registration
    BY <1>2, TypeParts, SpotFacts, MessageKinds DEF Tells, On
  <2>2. Item(t) = [kind |-> Item(t).kind, from |-> e] BY <2>1 DEF Registration
  <2>3. InSeq(outbound[p], Item(t)) \/ InSeq(toServer[p], Item(t)) BY <2>1, TypeParts, InALine
  <2>4. PICK k \in {"reg", "unreg"} : k = Item(t).kind BY <2>1
  <2> QED BY <2>2, <2>3, <2>4 DEF Registering, Settled
<1>3. Running(e, p) /\ table[e] = p BY <1>1 DEF Settled, Running
<1> QED BY <1>2, <1>3

\* A message that is new, to somebody who is settled.
LEMMA CalmBegins ==
  ASSUME TypeInv, TypeInv', Copies, NEW m \in Content, ~Known(m), Known(m)', UNCHANGED <<pylon, table, lost>>, m.to \in Entities,
         NEW p \in Pylons, Connected(p), Settled(m.to), where'[m.to] = where[m.to],
         NEW n \in Spots', Item(n)' = m, On(n, "stream", p),
         NEW f, NEW N, Flow(f, N, {}), \A x \in N : x = n \/ (Item(x)' # m /\ Item(x)'.from # m.to)
  PROVE  \E q \in Pylons : Awaits(m, q)'
<1>1. PICK q \in Pylons : Running(m.to, q) /\ table[m.to] = q /\ \A t \in Spots : ~Tells(t, m.to, q)
  BY SettledFacts
<1>2. Running(m.to, q)' /\ table'[m.to] = q /\ Connected(p)' BY <1>1, SameConnected DEF Running
<1>3. m \notin lost' BY DEF Copies, LostKnown
<1>4. ASSUME NEW t \in Spots' PROVE ~(Tells(t, m.to, q)') /\ (Item(t)' = m => t = n)
  <2>1. CASE t \in N
    <3>1. m.kind \notin {"reg", "unreg"} BY MessageKinds
    <3> QED BY <2>1, <3>1 DEF Tells
  <2>2. CASE t \notin N
    <3>1. PICK e : e = m.to OBVIOUS
    <3>2. f[t] \in Spots /\ (Tells(t, e, q)' <=> Tells(f[t], e, q)) /\ Item(t)' = Item(f[t]) BY <2>2, TellsFlow
    <3>3. Item(f[t]) # m BY <3>2 DEF Copies, Sent
    <3> QED BY <1>1, <3>1, <3>2, <3>3
  <2> QED BY <2>1, <2>2
<1>5. Fits(n, q)' BY <1>2 DEF Fits, On
<1> QED BY <1>2, <1>3, <1>4, <1>5 DEF Awaits

LEMMA CalmsSend ==
  ASSUME TypeInv, TypeInv', [Next]_vars, Copies, Calms, NEW a \in Agents, Send(a)
  PROVE  Calms'
<1>1. PICK p \in Pylons : p = where[a].node BY SendSends
<1>2. /\ UNCHANGED <<where, pylon, thread, network, table, lost>>
      /\ \E m \in Wave : /\ m.from = a /\ m.nr = count[a] + 1
                         /\ outbound' = [outbound EXCEPT ![p] = Append(@, m)]
                         /\ calm' = IF Settled(m.to) /\ Connected(p) THEN calm \cup {m} ELSE calm
      /\ count' = [count EXCEPT ![a] = @ + 1]
  BY <1>1, SendSends DEF network
<1>3. PICK m \in Wave : /\ m.from = a /\ m.nr = count[a] + 1
                        /\ outbound' = [outbound EXCEPT ![p] = Append(@, m)]
                        /\ calm' = IF Settled(m.to) /\ Connected(p) THEN calm \cup {m} ELSE calm
  BY <1>2
<1>4. m \in Content /\ m \in Message /\ m.kind = "wave" /\ m.to \in Entities
  BY WaveFields DEF Content, Message, Entities
<1>5. PICK n \in Spots' : On(n, "stream", p) /\ Item(n)' = m /\ \E f : Flow(f, {n}, {})
  BY <1>2, <1>3, <1>4, FlowAppend
<1>6. PICK f : Flow(f, {n}, {}) BY <1>5
<1>7. ~Known(m) /\ Known(m)'
  <2>1. count \in [Agents -> Nat] BY TypeParts DEF CountTypes
  <2>2. count[a] \in Nat /\ count'[a] = count[a] + 1 BY <1>2, <2>1
  <2> QED BY <1>3, <1>4, <2>2 DEF Known
<1>8. ASSUME NEW x \in calm PROVE \E q \in Pylons : Awaits(x, q)'
  <2>1. x \in Content /\ x.to \in Entities BY <1>8, CalmFacts
  <2>2. PICK q \in Pylons : Awaits(x, q) BY <1>8, CalmFacts
  <2>3. x # m /\ x \notin lost' BY <1>2, <1>7, <2>2 DEF Awaits
  <2>4. ~(Tells(n, x.to, q)') /\ Item(n)' # x BY <1>4, <1>5, <2>3 DEF Tells
  <2> QED BY <1>2, <1>6, <2>1, <2>2, <2>3, <2>4, SameConnected, AwaitsFlow
<1>9. ASSUME Settled(m.to), Connected(p) PROVE \E q \in Pylons : Awaits(m, q)'
  <2>1. \A x \in {n} : x = n \/ (Item(x)' # m /\ Item(x)'.from # m.to) OBVIOUS
  <2> QED BY <1>2, <1>4, <1>5, <1>6, <1>7, <1>9, <2>1, CalmBegins
<1> QED BY <1>3, <1>8, <1>9 DEF Calms

LEMMA CalmsLeave ==
  ASSUME TypeInv, TypeInv', [Next]_vars, Copies, Calms, NEW a \in Agents, Leave(a)
  PROVE  Calms'
<1>1. PICK p \in Pylons : p = where[a].node BY LeaveSends
<1>2. /\ a \in Entities /\ where[a].step = "removed" /\ Goes(a, "away") /\ UNCHANGED <<pylon, thread, network, table, moved, lost>>
  BY LeaveSends DEF network
<1> DEFINE u == [kind |-> "unreg", from |-> a]
<1>3. \E m \in Transit : /\ m.from = a /\ m.nr = moved[a] /\ u \in Registration
                         /\ outbound' = [outbound EXCEPT ![p] = @ \o <<u, m>>]
                         /\ calm' = IF Settled(m.to) /\ Connected(p) THEN calm \cup {m} ELSE calm
  <2>1. PICK q \in Destinations(where[a].node) : \E m \in Transit :
             /\ m.from = a /\ m.nr = moved[a] /\ m.to = q /\ q \in Pylons
             /\ u \in Registration
             /\ outbound' = [outbound EXCEPT ![where[a].node] = @ \o <<u, m>>]
             /\ calm' = IF Settled(q) /\ Connected(where[a].node) THEN calm \cup {m} ELSE calm
    BY LeaveSends
  <2> HIDE DEF u
  <2> QED BY <1>1, <2>1
<1>4. u.kind = "unreg" /\ u.from = a OBVIOUS
<1> HIDE DEF u
<1>5. PICK m \in Transit : /\ m.from = a /\ m.nr = moved[a] /\ u \in Registration
                           /\ outbound' = [outbound EXCEPT ![p] = @ \o <<u, m>>]
                           /\ calm' = IF Settled(m.to) /\ Connected(p) THEN calm \cup {m} ELSE calm
  BY <1>3
<1>6. m \in Message /\ m \in Content /\ u \in Message /\ m.to \in Entities /\ m.to # a /\ m.kind = "agent" /\ u \notin Content
  BY <1>4, <1>5, TransitFields, MessageKinds, NamesAssumption DEF Message, Content, Entities
<1>7. PICK n \in Spots', x \in Spots' :
          /\ On(n, "stream", p) /\ ~Written(n)' /\ Item(n)' = m
          /\ On(x, "stream", p) /\ ~Written(x)' /\ Item(x)' = u /\ x[3] + 1 = n[3]
          /\ \A s \in Spots' : On(s, "stream", p) => s[3] <= n[3]
          /\ Spots' = Spots \cup {x, n} /\ \E f : Flow(f, {x, n}, {})
  <2>1. Farewell(p, u, m) BY <1>2, <1>5 DEF Farewell
  <2>2. PICK n \in Spots', x \in Spots' : FarewellAt(p, u, m, x, n) BY <1>6, <2>1, FlowLeave
  <2> QED BY <2>2 DEF FarewellAt
<1>8. PICK f : Flow(f, {x, n}, {}) BY <1>7
<1>9. where'[a].step = "away" /\ \A y \in Entities : y # a => where'[y] = where[y]
  BY <1>2, TypeParts, GoesOn DEF Steps
<1>10. ~Known(m) /\ Known(m)'
  <2>1. moved[a] \in Nat BY TypeParts DEF CountTypes
  <2> QED BY <1>2, <1>5, <1>6, <1>9, <2>1 DEF Known
<1>11. ASSUME NEW y \in calm PROVE \E q \in Pylons : Awaits(y, q)'
  <2>1. y \in Content /\ y.to \in Entities BY <1>11, CalmFacts
  <2>2. PICK q \in Pylons : Awaits(y, q) BY <1>11, CalmFacts
  <2>3. y # m /\ y \notin lost' /\ y.to # a /\ where'[y.to] = where[y.to]
    BY <1>2, <1>9, <1>10, <2>1, <2>2 DEF Awaits, Running
  <2>4. ~(Tells(n, y.to, q)') /\ ~(Tells(x, y.to, q)') /\ Item(n)' # y /\ Item(x)' # y
    BY <1>4, <1>6, <1>7, <2>1, <2>3 DEF Tells
  <2> QED BY <1>2, <1>8, <2>1, <2>2, <2>3, <2>4, SameConnected, AwaitsFlow
<1>12. ASSUME Settled(m.to), Connected(p) PROVE \E q \in Pylons : Awaits(m, q)'
  <2>1. \A y \in {x, n} : y = n \/ (Item(y)' # m /\ Item(y)'.from # m.to) BY <1>4, <1>6, <1>7
  <2>2. where'[m.to] = where[m.to] BY <1>6, <1>9
  <2> QED BY <1>2, <1>6, <1>7, <1>8, <1>10, <1>12, <2>1, <2>2, CalmBegins
<1> QED BY <1>5, <1>11, <1>12 DEF Calms

LEMMA CalmsInit == Init => Calms
BY DEF Init, Calms

LEMMA CalmsNext == TypeInv /\ TypeInv' /\ Copies /\ Named /\ Announced /\ Calms /\ [Next]_vars => Calms'
<1> SUFFICES ASSUME TypeInv, TypeInv', Copies, Named, Announced, Calms, [Next]_vars PROVE Calms' OBVIOUS
<1>0. \A m \in calm : m.to \in Entities BY CalmFacts
<1>1. CASE UNCHANGED vars
  <2>1. UNCHANGED <<table, lost, calm, outbound, thread, toServer, toPylon, where, pylon>>
    BY <1>1 DEF vars, network, agents, history
  <2> QED BY <2>1, SameConnected, CalmsQuiet
<1>2. ASSUME NEW p \in Pylons, Open(p) \/ Suspend(p) PROVE Calms'
  <2>1. UNCHANGED <<table, lost, calm, outbound, thread, toServer, toPylon, where>>
    BY <1>2 DEF Open, Suspend, network, agents, history
  <2>2. \A q \in Pylons : Connected(q) => Connected(q)'
    BY <1>2, TypeParts DEF Open, Suspend, Connected, PylonTypes
  <2> QED BY <2>1, <2>2, CalmsQuiet
<1>3. ASSUME NEW p \in Pylons, Stop(p) \/ Close(p) PROVE Calms' BY <1>3, CalmsEmpty DEF Stop, Close
<1>4. ASSUME NEW p \in Pylons, Read(p) PROVE Calms'
  <2>1. UNCHANGED <<table, lost, calm, where, pylon>> BY <1>4 DEF Read, agents, history
  <2> QED BY <1>4, <2>1, SameConnected, CalmsQuiet
<1>5. ASSUME NEW e \in Entities, where[e].step # "in", \A f \in Entities : f # e => where'[f] = where[f],
             UNCHANGED <<pylon, outbound, thread, toServer, toPylon, table, lost, calm>>
      PROVE  Calms'
  <2>1. \A m \in calm', p \in Pylons : Awaits(m, p) => where'[m.to] = where[m.to]
    BY <1>0, <1>5 DEF Awaits, Running
  <2> QED BY <1>5, <2>1, SameConnected, CalmsQuiet
<1>6. ASSUME NEW e \in Entities, Put(e) PROVE Calms' BY <1>5, <1>6, PutCases DEF network, history
<1>7. ASSUME NEW a \in Agents, Remove(a) PROVE Calms'
  <2>1. a \in Entities /\ Goes(a, "removed") /\ where[a].step = "stopping"
        /\ UNCHANGED <<pylon, outbound, thread, toServer, toPylon, table, lost, calm>>
    BY <1>7 DEF Remove, network, history, Entities
  <2>2. \A f \in Entities : f # a => where'[f] = where[f] BY <2>1, TypeParts, GoesOn DEF Steps
  <2> QED BY <1>5, <2>1, <2>2
<1>8. ASSUME NEW a \in Agents, PostMove(a) PROVE Calms'
  <2>1. /\ a \in Entities /\ Goes(a, "stopping") /\ calm' = {m \in calm : m.to # a}
        /\ UNCHANGED <<pylon, outbound, thread, toServer, toPylon, table, lost>>
    BY <1>8 DEF PostMove, network, Entities
  <2>2. \A f \in Entities : f # a => where'[f] = where[f] BY <2>1, TypeParts, GoesOn DEF Steps
  <2>3. \A m \in calm' : where'[m.to] = where[m.to] BY <1>0, <2>1, <2>2
  <2> QED BY <2>1, <2>3, SameConnected, CalmsQuiet
<1>9. ASSUME NEW a \in Agents, Restart(a) PROVE Calms'
  <2>1. PICK p \in Pylons : p = where[a].node BY TypeParts, WhereFacts DEF Entities
  <2>2. /\ a \in Entities /\ (where[a].step # "in" \/ ~Connected(p))
        /\ \A f \in Entities : f # a => where'[f] = where[f]
        /\ UNCHANGED <<pylon, outbound, thread, toServer, toPylon, table, lost, calm>>
    BY <1>9, <2>1, RestartGoes DEF Restart, Connected, network, history, Entities
  <2>3. \A m \in calm', q \in Pylons : Awaits(m, q) => where'[m.to] = where[m.to]
    BY <1>0, <2>1, <2>2 DEF Awaits, Running
  <2> QED BY <2>2, <2>3, SameConnected, CalmsQuiet
<1> QED BY <1>1, <1>2, <1>3, <1>4, <1>6, <1>7, <1>8, <1>9, CalmsServeOutbound, CalmsServeInbound, CalmsDeliver, CalmsServer,
    CalmsAdd, CalmsLeave, CalmsSend, CalmsStopCopy
    DEF Next

LEMMA InAPipe ==
  ASSUME LineTypes, NEW s \in Spots, s[1] = "pipe"
  PROVE  OnTheWay(Item(s))
<1>1. PICK p \in Pylons : p = s[2] BY SpotFacts
<1>2. PICK i \in 1 .. Len(Pipe(p)) : Item(s) = Pipe(p)[i] BY <1>1, SpotFacts, KindLines
<1>3. inbound[p] \in Seq(Content) /\ toPylon[p] \in Seq(Content) /\ Held(p) \in Nat BY LineFacts, HandFacts
<1>4. i \in Nat /\ Len(inbound[p]) \in Nat /\ Len(toPylon[p]) \in Nat /\ Len(Pipe(p)) = Held(p) + Len(inbound[p]) + Len(toPylon[p])
  BY <1>3, PipeFacts
<1>5. CASE i <= Held(p)
  <2>1. serving[p] = Pipe(p)[i] BY <1>4, <1>5, HandFacts, PipeFacts
  <2> QED BY <1>2, <2>1 DEF OnTheWay
<1>6. CASE i > Held(p) /\ i <= Held(p) + Len(inbound[p])
  <2>1. PICK j \in 1 .. Len(inbound[p]) : i = Held(p) + j
    <3>1. PICK h \in Nat, k \in Nat : h = Held(p) /\ k = Len(inbound[p]) BY <1>3, <1>4
    <3>2. i - h \in 1 .. k /\ i = h + (i - h) BY <1>4, <1>6, <3>1
    <3> QED BY <3>1, <3>2
  <2>2. Pipe(p)[Held(p) + j] = inbound[p][j] /\ j \in DOMAIN inbound[p] BY <1>3, <2>1, PipeFacts
  <2>3. InSeq(inbound[p], Item(s)) BY <1>2, <2>1, <2>2 DEF InSeq
  <2> QED BY <2>3 DEF OnTheWay
<1>7. CASE i > Held(p) + Len(inbound[p])
  <2>1. PICK j \in 1 .. Len(toPylon[p]) : i = Held(p) + Len(inbound[p]) + j
    <3>1. PICK h \in Nat, k \in Nat, l \in Nat : h = Held(p) /\ k = Len(inbound[p]) /\ l = Len(toPylon[p])
      BY <1>3, <1>4
    <3>2. i \in Nat /\ i > h + k /\ i <= h + k + l BY <1>4, <1>7, <3>1
    <3>3. i - (h + k) \in 1 .. l /\ i = h + k + (i - (h + k)) BY <3>2
    <3> QED BY <3>1, <3>3
  <2>2. Pipe(p)[Held(p) + Len(inbound[p]) + j] = toPylon[p][j] /\ j \in DOMAIN toPylon[p]
    BY <1>3, <2>1, PipeFacts
  <2>3. InSeq(toPylon[p], Item(s)) BY <1>2, <2>1, <2>2 DEF InSeq
  <2> QED BY <2>3 DEF OnTheWay
<1> QED BY <1>3, <1>4, <1>5, <1>6, <1>7

LEMMA CalmsArrive == TypeInv /\ Calms => CalmArrives
<1> SUFFICES ASSUME TypeInv, Calms, NEW m \in calm PROVE m \notin lost /\ (OnTheWay(m) \/ Arrived(m))
  BY DEF CalmArrives
<1>1. m \in Content BY CalmFacts
<1>2. PICK p \in Pylons : Awaits(m, p) BY CalmFacts
<1>3. m \notin lost BY <1>2 DEF Awaits
<1>4. CASE m.kind = "agent" BY <1>3, <1>4 DEF Arrived
<1>5. CASE m.kind # "agent"
  <2>1. m \in Wave BY <1>1, <1>5, TransitFields DEF Content
  <2>2. Reached(m) => Arrived(m) BY <1>5 DEF Reached, Arrived
  <2>3. ASSUME NEW s \in Spots, Item(s) = m PROVE OnTheWay(m)
    <3>1. s[1] \in Kinds /\ s[2] \in Pylons BY TypeParts, SpotFacts
    <3>2. CASE s[1] = "stream" BY <2>3, <3>1, <3>2, TypeParts, InALine DEF OnTheWay
    <3>3. CASE s[1] = "pipe" BY <2>3, <3>3, TypeParts, InAPipe
    <3> QED BY <3>1, <3>2, <3>3, KindLines
  <2>4. Reached(m) \/ \E s \in Spots : Item(s) = m BY <1>2, <2>1 DEF Awaits
  <2>5. OnTheWay(m) \/ Arrived(m) BY <2>2, <2>3, <2>4
  <2> QED BY <1>3, <2>5
<1> QED BY <1>3, <1>4, <1>5

\* A wave to an entity that the server knows, or an agent that is sent to such a
\* node, is not dropped while the connections hold and the entity stays: it is at a
\* place, or it has been taken (WebSocketPylon 363-406, WebSocketServerEntity 132-146).
THEOREM CalmMessagesArrive == Spec => []CalmArrives
<1> DEFINE Inv == TypeInv /\ Copies /\ Named /\ Announced /\ Calms
<1>1. Init => Inv BY TypeInvInit, CopiesInit, NamedInit, AnnouncedInit, CalmsInit
<1>2. Inv /\ [Next]_vars => Inv' BY TypeInvNext, CopiesNext, NamedNext, AnnouncedNext, CalmsNext
<1>3. Inv => CalmArrives BY CalmsArrive
<1> QED BY <1>1, <1>2, <1>3, PTL DEF Spec

-----------------------------------------------------------------------------
(* What a step keeps, whatever it writes to a socket.                      *)

LEMMA RunsFacts ==
  ASSUME NEW f, NEW N, NEW G, Runs(f, N, G), NEW s \in Spots' \ N
  PROVE  /\ f[s] \in Spots /\ f[s] \notin G /\ Item(s)' = Item(f[s]) /\ f[s][1] = s[1] /\ f[s][2] = s[2]
         /\ \A e : /\ Speaks(s, e)' <=> Speaks(f[s], e)
                   /\ Enters(s, e)' <=> Enters(f[s], e)
                   /\ Quits(s, e)' <=> Quits(f[s], e)
                   /\ Carries(s, e)' <=> Carries(f[s], e)
                   /\ WaveTo(s, e)' <=> WaveTo(f[s], e)
         /\ \A a, b : Between(s, a, b)' <=> Between(f[s], a, b)
<1>1. f[s] \in Spots /\ f[s] \notin G /\ Item(s)' = Item(f[s]) /\ f[s][1] = s[1] /\ f[s][2] = s[2]
  BY DEF Runs, Kept
<1>2. ASSUME NEW e
      PROVE  /\ Speaks(s, e)' <=> Speaks(f[s], e)
             /\ Enters(s, e)' <=> Enters(f[s], e)
             /\ Quits(s, e)' <=> Quits(f[s], e)
             /\ Carries(s, e)' <=> Carries(f[s], e)
             /\ WaveTo(s, e)' <=> WaveTo(f[s], e)
  BY <1>1 DEF Speaks, Enters, Quits, Carries, WaveTo
<1>3. ASSUME NEW a, NEW b PROVE Between(s, a, b)' <=> Between(f[s], a, b) BY <1>1, <1>2 DEF Between
<1> QED BY <1>1, <1>2, <1>3

LEMMA PlacesNext ==
  ASSUME NEW s \in Spots'
  PROVE  s[1] \in Kinds /\ s[2] \in Pylons /\ s[3] \in Nat /\ s = <<s[1], s[2], s[3]>>
<1>1. s \in Kinds \X Pylons \X Nat BY DEF Spots
<1> QED BY <1>1

LEMMA RunsOrder ==
  ASSUME LineTypes, NEW f, NEW N, NEW G, Runs(f, N, G)
  PROVE  /\ \A s, t \in Spots' \ N : s[1] = t[1] /\ s[2] = t[2] => (s[3] < t[3] <=> f[s][3] < f[t][3])
         /\ \A t \in Spots : t \notin G => \E s \in Spots' \ N : f[s] = t
         /\ \A s, t \in Spots' \ N : f[s] = f[t] => s = t
<1>1. /\ \A s, t \in Spots' \ N : s[1] = t[1] /\ s[2] = t[2] => (s[3] < t[3] <=> f[s][3] < f[t][3])
      /\ \A t \in Spots : t \notin G => \E s \in Spots' \ N : f[s] = t
  BY DEF Runs, Kept
<1>2. ASSUME NEW s \in Spots' \ N, NEW t \in Spots' \ N, f[s] = f[t] PROVE s = t
  <2>1. s[1] = t[1] /\ s[2] = t[2] /\ f[s][3] \in Nat
    <3>1. f[s] \in Spots /\ f[s][1] = s[1] /\ f[s][2] = s[2] /\ f[t][1] = t[1] /\ f[t][2] = t[2] BY RunsFacts
    <3> QED BY <1>2, <3>1, SpotFacts
  <2>2. s[3] \in Nat /\ t[3] \in Nat /\ s = <<s[1], s[2], s[3]>> /\ t = <<t[1], t[2], t[3]>> BY PlacesNext
  <2>3. ~(s[3] < t[3]) /\ ~(t[3] < s[3]) BY <1>1, <1>2, <2>1
  <2>4. s[3] = t[3] BY <2>2, <2>3
  <2> QED BY <2>1, <2>2, <2>4
<1> QED BY <1>1, <1>2

LEMMA FlowRuns ==
  ASSUME NEW f, NEW N, NEW G, Flow(f, N, G), \A p \in Pylons : conn[p] = "closed" => conn'[p] = "closed"
  PROVE  Runs(f, N, G)
<1>1. ASSUME NEW s \in Spots' \ N
      PROVE  /\ Written(f[s]) => Written(s)'
             /\ Alive(s)' => Alive(f[s])
             /\ s[1] = "pipe" /\ s[3] > Held(s[2])' => f[s][3] > Held(s[2])
  <2>1. /\ Written(s)' <=> Written(f[s])
        /\ s[1] = "pipe" /\ s[3] > Held(s[2])' => f[s][3] > Held(s[2])
    BY DEF Flow
  <2>2. f[s][1] = s[1] /\ f[s][2] = s[2] /\ s[2] \in Pylons BY SpotsNext DEF Flow, Kept
  <2>3. Alive(s)' <=> s[1] = "stream" /\ (Written(s)' \/ conn'[s[2]] # "closed") BY DEF Alive
  <2> QED BY <2>1, <2>2, <2>3 DEF Alive
<1> QED BY <1>1 DEF Runs, Flow

\* A message of the queue is written to the socket.
LEMMA WriteRuns ==
  ASSUME NEW p, NEW o, o[2] = p, Spots' = Spots, \A s \in Spots : Item(s)' = Item(s),
         \A s \in Spots : Written(s)' <=> Written(s) \/ s = o,
         \A q \in Pylons : Held(q)' = Held(q), conn' = conn, conn[p] = "open"
  PROVE  \E f : Runs(f, {}, {}) /\ \A s \in Spots : f[s] = s
<1> DEFINE N == {}
           f == [s \in Spots |-> s]
<1>1. f \in [Spots -> Spots] /\ \A s \in Spots : f[s] = s OBVIOUS
<1>2. Spots' \ N = Spots /\ Spots \ N = Spots OBVIOUS
<1> HIDE DEF f, N
<1>3. Kept(f, N, N) BY <1>1, <1>2 DEF Kept
<1>4. ASSUME NEW s \in Spots
      PROVE  /\ Written(f[s]) => Written(s)'
             /\ Alive(s)' => Alive(f[s])
             /\ s[1] = "pipe" /\ s[3] > Held(s[2])' => f[s][3] > Held(s[2])
  <2>1. f[s] = s /\ s[2] \in Pylons BY <1>1, SpotsNext
  <2>2. Alive(s)' <=> s[1] = "stream" /\ (Written(s)' \/ conn'[s[2]] # "closed") BY DEF Alive
  <2> QED BY <2>1, <2>2 DEF Alive
<1>5. Runs(f, N, N) BY <1>2, <1>3, <1>4 DEF Runs
<1> QED BY <1>1, <1>5 DEF N

LEMMA ClosedStays ==
  ASSUME TypeInv, [Next]_vars
  PROVE  \A p \in Pylons : conn[p] = "closed" => conn'[p] = "closed"
<1> DEFINE Remains == \A p \in Pylons : conn[p] = "closed" => conn'[p] = "closed"
<1>1. PylonTypes BY TypeParts
<1>2. CASE UNCHANGED pylon BY <1>2 DEF pylon
<1>3. ASSUME NEW p \in Pylons, Open(p) \/ Close(p) \/ Suspend(p) \/ Stop(p) PROVE Remains
  BY <1>1, <1>3 DEF Open, Close, Suspend, Stop, PylonTypes
<1>4. ASSUME NEW p \in Pylons, ServeOutbound(p) \/ ServeInbound(p) \/ Deliver(p) \/ Read(p) \/ Server(p)
      PROVE  UNCHANGED pylon
  BY <1>4 DEF ServeOutbound, ServeInbound, Deliver, Read, Server
<1>5. ASSUME NEW e \in Entities, Put(e) \/ Add(e) PROVE UNCHANGED pylon BY <1>5 DEF Put, Add
<1>6. ASSUME NEW a \in Agents, PostMove(a) \/ Remove(a) \/ Leave(a) \/ Send(a) \/ Restart(a) \/ StopCopy(a)
      PROVE  UNCHANGED pylon
  BY <1>6 DEF PostMove, Remove, Leave, Send, Restart, StopCopy
<1>7. CASE UNCHANGED vars BY <1>2, <1>7 DEF vars
<1> QED BY <1>2, <1>3, <1>4, <1>5, <1>6, <1>7 DEF Next

-----------------------------------------------------------------------------
(* What an entity says of itself.                                          *)

LEMMA OnStream ==
  ASSUME NEW e, Speaker(e), NEW s \in Spots, NEW t \in Spots, Speaks(s, e), Speaks(t, e)
  PROVE  s[1] = "stream" /\ t[1] = "stream" /\ s[2] = where[e].node /\ t[2] = where[e].node
BY DEF Speaker, Speaks

LEMMA CarrierSpeaks ==
  ASSUME NEW t, NEW e, Carries(t, e), t[1] = "stream"
  PROVE  Speaks(t, e)
BY DEF Carries, Speaks

LEMMA NoContent == \A m : m.kind \in {"reg", "unreg"} => m \notin Content
<1> SUFFICES ASSUME NEW m \in Content PROVE m.kind \notin {"reg", "unreg"} OBVIOUS
<1> QED BY WaveFields, TransitFields DEF Content

LEMMA Spoken ==
  ASSUME NEW e
  PROVE  \A s : Enters(s, e) \/ Quits(s, e) => Speaks(s, e)
BY DEF Enters, Quits

LEMMA SpeakerRuns ==
  ASSUME NEW e, Speaker(e), NEW f, NEW N, NEW G, Runs(f, N, G), Waving(N, e), Stays(e)
  PROVE  Speaker(e)'
<1> SUFFICES ASSUME NEW s \in Spots', Speaks(s, e)'
             PROVE  s[2] = where'[e].node /\ where'[e].step \notin {"putting", "adding"}
  BY DEF Speaker
<1>1. CASE s \in N BY <1>1 DEF Waving
<1>2. CASE s \notin N
  <2>1. f[s] \in Spots /\ Speaks(f[s], e) /\ f[s][2] = s[2] BY <1>2, RunsFacts
  <2>2. s[2] = where[e].node /\ where[e].step \notin {"putting", "adding"} BY <2>1 DEF Speaker
  <2> QED BY <2>2 DEF Stays
<1> QED BY <1>1, <1>2

LEMMA LastWordRuns ==
  ASSUME TypeInv, Copies, NEW e, Speaker(e), LastWord(e), NEW f, NEW N, NEW G, Runs(f, N, G), Waving(N, e)
  PROVE  LastWord(e)'
<1>0. LineTypes BY TypeParts
<1> SUFFICES ASSUME NEW t \in Spots', Carries(t, e)'
             PROVE  /\ \A s \in Spots' : Speaks(s, e)' => t[1] = "stream" /\ s[3] <= t[3]
                    /\ t[1] = "stream" => Item(t)'.to # t[2]
  BY DEF LastWord
<1>1. t \in Spots' \ N BY DEF Waving
<1>2. f[t] \in Spots /\ Carries(f[t], e) /\ f[t][1] = t[1] /\ f[t][2] = t[2] /\ Item(t)' = Item(f[t])
  BY <1>1, RunsFacts
<1>3. where[e].step = "away" BY <1>2, CarriedAway DEF Carries
<1>4. t[1] = "stream" => Item(t)'.to # t[2] BY <1>2 DEF LastWord
<1>5. ASSUME NEW s \in Spots', Speaks(s, e)' PROVE t[1] = "stream" /\ s[3] <= t[3]
  <2>1. s \in Spots' \ N BY <1>3, <1>5 DEF Waving
  <2>2. f[s] \in Spots /\ Speaks(f[s], e) /\ f[s][1] = s[1] /\ f[s][2] = s[2] BY <1>5, <2>1, RunsFacts
  <2>3. t[1] = "stream" /\ f[s][3] <= f[t][3] BY <1>2, <2>2 DEF LastWord
  <2>4. s[1] = t[1] /\ s[2] = t[2] BY <1>2, <2>2, <2>3, OnStream, CarrierSpeaks
  <2>5. s[3] \in Nat /\ t[3] \in Nat /\ f[s][3] \in Nat /\ f[t][3] \in Nat
    BY <1>0, <1>1, <1>2, <2>1, <2>2, PlacesNext, SpotFacts
  <2>6. t[3] < s[3] <=> f[t][3] < f[s][3] BY <1>0, <1>1, <2>1, <2>4, RunsOrder
  <2> QED BY <2>3, <2>5, <2>6
<1> QED BY <1>4, <1>5

\* Where it has said that it leaves before it goes, it still has.
LEMMA QuitsRuns ==
  ASSUME LineTypes, NEW e, Speaker(e), NEW f, NEW N, NEW G, Runs(f, N, G), NEW t \in Spots' \ N,
         f[t] \in Spots, Carries(f[t], e), f[t][1] = t[1], f[t][2] = t[2], t[1] = "stream",
         NEW v \in Spots, v \notin G, Quits(v, e), v[3] < f[t][3]
  PROVE  \E u \in Spots' \ N : f[u] = v /\ Quits(u, e)' /\ u[1] = "stream" /\ u[2] = t[2] /\ u[3] < t[3]
<1>1. v[1] = "stream" /\ v[2] = t[2] BY OnStream, CarrierSpeaks, Spoken
<1>2. PICK u \in Spots' \ N : f[u] = v BY RunsOrder
<1>3. Quits(u, e)' /\ u[1] = "stream" /\ u[2] = t[2] BY <1>1, <1>2, RunsFacts
<1>4. u[3] < t[3] BY <1>2, <1>3, RunsOrder
<1> QED BY <1>2, <1>3, <1>4

LEMMA JourneyRuns ==
  ASSUME TypeInv, Copies, NEW e, Journey(e), NEW f, NEW N, NEW G, Runs(f, N, G), Trims(f, N, G, e), Waving(N, e), Steady(e)
  PROVE  Journey(e)'
<1>0. LineTypes BY TypeParts
<1>1. ASSUME NEW n \in N PROVE ~Carries(n, e)' /\ ~Enters(n, e)' /\ ~Quits(n, e)'
  <2>1. ~Carries(n, e)' /\ (Speaks(n, e)' => Item(n)'.kind = "wave") BY DEF Waving
  <2> QED BY <2>1 DEF Enters, Quits
<1>2. Speaker(e)' BY SpeakerRuns DEF Journey, Steady
<1>3. LastWord(e)' BY LastWordRuns DEF Journey
<1>4. Entered(e)'
  <2>1. ASSUME NEW r \in Spots', NEW s \in Spots', Enters(r, e)', Enters(s, e)' PROVE r = s
    <3>1. r \in Spots' \ N /\ s \in Spots' \ N BY <1>1, <2>1
    <3>2. f[r] \in Spots /\ f[s] \in Spots /\ Enters(f[r], e) /\ Enters(f[s], e) BY <2>1, <3>1, RunsFacts
    <3>3. f[r] = f[s] BY <3>2 DEF Journey, Entered
    <3> QED BY <1>0, <3>1, <3>3, RunsOrder
  <2>2. ASSUME table'[e] # Nobody
        PROVE  /\ table'[e] = where'[e].node /\ where'[e].step \notin {"putting", "adding"}
               /\ \A t \in Spots' : Carries(t, e)' => t[1] = "stream"
               /\ \A r \in Spots' : ~Enters(r, e)'
    <3>1. table[e] # Nobody BY <2>2 DEF Steady
    <3>2. /\ table[e] = where[e].node /\ where[e].step \notin {"putting", "adding"}
          /\ \A t \in Spots : Carries(t, e) => t[1] = "stream"
          /\ \A r \in Spots : ~Enters(r, e)
      BY <3>1 DEF Journey, Entered
    <3>3. table'[e] = where'[e].node /\ where'[e].step \notin {"putting", "adding"} BY <3>2 DEF Steady, Stays
    <3>4. ASSUME NEW t \in Spots', Carries(t, e)' PROVE t[1] = "stream"
      <4>1. t \in Spots' \ N BY <1>1, <3>4
      <4>2. f[t] \in Spots /\ Carries(f[t], e) /\ f[t][1] = t[1] BY <3>4, <4>1, RunsFacts
      <4> QED BY <3>2, <4>2
    <3>5. ASSUME NEW r \in Spots', Enters(r, e)' PROVE FALSE
      <4>1. r \in Spots' \ N BY <1>1, <3>5
      <4>2. f[r] \in Spots /\ Enters(f[r], e) BY <3>5, <4>1, RunsFacts
      <4> QED BY <3>2, <4>2
    <3> QED BY <3>3, <3>4, <3>5
  <2> QED BY <2>1, <2>2 DEF Entered
<1>5. SignsOff(e)'
  <2> SUFFICES ASSUME NEW t \in Spots', Carries(t, e)', Alive(t)'
               PROVE  /\ table'[e] # Nobody => \E u \in Spots' : Quits(u, e)' /\ u[3] < t[3]
                      /\ \A r \in Spots' : Enters(r, e)' =>
                             \E u \in Spots' : Quits(u, e)' /\ r[3] < u[3] /\ u[3] < t[3]
    BY DEF SignsOff
  <2>1. t \in Spots' \ N BY <1>1
  <2>2. f[t] \in Spots /\ Carries(f[t], e) /\ f[t][1] = t[1] /\ f[t][2] = t[2] /\ Alive(f[t]) /\ t[1] = "stream"
    <3>1. Alive(f[t]) BY <2>1 DEF Runs
    <3>2. f[t] \in Spots /\ Carries(f[t], e) /\ f[t][1] = t[1] /\ f[t][2] = t[2] BY <2>1, RunsFacts
    <3> QED BY <3>1, <3>2 DEF Alive
  <2>3. ASSUME NEW v \in Spots, Quits(v, e), v[3] < f[t][3]
        PROVE  \E u \in Spots' \ N : f[u] = v /\ Quits(u, e)' /\ u[1] = "stream" /\ u[2] = t[2] /\ u[3] < t[3]
    <3>1. v[1] = "stream" /\ v[2] = t[2] /\ Speaks(v, e)
      BY <2>2, <2>3, OnStream, CarrierSpeaks, Spoken DEF Journey
    <3>2. v \notin G
      <4> SUFFICES ASSUME v \in G PROVE FALSE OBVIOUS
      <4>1. Item(v) \notin Content BY <2>3, NoContent DEF Quits
      <4>2. f[t][3] < v[3] BY <2>1, <2>2, <3>1, <4>1 DEF Trims, On
      <4>3. f[t][3] \in Nat /\ v[3] \in Nat BY <1>0, <2>2, SpotFacts
      <4> QED BY <2>3, <4>2, <4>3
    <3> QED BY <1>0, <2>1, <2>2, <2>3, <3>2, QuitsRuns DEF Journey
  <2>4. ASSUME table'[e] # Nobody PROVE \E u \in Spots' : Quits(u, e)' /\ u[3] < t[3]
    <3>1. table[e] # Nobody BY <2>4 DEF Steady
    <3>2. PICK v \in Spots : Quits(v, e) /\ v[3] < f[t][3] BY <2>2, <3>1 DEF Journey, SignsOff
    <3> QED BY <2>3, <3>2
  <2>5. ASSUME NEW r \in Spots', Enters(r, e)'
        PROVE  \E u \in Spots' : Quits(u, e)' /\ r[3] < u[3] /\ u[3] < t[3]
    <3>1. r \in Spots' \ N BY <1>1, <2>5
    <3>2. f[r] \in Spots /\ Enters(f[r], e) /\ f[r][1] = r[1] /\ f[r][2] = r[2] BY <2>5, <3>1, RunsFacts
    <3>3. PICK v \in Spots : Quits(v, e) /\ f[r][3] < v[3] /\ v[3] < f[t][3] BY <2>2, <3>2 DEF Journey, SignsOff
    <3>4. PICK u \in Spots' \ N : f[u] = v /\ Quits(u, e)' /\ u[1] = "stream" /\ u[2] = t[2] /\ u[3] < t[3]
      BY <2>3, <3>3
    <3>5. r[1] = "stream" /\ r[2] = t[2] BY <2>2, <3>2, OnStream, CarrierSpeaks, Spoken DEF Journey
    <3>6. r[3] < u[3] BY <1>0, <3>1, <3>3, <3>4, <3>5, RunsOrder
    <3> QED BY <3>4, <3>6
  <2> QED BY <2>4, <2>5
<1> QED BY <1>2, <1>3, <1>4, <1>5 DEF Journey

LEMMA OneCarrier ==
  ASSUME TypeInv, Copies, NEW e, NEW s \in Spots, NEW t \in Spots, Carries(s, e), Carries(t, e)
  PROVE  s = t
<1>1. Item(s).nr = moved[e] /\ Item(t).nr = moved[e] /\ Item(s).from = e /\ Item(t).from = e
  BY CarriedAway DEF Carries
<1>2. Item(s) \in Content /\ Item(t) \in Content /\ Item(s).kind = "agent" /\ Item(t).kind = "agent"
  BY TransitFields DEF Carries, Content
<1> QED BY <1>1, <1>2 DEF Copies, Once, Same

\* A new entity, or one that has come, has said nothing and is unknown.
LEMMA Silent ==
  ASSUME NEW e, Journey(e), where[e].step \in {"putting", "adding"}
  PROVE  table[e] = Nobody /\ \A s \in Spots : ~Speaks(s, e)
BY DEF Journey, Speaker, Entered

LEMMA NotCarried ==
  ASSUME TypeInv, Copies, NEW e, where[e].step # "away"
  PROVE  \A t \in Spots : ~Carries(t, e)
BY CarriedAway DEF Carries

LEMMA JourneyAdd ==
  ASSUME TypeInv, Copies, NEW e, Journey(e), NEW f, NEW n, Runs(f, {n}, {}), Steady(e),
         where[e].step = "adding", where'[e].step = "in",
         On(n, "stream", where[e].node), Item(n)'.kind = "reg"
  PROVE  Journey(e)'
<1>0. LineTypes BY TypeParts
<1>1. table'[e] = Nobody /\ \A s \in Spots : ~Speaks(s, e) BY Silent DEF Steady
<1>2. \A t \in Spots : ~Carries(t, e) BY NotCarried
<1>3. ASSUME NEW s \in Spots', s # n PROVE ~Speaks(s, e)' /\ ~Carries(s, e)'
  <2>1. s \in Spots' \ {n} BY <1>3
  <2>2. f[s] \in Spots BY <2>1, RunsFacts
  <2> QED BY <1>1, <1>2, <2>1, <2>2, RunsFacts
<1>4. ~Carries(n, e)' BY TransitFields DEF Carries
<1>5. Speaker(e)' BY <1>3 DEF Speaker, Steady, Stays, On
<1>6. LastWord(e)' BY <1>3, <1>4 DEF LastWord
<1>7. Entered(e)'
  <2>1. \A r, s \in Spots' : Enters(r, e)' /\ Enters(s, e)' => r = s BY <1>3 DEF Enters
  <2> QED BY <1>1, <2>1 DEF Entered
<1>8. SignsOff(e)' BY <1>3, <1>4 DEF SignsOff
<1> QED BY <1>5, <1>6, <1>7, <1>8 DEF Journey

LEMMA JourneyLeave ==
  ASSUME TypeInv, Copies, NEW e, Journey(e), NEW f, NEW x, NEW n, Runs(f, {x, n}, {}), Steady(e),
         where[e].step = "removed", where'[e].step = "away", x \in Spots', n \in Spots',
         On(n, "stream", where[e].node), Item(n)' \in Transit, Item(n)'.from = e, Item(n)'.to # where[e].node,
         On(x, "stream", where[e].node), Item(x)'.kind = "unreg", Item(x)'.from = e, x[3] + 1 = n[3],
         \A s \in Spots' : On(s, "stream", where[e].node) => s[3] <= n[3]
  PROVE  Journey(e)'
<1>0. LineTypes BY TypeParts
<1> DEFINE N == {x, n}
<1>1. Runs(f, N, {}) /\ x \in N /\ n \in N /\ \A s \in N : s = x \/ s = n OBVIOUS
<1> HIDE DEF N
<1>2. \A t \in Spots : ~Carries(t, e) BY NotCarried
<1>3. ASSUME NEW t \in Spots', Carries(t, e)' PROVE t = n
  <2>1. t # x BY <1>3, TransitFields DEF Carries
  <2>2. t \in Spots' \ N => FALSE BY <1>2, <1>3, RunsFacts, <1>1
  <2> QED BY <1>1, <2>1, <2>2
<1>4. ASSUME NEW s \in Spots', s # x, s # n
      PROVE  /\ f[s] \in Spots /\ f[s][1] = s[1] /\ f[s][2] = s[2] /\ (Speaks(s, e)' <=> Speaks(f[s], e))
             /\ (Enters(s, e)' <=> Enters(f[s], e)) /\ s \in Spots' \ N
  <2>1. s \in Spots' \ N BY <1>1, <1>4
  <2> QED BY <1>1, <2>1, RunsFacts
<1>5. x[1] = "stream" /\ n[1] = "stream" /\ x[2] = where[e].node /\ n[2] = where[e].node
      /\ Item(n)'.kind = "agent"
  BY TransitFields DEF On
<1>6. where'[e].node = where[e].node /\ table'[e] = table[e] BY DEF Steady, Stays
<1>7. Speaker(e)'
  <2> SUFFICES ASSUME NEW s \in Spots', Speaks(s, e)' PROVE s[2] = where[e].node BY <1>6 DEF Speaker
  <2>1. CASE s = x \/ s = n BY <1>5, <2>1
  <2>2. CASE s # x /\ s # n BY <1>4, <2>2 DEF Journey, Speaker
  <2> QED BY <2>1, <2>2
<1>8. LastWord(e)'
  <2>1. ASSUME NEW s \in Spots', Speaks(s, e)' PROVE s[3] <= n[3]
    <3>1. s[1] = "stream" /\ s[2] = where[e].node BY <1>6, <1>7, <2>1 DEF Speaker, Speaks
    <3> QED BY <3>1 DEF On
  <2> QED BY <1>3, <1>5, <2>1 DEF LastWord
<1>9. ASSUME NEW r \in Spots', Enters(r, e)' PROVE r # x /\ r # n /\ Enters(f[r], e) /\ f[r] \in Spots /\ r \in Spots' \ N
  <2>1. r # x /\ r # n BY <1>5, <1>9 DEF Enters
  <2> QED BY <1>4, <1>9, <2>1
<1>10. Entered(e)'
  <2>1. ASSUME NEW r \in Spots', NEW s \in Spots', Enters(r, e)', Enters(s, e)' PROVE r = s
    <3>1. f[r] = f[s] /\ r \in Spots' \ N /\ s \in Spots' \ N BY <1>9, <2>1 DEF Journey, Entered
    <3> QED BY <1>0, <1>1, <3>1, RunsOrder
  <2>2. table'[e] # Nobody => /\ table[e] = where[e].node
                              /\ \A r \in Spots' : ~Enters(r, e)'
    BY <1>6, <1>9 DEF Journey, Entered
  <2> QED BY <1>3, <1>5, <1>6, <2>1, <2>2 DEF Entered
<1>11. SignsOff(e)'
  <2>1. Quits(x, e)' /\ x[3] < n[3]
    <3>1. x[3] \in Nat /\ n[3] \in Nat BY PlacesNext
    <3> QED BY <1>5, <3>1 DEF Quits, Speaks
  <2>2. ASSUME NEW r \in Spots', Enters(r, e)' PROVE r[3] < x[3]
    <3>1. r # x /\ r # n BY <1>9, <2>2
    <3>2. r[1] = "stream" /\ r[2] = where[e].node BY <1>6, <1>7, <2>2 DEF Speaker, Speaks, Enters
    <3>3. r[3] <= n[3] BY <3>2 DEF On
    <3>4. /\ r[3] \in Nat /\ x[3] \in Nat /\ n[3] \in Nat
          /\ r = <<r[1], r[2], r[3]>> /\ x = <<x[1], x[2], x[3]>> /\ n = <<n[1], n[2], n[3]>>
      BY PlacesNext
    <3>5. r[3] # x[3] /\ r[3] # n[3] BY <1>5, <3>1, <3>2, <3>4
    <3> QED BY <3>3, <3>4, <3>5
  <2> QED BY <1>3, <2>1, <2>2 DEF SignsOff
<1> QED BY <1>7, <1>8, <1>10, <1>11 DEF Journey

\* An agent arrives: all that it said before has been read.
LEMMA JourneyArrive ==
  ASSUME TypeInv, Copies, NEW e, Journey(e), NEW f, NEW o \in Spots, Runs(f, {}, {o}), Carries(o, e), o[1] = "pipe",
         table' = table
  PROVE  Journey(e)'
<1>1. table[e] = Nobody /\ \A s \in Spots : ~Speaks(s, e) BY DEF Journey, LastWord, Entered
<1>2. ASSUME NEW s \in Spots' PROVE ~Speaks(s, e)' /\ ~Carries(s, e)'
  <2>1. s \in Spots' \ {} OBVIOUS
  <2>2. f[s] \in Spots /\ f[s] # o BY <2>1, RunsFacts
  <2>3. ~Carries(f[s], e) BY <2>2, OneCarrier
  <2> QED BY <1>1, <2>1, <2>2, <2>3, RunsFacts
<1> QED BY <1>1, <1>2 DEF Journey, Speaker, LastWord, Entered, SignsOff, Enters

\* The server reads of an entity: it knows it where it is, or does not know it any more.
LEMMA JourneyTold ==
  ASSUME TypeInv, Copies, NEW e, Journey(e), NEW f, NEW o \in Spots, Runs(f, {}, {o}), o[1] = "stream", o[3] = 1, where' = where,
         \/ Enters(o, e) /\ table'[e] = o[2]
         \/ Quits(o, e) /\ table'[e] = Nobody
  PROVE  Journey(e)'
<1>0. LineTypes /\ Spots' \ {} = Spots' BY TypeParts
<1>1. Waving({}, e) /\ Stays(e) BY DEF Waving, Stays
<1>2. Speaker(e)' /\ LastWord(e)' BY <1>1, SpeakerRuns, LastWordRuns DEF Journey
<1>3. Speaks(o, e) /\ o[2] = where[e].node /\ where[e].step \notin {"putting", "adding"}
  BY Spoken DEF Journey, Speaker
<1>4. ASSUME NEW s \in Spots'
      PROVE  /\ f[s] \in Spots /\ f[s] # o /\ f[s][1] = s[1] /\ f[s][2] = s[2]
             /\ Enters(s, e)' <=> Enters(f[s], e)
             /\ Carries(s, e)' <=> Carries(f[s], e)
  BY <1>0, RunsFacts
<1>5. Entered(e)'
  <2>1. ASSUME NEW r \in Spots', NEW s \in Spots', Enters(r, e)', Enters(s, e)' PROVE r = s
    <3>1. f[r] = f[s] BY <1>4, <2>1 DEF Journey, Entered
    <3> QED BY <1>0, <3>1, RunsOrder
  <2>2. ASSUME Enters(o, e), table'[e] = o[2]
        PROVE  /\ \A t \in Spots' : Carries(t, e)' => t[1] = "stream"
               /\ \A r \in Spots' : ~Enters(r, e)'
    <3>1. \A t \in Spots' : Carries(t, e)' => t[1] = "stream" BY <1>3, <1>4 DEF Journey, LastWord
    <3>2. \A r \in Spots' : ~Enters(r, e)' BY <1>4, <2>2 DEF Journey, Entered
    <3> QED BY <3>1, <3>2
  <2> QED BY <1>3, <2>1, <2>2 DEF Entered
<1>6. SignsOff(e)'
  <2> SUFFICES ASSUME NEW t \in Spots', Carries(t, e)', Alive(t)'
               PROVE  /\ table'[e] # Nobody => \E u \in Spots' : Quits(u, e)' /\ u[3] < t[3]
                      /\ \A r \in Spots' : Enters(r, e)' =>
                             \E u \in Spots' : Quits(u, e)' /\ r[3] < u[3] /\ u[3] < t[3]
    BY DEF SignsOff
  <2>1. t \in Spots' \ {} /\ f[t] \in Spots /\ Carries(f[t], e) /\ Alive(f[t]) /\ t[1] = "stream" /\ f[t][1] = t[1] /\ f[t][2] = t[2]
    <3>1. Alive(f[t]) BY <1>0 DEF Runs
    <3> QED BY <1>0, <1>4, <3>1 DEF Alive
  <2>2. ASSUME NEW v \in Spots, Quits(v, e), v[3] > 1, v[3] < f[t][3]
        PROVE  \E u \in Spots' : f[u] = v /\ Quits(u, e)' /\ u[1] = "stream" /\ u[2] = t[2] /\ u[3] < t[3]
    <3>1. v \notin {o} BY <2>2
    <3> QED BY <1>0, <2>1, <2>2, <3>1, QuitsRuns DEF Journey
  <2>3. ASSUME table'[e] # Nobody PROVE \E u \in Spots' : Quits(u, e)' /\ u[3] < t[3]
    <3>1. PICK v \in Spots : Quits(v, e) /\ o[3] < v[3] /\ v[3] < f[t][3] BY <2>1, <2>3 DEF Journey, SignsOff
    <3>2. v[3] > 1 BY <1>0, <3>1, SpotFacts
    <3> QED BY <2>2, <3>1, <3>2
  <2>4. ASSUME NEW r \in Spots', Enters(r, e)' PROVE \E u \in Spots' : Quits(u, e)' /\ r[3] < u[3] /\ u[3] < t[3]
    <3>1. PICK v \in Spots : Quits(v, e) /\ f[r][3] < v[3] /\ v[3] < f[t][3]
      BY <1>4, <2>1, <2>4 DEF Journey, SignsOff
    <3>2. v[3] > 1
      <4>1. f[r][3] \in 1 .. Len(Line(f[r][1], f[r][2])) /\ v[3] \in Nat BY <1>0, <1>4, SpotFacts
      <4> QED BY <3>1, <4>1
    <3>3. PICK u \in Spots' : f[u] = v /\ Quits(u, e)' /\ u[1] = "stream" /\ u[2] = t[2] /\ u[3] < t[3]
      BY <2>2, <3>1, <3>2
    <3>4. r[1] = "stream" /\ r[2] = t[2] BY <1>4, <2>1, <2>4, OnStream, CarrierSpeaks, Spoken DEF Journey
    <3>5. r[3] < u[3] BY <1>0, <3>1, <3>3, <3>4, RunsOrder
    <3> QED BY <3>3, <3>5
  <2> QED BY <2>3, <2>4
<1> QED BY <1>2, <1>5, <1>6 DEF Journey

\* The server sends an agent on: it has read all that the agent said before.
LEMMA JourneyRouted ==
  ASSUME TypeInv, Copies, NEW e, Journey(e), NEW f, NEW n, NEW o \in Spots, Runs(f, {n}, {o}), o[1] = "stream", o[3] = 1, Written(o),
         Carries(o, e), n[1] = "pipe", where' = where, table' = table
  PROVE  Journey(e)'
<1>0. LineTypes BY TypeParts
<1>1. Speaks(o, e) /\ Alive(o) BY CarrierSpeaks DEF Alive
<1>2. table[e] = Nobody
  <2>1. \A u \in Spots : ~(u[3] < 1) BY <1>0, SpotFacts
  <2> QED BY <1>1, <2>1 DEF Journey, SignsOff
<1>3. ASSUME NEW s \in Spots', Speaks(s, e)' PROVE FALSE
  <2>1. s \in Spots' \ {n} BY <1>3 DEF Speaks
  <2>2. f[s] \in Spots /\ f[s] # o /\ Speaks(f[s], e) BY <1>3, <2>1, RunsFacts
  <2>3. f[s][1] = "stream" /\ f[s][2] = o[2] /\ f[s][3] <= 1 BY <1>1, <2>2, OnStream DEF Journey, LastWord
  <2>4. /\ f[s] = <<f[s][1], f[s][2], f[s][3]>> /\ f[s][3] \in 1 .. Len(Line(f[s][1], f[s][2]))
        /\ o = <<o[1], o[2], o[3]>>
    BY <1>0, <2>2, SpotFacts
  <2>5. f[s][3] = 1 BY <2>3, <2>4
  <2> QED BY <2>2, <2>3, <2>4, <2>5
<1>4. ASSUME NEW t \in Spots', Carries(t, e)' PROVE t = n
  <2> SUFFICES ASSUME t # n PROVE FALSE OBVIOUS
  <2>1. t \in Spots' \ {n} OBVIOUS
  <2>2. f[t] \in Spots /\ f[t] # o /\ Carries(f[t], e) BY <1>4, <2>1, RunsFacts
  <2> QED BY <2>2, OneCarrier
<1>5. Speaker(e)' BY <1>3 DEF Speaker
<1>6. LastWord(e)' BY <1>3, <1>4 DEF LastWord
<1>7. Entered(e)' BY <1>2, <1>3 DEF Entered, Enters
<1>8. SignsOff(e)' BY <1>4 DEF SignsOff, Alive
<1> QED BY <1>5, <1>6, <1>7, <1>8 DEF Journey

-----------------------------------------------------------------------------
(* What becomes of the waves to an entity, of those from it, and of their order. *)

LEMMA DoomsSteady ==
  ASSUME NEW e, Journey(e), NEW f, NEW N, NEW G, LineTypes, Runs(f, N, G), Stays(e), Behind(N, e),
         where'[e].step = "putting" => where[e].step = "putting", table[e] = Nobody => table'[e] = Nobody,
         \A n \in N : Speaks(n, e)' => n[2] = where[e].node
  PROVE  Dooms(f, N, e)
<1> SUFFICES ASSUME NEW s \in Spots' \ N, Doomed(f[s], e) PROVE Doomed(s, e)' BY DEF Dooms
<1>1. /\ Written(f[s]) /\ table[e] = Nobody /\ where[e].node = f[s][2] /\ where[e].step # "putting"
      /\ \A u \in Spots : Enters(u, e) => f[s][3] < u[3]
      /\ \A u \in Spots : Carries(u, e) => u[1] = "stream" /\ f[s][3] < u[3]
  BY DEF Doomed
<1>2. Written(s)' /\ f[s][1] = s[1] /\ f[s][2] = s[2] /\ s[1] = "stream"
  <2>1. Written(s)' BY <1>1 DEF Runs
  <2> QED BY <1>1, <2>1, RunsFacts DEF Written
<1>3. table'[e] = Nobody /\ where'[e].node = s[2] /\ where'[e].step # "putting" BY <1>1, <1>2 DEF Stays
<1>4. ASSUME NEW u \in Spots', Enters(u, e)' \/ Carries(u, e)'
      PROVE  /\ Enters(u, e)' => s[3] < u[3]
             /\ Carries(u, e)' => u[1] = "stream" /\ s[3] < u[3]
  <2>1. CASE u \in N
    <3>1. u[1] = "stream" /\ \A r \in Spots' \ N : r[1] = "stream" /\ r[2] = u[2] => r[3] < u[3]
      BY <1>4, <2>1 DEF Behind
    <3>2. u[2] = where[e].node BY <1>4, <2>1, <3>1 DEF Enters, Carries, Speaks
    <3> QED BY <1>1, <1>2, <3>1, <3>2
  <2>2. CASE u \notin N
    <3>1. /\ f[u] \in Spots /\ f[u][1] = u[1] /\ f[u][2] = u[2] /\ u \in Spots' \ N
          /\ Enters(u, e)' <=> Enters(f[u], e)
          /\ Carries(u, e)' <=> Carries(f[u], e)
      BY <2>2, RunsFacts
    <3>2. f[u][1] = "stream" /\ f[s][3] < f[u][3] BY <1>1, <1>4, <3>1 DEF Enters, Speaks
    <3>3. f[u][2] = where[e].node
      <4>1. Speaks(f[u], e) BY <1>4, <3>1, <3>2 DEF Enters, Carries, Speaks
      <4> QED BY <3>1, <4>1 DEF Journey, Speaker
    <3>4. s[1] = u[1] /\ s[2] = u[2] BY <1>1, <1>2, <3>1, <3>2, <3>3
    <3>5. s[3] < u[3] BY <3>1, <3>2, <3>4, RunsOrder
    <3> QED BY <3>1, <3>2, <3>5
  <2> QED BY <2>1, <2>2
<1> QED BY <1>2, <1>3, <1>4 DEF Doomed

LEMMA LivesComes ==
  ASSUME NEW e, Cleared(e), Comes(e), NEW f, NEW N, NEW G, Runs(f, N, G), Dooms(f, N, e)
  PROVE  Lives(f, N, e)
<1> SUFFICES ASSUME NEW s \in Spots' \ N, WaveTo(s, e)', Live(s, e)' PROVE Live(f[s], e) BY DEF Lives
<1>1. f[s] \in Spots /\ f[s][1] = s[1] /\ f[s][2] = s[2] /\ WaveTo(f[s], e) BY RunsFacts
<1>2. CASE s[1] = "stream"
  <2>1. ~Doomed(s, e)' BY <1>2 DEF Live
  <2>2. ~Doomed(f[s], e) BY <2>1 DEF Dooms
  <2> QED BY <1>1, <1>2, <2>2 DEF Live
<1>3. CASE s[1] # "stream"
  <2>1. e \in receivers'[s[2]] /\ s[2] \in Pylons /\ s[1] = "pipe"
    <3>1. s[2] \in Pylons /\ s[1] \in Kinds BY PlacesNext
    <3> QED BY <1>3, <3>1, KindLines DEF Live
  <2>2. e \in receivers[s[2]] BY <1>1, <2>1 DEF Comes, Cleared
  <2> QED BY <1>1, <1>3, <2>2 DEF Live
<1> QED BY <1>2, <1>3

LEMMA MissedRuns ==
  ASSUME TypeInv, Copies, NEW e \in Entities, Journey(e), Missed(e), Comes(e), Present', NEW f, NEW N, NEW G, Runs(f, N, G),
         Dooms(f, N, e), Writes(f, N, e),
         where[e].step = "putting" => Steady(e) /\ \A n \in N : ~Enters(n, e)' /\ ~Carries(n, e)'
  PROVE  Missed(e)'
<1> SUFFICES ASSUME NEW s \in Spots', Written(s)', WaveTo(s, e)', e \in receivers'[s[2]]
             PROVE  Doomed(s, e)'
  BY DEF Missed
<1>1. s \in Spots' \ N /\ Written(f[s]) /\ s[2] \in Pylons BY PlacesNext DEF Writes
<1>2. f[s] \in Spots /\ f[s][1] = s[1] /\ f[s][2] = s[2] /\ WaveTo(f[s], e) BY <1>1, RunsFacts
<1>3. CASE e \in receivers[s[2]]
  <2>1. Doomed(f[s], e) BY <1>1, <1>2, <1>3 DEF Missed
  <2> QED BY <1>1, <2>1 DEF Dooms
<1>4. CASE where[e].step = "putting" /\ where[e].node = s[2]
  <2>1. table[e] = Nobody /\ (\A u \in Spots : ~Speaks(u, e)) BY <1>4, Silent
  <2>2. \A u \in Spots : ~Carries(u, e) BY <1>4, NotCarried
  <2>3. where'[e].node = s[2] /\ table'[e] = Nobody BY <1>4, <2>1 DEF Steady, Stays
  <2>4. where'[e].step # "putting" BY <2>3 DEF Present
  <2>5. ASSUME NEW u \in Spots' PROVE ~Enters(u, e)' /\ ~Carries(u, e)'
    <3>1. CASE u \in N BY <1>4, <3>1
    <3>2. CASE u \notin N
      <4>1. u \in Spots' \ N BY <3>2
      <4>2. f[u] \in Spots /\ (Enters(u, e)' <=> Enters(f[u], e)) /\ (Carries(u, e)' <=> Carries(f[u], e))
        BY <4>1, RunsFacts
      <4> QED BY <2>1, <2>2, <4>2 DEF Enters
    <3> QED BY <3>1, <3>2
  <2> QED BY <2>3, <2>4, <2>5 DEF Doomed
<1> QED BY <1>1, <1>3, <1>4 DEF Comes

LEMMA AheadRuns ==
  ASSUME TypeInv, Copies, Listed, NEW e \in Entities \ restarted, Journey(e), Ahead(e), NEW f, NEW N, NEW G, Runs(f, N, G),
         Forwards(N),
         \A n \in N, s \in Spots' : Carries(n, e)' /\ n[1] = "pipe" /\ s[1] = "pipe" /\ s[2] = n[2] => s[3] < n[3] \/ s = n
  PROVE  Ahead(e)'
<1>0. LineTypes BY TypeParts
<1> SUFFICES ASSUME NEW t \in Spots', NEW s \in Spots', Carries(t, e)', t[1] = "pipe", s[1] = "pipe", s[2] = t[2],
                    WaveTo(s, e)' \/ (Item(s)' \in Wave /\ Item(s)'.from = e)
             PROVE  s[3] < t[3]
  BY DEF Ahead
<1>1. s # t BY TransitFields, WaveFields DEF Carries, WaveTo
<1>2. CASE t \in N BY <1>1, <1>2
<1>3. CASE t \notin N /\ s \notin N
  <2>1. t \in Spots' \ N /\ s \in Spots' \ N BY <1>3
  <2>2. /\ f[t] \in Spots /\ f[s] \in Spots /\ Carries(f[t], e) /\ f[t][1] = "pipe" /\ f[s][1] = "pipe" /\ f[s][2] = f[t][2]
        /\ Item(s)' = Item(f[s]) /\ (WaveTo(s, e)' <=> WaveTo(f[s], e))
    BY <2>1, RunsFacts
  <2>3. f[s][3] < f[t][3] BY <2>2 DEF Ahead
  <2> QED BY <1>0, <2>1, <2>3, RunsOrder
<1>4. CASE t \notin N /\ s \in N
  <2>1. f[t] \in Spots /\ Carries(f[t], e) /\ f[t][1] = "pipe"
    <3>1. t \in Spots' \ N BY <1>4
    <3> QED BY <3>1, RunsFacts
  <2>2. PICK o \in Spots : /\ o[1] = "stream" /\ Item(o) = Item(s)'
                           /\ Item(o).to \in receivers[s[2]] \/ (table[Item(o).to] = s[2] /\ s[2] # Nobody)
    BY <1>4 DEF Forwards
  <2>3. Item(o).from # e BY <2>1, <2>2 DEF Journey, LastWord, Speaks
  <2>4. Item(o).to = e BY <2>2, <2>3 DEF WaveTo
  <2>5. table[e] = Nobody BY <2>1 DEF Journey, Entered
  <2>6. e \in receivers[s[2]] /\ s[2] \in Pylons BY <2>2, <2>4, <2>5, PlacesNext
  <2>7. where[e].step # "away" BY <2>6 DEF Listed
  <2> QED BY <2>1, <2>7, NotCarried
<1> QED BY <1>2, <1>3, <1>4

LEMMA ClearedRuns ==
  ASSUME Present, NEW e \in Entities, Journey(e), Cleared(e), NEW f, NEW N, NEW G, Runs(f, N, G), Forwards(N),
         where'[e].node = where[e].node, where'[e].step = "putting" => where[e].step = "putting"
  PROVE  Cleared(e)'
<1> SUFFICES ASSUME where'[e].step = "putting", NEW s \in Spots', s[1] = "pipe", WaveTo(s, e)'
             PROVE  s[2] # where'[e].node
  BY DEF Cleared
<1>1. CASE s \in N
  <2>1. PICK o \in Spots : /\ o[1] = "stream" /\ Item(o) = Item(s)'
                           /\ Item(o).to \in receivers[s[2]] \/ (table[Item(o).to] = s[2] /\ s[2] # Nobody)
    BY <1>1 DEF Forwards
  <2>2. Item(o).to = e BY <2>1 DEF WaveTo
  <2>3. table[e] = Nobody BY Silent
  <2>4. e \notin receivers[where[e].node] BY DEF Present
  <2> QED BY <2>1, <2>2, <2>3, <2>4
<1>2. CASE s \notin N
  <2>1. f[s] \in Spots /\ f[s][1] = s[1] /\ f[s][2] = s[2] /\ WaveTo(f[s], e)
    <3>1. s \in Spots' \ N BY <1>2
    <3> QED BY <3>1, RunsFacts
  <2> QED BY <2>1 DEF Cleared
<1> QED BY <1>1, <1>2

LEMMA ElsewhereRuns ==
  ASSUME NEW a, NEW b, Journey(a), Missed(b), Elsewhere(a, b), NEW f, NEW N, NEW G, Runs(f, N, G), Lives(f, N, b),
         where'[a].node = where[a].node, Routed(N),
         (\A n \in N : n[1] = "stream") \/ receivers' = receivers
  PROVE  Elsewhere(a, b)'
<1> SUFFICES ASSUME NEW s \in Spots', s[1] = "pipe", Between(s, a, b)', s[2] = where'[a].node, s[3] > Held(s[2])',
                    b \in receivers'[s[2]]
             PROVE  FALSE
  BY DEF Elsewhere
<1>1. CASE s \in N
  <2>1. PICK o \in Spots : Written(o) /\ Item(o) = Item(s)' /\ table[Item(o).to] = s[2] /\ s[2] # Nobody
    BY <1>1 DEF Routed
  <2>2. o[1] = "stream" /\ Speaks(o, a) /\ WaveTo(o, b) /\ table[b] # Nobody
    BY <2>1 DEF Written, Speaks, Between, WaveTo
  <2>3. o[2] = where[a].node BY <2>2 DEF Journey, Speaker
  <2>4. b \in receivers[o[2]] BY <1>1, <2>3
  <2>5. Doomed(o, b) BY <2>1, <2>2, <2>4 DEF Missed
  <2> QED BY <2>2, <2>5 DEF Doomed
<1>2. CASE s \notin N
  <2>1. s \in Spots' \ N BY <1>2
  <2>2. f[s] \in Spots /\ f[s][1] = s[1] /\ f[s][2] = s[2] /\ Between(f[s], a, b) BY <2>1, RunsFacts
  <2>3. f[s][3] > Held(s[2]) BY <2>1 DEF Runs
  <2>4. b \notin receivers[s[2]] BY <2>2, <2>3 DEF Elsewhere
  <2>5. Live(s, b)' BY DEF Live
  <2>6. Live(f[s], b) BY <2>1, <2>5 DEF Lives, Between
  <2> QED BY <2>2, <2>4, <2>6 DEF Live
<1> QED BY <1>1, <1>2

LEMMA OrderRuns ==
  ASSUME NEW a, NEW b, NEW h, Sources(h, a, b), InOrder(a, b), received'[b] = received[b]
  PROVE  InOrder(a, b)'
<1>1. ASSUME NEW s \in Spots', NEW t \in Spots', Between(s, a, b)', Between(t, a, b)', Live(s, b)', Live(t, b)', Before(s, t)
      PROVE  Item(s)'.nr < Item(t)'.nr
  <2>1. /\ h[s] \in Spots /\ Item(h[s]) = Item(s)' /\ Between(h[s], a, b) /\ Live(h[s], b)
        /\ h[t] \in Spots /\ Item(h[t]) = Item(t)' /\ Between(h[t], a, b) /\ Live(h[t], b)
        /\ Before(h[s], h[t])
    BY <1>1 DEF Sources
  <2>2. Item(h[s]).nr < Item(h[t]).nr BY <2>1 DEF InOrder, Queued
  <2> QED BY <2>1, <2>2
<1>2. Queued(a, b)' BY <1>1 DEF Queued, Before
<1>3. Heard(a, b)'
  <2> SUFFICES ASSUME NEW i \in DOMAIN received[b], NEW s \in Spots',
                      received[b][i].wave.from = a, Between(s, a, b)', Live(s, b)'
               PROVE  received[b][i].wave.nr < Item(s)'.nr
    BY DEF Heard
  <2>1. h[s] \in Spots /\ Item(h[s]) = Item(s)' /\ Between(h[s], a, b) /\ Live(h[s], b) BY DEF Sources
  <2>2. received[b][i].wave.nr < Item(h[s]).nr BY <2>1 DEF InOrder, Heard
  <2> QED BY <2>1, <2>2
<1>4. InTurn(a, b)' BY DEF InOrder, InTurn
<1> QED BY <1>2, <1>3, <1>4 DEF InOrder

LEMMA SourcesRuns ==
  ASSUME LineTypes, NEW a, NEW b, NEW f, NEW N, NEW G, Runs(f, N, G), Lives(f, N, b), \A n \in N : ~(Between(n, a, b)' /\ Live(n, b)')
  PROVE  Sources(f, a, b)
<1>1. ASSUME NEW s \in Spots', Between(s, a, b)', Live(s, b)'
      PROVE  /\ s \in Spots' \ N /\ f[s] \in Spots /\ Item(f[s]) = Item(s)' /\ Between(f[s], a, b) /\ Live(f[s], b)
             /\ f[s][1] = s[1] /\ f[s][2] = s[2]
  <2>1. s \in Spots' \ N BY <1>1
  <2>2. Live(f[s], b) BY <1>1, <2>1 DEF Lives, Between
  <2> QED BY <1>1, <2>1, <2>2, RunsFacts
<1>2. ASSUME NEW s \in Spots', NEW t \in Spots', Between(s, a, b)', Between(t, a, b)', Live(s, b)', Live(t, b)', Before(s, t)
      PROVE  Before(f[s], f[t])
  <2>1. /\ s \in Spots' \ N /\ f[s][1] = s[1] /\ f[s][2] = s[2]
        /\ t \in Spots' \ N /\ f[t][1] = t[1] /\ f[t][2] = t[2]
    BY <1>1, <1>2
  <2>2. s[1] = t[1] /\ s[2] = t[2] => (s[3] < t[3] <=> f[s][3] < f[t][3]) BY <2>1, RunsOrder
  <2> QED BY <1>2, <2>1, <2>2 DEF Before
<1> QED BY <1>1, <1>2 DEF Sources

LEMMA SourcesReplaces ==
  ASSUME LineTypes, NEW a, NEW b, NEW f, NEW n, NEW o, NEW G, Runs(f, {n}, G), Lives(f, {n}, b),
         Between(n, a, b)' /\ Live(n, b)' => Replaces(f, n, o, a, b)
  PROVE  \E h : Sources(h, a, b)
<1>1. CASE ~(Between(n, a, b)' /\ Live(n, b)')
  <2>1. \A m \in {n} : ~(Between(m, a, b)' /\ Live(m, b)') BY <1>1
  <2>2. Sources(f, a, b) BY <2>1, SourcesRuns
  <2> QED BY <2>2
<1>2. CASE Between(n, a, b)' /\ Live(n, b)'
  <2>0. Replaces(f, n, o, a, b) BY <1>2
  <2> DEFINE h == [s \in Spots' |-> IF s = n THEN o ELSE f[s]]
  <2>1. n \in Spots' /\ h[n] = o /\ \A s \in Spots' : s # n => h[s] = f[s] BY <2>0 DEF Replaces
  <2> HIDE DEF h
  <2>2. o \in Spots /\ Item(o) = Item(n)' /\ Between(o, a, b) /\ Live(o, b)
    BY <1>2, <2>0 DEF Replaces, Between, WaveTo
  <2>3. ASSUME NEW s \in Spots', s # n, Between(s, a, b)', Live(s, b)'
        PROVE  /\ h[s] = f[s] /\ s \in Spots' \ {n} /\ f[s] \in Spots /\ Item(f[s]) = Item(s)' /\ Between(f[s], a, b) /\ Live(f[s], b)
               /\ f[s][1] = s[1] /\ f[s][2] = s[2]
    <3>1. s \in Spots' \ {n} BY <2>3
    <3>2. Live(f[s], b) BY <2>3, <3>1 DEF Lives, Between
    <3> QED BY <2>1, <2>3, <3>1, <3>2, RunsFacts
  <2>4. ASSUME NEW s \in Spots', NEW t \in Spots', Between(s, a, b)', Between(t, a, b)', Live(s, b)', Live(t, b)', Before(s, t)
        PROVE  Before(h[s], h[t])
    <3>1. CASE s # n /\ t # n
      <4>1. /\ s \in Spots' \ {n} /\ f[s][1] = s[1] /\ f[s][2] = s[2] /\ h[s] = f[s]
            /\ t \in Spots' \ {n} /\ f[t][1] = t[1] /\ f[t][2] = t[2] /\ h[t] = f[t]
        BY <2>3, <2>4, <3>1
      <4>2. s[1] = t[1] /\ s[2] = t[2] => (s[3] < t[3] <=> f[s][3] < f[t][3]) BY <4>1, RunsOrder
      <4> QED BY <2>4, <4>1, <4>2 DEF Before
    <3>2. CASE s = n /\ t # n
      <4>1. t \in Spots' \ {n} /\ h[t] = f[t] /\ h[s] = o BY <2>1, <3>2
      <4> QED BY <2>0, <2>4, <3>2, <4>1 DEF Replaces
    <3>3. CASE t = n /\ s # n
      <4>1. s \in Spots' \ {n} /\ h[s] = f[s] /\ h[t] = o BY <2>1, <3>3
      <4> QED BY <2>0, <2>4, <3>3, <4>1 DEF Replaces
    <3>4. CASE s = n /\ t = n
      <4>1. n[3] \in Nat BY <2>1, PlacesNext
      <4>2. ~Before(n, n) BY <4>1 DEF Before
      <4> QED BY <2>4, <3>4, <4>2
    <3> QED BY <3>1, <3>2, <3>3, <3>4
  <2>5. ASSUME NEW s \in Spots', Between(s, a, b)', Live(s, b)'
        PROVE  h[s] \in Spots /\ Item(h[s]) = Item(s)' /\ Between(h[s], a, b) /\ Live(h[s], b)
    BY <2>1, <2>2, <2>3, <2>5
  <2>6. Sources(h, a, b) BY <2>4, <2>5 DEF Sources
  <2> QED BY <2>6
<1> QED BY <1>1, <1>2

-----------------------------------------------------------------------------
(* What a step does to those who do not take it.                           *)

LEMMA FootingFacts ==
  ASSUME Footing
  PROVE  /\ TypeInv /\ TypeInv' /\ Copies /\ Copies' /\ LineTypes /\ LineTypes' /\ Listed /\ Present /\ Present'
         /\ \A e \in Entities : e \notin restarted' => e \in Entities \ restarted /\ Coming(e)
         /\ \A a, b \in Agents : a \notin restarted' /\ b \notin restarted' => Elsewhere(a, b) /\ InOrder(a, b)
<1>1. TypeInv /\ TypeInv' /\ Copies /\ Copies' /\ Named /\ Named' /\ Comings /\ Ordered /\ restarted \subseteq restarted'
  BY DEF Footing
<1>2. LineTypes /\ LineTypes' BY <1>1, TypeParts
<1>3. Listed /\ Present /\ Present' BY <1>1 DEF Named
<1>4. \A e \in Entities : e \notin restarted' => e \in Entities \ restarted /\ Coming(e) BY <1>1 DEF Comings
<1>5. \A a, b \in Agents : a \notin restarted' /\ b \notin restarted' => Elsewhere(a, b) /\ InOrder(a, b)
  BY <1>1 DEF Ordered
<1> QED BY <1>1, <1>2, <1>3, <1>4, <1>5

LEMMA SteadyComes ==
  ASSUME NEW e, Steady(e)
  PROVE  /\ Comes(e) /\ Stays(e) /\ table'[e] = table[e] /\ where'[e].node = where[e].node
         /\ where'[e].step = "putting" => where[e].step = "putting"
BY DEF Steady, Comes, Stays

LEMMA WavingBehind ==
  ASSUME NEW e, NEW N, Waving(N, e), Steady(e)
  PROVE  /\ Behind(N, e) /\ \A n \in N : Speaks(n, e)' => n[2] = where[e].node
         /\ \A n \in N : ~Enters(n, e)' /\ ~Carries(n, e)'
<1>1. \A n \in N : ~Enters(n, e)' /\ ~Carries(n, e)' BY DEF Waving, Enters
<1> QED BY <1>1 DEF Behind, Waving, Steady, Stays

LEMMA ComingSteady ==
  ASSUME Footing, NEW e \in Entities, e \notin restarted', NEW f, NEW N, NEW G, Runs(f, N, G), Trims(f, N, G, e),
         Waving(N, e), Steady(e), Writes(f, N, e), Forwards(N)
  PROVE  Coming(e)' /\ Lives(f, N, e)
<1>1. /\ TypeInv /\ Copies /\ LineTypes /\ Listed /\ Present /\ Present' /\ e \in Entities \ restarted
      /\ Journey(e) /\ Missed(e) /\ Ahead(e) /\ Cleared(e)
  BY FootingFacts DEF Coming
<1>2. /\ Comes(e) /\ Stays(e) /\ table'[e] = table[e] /\ where'[e].node = where[e].node
      /\ where'[e].step = "putting" => where[e].step = "putting"
  BY SteadyComes
<1>3. /\ Behind(N, e) /\ \A n \in N : Speaks(n, e)' => n[2] = where[e].node
      /\ \A n \in N : ~Enters(n, e)' /\ ~Carries(n, e)'
  BY WavingBehind
<1>4. Dooms(f, N, e) BY <1>1, <1>2, <1>3, DoomsSteady
<1>5. Lives(f, N, e) BY <1>1, <1>2, <1>4, LivesComes
<1>6. Journey(e)' BY <1>1, JourneyRuns
<1>7. Missed(e)' BY <1>1, <1>2, <1>3, <1>4, MissedRuns
<1>8. Ahead(e)' BY <1>1, <1>3, AheadRuns
<1>9. Cleared(e)' BY <1>1, <1>2, ClearedRuns
<1> QED BY <1>5, <1>6, <1>7, <1>8, <1>9 DEF Coming

\* The same for one who says that it comes or goes.
LEMMA ComingActs ==
  ASSUME Footing, NEW e \in Entities, e \notin restarted', NEW f, NEW N, NEW G, Runs(f, N, G), Journey(e)', Dooms(f, N, e),
         Comes(e), Writes(f, N, e), Forwards(N), where'[e].node = where[e].node,
         where[e].step # "putting", where'[e].step # "putting",
         \A n \in N, s \in Spots' : Carries(n, e)' /\ n[1] = "pipe" /\ s[1] = "pipe" /\ s[2] = n[2] => s[3] < n[3] \/ s = n
  PROVE  Coming(e)' /\ Lives(f, N, e) /\ where'[e].node = where[e].node
<1>1. /\ TypeInv /\ Copies /\ Listed /\ Present /\ Present' /\ e \in Entities \ restarted
      /\ Journey(e) /\ Missed(e) /\ Ahead(e) /\ Cleared(e)
  BY FootingFacts DEF Coming
<1>2. Lives(f, N, e) BY <1>1, LivesComes
<1>3. Missed(e)' BY <1>1, MissedRuns
<1>4. Ahead(e)' BY <1>1, AheadRuns
<1>5. Cleared(e)' BY <1>1, ClearedRuns
<1> QED BY <1>2, <1>3, <1>4, <1>5 DEF Coming

\* No wave comes to a line, and nothing is received.
LEMMA PairsStill ==
  ASSUME Footing, NEW f, NEW N, NEW G, Runs(f, N, G), UNCHANGED received,
         \A n \in N : n[1] = "stream" /\ Item(n)' \notin Wave,
         \A e \in Entities : e \notin restarted' => Coming(e)' /\ Lives(f, N, e) /\ where'[e].node = where[e].node
  PROVE  Comings' /\ Ordered'
<1>1. Comings' BY DEF Comings, Entities
<1>2. ASSUME NEW a \in Agents, NEW b \in Agents, a \notin restarted', b \notin restarted'
      PROVE  Elsewhere(a, b)' /\ InOrder(a, b)'
  <2>1. a \in Entities /\ b \in Entities BY DEF Entities
  <2>2. Journey(a) /\ Missed(b) /\ Elsewhere(a, b) /\ InOrder(a, b) /\ LineTypes
    BY <1>2, <2>1, FootingFacts DEF Coming
  <2>3. Lives(f, N, b) /\ where'[a].node = where[a].node BY <1>2, <2>1
  <2>4. Routed(N) /\ \A n \in N : ~(Between(n, a, b)' /\ Live(n, b)') BY DEF Routed, Between, WaveTo
  <2>5. Elsewhere(a, b)' BY <2>2, <2>3, <2>4, ElsewhereRuns
  <2>6. Sources(f, a, b) BY <2>2, <2>3, <2>4, SourcesRuns
  <2>7. InOrder(a, b)' BY <2>2, <2>6, OrderRuns
  <2> QED BY <2>5, <2>7
<1> QED BY <1>1, <1>2 DEF Ordered

LEMMA QuietStep ==
  ASSUME Footing, NEW f, NEW G, Runs(f, {}, G), UNCHANGED received,
         \A e \in Entities : e \notin restarted' => Steady(e) /\ Writes(f, {}, e) /\ Trims(f, {}, G, e)
  PROVE  Comings' /\ Ordered'
<1>1. ASSUME NEW e \in Entities, e \notin restarted' PROVE Coming(e)' /\ Lives(f, {}, e) /\ where'[e].node = where[e].node
  <2>1. Waving({}, e) /\ Forwards({}) BY DEF Waving, Forwards
  <2>2. Steady(e) /\ Writes(f, {}, e) /\ Trims(f, {}, G, e) BY <1>1
  <2>3. Coming(e)' /\ Lives(f, {}, e) BY <1>1, <2>1, <2>2, ComingSteady
  <2> QED BY <2>2, <2>3, SteadyComes
<1> QED BY <1>1, PairsStill

LEMMA FlowWrites ==
  ASSUME NEW f, NEW N, NEW G, Flow(f, N, G), \A n \in N : ~Written(n)'
  PROVE  \A e : Writes(f, N, e)
BY DEF Flow, Writes

\* A step at which no connection comes back, and everybody stays.
LEMMA QuietFlow ==
  ASSUME Footing, [Next]_vars, NEW f, NEW G, Flow(f, {}, G), UNCHANGED received,
         \A e \in Entities : e \notin restarted' => Steady(e) /\ Trims(f, {}, G, e)
  PROVE  Comings' /\ Ordered'
<1>1. Runs(f, {}, G)
  <2>1. TypeInv BY FootingFacts
  <2> QED BY <2>1, ClosedStays, FlowRuns
<1>2. \A e : Writes(f, {}, e) BY FlowWrites
<1> QED BY <1>1, <1>2, QuietStep

LEMMA NoTrims ==
  ASSUME NEW f, NEW N, NEW G, \A g \in G : g[1] # "stream" \/ Item(g) \in Content
  PROVE  \A e : Trims(f, N, G, e)
BY DEF Trims, On

LEMMA SteadyAll ==
  ASSUME UNCHANGED <<where, receivers, table>>
  PROVE  \A e : Steady(e)
BY DEF Steady, Stays

LEMMA QuietLines ==
  ASSUME Footing, [Next]_vars, UNCHANGED received,
         \/ UNCHANGED <<outbound, thread, toServer, toPylon>>
         \/ \E p \in Pylons : Read(p),
         \A e \in Entities : e \notin restarted' => Steady(e)
  PROVE  Comings' /\ Ordered'
<1>1. TypeInv /\ TypeInv' BY FootingFacts
<1>2. PICK f : Flow(f, {}, {}) BY <1>1, FlowQuiet
<1>3. \A e : Trims(f, {}, {}, e) BY NoTrims
<1> QED BY <1>2, <1>3, QuietFlow

LEMMA OrderPylon ==
  ASSUME Footing, [Next]_vars, NEW p \in Pylons, Open(p) \/ Suspend(p) \/ Stop(p) \/ Read(p)
  PROVE  Comings' /\ Ordered'
<1>1. UNCHANGED <<where, receivers, table, received>> BY DEF Open, Suspend, Stop, Read, agents, network, history
<1>2. UNCHANGED <<outbound, thread, toServer, toPylon>> \/ Read(p) BY DEF Open, Suspend, Stop, network
<1> QED BY <1>1, <1>2, SteadyAll, QuietLines

LEMMA OrderClose ==
  ASSUME Footing, [Next]_vars, NEW p \in Pylons, Close(p)
  PROVE  Comings' /\ Ordered'
<1>1. TypeInv /\ TypeInv' BY FootingFacts
<1>2. PICK f, G : /\ Flow(f, {}, G)
                  /\ \A g \in G : g[1] = "stream" => g[2] = p /\ Written(g)
                  /\ \A g \in G, s \in Spots' : On(g, "stream", p) /\ On(s, "stream", p) /\ Written(f[s]) => f[s][3] < g[3]
  BY <1>1, FlowClose
<1>3. UNCHANGED <<where, receivers, table, received>> /\ conn'[p] = "closed"
  <2>1. PylonTypes BY <1>1, TypeParts
  <2> QED BY <2>1 DEF Close, agents, PylonTypes
<1>4. ASSUME NEW e PROVE Trims(f, {}, G, e)
  <2> SUFFICES ASSUME NEW g \in G, NEW s \in Spots', On(g, "stream", s[2]), s[1] = "stream", Alive(s)'
               PROVE  f[s][3] < g[3]
    BY DEF Trims
  <2>1. s[2] = p BY <1>2 DEF On
  <2>2. Written(s)' BY <1>3, <2>1 DEF Alive
  <2>3. Written(f[s]) BY <1>2, <2>2 DEF Flow
  <2> QED BY <1>2, <2>1, <2>3 DEF On
<1> QED BY <1>2, <1>3, <1>4, SteadyAll, QuietFlow

LEMMA OrderServeInbound ==
  ASSUME Footing, [Next]_vars, NEW p \in Pylons, ServeInbound(p)
  PROVE  Comings' /\ Ordered'
<1>1. TypeInv /\ TypeInv' BY FootingFacts
<1>2. UNCHANGED <<where, receivers, table, received>> BY DEF ServeInbound, agents, network
<1>3. PICK f, G : Flow(f, {}, G) /\ \A g \in G : g[1] # "stream"
  <2>1. \/ \E f : Flow(f, {}, {})
        \/ \E f : Flow(f, {}, {<<"pipe", p, 1>>})
    BY <1>1, FlowServeInbound
  <2> QED BY <2>1
<1> QED BY <1>2, <1>3, SteadyAll, NoTrims, QuietFlow

\* An entity goes on where it is.
LEMMA OrderGoes ==
  ASSUME Footing, [Next]_vars, NEW e \in Entities, where'[e].node = where[e].node, where'[e].step # "putting",
         where'[e].step = "adding" => where[e].step = "putting",
         \A x \in Entities : x # e => where'[x] = where[x],
         \A p \in Pylons, x \in Entities : x \in receivers'[p] =>
             x \in receivers[p] \/ (x = e /\ where[e].step = "putting" /\ where[e].node = p),
         UNCHANGED <<outbound, thread, network, received>>
  PROVE  Comings' /\ Ordered'
<1>1. ASSUME NEW x \in Entities PROVE Steady(x)
  <2>1. Stays(x) /\ (where'[x].step = "putting" => where[x].step = "putting") BY DEF Stays
  <2>2. table'[x] = table[x] BY DEF network
  <2> QED BY <2>1, <2>2 DEF Steady
<1>2. UNCHANGED <<outbound, thread, toServer, toPylon>> BY DEF network
<1> QED BY <1>1, <1>2, QuietLines

LEMMA OrderPut ==
  ASSUME Footing, [Next]_vars, NEW e \in Entities, Put(e)
  PROVE  Comings' /\ Ordered'
<1>1. TypeInv /\ Named BY DEF Footing
<1>2. /\ where[e].node \in Pylons /\ where[e].step = "putting"
      /\ where'[e].step = "adding" /\ where'[e].node = where[e].node
      /\ \A f \in Entities : f # e => where'[f] = where[f]
      /\ receivers' = [receivers EXCEPT ![where[e].node] = @ \cup {e}]
      /\ UNCHANGED <<pylon, outbound, thread, network, count, moved, restarted, history>>
  BY <1>1, PutCases
<1>3. ASSUME NEW p \in Pylons, NEW x \in Entities, x \in receivers'[p]
      PROVE  x \in receivers[p] \/ (x = e /\ where[e].step = "putting" /\ where[e].node = p)
  <2>1. receivers \in [Pylons -> SUBSET Entities] BY <1>1, TypeParts DEF NameTypes
  <2> QED BY <1>2, <1>3, <2>1
<1>4. UNCHANGED received BY <1>2 DEF history
<1> QED BY <1>2, <1>3, <1>4, OrderGoes

LEMMA OrderPostMove ==
  ASSUME Footing, [Next]_vars, NEW a \in Agents, PostMove(a) \/ Remove(a)
  PROVE  Comings' /\ Ordered'
<1>1. TypeInv /\ a \in Entities BY FootingFacts DEF Entities
<1>2. where \in [Entities -> Place] /\ receivers \in [Pylons -> SUBSET Entities]
  BY <1>1, TypeParts DEF NameTypes, WhereTypes
<1>3. /\ where'[a].node = where[a].node /\ where'[a].step \in {"stopping", "removed"}
      /\ \A x \in Entities : x # a => where'[x] = where[x]
  BY <1>1, <1>2 DEF PostMove, Remove, Goes, Place
<1>4. \A p \in Pylons, x \in Entities : x \in receivers'[p] => x \in receivers[p]
  BY <1>1, <1>2 DEF PostMove, Remove
<1>5. UNCHANGED <<outbound, thread, network, received>> BY DEF PostMove, Remove, history
<1> QED BY <1>1, <1>3, <1>4, <1>5, OrderGoes

LEMMA OrderRestart ==
  ASSUME Footing, [Next]_vars, NEW a \in Agents, Restart(a)
  PROVE  Comings' /\ Ordered'
<1>1. where \in [Entities -> Place] BY FootingFacts, TypeParts DEF WhereTypes
<1>2. ASSUME NEW e \in Entities, e \notin restarted' PROVE Steady(e)
  <2>1. e # a BY <1>2 DEF Restart
  <2>2. where'[e] = where[e] /\ receivers' = receivers /\ table' = table
    BY <1>1, <1>2, <2>1 DEF Restart, network
  <2> QED BY <2>2 DEF Steady, Stays
<1>3. UNCHANGED <<received, outbound, thread, toServer, toPylon>> BY DEF Restart, history, network
<1> QED BY <1>2, <1>3, QuietLines

-----------------------------------------------------------------------------
(* What is said to the server.                                             *)

\* A step that says this of one entity is none of the others'.
LEMMA WavingOthers ==
  ASSUME NEW N, NEW a, \A n \in N : Item(n)'.from = a
  PROVE  \A e : e # a => Waving(N, e)
BY DEF Waving, Carries, Speaks

LEMMA StreamForwards ==
  ASSUME NEW N, \A n \in N : n[1] = "stream"
  PROVE  Forwards(N) /\ Routed(N)
BY DEF Forwards, Routed

\* The last place of a stream is behind the others.
LEMMA LastBehind ==
  ASSUME NEW p, NEW n, NEW N, n \in Spots', n \in N, On(n, "stream", p),
         \A s \in Spots' : On(s, "stream", p) => s[3] <= n[3]
  PROVE  \A s \in Spots' \ N : s[1] = "stream" /\ s[2] = n[2] => s[3] < n[3]
<1> SUFFICES ASSUME NEW s \in Spots' \ N, s[1] = "stream", s[2] = n[2] PROVE s[3] < n[3] OBVIOUS
<1>1. s[3] <= n[3] /\ n[1] = "stream" BY DEF On
<1>2. s[3] \in Nat /\ n[3] \in Nat /\ s = <<s[1], s[2], s[3]>> /\ n = <<n[1], n[2], n[3]>> BY PlacesNext
<1>3. s[3] # n[3] BY <1>1, <1>2
<1> QED BY <1>1, <1>2, <1>3

\* What the others are after an entity has said something.
LEMMA OthersSay ==
  ASSUME Footing, NEW a, NEW f, NEW N, Runs(f, N, {}), \A n \in N : ~Written(n)',
         \A n \in N : n[1] = "stream" /\ Item(n)'.from = a,
         NEW e \in Entities, e \notin restarted', e # a, Steady(e), Writes(f, N, e)
  PROVE  Coming(e)' /\ Lives(f, N, e) /\ where'[e].node = where[e].node
<1>1. Waving(N, e) /\ Forwards(N) /\ Trims(f, N, {}, e) BY WavingOthers, StreamForwards, NoTrims
<1> QED BY <1>1, ComingSteady, SteadyComes

LEMMA OrderAdd ==
  ASSUME Footing, [Next]_vars, NEW e \in Entities, Add(e)
  PROVE  Comings' /\ Ordered'
<1> DEFINE r == [kind |-> "reg", from |-> e]
<1>0. TypeInv /\ TypeInv' /\ Copies BY FootingFacts
<1>1. /\ where[e].step = "adding" /\ Goes(e, "in") /\ r.kind = "reg" /\ r.from = e
      /\ outbound' = [outbound EXCEPT ![where[e].node] = Append(@, r)]
      /\ UNCHANGED <<thread, network, receivers, restarted, received>>
  BY DEF Add, history
<1>2. where[e].node \in Pylons /\ r \in Registration /\ r \in Message
  BY <1>0, TypeParts, WhereFacts, RegistrationFields, MessageKinds
<1> HIDE DEF r
<1>3. PICK n \in Spots' : /\ On(n, "stream", where[e].node) /\ ~Written(n)' /\ Item(n)' = r
                          /\ \A s \in Spots' : On(s, "stream", where[e].node) => s[3] <= n[3]
                          /\ \E f : Flow(f, {n}, {})
  BY <1>0, <1>1, <1>2, FlowAppend
<1>4. PICK f : Flow(f, {n}, {}) BY <1>3
<1>5. Runs(f, {n}, {}) /\ \A x : Writes(f, {n}, x) BY <1>0, <1>3, <1>4, ClosedStays, FlowRuns, FlowWrites
<1>6. /\ where'[e].step = "in" /\ \A x \in Entities : where'[x].node = where[x].node
      /\ \A x \in Entities : x # e => where'[x] = where[x]
  BY <1>0, <1>1, TypeParts, GoesOn DEF Steps
<1>7. \A x \in Entities : Steady(x) BY <1>1, <1>6 DEF Steady, Stays, network
<1>8. r \notin Wave /\ n[1] = "stream" /\ n[2] = where[e].node BY <1>1, <1>3, WaveFields DEF On
<1>9. ASSUME NEW x \in Entities, x \notin restarted', x # e
      PROVE  Coming(x)' /\ Lives(f, {n}, x) /\ where'[x].node = where[x].node
  <2>1. \A m \in {n} : m[1] = "stream" /\ Item(m)'.from = e /\ ~Written(m)' BY <1>1, <1>3, <1>8
  <2> HIDE DEF Footing
  <2> QED BY <1>5, <1>7, <1>9, <2>1, OthersSay
<1>10. ASSUME e \notin restarted'
       PROVE  Coming(e)' /\ Lives(f, {n}, e) /\ where'[e].node = where[e].node
  <2>1. Journey(e) /\ LineTypes BY <1>10, FootingFacts DEF Coming
  <2>2. Journey(e)' BY <1>0, <1>1, <1>3, <1>5, <1>6, <1>7, <2>1, JourneyAdd
  <2>3. Comes(e) /\ Stays(e) /\ table'[e] = table[e] BY <1>7, SteadyComes
  <2>4. Behind({n}, e) BY <1>3, <1>8, LastBehind DEF Behind
  <2>5. Dooms(f, {n}, e) BY <1>5, <1>6, <1>8, <2>1, <2>3, <2>4, DoomsSteady
  <2>6. Forwards({n}) BY <1>8, StreamForwards
  <2> QED BY <1>1, <1>5, <1>6, <1>8, <1>10, <2>2, <2>3, <2>5, <2>6, ComingActs
<1>11. ASSUME NEW x \in Entities, x \notin restarted'
       PROVE  Coming(x)' /\ Lives(f, {n}, x) /\ where'[x].node = where[x].node
  BY <1>9, <1>10, <1>11
<1> QED BY <1>1, <1>3, <1>5, <1>8, <1>11, PairsStill

LEMMA OrderStopCopy ==
  ASSUME Footing, [Next]_vars, NEW a \in Agents, StopCopy(a)
  PROVE  Comings' /\ Ordered'
<1> DEFINE u == [kind |-> "unreg", from |-> a]
<1>0. TypeInv /\ TypeInv' /\ Listed BY FootingFacts
<1>1. PICK p \in Pylons : /\ p # where[a].node /\ a \in receivers[p]
                          /\ outbound' = [outbound EXCEPT ![p] = Append(@, u)]
                          /\ receivers' = [receivers EXCEPT ![p] = @ \ {a}]
                          /\ UNCHANGED <<pylon, thread, network, agents, history>>
  BY DEF StopCopy
<1>2. u \in Message /\ u.kind = "unreg" /\ u.from = a BY RegistrationFields, MessageKinds DEF Entities
<1> HIDE DEF u
<1>3. PICK n \in Spots' : On(n, "stream", p) /\ ~Written(n)' /\ Item(n)' = u /\ \E f : Flow(f, {n}, {})
  BY <1>0, <1>1, <1>2, FlowAppend
<1>4. PICK f : Flow(f, {n}, {}) BY <1>3
<1>5. Runs(f, {n}, {}) /\ \A x : Writes(f, {n}, x) BY <1>0, <1>3, <1>4, ClosedStays, FlowRuns, FlowWrites
<1>6. a \in restarted /\ UNCHANGED <<where, table, restarted, received>>
  BY <1>0, <1>1 DEF Listed, agents, network, history
<1>7. ASSUME NEW e \in Entities PROVE Steady(e)
  <2>1. \A q \in Pylons : e \in receivers'[q] => e \in receivers[q]
    <3>1. receivers \in [Pylons -> SUBSET Entities] BY <1>0, TypeParts DEF NameTypes
    <3> QED BY <1>1, <3>1
  <2> QED BY <1>6, <2>1 DEF Steady, Stays
<1>8. u \notin Wave /\ n[1] = "stream" BY <1>2, <1>3, WaveFields DEF On
<1>9. ASSUME NEW x \in Entities, x \notin restarted'
      PROVE  Coming(x)' /\ Lives(f, {n}, x) /\ where'[x].node = where[x].node
  <2>1. \A m \in {n} : m[1] = "stream" /\ Item(m)'.from = a /\ ~Written(m)' BY <1>2, <1>3, <1>8
  <2>2. x # a BY <1>6, <1>9
  <2> QED BY <1>5, <1>7, <1>9, <2>1, <2>2, OthersSay
<1> QED BY <1>3, <1>5, <1>6, <1>8, <1>9, PairsStill

LEMMA OrderLeave ==
  ASSUME ~SelfMoves, Footing, [Next]_vars, NEW a \in Agents, Leave(a)
  PROVE  Comings' /\ Ordered'
<1> DEFINE u == [kind |-> "unreg", from |-> a]
<1>0. TypeInv /\ TypeInv' /\ Copies BY FootingFacts
<1>1. PICK p \in Pylons : p = where[a].node BY <1>0, LeaveSends
<1>2. /\ a \in Entities /\ Goes(a, "away") /\ UNCHANGED <<thread, network, receivers, restarted, received>> /\ where[a].step = "removed"
  BY <1>0, LeaveSends
<1>3. \E m \in Transit : /\ m.from = a /\ m.to # p /\ u \in Registration
                         /\ outbound' = [outbound EXCEPT ![p] = @ \o <<u, m>>]
  BY <1>0, <1>1, LeaveSends DEF Destinations
<1>4. u.kind = "unreg" /\ u.from = a OBVIOUS
<1> HIDE DEF u
<1>5. PICK m \in Transit : /\ m.from = a /\ m.to # p /\ u \in Registration
                           /\ outbound' = [outbound EXCEPT ![p] = @ \o <<u, m>>]
  BY <1>3
<1>6. m \in Message /\ u \in Message /\ m.kind = "agent" /\ m \notin Wave /\ u \notin Wave
  BY <1>4, <1>5, TransitFields, WaveFields, MessageKinds DEF Message, Content
<1>7. PICK n \in Spots', x \in Spots' :
          /\ On(n, "stream", p) /\ ~Written(n)' /\ Item(n)' = m
          /\ On(x, "stream", p) /\ ~Written(x)' /\ Item(x)' = u /\ x[3] + 1 = n[3]
          /\ \A s \in Spots' : On(s, "stream", p) => s[3] <= n[3]
          /\ \E f : Flow(f, {x, n}, {})
  <2>1. Farewell(p, u, m) BY <1>2, <1>5 DEF Farewell
  <2>2. PICK n \in Spots', x \in Spots' : FarewellAt(p, u, m, x, n) BY <1>0, <1>6, <2>1, FlowLeave
  <2> QED BY <2>2 DEF FarewellAt
<1>8. PICK f : Flow(f, {x, n}, {}) BY <1>7
<1>9. /\ where'[a].step = "away" /\ (\A y \in Entities : where'[y].node = where[y].node)
      /\ \A y \in Entities : y # a => where'[y] = where[y]
  BY <1>0, <1>2, TypeParts, GoesOn DEF Steps
<1>10. ASSUME NEW y \in {x, n}
       PROVE  y[1] = "stream" /\ y[2] = p /\ Item(y)' \notin Wave /\ Item(y)'.from = a /\ ~Written(y)'
  BY <1>4, <1>5, <1>6, <1>7 DEF On
<1>11. \A y \in Entities : Steady(y) BY <1>2, <1>9 DEF Steady, Stays, network
<1>12. Runs(f, {x, n}, {}) /\ \A y : Writes(f, {x, n}, y)
  BY <1>0, <1>8, <1>10, ClosedStays, FlowRuns, FlowWrites
<1>13. ASSUME a \notin restarted'
       PROVE  Coming(a)' /\ Lives(f, {x, n}, a) /\ where'[a].node = where[a].node
  <2>1. Journey(a) /\ LineTypes BY <1>2, <1>13, FootingFacts DEF Coming
  <2>2. Journey(a)'
    <3>1. Item(n)' \in Transit /\ Item(n)'.from = a /\ Item(n)'.to # p /\ Item(x)'.kind = "unreg" /\ Item(x)'.from = a
      BY <1>4, <1>5, <1>7
    <3> QED BY <1>0, <1>1, <1>2, <1>7, <1>9, <1>11, <1>12, <2>1, <3>1, JourneyLeave
  <2>3. Comes(a) /\ Stays(a) /\ table'[a] = table[a] BY <1>2, <1>11, SteadyComes
  <2>4. Behind({x, n}, a)
    <3>1. ~Enters(x, a)' /\ ~Carries(x, a)' BY <1>4, <1>7, TransitFields DEF Enters, Carries
    <3>2. \A s \in Spots' \ {x, n} : s[1] = "stream" /\ s[2] = n[2] => s[3] < n[3] BY <1>7, LastBehind
    <3> QED BY <1>10, <3>1, <3>2 DEF Behind
  <2>5. Dooms(f, {x, n}, a)
    <3>1. \A y \in {x, n} : Speaks(y, a)' => y[2] = where[a].node BY <1>1, <1>10
    <3> QED BY <1>9, <1>12, <2>1, <2>3, <2>4, <3>1, DoomsSteady
  <2>6. Forwards({x, n}) /\ \A y \in {x, n} : y[1] # "pipe" BY <1>10, StreamForwards
  <2>7. where[a].step # "putting" /\ where'[a].step # "putting" /\ where'[a].node = where[a].node BY <1>2, <1>9
  <2> QED BY <1>2, <1>12, <1>13, <2>2, <2>3, <2>5, <2>6, <2>7, ComingActs
<1>14. ASSUME NEW y \in Entities, y \notin restarted'
       PROVE  Coming(y)' /\ Lives(f, {x, n}, y) /\ where'[y].node = where[y].node
  <2>1. CASE y = a BY <1>13, <1>14, <2>1
  <2>2. CASE y # a
    <3>1. Steady(y) /\ Writes(f, {x, n}, y) /\ Runs(f, {x, n}, {}) BY <1>11, <1>12
    <3> QED BY <1>10, <1>14, <2>2, <3>1, OthersSay
  <2> QED BY <2>1, <2>2
<1> QED BY <1>2, <1>10, <1>12, <1>14, PairsStill

\* A wave that is younger than all the others comes to the end of a stream.
LEMMA OrderEnds ==
  ASSUME LineTypes, NEW a, NEW b, InOrder(a, b), received' = received, NEW f, NEW n, NEW G, Runs(f, {n}, G), Lives(f, {n}, b),
         \A s \in Spots : Between(s, a, b) => Item(s).nr < Item(n)'.nr,
         \A i \in DOMAIN received[b] : received[b][i].wave.from = a => received[b][i].wave.nr < Item(n)'.nr,
         \A s \in Spots' : ~Before(n, s)
  PROVE  InOrder(a, b)'
<1>1. ASSUME NEW s \in Spots', s # n, Between(s, a, b)', Live(s, b)'
      PROVE  /\ s \in Spots' \ {n} /\ f[s] \in Spots /\ Item(f[s]) = Item(s)' /\ Between(f[s], a, b) /\ Live(f[s], b)
             /\ f[s][1] = s[1] /\ f[s][2] = s[2]
  <2>1. s \in Spots' \ {n} BY <1>1
  <2>2. Live(f[s], b) BY <1>1, <2>1 DEF Lives, Between
  <2> QED BY <1>1, <2>1, <2>2, RunsFacts
<1>2. ASSUME NEW s \in Spots', NEW t \in Spots', Between(s, a, b)', Between(t, a, b)', Live(s, b)', Live(t, b)', Before(s, t)
      PROVE  Item(s)'.nr < Item(t)'.nr
  <2>1. s # n BY <1>2
  <2>2. f[s] \in Spots /\ Item(f[s]) = Item(s)' /\ Between(f[s], a, b) /\ Live(f[s], b)
        /\ s \in Spots' \ {n} /\ f[s][1] = s[1] /\ f[s][2] = s[2]
    BY <1>1, <1>2, <2>1
  <2>3. CASE t = n BY <2>2, <2>3
  <2>4. CASE t # n
    <3>1. f[t] \in Spots /\ Item(f[t]) = Item(t)' /\ Between(f[t], a, b) /\ Live(f[t], b)
          /\ t \in Spots' \ {n} /\ f[t][1] = t[1] /\ f[t][2] = t[2]
      BY <1>1, <1>2, <2>4
    <3>2. s[1] = t[1] /\ s[2] = t[2] => (s[3] < t[3] <=> f[s][3] < f[t][3]) BY <2>2, <3>1, RunsOrder
    <3>3. Before(f[s], f[t]) BY <1>2, <2>2, <3>1, <3>2 DEF Before
    <3>4. Item(f[s]).nr < Item(f[t]).nr BY <2>2, <3>1, <3>3 DEF InOrder, Queued
    <3> QED BY <2>2, <3>1, <3>4
  <2> QED BY <2>3, <2>4
<1>3. Queued(a, b)' BY <1>2 DEF Queued, Before
<1>4. ASSUME NEW i \in DOMAIN received[b], NEW s \in Spots', received[b][i].wave.from = a, Between(s, a, b)', Live(s, b)'
      PROVE  received[b][i].wave.nr < Item(s)'.nr
  <2>1. CASE s = n BY <1>4, <2>1
  <2>2. CASE s # n
    <3>1. f[s] \in Spots /\ Item(f[s]) = Item(s)' /\ Between(f[s], a, b) /\ Live(f[s], b) BY <1>1, <1>4, <2>2
    <3>2. received[b][i].wave.nr < Item(f[s]).nr BY <1>4, <3>1 DEF InOrder, Heard
    <3> QED BY <3>1, <3>2
  <2> QED BY <2>1, <2>2
<1>5. Heard(a, b)' BY <1>4 DEF Heard
<1>6. InTurn(a, b)' BY DEF InOrder, InTurn
<1> QED BY <1>3, <1>5, <1>6 DEF InOrder

LEMMA OrderSend ==
  ASSUME Footing, [Next]_vars, NEW a \in Agents, Send(a)
  PROVE  Comings' /\ Ordered'
<1>0. TypeInv /\ TypeInv' /\ Copies /\ LineTypes BY FootingFacts
<1>1. PICK p \in Pylons : p = where[a].node /\ where[a].step \in {"in", "stopping"} BY <1>0, SendSends
<1>2. /\ UNCHANGED <<where, pylon, thread, network, table, receivers, restarted, received>>
      /\ \E m \in Wave : /\ m.from = a /\ m.nr = count[a] + 1
                         /\ outbound' = [outbound EXCEPT ![p] = Append(@, m)]
  BY <1>0, <1>1, SendSends DEF network
<1>3. PICK m \in Wave : /\ m.from = a /\ m.nr = count[a] + 1
                        /\ outbound' = [outbound EXCEPT ![p] = Append(@, m)]
  BY <1>2
<1>4. m \in Message /\ m.kind = "wave" /\ m \notin Transit BY WaveFields, TransitFields DEF Content, Message
<1>5. PICK n \in Spots' : /\ On(n, "stream", p) /\ ~Written(n)' /\ Item(n)' = m
                          /\ \A s \in Spots' : On(s, "stream", p) => s[3] <= n[3]
                          /\ \E f : Flow(f, {n}, {})
  BY <1>0, <1>2, <1>3, <1>4, FlowAppend
<1>6. PICK f : Flow(f, {n}, {}) BY <1>5
<1>7. Runs(f, {n}, {}) /\ \A x : Writes(f, {n}, x) BY <1>0, <1>5, <1>6, ClosedStays, FlowRuns, FlowWrites
<1>8. n[1] = "stream" /\ n[2] = p BY <1>5 DEF On
<1>9. ASSUME NEW e \in Entities, e \notin restarted'
      PROVE  Coming(e)' /\ Lives(f, {n}, e) /\ where'[e].node = where[e].node
  <2>1. Waving({n}, e) BY <1>1, <1>2, <1>3, <1>4, <1>5, <1>8 DEF Waving, Carries, Speaks
  <2>2. Steady(e) /\ Trims(f, {n}, {}, e) /\ Forwards({n}) BY <1>2, <1>8, SteadyAll, NoTrims, StreamForwards
  <2>3. Runs(f, {n}, {}) /\ Writes(f, {n}, e) BY <1>7
  <2> QED BY <1>2, <1>9, <2>1, <2>2, <2>3, ComingSteady
<1>10. Comings' BY <1>9 DEF Comings, Entities
<1>11. ASSUME NEW s \in Spots' PROVE ~Before(n, s)
  <2> SUFFICES ASSUME s[1] = "stream", s[2] = p, n[3] < s[3] PROVE FALSE BY <1>8 DEF Before
  <2>1. s[3] <= n[3] BY <1>5 DEF On
  <2>2. s[3] \in Nat /\ n[3] \in Nat BY PlacesNext
  <2> QED BY <2>1, <2>2
<1>12. ASSUME NEW x, x \in Wave, x.from = a, Known(x) PROVE x.nr < m.nr
  <2>1. x.nr <= count[a] /\ x.nr \in Nat /\ count[a] \in Nat
    <3>1. count \in [Agents -> Nat] BY <1>0, TypeParts DEF CountTypes
    <3> QED BY <1>12, <3>1, WaveFields DEF Known
  <2> QED BY <1>3, <2>1
<1>13. ASSUME NEW c \in Agents, NEW b \in Agents, c \notin restarted', b \notin restarted'
       PROVE  Elsewhere(c, b)' /\ InOrder(c, b)'
  <2>1. b \in Entities /\ c \in Entities BY DEF Entities
  <2>2. Journey(c) /\ Missed(b) /\ Elsewhere(c, b) /\ InOrder(c, b) /\ Lives(f, {n}, b) /\ where'[c].node = where[c].node
    BY <1>9, <1>13, <2>1, FootingFacts DEF Coming
  <2>3. Routed({n}) /\ \A y \in {n} : y[1] = "stream" BY <1>8, StreamForwards
  <2>4. Elsewhere(c, b)' BY <1>7, <2>2, <2>3, ElsewhereRuns
  <2>5. CASE c # a
    <3>1. \A y \in {n} : ~(Between(y, c, b)' /\ Live(y, b)') BY <1>3, <1>5, <2>5 DEF Between
    <3>2. Sources(f, c, b) BY <1>0, <1>7, <2>2, <3>1, SourcesRuns
    <3> QED BY <1>2, <2>2, <2>4, <3>2, OrderRuns
  <2>6. CASE c = a
    <3>1. \A s \in Spots : Between(s, a, b) => Item(s).nr < Item(n)'.nr
      <4> SUFFICES ASSUME NEW s \in Spots, Between(s, a, b) PROVE Item(s).nr < m.nr BY <1>5
      <4>1. Item(s) \in Wave /\ Item(s).from = a /\ Item(s) \in Content BY DEF Between, WaveTo, Content
      <4>2. Known(Item(s)) BY <1>0, <4>1 DEF Copies, Sent
      <4> QED BY <1>12, <4>1, <4>2
    <3>2. \A i \in DOMAIN received[b] : received[b][i].wave.from = a => received[b][i].wave.nr < Item(n)'.nr
      <4> SUFFICES ASSUME NEW i \in DOMAIN received[b], received[b][i].wave.from = a PROVE received[b][i].wave.nr < m.nr
        BY <1>5
      <4>1. received[b][i].wave \in Wave /\ Known(received[b][i].wave)
        BY <1>0, TypeParts, ReceivedFacts DEF Copies, Taken
      <4> QED BY <1>12, <4>1
    <3>3. InOrder(a, b)' BY <1>0, <1>2, <1>7, <1>11, <2>2, <2>6, <3>1, <3>2, OrderEnds
    <3> QED BY <2>4, <2>6, <3>3
  <2> QED BY <2>5, <2>6
<1> QED BY <1>10, <1>13 DEF Ordered

-----------------------------------------------------------------------------
(* What the thread of the Dispatcher does.                                 *)

LEMMA RootedInit == Init => Rooted /\ Opens
BY NamesAssumption DEF Init, Rooted, Opens, Entities

LEMMA RootedNext ==
  ASSUME TypeInv, TypeInv', Rooted, Opens, [Next]_vars
  PROVE  Rooted' /\ Opens'
<1> DEFINE Done == Rooted' /\ Opens'
<1>0. WhereTypes /\ PylonTypes BY TypeParts
<1>1. CASE UNCHANGED <<pylon, where>> BY <1>1 DEF pylon, Rooted, Opens
<1>2. ASSUME NEW p \in Pylons, Open(p) \/ Close(p) \/ Suspend(p) \/ Stop(p) PROVE Done
  <2>1. Rooted' BY <1>2 DEF Open, Close, Suspend, Stop, agents, Rooted
  <2>2. Opens' BY <1>0, <1>2 DEF Open, Close, Suspend, Stop, PylonTypes, Opens
  <2> QED BY <2>1, <2>2
<1>3. ASSUME NEW p \in Pylons, ServeOutbound(p) \/ ServeInbound(p) \/ Read(p) \/ Server(p)
      PROVE  UNCHANGED <<pylon, where>>
  BY <1>3 DEF ServeOutbound, ServeInbound, Read, Server, agents
<1>4. ASSUME NEW p \in Pylons, Deliver(p) PROVE Done
  <2>1. UNCHANGED pylon BY <1>4, DeliverCases
  <2>2. CASE UNCHANGED where BY <1>1, <2>1, <2>2
  <2>3. CASE serving[p] \in Transit /\ where' = [where EXCEPT ![serving[p].from] = [step |-> "putting", node |-> p]]
    <3>1. serving[p].from \in Agents /\ serving[p].from \in Entities BY <2>3, TransitFields DEF Entities
    <3>2. \A x \in Entities : x # serving[p].from => where'[x] = where[x] BY <1>0, <2>3, <3>1, GoesTo DEF Steps
    <3>3. \A q \in Pylons : q \in Entities /\ q # serving[p].from BY <3>1, NamesAssumption DEF Entities
    <3>4. Rooted' BY <3>2, <3>3 DEF Rooted
    <3> QED BY <2>1, <3>4 DEF Opens, pylon
  <2> QED BY <1>4, <2>2, <2>3, DeliverCases
<1>5. ASSUME NEW e \in Entities, NEW s \in Steps, Goes(e, s), UNCHANGED pylon PROVE Done
  <2>1. \A x \in Entities : where'[x].node = where[x].node BY <1>0, <1>5, GoesOn
  <2> QED BY <1>5, <2>1 DEF Rooted, Opens, Entities, pylon
<1>6. ASSUME NEW e \in Entities, Put(e) \/ Add(e) PROVE Done
  <2>1. UNCHANGED pylon /\ \E s \in Steps : Goes(e, s) BY <1>6 DEF Put, Add, Steps
  <2> QED BY <1>5, <2>1
<1>7. ASSUME NEW a \in Agents, PostMove(a) \/ Remove(a) \/ Leave(a) PROVE Done
  <2>1. UNCHANGED pylon /\ a \in Entities /\ \E s \in Steps : Goes(a, s)
    BY <1>7 DEF PostMove, Remove, Leave, Steps, Entities
  <2> QED BY <1>5, <2>1
<1>8. ASSUME NEW a \in Agents, Send(a) \/ StopCopy(a) PROVE UNCHANGED <<pylon, where>>
  BY <1>8 DEF Send, StopCopy, agents
<1>9. ASSUME NEW a \in Agents, Restart(a) PROVE Done
  <2>1. PICK q \in Pylons : where' = [where EXCEPT ![a] = [step |-> "putting", node |-> q]] BY <1>9 DEF Restart
  <2>2. a \in Entities /\ UNCHANGED pylon BY <1>9 DEF Restart, Entities
  <2>3. \A x \in Entities : x # a => where'[x] = where[x] BY <1>0, <2>1, <2>2, GoesTo DEF Steps
  <2>4. \A p \in Pylons : p \in Entities /\ p # a BY NamesAssumption DEF Entities
  <2> QED BY <2>2, <2>3, <2>4 DEF Rooted, Opens, pylon
<1>10. CASE UNCHANGED vars BY <1>1, <1>10 DEF vars, agents
<1> QED BY <1>1, <1>2, <1>3, <1>4, <1>6, <1>7, <1>8, <1>9, <1>10 DEF Next

\* What a pylon keeps for itself is no agent, for none is told to move to where it is.
LEMMA NoTransitServed ==
  ASSUME Footing, Rooted, NEW e \in Entities, e \notin restarted', NEW o \in Spots, o[1] = "stream", Carries(o, e),
         Item(o).to \in receivers[o[2]]
  PROVE  FALSE
<1>1. TypeInv /\ LineTypes /\ Listed /\ Journey(e) BY FootingFacts DEF Coming
<1>2. Item(o).to \in Pylons /\ o[2] \in Pylons BY <1>1, TransitFields, SpotFacts DEF Carries
<1>3. Item(o).to \notin restarted BY <1>1, <1>2, TypeParts, BoundsAssumption, NamesAssumption DEF CountTypes
<1>4. o[2] = where[Item(o).to].node BY <1>1, <1>2, <1>3 DEF Listed
<1> QED BY <1>1, <1>2, <1>4 DEF Rooted, Journey, LastWord

LEMMA OrderServeLocal ==
  ASSUME Footing, Rooted, [Next]_vars, NEW p \in Pylons, NEW o, NEW n, o = <<"stream", p, Served(p) + 1>>, n = <<"pipe", p, 1>>,
         o \in Spots, n \in Spots', Local(p, Item(o)), Item(n)' = Item(o), Held(p) = 0, Held(p)' = 1,
         UNCHANGED <<receivers, table, agents, received>>, NEW f, Flow(f, {n}, {o})
  PROVE  Comings' /\ Ordered'
<1>0. TypeInv /\ TypeInv' /\ LineTypes BY FootingFacts
<1>1. o[1] = "stream" /\ o[2] = p /\ o[3] = Served(p) + 1 /\ n[1] = "pipe" /\ n[2] = p /\ n[3] = 1 BY Zenon
<1>2. Item(o).to \in receivers[p] /\ Item(o) \in Content BY <1>0, SpotFacts, MessageKinds DEF Local
<1>3. ~Written(n)' /\ ~Written(o)
  <2>1. Served(p) \in Nat BY <1>0, LineFacts DEF Served
  <2> QED BY <1>1, <2>1 DEF Written
<1>4. Runs(f, {n}, {o}) /\ \A x : Writes(f, {n}, x) BY <1>0, <1>3, ClosedStays, FlowRuns, FlowWrites
<1>5. Forwards({n}) /\ Routed({n}) BY <1>1, <1>2 DEF Forwards, Routed
<1>6. UNCHANGED where BY DEF agents
<1>7. ASSUME NEW e \in Entities, e \notin restarted'
      PROVE  Coming(e)' /\ Lives(f, {n}, e) /\ where'[e].node = where[e].node
  <2>1. ~Carries(n, e)'
    <3>1. ~Carries(o, e) BY <1>1, <1>2, <1>7, NoTransitServed
    <3> QED BY <3>1 DEF Carries
  <2>2. Waving({n}, e) BY <1>1, <2>1 DEF Waving, Speaks
  <2>3. Trims(f, {n}, {o}, e) BY <1>2, NoTrims
  <2>4. Steady(e) BY <1>6, SteadyAll
  <2> QED BY <1>4, <1>5, <1>6, <1>7, <2>2, <2>3, <2>4, ComingSteady
<1>8. Comings' BY <1>7 DEF Comings, Entities
<1>9. ASSUME NEW a \in Agents, NEW b \in Agents, a \notin restarted', b \notin restarted'
      PROVE  Elsewhere(a, b)' /\ InOrder(a, b)'
  <2>1. a \in Entities /\ b \in Entities BY DEF Entities
  <2>2. Journey(a) /\ Missed(b) /\ Elsewhere(a, b) /\ InOrder(a, b) /\ Lives(f, {n}, b) /\ where'[a].node = where[a].node
    BY <1>7, <1>9, <2>1, FootingFacts DEF Coming
  <2>3. Elsewhere(a, b)' BY <1>4, <1>5, <2>2, ElsewhereRuns
  <2>4. ASSUME Between(n, a, b)' /\ Live(n, b)' PROVE Replaces(f, n, o, a, b)
    <3>1. Between(o, a, b) /\ b \in receivers[p] BY <1>2, <2>4 DEF Between, WaveTo
    <3>2. p = where[a].node BY <1>1, <2>2, <3>1 DEF Journey, Speaker, Speaks, Between
    <3>3. Live(o, b) BY <1>1, <1>3 DEF Live, Doomed
    <3>4. ASSUME NEW s \in Spots' \ {n}, Between(s, a, b)', Live(s, b)', Before(n, s) PROVE Before(o, f[s])
      <4>1. f[s] \in Spots /\ f[s] # o /\ f[s][1] = s[1] /\ f[s][2] = s[2] /\ Between(f[s], a, b)
        BY <1>4, <3>4, RunsFacts
      <4>2. Live(f[s], b) BY <2>2, <3>4 DEF Lives, Between
      <4>3. CASE s[1] = "pipe"
        <5>1. s[2] = p /\ f[s][3] > Held(p)
          <6>1. s[2] = p BY <1>1, <3>4, <4>3 DEF Before
          <6>2. f[s][3] \in Nat /\ f[s][3] >= 1 BY <1>0, <4>1, SpotFacts
          <6> QED BY <6>1, <6>2
        <5>2. b \notin receivers[p] BY <2>2, <3>2, <4>1, <4>3, <5>1 DEF Elsewhere
        <5> QED BY <3>1, <5>2
      <4>4. CASE s[1] = "stream"
        <5>1. f[s][2] = p BY <2>2, <3>2, <4>1, <4>4 DEF Journey, Speaker, Speaks, Between
        <5>2. ~Written(f[s])
          <6>1. ~Doomed(f[s], b) BY <4>1, <4>2, <4>4 DEF Live
          <6> QED BY <2>2, <3>1, <4>1, <5>1, <6>1 DEF Missed, Between
        <5>3. f[s][3] > Served(p) /\ f[s][3] \in Nat /\ Served(p) \in Nat
          <6>1. f[s][3] \in Nat /\ Served(p) \in Nat BY <1>0, <4>1, SpotFacts, LineFacts DEF Served
          <6> QED BY <4>1, <4>4, <5>1, <5>2, <6>1 DEF Written
        <5>4. f[s][3] # Served(p) + 1
          <6>1. f[s] = <<f[s][1], f[s][2], f[s][3]>> BY <1>0, <4>1, SpotFacts
          <6> QED BY <4>1, <4>4, <5>1, <6>1
        <5>5. o[3] < f[s][3] BY <1>1, <5>3, <5>4
        <5> QED BY <1>1, <4>1, <4>4, <5>1, <5>5 DEF Before
      <4> QED BY <3>4, <4>3, <4>4, PlacesNext, KindLines
    <3>5. ASSUME NEW s \in Spots' \ {n}, Before(s, n) PROVE FALSE
      <4>1. s[3] < 1 /\ s[1] = "pipe" /\ s[2] = p BY <1>1, <3>5 DEF Before
      <4>2. s[3] \in 1 .. Len(Line(s[1], s[2])') BY SpotsNext
      <4> QED BY <4>1, <4>2
    <3> QED BY <3>3, <3>4, <3>5 DEF Replaces
  <2>5. PICK h : Sources(h, a, b) BY <1>0, <1>4, <2>2, <2>4, SourcesReplaces
  <2>6. InOrder(a, b)' BY <2>2, <2>5, OrderRuns
  <2> QED BY <2>3, <2>6
<1> QED BY <1>8, <1>9 DEF Ordered

LEMMA OrderServeOutbound ==
  ASSUME Footing, Rooted, Opens, [Next]_vars, NEW p \in Pylons, ServeOutbound(p)
  PROVE  Comings' /\ Ordered'
<1> DEFINE o == <<"stream", p, Served(p) + 1>>
           n == <<"pipe", p, 1>>
<1>0. TypeInv /\ TypeInv' /\ LineTypes BY FootingFacts
<1>1. /\ o \in Spots /\ ~Written(o) /\ Held(p) = 0 /\ p \notin suspended
      /\ UNCHANGED <<pylon, receivers, table, agents, received>>
      /\ \/ /\ Local(p, Item(o)) /\ n \in Spots' /\ Item(n)' = Item(o) /\ Held(p)' = 1
            /\ \E f : Flow(f, {n}, {o})
         \/ /\ ~Local(p, Item(o)) /\ conn[p] = "open"
            /\ Spots' = Spots /\ (\A s \in Spots : Item(s)' = Item(s))
            /\ \A s \in Spots : Written(s)' <=> Written(s) \/ s = o
            /\ \A q \in Pylons : Held(q)' = Held(q)
         \/ ~Local(p, Item(o)) /\ conn[p] # "open" /\ \E f : Flow(f, {}, {o})
  BY <1>0, FlowServeOutbound
<1>2. o[1] = "stream" /\ o[2] = p /\ o[3] = Served(p) + 1 /\ o = <<"stream", p, Served(p) + 1>> /\ n = <<"pipe", p, 1>>
  OBVIOUS
<1> HIDE DEF o, n
<1>3. UNCHANGED <<where, receivers, table, received, agents>> /\ conn' = conn BY <1>1 DEF agents, pylon
<1>4. CASE Local(p, Item(o)) /\ n \in Spots' /\ Item(n)' = Item(o) /\ Held(p)' = 1 /\ \E f : Flow(f, {n}, {o})
  <2>1. PICK f : Flow(f, {n}, {o}) BY <1>4
  <2> QED BY <1>1, <1>2, <1>3, <1>4, <2>1, OrderServeLocal
<1>5. CASE /\ ~Local(p, Item(o)) /\ conn[p] = "open"
           /\ Spots' = Spots /\ (\A s \in Spots : Item(s)' = Item(s))
           /\ \A s \in Spots : Written(s)' <=> Written(s) \/ s = o
           /\ \A q \in Pylons : Held(q)' = Held(q)
  <2>1. PICK f : Runs(f, {}, {}) /\ \A s \in Spots : f[s] = s BY <1>2, <1>3, <1>5, WriteRuns
  <2>2. ASSUME NEW e PROVE Writes(f, {}, e)
    <3> SUFFICES ASSUME NEW s \in Spots', Written(s)', ~Written(f[s]), WaveTo(s, e)' PROVE e \notin receivers'[s[2]]
      BY DEF Writes
    <3>1. s = o BY <1>5, <2>1
    <3>2. Item(o).kind = "wave" /\ Item(o).to = e BY <1>5, <3>1, WaveFields DEF WaveTo
    <3> QED BY <1>2, <1>3, <1>5, <3>1, <3>2 DEF Local
  <2> QED BY <1>3, <2>1, <2>2, SteadyAll, NoTrims, QuietStep
<1>6. CASE ~Local(p, Item(o)) /\ conn[p] # "open" /\ \E f : Flow(f, {}, {o})
  <2>1. PICK f : Flow(f, {}, {o}) BY <1>6
  <2>2. conn[p] = "closed" BY <1>0, <1>1, <1>6, TypeParts DEF Opens, PylonTypes
  <2>3. ASSUME NEW e PROVE Trims(f, {}, {o}, e)
    <3> SUFFICES ASSUME NEW s \in Spots', s[2] = p, s[1] = "stream", Alive(s)' PROVE f[s][3] < o[3]
      BY <1>2 DEF Trims, On
    <3>1. Written(s)' BY <1>3, <2>2 DEF Alive
    <3>2. Written(f[s]) /\ f[s] \in Spots /\ f[s][2] = p BY <2>1, <3>1 DEF Flow, Kept
    <3>3. f[s][3] <= Served(p) /\ f[s][3] \in Nat /\ Served(p) \in Nat
      BY <1>0, <3>2, SpotFacts, LineFacts DEF Written, Served
    <3> QED BY <1>2, <3>3
  <2> QED BY <1>3, <2>1, <2>3, SteadyAll, QuietFlow
<1> QED BY <1>1, <1>4, <1>5, <1>6

LEMMA OrderTaken ==
  ASSUME NEW a, NEW b, NEW f, NEW o, NEW r, Sources(f, a, b), InOrder(a, b), Takes(f, o, r, a, b)
  PROVE  InOrder(a, b)'
<1> DEFINE k == Len(received[b]) + 1
<1>0. /\ received[b] \in Seq(Receipt) /\ r \in Receipt /\ received'[b] = Append(received[b], r) /\ o \in Spots
      /\ r.wave.from = a => /\ r.wave = Item(o) /\ Between(o, a, b) /\ Live(o, b)
                            /\ \A s \in Spots' : Between(s, a, b)' /\ Live(s, b)' => Before(o, f[s])
  BY DEF Takes
<1>1. /\ Len(received[b]) \in Nat /\ DOMAIN received[b] = 1 .. Len(received[b]) /\ DOMAIN received'[b] = 1 .. k
      /\ \A i \in 1 .. Len(received[b]) : received'[b][i] = received[b][i]
      /\ received'[b][k] = r
  BY <1>0
<1>2. ASSUME NEW s \in Spots', Between(s, a, b)', Live(s, b)'
      PROVE  f[s] \in Spots /\ Item(f[s]) = Item(s)' /\ Between(f[s], a, b) /\ Live(f[s], b)
  BY <1>2 DEF Sources
<1>3. Queued(a, b)'
  <2>1. ASSUME NEW s \in Spots', NEW t \in Spots', Between(s, a, b)', Between(t, a, b)', Live(s, b)', Live(t, b)', Before(s, t)
        PROVE  Item(s)'.nr < Item(t)'.nr
    <3>1. Before(f[s], f[t]) BY <2>1 DEF Sources
    <3>2. Item(f[s]).nr < Item(f[t]).nr BY <1>2, <2>1, <3>1 DEF InOrder, Queued
    <3> QED BY <1>2, <2>1, <3>2
  <2> QED BY <2>1 DEF Queued, Before
<1>4. Heard(a, b)'
  <2>1. ASSUME NEW i \in 1 .. k, NEW s \in Spots', received'[b][i].wave.from = a, Between(s, a, b)', Live(s, b)'
        PROVE  received'[b][i].wave.nr < Item(s)'.nr
    <3>1. CASE i = k
      <4>1. r.wave = Item(o) /\ Between(o, a, b) /\ Live(o, b) /\ Before(o, f[s]) BY <1>0, <1>1, <2>1, <3>1
      <4>2. Item(o).nr < Item(f[s]).nr BY <1>0, <1>2, <2>1, <4>1 DEF InOrder, Queued
      <4> QED BY <1>1, <1>2, <2>1, <3>1, <4>1, <4>2
    <3>2. CASE i # k
      <4>1. i \in DOMAIN received[b] /\ received'[b][i] = received[b][i] BY <1>1, <3>2
      <4>2. received[b][i].wave.nr < Item(f[s]).nr BY <1>2, <2>1, <4>1 DEF InOrder, Heard
      <4> QED BY <1>2, <2>1, <4>1, <4>2
    <3> QED BY <3>1, <3>2
  <2> HIDE DEF k
  <2> QED BY <1>1, <2>1 DEF Heard
<1>5. InTurn(a, b)'
  <2>1. ASSUME NEW i \in 1 .. k, NEW j \in 1 .. k, i < j, received'[b][i].wave.from = a, received'[b][j].wave.from = a
        PROVE  received'[b][i].wave.nr < received'[b][j].wave.nr
    <3>1. i \in DOMAIN received[b] /\ received'[b][i] = received[b][i] BY <1>1, <2>1
    <3>2. CASE j = k
      <4>1. r.wave = Item(o) /\ Between(o, a, b) /\ Live(o, b) /\ o \in Spots BY <1>0, <1>1, <2>1, <3>2
      <4>2. received[b][i].wave.nr < Item(o).nr BY <2>1, <3>1, <4>1 DEF InOrder, Heard
      <4> QED BY <1>1, <3>1, <3>2, <4>1, <4>2
    <3>3. CASE j # k
      <4>1. j \in DOMAIN received[b] /\ received'[b][j] = received[b][j] BY <1>1, <3>3
      <4>2. received[b][i].wave.nr < received[b][j].wave.nr BY <2>1, <3>1, <4>1 DEF InOrder, InTurn
      <4> QED BY <3>1, <4>1, <4>2
    <3> QED BY <3>2, <3>3
  <2> HIDE DEF k
  <2> QED BY <1>1, <2>1 DEF InTurn
<1> QED BY <1>3, <1>4, <1>5 DEF InOrder

LEMMA OrderReceive ==
  ASSUME Footing, [Next]_vars, NEW p \in Pylons, NEW o \in Spots, o = <<"pipe", p, 1>>, NEW f, Flow(f, {}, {o}),
         NEW w \in Wave, w = Item(o), w.to \in receivers[p], UNCHANGED <<where, receivers, table>>,
         received' = [received EXCEPT ![w.to] = Append(@, [wave |-> w, by |-> p])]
  PROVE  Comings' /\ Ordered'
<1>0. TypeInv /\ TypeInv' /\ LineTypes /\ HistoryTypes /\ Listed BY FootingFacts, TypeParts
<1>1. o[1] = "pipe" /\ o[2] = p /\ o[3] = 1 BY Zenon
<1>2. Runs(f, {}, {o}) /\ \A x : Writes(f, {}, x) BY <1>0, ClosedStays, FlowRuns, FlowWrites
<1>3. ASSUME NEW e \in Entities, e \notin restarted'
      PROVE  Coming(e)' /\ Lives(f, {}, e) /\ where'[e].node = where[e].node
  <2>1. Waving({}, e) /\ Forwards({}) BY DEF Waving, Forwards
  <2>2. Steady(e) /\ Trims(f, {}, {o}, e) BY <1>1, SteadyAll, NoTrims
  <2> QED BY <1>2, <1>3, <2>1, <2>2, ComingSteady
<1>4. Comings' BY <1>3 DEF Comings, Entities
<1>5. ASSUME NEW a \in Agents, NEW b \in Agents, a \notin restarted', b \notin restarted'
      PROVE  Elsewhere(a, b)' /\ InOrder(a, b)'
  <2>1. a \in Entities /\ b \in Entities \ restarted BY <1>5 DEF Entities, Footing
  <2>2. Journey(a) /\ Missed(b) /\ Elsewhere(a, b) /\ InOrder(a, b) /\ Lives(f, {}, b) /\ where'[a].node = where[a].node
    BY <1>3, <1>5, <2>1, FootingFacts DEF Coming
  <2>3. Elsewhere(a, b)' /\ Sources(f, a, b)
    <3>1. Routed({}) BY DEF Routed
    <3> QED BY <1>0, <1>2, <2>2, <3>1, ElsewhereRuns, SourcesRuns
  <2>4. received \in [Agents -> Seq(Receipt)] /\ w.to \in Agents BY <1>0, WaveFields DEF HistoryTypes
  <2>5. CASE b # w.to
    <3>1. received'[b] = received[b] BY <2>4, <2>5
    <3> QED BY <2>2, <2>3, <3>1, OrderRuns
  <2>6. CASE b = w.to
    <3> DEFINE r == [wave |-> w, by |-> p]
    <3>1. r \in Receipt /\ r.wave = w /\ received'[b] = Append(received[b], r) /\ received[b] \in Seq(Receipt)
      BY <2>4, <2>6 DEF Receipt
    <3> HIDE DEF r
    <3>2. ASSUME w.from = a
          PROVE  /\ Between(o, a, b) /\ Live(o, b)
                 /\ \A s \in Spots' : Between(s, a, b)' /\ Live(s, b)' => Before(o, f[s])
      <4>1. Between(o, a, b) /\ Live(o, b) BY <1>1, <2>6, <3>2 DEF Between, WaveTo, Live
      <4>2. ASSUME NEW s \in Spots', Between(s, a, b)', Live(s, b)' PROVE Before(o, f[s])
        <5>1. f[s] \in Spots /\ f[s] # o /\ f[s][1] = s[1] /\ f[s][2] = s[2] BY <1>2, RunsFacts
        <5>2. CASE f[s][1] = "stream" BY <1>1, <5>2 DEF Before
        <5>3. CASE f[s][1] = "pipe"
          <6>1. b \in receivers[f[s][2]] /\ f[s][2] \in Pylons BY <1>0, <4>2, <5>1, <5>3, SpotFacts DEF Live
          <6>2. f[s][2] = p BY <1>0, <2>1, <2>6, <6>1 DEF Listed
          <6>3. f[s] = <<f[s][1], f[s][2], f[s][3]>> /\ f[s][3] \in Nat /\ f[s][3] >= 1 BY <1>0, <5>1, SpotFacts
          <6>4. f[s][3] # 1 BY <5>1, <5>3, <6>2, <6>3
          <6> QED BY <1>1, <5>3, <6>2, <6>3, <6>4 DEF Before
        <5> QED BY <1>0, <5>1, <5>2, <5>3, SpotFacts, KindLines
      <4> QED BY <4>1, <4>2
    <3>3. r.wave.from = a => /\ r.wave = Item(o) /\ Between(o, a, b) /\ Live(o, b)
                             /\ \A s \in Spots' : Between(s, a, b)' /\ Live(s, b)' => Before(o, f[s])
      BY <3>1, <3>2
    <3>4. Takes(f, o, r, a, b) BY <3>1, <3>3 DEF Takes
    <3>5. InOrder(a, b)' BY <2>2, <2>3, <3>4, OrderTaken
    <3> QED BY <2>3, <3>5
  <2> QED BY <2>5, <2>6
<1> QED BY <1>4, <1>5 DEF Ordered

\* An agent arrives: its waves and the waves to it were ahead of it.
LEMMA OrderArrive ==
  ASSUME Footing, [Next]_vars, NEW p \in Pylons, NEW o \in Spots, o = <<"pipe", p, 1>>, NEW f, Flow(f, {}, {o}),
         NEW e \in Entities, Carries(o, e), where' = [where EXCEPT ![e] = [step |-> "putting", node |-> p]],
         UNCHANGED <<receivers, table, received>>
  PROVE  Comings' /\ Ordered'
<1>0. TypeInv /\ TypeInv' /\ Copies /\ LineTypes /\ Listed /\ Present /\ Present' BY FootingFacts
<1>1. o[1] = "pipe" /\ o[2] = p /\ o[3] = 1 BY Zenon
<1>2. Runs(f, {}, {o}) /\ \A x : Writes(f, {}, x) BY <1>0, ClosedStays, FlowRuns, FlowWrites
<1>3. /\ where'[e].step = "putting" /\ where'[e].node = p
      /\ \A x \in Entities : x # e => where'[x] = where[x]
  BY <1>0, TypeParts, GoesTo DEF Steps
<1>4. ASSUME NEW x \in Entities, x \notin restarted', x # e
      PROVE  Coming(x)' /\ Lives(f, {}, x) /\ where'[x].node = where[x].node
  <2>1. Waving({}, x) /\ Forwards({}) BY DEF Waving, Forwards
  <2>2. Steady(x) /\ Trims(f, {}, {o}, x) BY <1>1, <1>3, <1>4, NoTrims DEF Steady, Stays
  <2> QED BY <1>2, <1>3, <1>4, <2>1, <2>2, ComingSteady
\* Nothing that it has sent, or that was sent to it, is left in the pipe.
<1>5. ASSUME e \notin restarted', NEW s \in Spots', s[1] = "pipe", s[2] = p,
             WaveTo(s, e)' \/ (Item(s)' \in Wave /\ Item(s)'.from = e)
      PROVE  FALSE
  <2>1. Ahead(e) BY <1>5, FootingFacts DEF Coming
  <2>2. f[s] \in Spots /\ f[s][1] = "pipe" /\ f[s][2] = p /\ Item(s)' = Item(f[s]) /\ (WaveTo(s, e)' <=> WaveTo(f[s], e))
    BY <1>2, <1>5, RunsFacts
  <2>3. f[s][3] < 1 BY <1>1, <1>5, <2>1, <2>2 DEF Ahead
  <2>4. f[s][3] \in 1 .. Len(Line(f[s][1], f[s][2])) BY <1>0, <2>2, SpotFacts
  <2> QED BY <2>3, <2>4
<1>6. ASSUME e \notin restarted'
      PROVE  Coming(e)' /\ Lives(f, {}, e)
  <2>1. e \in Entities \ restarted /\ Journey(e) /\ Missed(e) /\ Ahead(e) /\ Cleared(e)
    BY <1>6, FootingFacts DEF Coming
  <2>2. Journey(e)' BY <1>0, <1>1, <1>2, <2>1, JourneyArrive
  <2>3. Dooms(f, {}, e) BY <1>1 DEF Dooms, Doomed
  <2>4. Comes(e) BY DEF Comes
  <2>5. Lives(f, {}, e) BY <1>2, <2>1, <2>3, <2>4, LivesComes
  <2>6. Missed(e)'
    <3>1. where[e].step # "putting" BY <1>0, CarriedAway DEF Carries
    <3> QED BY <1>0, <1>2, <2>1, <2>3, <2>4, <3>1, MissedRuns
  <2>7. Ahead(e)'
    <3>1. Forwards({}) BY DEF Forwards
    <3> QED BY <1>0, <1>2, <2>1, <3>1, AheadRuns
  <2>8. Cleared(e)' BY <1>3, <1>5, <1>6 DEF Cleared
  <2> QED BY <2>2, <2>5, <2>6, <2>7, <2>8 DEF Coming
<1>7. ASSUME NEW x \in Entities, x \notin restarted' PROVE Coming(x)' /\ Lives(f, {}, x) BY <1>4, <1>6, <1>7
<1>8. Comings' BY <1>7 DEF Comings, Entities
<1>9. ASSUME NEW a \in Agents, NEW b \in Agents, a \notin restarted', b \notin restarted'
      PROVE  Elsewhere(a, b)' /\ InOrder(a, b)'
  <2>1. a \in Entities /\ b \in Entities BY DEF Entities
  <2>2. Journey(a) /\ Missed(b) /\ Elsewhere(a, b) /\ InOrder(a, b) /\ Lives(f, {}, b)
    BY <1>7, <1>9, <2>1, FootingFacts DEF Coming
  <2>3. Elsewhere(a, b)'
    <3>1. CASE a = e BY <1>3, <1>5, <1>9, <3>1 DEF Elsewhere, Between, WaveTo
    <3>2. CASE a # e
      <4>1. where'[a].node = where[a].node /\ Routed({}) BY <1>3, <2>1, <3>2 DEF Routed
      <4> QED BY <1>2, <2>2, <4>1, ElsewhereRuns
    <3> QED BY <3>1, <3>2
  <2>4. Sources(f, a, b) BY <1>0, <1>2, <2>2, SourcesRuns
  <2>5. InOrder(a, b)' BY <2>2, <2>4, OrderRuns
  <2> QED BY <2>3, <2>5
<1> QED BY <1>8, <1>9 DEF Ordered

LEMMA OrderDeliver ==
  ASSUME Footing, [Next]_vars, NEW p \in Pylons, Deliver(p)
  PROVE  Comings' /\ Ordered'
<1> DEFINE o == <<"pipe", p, 1>>
<1>0. TypeInv /\ TypeInv' BY FootingFacts
<1>1. o \in Spots /\ Item(o) = serving[p] /\ o[1] = "pipe" /\ o[1] # "stream" /\ \E f : Flow(f, {}, {o})
  BY <1>0, FlowDeliver
<1>2. o = <<"pipe", p, 1>> OBVIOUS
<1> HIDE DEF o
<1>3. PICK f : Flow(f, {}, {o}) BY <1>1
<1>4. UNCHANGED <<receivers, table>> BY <1>0, DeliverCases DEF network
<1>5. CASE UNCHANGED <<received, where>> BY <1>1, <1>3, <1>4, <1>5, SteadyAll, NoTrims, QuietFlow
<1>6. CASE /\ serving[p] \in Wave /\ Local(p, serving[p])
           /\ received' = [received EXCEPT ![serving[p].to] = Append(@, [wave |-> serving[p], by |-> p])]
           /\ UNCHANGED where
  <2>1. serving[p].to \in receivers[p] BY <1>6 DEF Local
  <2> QED BY <1>1, <1>2, <1>3, <1>4, <1>6, <2>1, OrderReceive
<1>7. CASE /\ serving[p] \in Transit
           /\ where' = [where EXCEPT ![serving[p].from] = [step |-> "putting", node |-> p]]
           /\ UNCHANGED received
  <2>1. serving[p].from \in Entities /\ Carries(o, serving[p].from)
    BY <1>1, <1>7, TransitFields DEF Carries, Entities
  <2> QED BY <1>1, <1>2, <1>3, <1>4, <1>7, <2>1, OrderArrive
<1> QED BY <1>0, <1>5, <1>6, <1>7, DeliverCases

-----------------------------------------------------------------------------
(* What the server does.                                                   *)

\* What the server reads of an entity dooms nothing and spares nothing.
LEMMA DoomsTold ==
  ASSUME NEW e, NEW f, NEW N, NEW o \in Spots, LineTypes, Runs(f, N, {o}), o[3] = 1, Enters(o, e) \/ Carries(o, e)
  PROVE  Dooms(f, N, e)
<1> SUFFICES ASSUME NEW s \in Spots' \ N, Doomed(f[s], e) PROVE FALSE BY DEF Dooms
<1>1. f[s][3] < 1 BY DEF Doomed
<1>2. f[s] \in Spots BY RunsFacts
<1>3. f[s][3] \in 1 .. Len(Line(f[s][1], f[s][2])) BY <1>2, SpotFacts
<1> QED BY <1>1, <1>3

LEMMA OrderTold ==
  ASSUME Footing, [Next]_vars, NEW p \in Pylons, NEW o \in Spots, o[1] = "stream", o[2] = p, o[3] = 1, NEW f, Flow(f, {}, {o}),
         UNCHANGED <<where, receivers, received>>, NEW e \in Entities, Item(o).from = e,
         \/ Item(o).kind = "reg" /\ table' = [table EXCEPT ![e] = p]
         \/ Item(o).kind = "unreg" /\ table' = [table EXCEPT ![e] = IF @ = p THEN Nobody ELSE @]
  PROVE  Comings' /\ Ordered'
<1>0. TypeInv /\ TypeInv' /\ Copies /\ LineTypes BY FootingFacts
<1>1. Runs(f, {}, {o}) /\ \A x : Writes(f, {}, x) BY <1>0, ClosedStays, FlowRuns, FlowWrites
<1>2. table \in [Entities -> Pylons \cup {Nobody}] BY <1>0, TypeParts DEF NameTypes
<1>3. ASSUME NEW x \in Entities, x \notin restarted', x # e
      PROVE  Coming(x)' /\ Lives(f, {}, x) /\ where'[x].node = where[x].node
  <2>1. Waving({}, x) /\ Forwards({}) BY DEF Waving, Forwards
  <2>2. Trims(f, {}, {o}, x) BY <1>3 DEF Trims, Speaks
  <2>3. Steady(x)
    <3>1. table'[x] = table[x] BY <1>2, <1>3
    <3> QED BY <3>1 DEF Steady, Stays
  <2> QED BY <1>1, <1>3, <2>1, <2>2, <2>3, ComingSteady
<1>4. ASSUME e \notin restarted'
      PROVE  Coming(e)' /\ Lives(f, {}, e) /\ where'[e].node = where[e].node
  <2>1. Journey(e) /\ e \in Entities BY <1>4, FootingFacts DEF Coming
  <2>2. Speaks(o, e) /\ p = where[e].node /\ where[e].step \notin {"putting", "adding"}
    <3>1. Speaks(o, e) BY DEF Speaks
    <3> QED BY <2>1, <3>1 DEF Journey, Speaker
  <2>3. \/ Enters(o, e) /\ table'[e] = o[2]
        \/ Quits(o, e) /\ table'[e] = Nobody
    <3>1. table[e] = p \/ table[e] = Nobody BY <2>1, <2>2 DEF Journey, Entered
    <3>2. CASE Item(o).kind = "reg" /\ table' = [table EXCEPT ![e] = p] BY <1>2, <2>1, <2>2, <3>2 DEF Enters
    <3>3. CASE Item(o).kind = "unreg" /\ table' = [table EXCEPT ![e] = IF @ = p THEN Nobody ELSE @]
      BY <1>2, <2>1, <2>2, <3>1, <3>3 DEF Quits
    <3> QED BY <3>2, <3>3
  <2>4. Journey(e)' BY <1>0, <1>1, <2>1, <2>3, JourneyTold
  <2>5. Dooms(f, {}, e)
    <3>1. CASE Enters(o, e) BY <1>0, <1>1, <3>1, DoomsTold
    <3>2. CASE table'[e] = Nobody
      <4>1. Stays(e) /\ Behind({}, e) BY DEF Stays, Behind
      <4> QED BY <1>0, <1>1, <2>1, <3>2, <4>1, DoomsSteady
    <3> QED BY <2>3, <3>1, <3>2
  <2>6. Comes(e) /\ Forwards({}) /\ Writes(f, {}, e) BY <1>1 DEF Comes, Forwards
  <2> QED BY <1>1, <1>4, <2>1, <2>2, <2>4, <2>5, <2>6, ComingActs
<1>5. ASSUME NEW x \in Entities, x \notin restarted'
      PROVE  Coming(x)' /\ Lives(f, {}, x) /\ where'[x].node = where[x].node
  <2>1. CASE x = e BY <1>4, <1>5, <2>1
  <2>2. CASE x # e BY <1>3, <1>5, <2>2
  <2> QED BY <2>1, <2>2
<1> QED BY <1>1, <1>5, PairsStill

LEMMA OrderRoute ==
  ASSUME Footing, [Next]_vars, NEW p \in Pylons, NEW q \in Pylons, NEW o \in Spots, o[1] = "stream", o[2] = p, o[3] = 1, Written(o),
         NEW n \in Spots', n[1] = "pipe", n[2] = q, Item(n)' = Item(o), Item(o) \in Content, table[Item(o).to] = q,
         \A s \in Spots' : s[1] = "pipe" /\ s[2] = q => s[3] <= n[3],
         NEW f, Flow(f, {n}, {o}), UNCHANGED <<where, receivers, table, received>>
  PROVE  Comings' /\ Ordered'
<1>0. TypeInv /\ TypeInv' /\ Copies /\ LineTypes BY FootingFacts
<1>1. ~Written(n)' /\ q # Nobody BY NobodyAssumption DEF Written, Entities
<1>2. Runs(f, {n}, {o}) /\ \A x : Writes(f, {n}, x) BY <1>0, <1>1, ClosedStays, FlowRuns, FlowWrites
<1>3. Forwards({n}) /\ Routed({n}) BY <1>1 DEF Forwards, Routed
<1>4. ASSUME NEW s \in Spots', s[1] = "pipe", s[2] = q PROVE s[3] < n[3] \/ s = n
  <2>1. s[3] <= n[3] BY <1>4
  <2>2. s[3] \in Nat /\ n[3] \in Nat /\ s = <<s[1], s[2], s[3]>> /\ n = <<n[1], n[2], n[3]>> BY PlacesNext
  <2>3. s[3] = n[3] => s = n BY <1>4, <2>2
  <2> QED BY <2>1, <2>2, <2>3
<1>5. ASSUME NEW e \in Entities, e \notin restarted'
      PROVE  Coming(e)' /\ Lives(f, {n}, e) /\ where'[e].node = where[e].node
  <2>1. CASE Carries(o, e)
    <3>1. Journey(e) /\ Comes(e) /\ Writes(f, {n}, e) BY <1>2, <1>5, FootingFacts DEF Coming, Comes
    <3>2. Journey(e)' BY <1>0, <1>2, <2>1, <3>1, JourneyRouted
    <3>3. Dooms(f, {n}, e) BY <1>0, <1>2, <2>1, DoomsTold
    <3>4. where[e].step # "putting" /\ where'[e].step # "putting" BY <1>0, <2>1, CarriedAway DEF Carries
    <3> QED BY <1>2, <1>3, <1>4, <1>5, <3>1, <3>2, <3>3, <3>4, ComingActs
  <2>2. CASE ~Carries(o, e)
    <3>1. Waving({n}, e) BY <2>2 DEF Waving, Carries, Speaks
    <3>2. Trims(f, {n}, {o}, e) /\ Steady(e) BY NoTrims, SteadyAll
    <3> QED BY <1>2, <1>3, <1>5, <3>1, <3>2, ComingSteady
  <2> QED BY <2>1, <2>2
<1>6. Comings' BY <1>5 DEF Comings, Entities
<1>7. ASSUME NEW a \in Agents, NEW b \in Agents, a \notin restarted', b \notin restarted'
      PROVE  Elsewhere(a, b)' /\ InOrder(a, b)'
  <2>1. a \in Entities /\ b \in Entities BY DEF Entities
  <2>2. Journey(a) /\ Missed(b) /\ Elsewhere(a, b) /\ InOrder(a, b) /\ Lives(f, {n}, b) /\ where'[a].node = where[a].node
    BY <1>5, <1>7, <2>1, FootingFacts DEF Coming
  <2>3. Elsewhere(a, b)' BY <1>2, <1>3, <2>2, ElsewhereRuns
  <2>4. ASSUME Between(n, a, b)' PROVE Replaces(f, n, o, a, b)
    <3>1. Between(o, a, b) /\ table[b] # Nobody /\ Speaks(o, a) BY <1>1, <2>4 DEF Between, WaveTo, Speaks
    <3>2. Live(o, b) BY <3>1 DEF Live, Doomed
    <3>3. ASSUME NEW s \in Spots' \ {n}, Between(s, a, b)', Before(n, s) PROVE Before(o, f[s])
      <4>1. s[1] = "stream"
        <5>1. CASE s[1] = "pipe" /\ s[2] = q /\ n[3] < s[3]
          <6>1. s[3] <= n[3] /\ s[3] \in Nat /\ n[3] \in Nat BY <5>1, PlacesNext
          <6> QED BY <5>1, <6>1
        <5> QED BY <3>3, <5>1 DEF Before
      <4>2. f[s] \in Spots /\ f[s] # o /\ f[s][1] = "stream" /\ Between(f[s], a, b)
        BY <1>2, <3>3, <4>1, RunsFacts
      <4>3. f[s][2] = p BY <2>2, <3>1, <4>2 DEF Journey, Speaker, Speaks, Between
      <4>4. f[s] = <<f[s][1], f[s][2], f[s][3]>> /\ o = <<o[1], o[2], o[3]>> /\ f[s][3] \in 1 .. Len(Line(f[s][1], f[s][2]))
        BY <1>0, <4>2, SpotFacts
      <4>5. f[s][3] # 1 BY <4>2, <4>3, <4>4
      <4>6. o[3] < f[s][3] BY <4>4, <4>5
      <4> QED BY <4>2, <4>3, <4>6 DEF Before
    <3>4. ASSUME NEW s \in Spots' \ {n}, Before(s, n) PROVE Before(f[s], o)
      <4>1. s[1] = "pipe" BY <3>4 DEF Before
      <4>2. f[s][1] = "pipe" BY <1>2, <4>1, RunsFacts
      <4> QED BY <4>2 DEF Before
    <3> QED BY <3>2, <3>3, <3>4 DEF Replaces
  <2>5. PICK h : Sources(h, a, b) BY <1>0, <1>2, <2>2, <2>4, SourcesReplaces
  <2>6. InOrder(a, b)' BY <2>2, <2>5, OrderRuns
  <2> QED BY <2>3, <2>6
<1> QED BY <1>6, <1>7 DEF Ordered

LEMMA OrderServer ==
  ASSUME Footing, [Next]_vars, NEW p \in Pylons, Server(p)
  PROVE  Comings' /\ Ordered'
<1> DEFINE o == <<"stream", p, 1>>
<1>0. TypeInv /\ TypeInv' /\ LineTypes BY FootingFacts
<1>1. /\ o \in Spots /\ Written(o) /\ Item(o) = Incoming(p) /\ o[1] = "stream" /\ o[2] = p /\ o[3] = 1
      /\ \/ \E f : Flow(f, {}, {o})
         \/ \E q \in Pylons : \E n \in Spots' :
               /\ table[Incoming(p).to] = q /\ Incoming(p) \in Content
               /\ n = <<"pipe", q, Len(Pipe(q)) + 1>> /\ Item(n)' = Incoming(p)
               /\ \E f : Flow(f, {n}, {o})
  BY <1>0, FlowServer
<1> HIDE DEF o
<1>2. UNCHANGED <<where, receivers, received>> /\ Incoming(p) \in Message BY <1>0, ServerCases DEF agents
<1>3. Incoming(p) \in Content => UNCHANGED table BY <1>0, ServerCases, MessageKinds
<1>4. ASSUME NEW f, Flow(f, {}, {o}) PROVE Comings' /\ Ordered'
  <2>1. CASE Incoming(p) \in Content BY <1>1, <1>2, <1>3, <1>4, <2>1, SteadyAll, NoTrims, QuietFlow
  <2>2. CASE Incoming(p) \notin Content
    <3>1. PICK e \in Entities : Item(o).from = e BY <1>1, <1>2, MessageKinds
    <3>2. \/ Item(o).kind = "reg" /\ table' = [table EXCEPT ![e] = p]
          \/ Item(o).kind = "unreg" /\ table' = [table EXCEPT ![e] = IF @ = p THEN Nobody ELSE @]
      BY <1>0, <1>1, <2>2, <3>1, ServerCases
    <3> QED BY <1>1, <1>2, <1>4, <3>1, <3>2, OrderTold
  <2> QED BY <2>1, <2>2
<1>5. ASSUME NEW q \in Pylons, NEW n \in Spots', table[Incoming(p).to] = q, Incoming(p) \in Content,
             n = <<"pipe", q, Len(Pipe(q)) + 1>>, Item(n)' = Incoming(p), NEW f, Flow(f, {n}, {o})
      PROVE  Comings' /\ Ordered'
  <2>1. n[1] = "pipe" /\ n[2] = q /\ n[3] = Len(Pipe(q)) + 1 BY <1>5
  <2>2. Len(Pipe(q)) \in Nat /\ Pipe(q) \in Seq(Message) BY <1>0, LineLength, KindLines
  <2>3. Len(Pipe(q)') = Len(Pipe(q)) + 1
    <3>1. CASE Pipe(q)' = Append(Pipe(q), Incoming(p)) BY <1>2, <2>2, <3>1
    <3>2. CASE SamePipe(q)
      <4>1. n[3] \in 1 .. Len(Pipe(q)') BY <2>1, SpotsNext, KindLines
      <4>2. Len(Pipe(q)') = Len(Pipe(q)) BY <3>2 DEF SamePipe
      <4> QED BY <2>1, <2>2, <4>1, <4>2
    <3> QED BY <1>0, <3>1, <3>2, LinesServer
  <2>4. ASSUME NEW s \in Spots', s[1] = "pipe", s[2] = q PROVE s[3] <= n[3]
    <3>1. s[3] \in 1 .. Len(Pipe(q)') BY <2>4, SpotsNext, KindLines
    <3> QED BY <2>1, <2>2, <2>3, <3>1
  <2> QED BY <1>1, <1>2, <1>3, <1>5, <2>1, <2>4, OrderRoute
<1> QED BY <1>1, <1>4, <1>5

-----------------------------------------------------------------------------
(* Every step, and the theorem.                                            *)

\* What was started anew stays so.
LEMMA RestartsGrow == [Next]_vars => restarted \subseteq restarted'
<1> SUFFICES ASSUME [Next]_vars PROVE restarted \subseteq restarted' OBVIOUS
<1>1. CASE UNCHANGED vars BY <1>1 DEF vars, agents
<1>2. ASSUME NEW p \in Pylons, \/ Open(p) \/ Close(p) \/ Suspend(p) \/ Stop(p)
                               \/ ServeOutbound(p) \/ ServeInbound(p) \/ Read(p) \/ Server(p)
      PROVE  restarted' = restarted
  BY <1>2 DEF Open, Close, Suspend, Stop, ServeOutbound, ServeInbound, Read, Server, agents
<1>3. ASSUME NEW p \in Pylons, Deliver(p) PROVE restarted' = restarted BY <1>3 DEF Deliver, agents
<1>4. ASSUME NEW e \in Entities, Put(e) \/ Add(e) PROVE restarted' = restarted BY <1>4 DEF Put, Add
<1>5. ASSUME NEW a \in Agents, PostMove(a) \/ Remove(a) \/ Leave(a) \/ Send(a) \/ StopCopy(a)
      PROVE  restarted' = restarted
  BY <1>5 DEF PostMove, Remove, Leave, Send, StopCopy, agents
<1>6. ASSUME NEW a \in Agents, Restart(a) PROVE restarted' = restarted \cup {a} BY <1>6 DEF Restart
<1> QED BY <1>1, <1>2, <1>3, <1>4, <1>5, <1>6 DEF Next

LEMMA OrderInit == Init => Comings /\ Ordered
<1> SUFFICES ASSUME Init PROVE Comings /\ Ordered OBVIOUS
<1>1. Spots = {} BY NoSpots
<1>2. \A e \in Entities : table[e] = Nobody BY DEF Init
<1>3. ASSUME NEW a \in Agents PROVE received[a] = <<>> /\ DOMAIN received[a] = {} BY <1>3 DEF Init
<1>4. ASSUME NEW e \in Entities PROVE Coming(e)
  <2>1. Speaker(e) /\ LastWord(e) BY <1>1 DEF Speaker, LastWord
  <2>2. Entered(e) /\ SignsOff(e) BY <1>1, <1>2, <1>4 DEF Entered, SignsOff
  <2>3. Missed(e) /\ Ahead(e) /\ Cleared(e) BY <1>1 DEF Missed, Ahead, Cleared
  <2> QED BY <2>1, <2>2, <2>3 DEF Coming, Journey
<1>5. ASSUME NEW a \in Agents, NEW b \in Agents PROVE Elsewhere(a, b) /\ InOrder(a, b)
  <2>1. Elsewhere(a, b) /\ Queued(a, b) /\ Heard(a, b) BY <1>1 DEF Elsewhere, Queued, Heard
  <2>2. InTurn(a, b) BY <1>3, <1>5 DEF InTurn
  <2> QED BY <2>1, <2>2 DEF InOrder
<1> QED BY <1>4, <1>5 DEF Comings, Ordered

LEMMA OrderNext ==
  ASSUME ~SelfMoves, Footing, Rooted, Opens, [Next]_vars
  PROVE  Comings' /\ Ordered'
<1> DEFINE Done == Comings' /\ Ordered'
<1>1. CASE UNCHANGED vars
  <2>1. UNCHANGED <<where, receivers, table, received>> /\ UNCHANGED <<outbound, thread, toServer, toPylon>>
    BY <1>1 DEF vars, agents, network, history
  <2> QED BY <2>1, SteadyAll, QuietLines
<1>2. ASSUME NEW p \in Pylons, Open(p) \/ Suspend(p) \/ Stop(p) \/ Read(p) PROVE Done BY <1>2, OrderPylon
<1>3. ASSUME NEW p \in Pylons, Close(p) PROVE Done BY <1>3, OrderClose
<1>4. ASSUME NEW p \in Pylons, ServeOutbound(p) PROVE Done BY <1>4, OrderServeOutbound
<1>5. ASSUME NEW p \in Pylons, ServeInbound(p) PROVE Done BY <1>5, OrderServeInbound
<1>6. ASSUME NEW p \in Pylons, Deliver(p) PROVE Done BY <1>6, OrderDeliver
<1>7. ASSUME NEW p \in Pylons, Server(p) PROVE Done BY <1>7, OrderServer
<1>8. ASSUME NEW e \in Entities, Put(e) PROVE Done BY <1>8, OrderPut
<1>9. ASSUME NEW e \in Entities, Add(e) PROVE Done BY <1>9, OrderAdd
<1>10. ASSUME NEW a \in Agents, PostMove(a) \/ Remove(a) PROVE Done BY <1>10, OrderPostMove
<1>11. ASSUME NEW a \in Agents, Leave(a) PROVE Done BY <1>11, OrderLeave
<1>12. ASSUME NEW a \in Agents, Send(a) PROVE Done BY <1>12, OrderSend
<1>13. ASSUME NEW a \in Agents, Restart(a) PROVE Done BY <1>13, OrderRestart
<1>14. ASSUME NEW a \in Agents, StopCopy(a) PROVE Done BY <1>14, OrderStopCopy
<1> HIDE DEF Done
<1>15. ASSUME NEW p \in Pylons, \/ Open(p) \/ Close(p) \/ Suspend(p) \/ Stop(p) \/ ServeOutbound(p)
                                \/ ServeInbound(p) \/ Deliver(p) \/ Read(p) \/ Server(p)
       PROVE  Done
  BY <1>2, <1>3, <1>4, <1>5, <1>6, <1>7, <1>15
<1>16. ASSUME NEW a \in Agents, PostMove(a) \/ Remove(a) \/ Leave(a) \/ Send(a) \/ Restart(a) \/ StopCopy(a)
       PROVE  Done
  BY <1>10, <1>11, <1>12, <1>13, <1>14, <1>16
<1>17. ASSUME Next PROVE Done BY <1>8, <1>9, <1>15, <1>16, <1>17 DEF Next
<1> QED BY <1>1, <1>17 DEF Done

LEMMA MarchesNext ==
  ASSUME ~SelfMoves, TypeInv, TypeInv', Copies, Copies', Named, Named', Marches, [Next]_vars
  PROVE  Marches'
<1>1. Rooted /\ Opens /\ Comings /\ Ordered BY DEF Marches
<1>2. Rooted' /\ Opens' BY <1>1, RootedNext
<1>3. Footing BY <1>1, RestartsGrow DEF Footing
<1>4. Comings' /\ Ordered' BY <1>1, <1>3, OrderNext
<1> QED BY <1>2, <1>4 DEF Marches

LEMMA OrderedHeard == TypeInv /\ Ordered => SenderOrder
<1> SUFFICES ASSUME TypeInv, Ordered, NEW b \in Agents \ restarted, NEW i \in DOMAIN received[b], NEW j \in DOMAIN received[b],
                    i < j, received[b][i].wave.from = received[b][j].wave.from, received[b][i].wave.from \notin restarted
             PROVE  received[b][i].wave.nr < received[b][j].wave.nr
  BY DEF SenderOrder
<1>1. received[b][i].wave \in Wave BY TypeParts, ReceivedFacts
<1>2. PICK a \in Agents : a = received[b][i].wave.from BY <1>1, WaveFields
<1>3. InTurn(a, b) BY <1>2 DEF Ordered, InOrder
<1> QED BY <1>2, <1>3 DEF InTurn

\* An agent hears another in the order in which that one spoke, although it moves
\* between the two, the connections close, and the waves take the line of the node
\* or the way over the server; unless an agent is told to move to where it is
\* (WebSocketPylon 363-406, 204-236, Node 437-469).
THEOREM SendersHeardInOrder ==
  ASSUME ~SelfMoves
  PROVE  Spec => []SenderOrder
<1> DEFINE Inv == TypeInv /\ Copies /\ Named /\ Marches
<1>1. Init => Inv BY TypeInvInit, CopiesInit, NamedInit, RootedInit, OrderInit DEF Marches
<1>2. Inv /\ [Next]_vars => Inv' BY TypeInvNext, CopiesNext, NamedNext, MarchesNext
<1>3. Inv => SenderOrder BY OrderedHeard DEF Marches
<1> QED BY <1>1, <1>2, <1>3, PTL DEF Spec

=============================================================================
