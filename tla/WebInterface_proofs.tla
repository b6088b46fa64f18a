------------------------ MODULE WebInterface_proofs ------------------------
(***************************************************************************)
(* Theorems about WebInterface, for any entities, pages and names: types,  *)
(* identifiers that hold under updates, inputs posted in order.            *)
(*                                                                         *)
(* What keeps the identifiers is that every one that is given has the      *)
(* number 0: the counters of an entity are removed before its new Element  *)
(* gets its own, and what is removed of them was never in idToElement      *)
(* (Numbered).  Everything a page holds or sends is then made of the one   *)
(* identifier of an entity, which stays known (Identified).                *)
(*                                                                         *)
(* The layout of the panels (PanelsInOrder) is the result of a fold over   *)
(* the lines and is not proved here.                                       *)
(***************************************************************************)
EXTENDS WebInterface, TLAPS

USE EntitiesAssumption, LongerAssumption, PagesAssumption, EventsAssumption

TypeInv == ElementTypes /\ BridgeTypes /\ WireTypes /\ PageTypes

(* An entity has the number 0, or none while its GUI is replaced: the last *)
(* number given is forgotten before the next.                              *)
Numbered ==
    /\ \A e \in Entities : number[e] \in {None, 0}
    /\ \A e \in Entities : number[e] = 0 => <<e, 0>> \in ids
    /\ \A e \in guis : writer.entity # e => number[e] = 0
    /\ writer.step # "idle" => writer.entity \in guis
    /\ writer.step = "insert" => counter[writer.entity] = None

Handled(p) == IF lister = p THEN 1 ELSE 0

(* A page registers twice, before it sends anything else.                  *)
Registered ==
    \A p \in Pages :
        /\ reg[p] + Handled(p) <= 2
        /\ \A i \in DOMAIN toServer[p] :
               toServer[p][i].type = "register" => i + reg[p] + Handled(p) <= 2
        /\ conn[p] = "none" => reg[p] = 0 /\ lister # p /\ toServer[p] = <<>>

(* An identifier, on a page or on its way, is the one of its entity, the   *)
(* server knows it and has a consumer for what it activates.               *)
Own(e) ==
    {id \in Ids \cup {Nobody} :
        id = Nobody \/ (consumers > 0 /\ (id = Null \/ (id = <<e, 0>> /\ id \in ids)))}

FromServer ==
    {m \in ToPage : IF m.type = "list" THEN \A e \in Entities : m.entries[e] \in Own(e)
                    ELSE \E e \in Entities : m.id = <<e, 0>>}

FromPage == {m \in ToServer : m.type = "port" => consumers > 0 /\ (m.id = Null \/ m.id \in ids)}

Identified ==
    /\ toPage \in [Pages -> Seq(FromServer)]
    /\ toServer \in [Pages -> Seq(FromPage)]
    /\ \A p \in Pages, e \in Entities : data[p][e] \in Own(e) /\ panelId[p][e] \in Own(e)

(* Inputs are numbered in the order in which they are activated, and they  *)
(* are posted and carried in that order.                                   *)
Port(p, i) == i \in DOMAIN toServer[p] /\ toServer[p][i].type = "port"

Inputs ==
    \A p \in Pages :
        /\ \A i \in DOMAIN posted[p] : posted[p][i] <= events
        /\ \A i \in DOMAIN toServer[p] : Port(p, i) => toServer[p][i].nr <= events
        /\ \A i, j \in DOMAIN posted[p] : i < j => posted[p][i] < posted[p][j]
        /\ \A i \in DOMAIN posted[p] : \A j \in DOMAIN toServer[p] :
               Port(p, j) => posted[p][i] < toServer[p][j].nr
        /\ \A i, j \in DOMAIN toServer[p] :
               i < j /\ Port(p, i) /\ Port(p, j) => toServer[p][i].nr < toServer[p][j].nr

-----------------------------------------------------------------------------
(* Messages. *)

(* An output is sent to one page that is registered, or to none. *)
LEMMA SentTo ==
    ASSUME NEW S, toPage \in [Pages -> Seq(S)], NEW m \in S, Send(m)
    PROVE  toPage' \in [Pages -> Seq(S)]
<1>1. CASE UNCHANGED toPage
  BY <1>1
<1>2. ASSUME NEW q \in Pages, toPage' = [toPage EXCEPT ![q] = Append(@, m)]
      PROVE  toPage' \in [Pages -> Seq(S)]
  BY <1>2
<1> QED
  BY <1>1, <1>2 DEF Send

(* A message that arrives was the first of its connection. *)
LEMMA ArrivesFirst ==
    ASSUME WireTypes, NEW q \in Pages, NEW type, Arrives(q, type)
    PROVE  /\ lister = Nobody
           /\ toServer' \in [Pages -> Seq(ToServer)]
           /\ toServer[q] # <<>> /\ Head(toServer[q]) = toServer[q][1]
           /\ 1 \in DOMAIN toServer[q] /\ toServer[q][1].type = type
           /\ \A p \in Pages \ {q} : toServer'[p] = toServer[p]
           /\ \A i \in DOMAIN toServer'[q] :
                  i + 1 \in DOMAIN toServer[q] /\ toServer'[q][i] = toServer[q][i + 1]
  BY DEF Arrives, WireTypes

LEMMA MessageTypes ==
    /\ \A m \in ToPage :
           IF m.type = "list" THEN m.entries \in [Entities -> Ids \cup {Nobody}]
           ELSE m.type = "output" /\ m.id \in Ids
    /\ \A m \in ToServer : m.type # "register" => m.type = "port" /\ m.id \in Ids /\ m.nr \in Nat
    /\ \A f \in [Entities -> Ids \cup {Nobody}] : [type |-> "list", entries |-> f] \in ToPage
    /\ \A id \in Ids : [type |-> "output", id |-> id] \in ToPage
    /\ \A id \in Ids, n \in Nat : [type |-> "port", id |-> id, nr |-> n] \in ToServer
    /\ [type |-> "register"] \in ToServer
  BY DEF ToPage, ToServer

LEMMA IdTypes ==
    /\ None \in Numbers /\ 0 \in Numbers /\ None # 0 /\ None + 1 = 0
    /\ Null \in Ids
    /\ \A e \in Entities : <<e, 0>> \in Ids \ {Null} /\ <<e, 0>>[1] = e
  BY DEF None, Numbers, Null, Ids

(* What the list says of an entity. *)
LEMMA EntryTypes ==
    ASSUME Numbered, NEW e \in Entities
    PROVE  /\ Entry(e) \in Ids \cup {Nobody}
           /\ Entry(e) = Nobody \/ Entry(e) = Null \/ (Entry(e) = <<e, 0>> /\ <<e, 0>> \in ids)
  BY IdTypes DEF Entry, Numbered

-----------------------------------------------------------------------------
(* Types. *)

LEMMA TypesInit == ASSUME Init PROVE TypeInv
<1> USE IdTypes
<1>1. ElementTypes
  <2>1. ids \subseteq Ids \ {Null}
    BY DEF Init, Ids, Null
  <2> QED
    BY <2>1 DEF Init, ElementTypes
<1>2. BridgeTypes
  BY DEF Init, BridgeTypes
<1>3. WireTypes
  BY DEF Init, WireTypes
<1>4. PageTypes
  BY DEF Init, PageTypes
<1> QED
  BY <1>1, <1>2, <1>3, <1>4 DEF TypeInv

LEMMA ElementTypesNext == ASSUME TypeInv, Numbered, Next PROVE ElementTypes'
<1> USE IdTypes DEF ElementTypes, TypeInv
<1>1. ASSUME NEW e \in Entities, Update(e) PROVE ElementTypes'
  BY <1>1 DEF Update, Event
<1>2. CASE RemoveIds
  BY <1>2 DEF RemoveIds
<1>3. CASE InsertIds
  <2>1. writer.entity \in Entities /\ counter[writer.entity] + 1 = 0
    BY <1>3 DEF InsertIds, Numbered
  <2>2. ids' \subseteq Ids \ {Null}
    BY <1>3, <2>1 DEF InsertIds
  <2> QED
    BY <1>3, <2>1, <2>2 DEF InsertIds
<1>4. ASSUME UNCHANGED elements PROVE ElementTypes'
  BY <1>4 DEF elements
<1> QED
  BY <1>1, <1>2, <1>3, <1>4 DEF Next, CentralThread, EventLoop, EndList, BeginList, ActiveInput,
     SocketClosed, Output, Open, Lost, Receive, Checkbox, Activate, elements

LEMMA BridgeTypesNext == ASSUME TypeInv, Registered, Next PROVE BridgeTypes'
<1> USE DEF BridgeTypes, TypeInv
<1>1. ASSUME NEW e \in Entities, Update(e) PROVE BridgeTypes'
  BY <1>1 DEF Update, Event, bridge
<1>2. CASE CentralThread
  BY <1>2 DEF CentralThread, RemoveIds, InsertIds, bridge
<1>3. ASSUME NEW e \in Entities, Output(e) PROVE BridgeTypes'
  BY <1>3 DEF Output, Event, bridge
<1>4. ASSUME NEW p \in Pages, BeginList(p) PROVE BridgeTypes'
  BY <1>4 DEF BeginList, elements
<1>5. CASE EndList
  <2>1. lister \in Pages
    BY <1>5 DEF EndList
  <2>2. reg[lister] + 1 <= 2
    BY <2>1 DEF Registered, Handled
  <2>3. reg[lister] \in 0 .. 2
    BY <2>1
  <2> QED
    BY <1>5, <2>1, <2>2, <2>3 DEF EndList, elements
<1>6. ASSUME NEW p \in Pages, ActiveInput(p) PROVE BridgeTypes'
  <2>1. Head(toServer[p]).nr \in Nat
    <3>1. Head(toServer[p]) = toServer[p][1] /\ 1 \in DOMAIN toServer[p] /\ toServer[p][1].type = "port"
      BY <1>6, ArrivesFirst DEF ActiveInput
    <3> QED
      BY <3>1, MessageTypes DEF WireTypes
  <2> QED
    BY <1>6, <2>1 DEF ActiveInput, elements
<1>7. ASSUME NEW p \in Pages, SocketClosed(p) PROVE BridgeTypes'
  BY <1>7 DEF SocketClosed, elements
<1>8. ASSUME NEW p \in Pages, Open(p) PROVE BridgeTypes'
  BY <1>8 DEF Open, Event, elements, bridge
<1>9. ASSUME NEW p \in Pages, Lost(p) PROVE BridgeTypes'
  BY <1>9 DEF Lost, Event, elements, bridge
<1>10. ASSUME NEW p \in Pages, Receive(p) PROVE BridgeTypes'
  BY <1>10 DEF Receive, elements, bridge
<1>11. ASSUME NEW p \in Pages, NEW e \in Entities, Checkbox(p, e) PROVE BridgeTypes'
  BY <1>11 DEF Checkbox, elements, bridge
<1>12. ASSUME NEW p \in Pages, NEW e \in Entities, Activate(p, e) PROVE BridgeTypes'
  BY <1>12 DEF Activate, Event, elements, bridge
<1> QED
  BY <1>1, <1>2, <1>3, <1>4, <1>5, <1>6, <1>7, <1>8, <1>9, <1>10, <1>11, <1>12 DEF Next, EventLoop

LEMMA OutputTypes ==
    ASSUME TypeInv, Numbered, NEW e \in Entities, Output(e)
    PROVE  number[e] = 0 /\ [type |-> "output", id |-> <<e, number[e]>>] \in ToPage
<1>1. number[e] = 0
  BY DEF Output, Numbered, TypeInv, ElementTypes
<1>2. <<e, number[e]>> \in Ids
  BY <1>1, IdTypes
<1> QED
  BY <1>1, <1>2, MessageTypes

LEMMA ListTypes ==
    ASSUME Numbered
    PROVE  [type |-> "list", entries |-> [e \in Entities |-> Entry(e)]] \in ToPage
BY EntryTypes, MessageTypes

LEMMA WireTypesNext == ASSUME TypeInv, Numbered, Next PROVE WireTypes'
<1> USE DEF TypeInv
<1>1. ASSUME UNCHANGED wires PROVE WireTypes'
  BY <1>1 DEF wires, WireTypes
<1>2. ASSUME NEW e \in Entities, Output(e) PROVE WireTypes'
  <2> DEFINE m == [type |-> "output", id |-> <<e, number[e]>>]
  <2>1. m \in ToPage /\ Send(m) /\ UNCHANGED toServer
    BY <1>2, OutputTypes DEF Output
  <2> HIDE DEF m
  <2> QED
    BY <2>1, SentTo DEF WireTypes
<1>3. CASE EndList
  <2> DEFINE m == [type |-> "list", entries |-> [e \in Entities |-> Entry(e)]]
  <2>1. m \in ToPage /\ (Send(m) \/ UNCHANGED toPage) /\ UNCHANGED toServer
    BY <1>3, ListTypes DEF EndList
  <2> HIDE DEF m
  <2> QED
    BY <2>1, SentTo DEF WireTypes
<1>4. ASSUME NEW p \in Pages, NEW type, Arrives(p, type), UNCHANGED toPage PROVE WireTypes'
  BY <1>4, ArrivesFirst DEF WireTypes
<1>5. ASSUME NEW p \in Pages, Open(p) PROVE WireTypes'
  BY <1>5, MessageTypes DEF Open, WireTypes
<1>6. ASSUME NEW p \in Pages, Lost(p) PROVE WireTypes'
  BY <1>6 DEF Lost, WireTypes
<1>7. ASSUME NEW p \in Pages, Receive(p) PROVE WireTypes'
  BY <1>7 DEF Receive, WireTypes
<1>8. ASSUME NEW p \in Pages, NEW e \in Entities, Activate(p, e) PROVE WireTypes'
  <2> DEFINE m == [type |-> "port", id |-> panelId[p][e], nr |-> events + 1]
  <2>1. m \in ToServer
    BY <1>8, MessageTypes DEF Activate, PageTypes, BridgeTypes
  <2>2. toServer' = [toServer EXCEPT ![p] = Append(@, m)] /\ UNCHANGED toPage
    BY <1>8 DEF Activate
  <2> HIDE DEF m
  <2> QED
    BY <2>1, <2>2 DEF WireTypes
<1>9. ASSUME NEW p \in Pages, BeginList(p) \/ ActiveInput(p) PROVE WireTypes'
  BY <1>4, <1>9 DEF BeginList, ActiveInput
<1>10. ASSUME NEW p \in Pages, SocketClosed(p) PROVE WireTypes'
  BY <1>1, <1>10 DEF SocketClosed
<1>11. ASSUME NEW p \in Pages, NEW e \in Entities, Checkbox(p, e) PROVE WireTypes'
  BY <1>1, <1>11 DEF Checkbox
<1>12. CASE CentralThread \/ \E e \in Entities : Update(e)
  BY <1>1, <1>12 DEF CentralThread, RemoveIds, InsertIds, Update
<1> QED
  BY <1>2, <1>3, <1>5, <1>6, <1>7, <1>8, <1>9, <1>10, <1>11, <1>12 DEF Next, EventLoop

LEMMA PageTypesNext == ASSUME TypeInv, Next PROVE PageTypes'
<1> USE DEF TypeInv, PageTypes
<1>1. ASSUME UNCHANGED <<list, panelId>> PROVE PageTypes'
  BY <1>1 DEF list
<1>2. ASSUME NEW p \in Pages, Receive(p) PROVE PageTypes'
  <2> DEFINE m == Head(toPage[p])
  <2>1. m \in ToPage
    BY <1>2 DEF Receive, WireTypes
  <2>2. CASE m.type = "list"
    <3>1. m.entries \in [Entities -> Ids \cup {Nobody}]
      BY <2>1, <2>2, MessageTypes
    <3>2. data' = [data EXCEPT ![p] = m.entries] /\ UNCHANGED panelId
          /\ rows' = [rows EXCEPT ![p] =
                          [e \in Entities |-> rows[p][e] + IF m.entries[e] # Nobody THEN 1 ELSE 0]]
      BY <1>2, <2>2 DEF Receive, panels
    <3> HIDE DEF m
    <3> QED
      BY <3>1, <3>2
  <2>3. CASE m.type # "list"
    BY <1>2, <2>3, <1>1 DEF Receive, panels
  <2> QED
    BY <2>2, <2>3
<1>3. ASSUME NEW p \in Pages, NEW e \in Entities, Checkbox(p, e) PROVE PageTypes'
  <2>1. UNCHANGED list
    BY <1>3 DEF Checkbox
  <2>2. \E id \in Ids \cup {Nobody} : panelId' = [panelId EXCEPT ![p][e] = id]
    <3>1. CASE RemovePanel(p, e)
      <4>1. panelId' = [panelId EXCEPT ![p][e] = Nobody]
        BY <3>1 DEF RemovePanel
      <4> QED
        BY <4>1
    <3>2. CASE NewInterface(p, e)
      <4>1. panelId' = [panelId EXCEPT ![p][e] = data[p][e]]
        BY <3>2 DEF NewInterface
      <4>2. data[p][e] \in Ids \cup {Nobody}
        OBVIOUS
      <4> QED
        BY <4>1, <4>2
    <3> QED
      BY <1>3, <3>1, <3>2 DEF Checkbox
  <2>3. panelId' \in [Pages -> [Entities -> Ids \cup {Nobody}]]
    BY <2>2
  <2> QED
    BY <2>1, <2>3 DEF list
<1>4. CASE CentralThread
  BY <1>1, <1>4 DEF CentralThread, RemoveIds, InsertIds, panels
<1>7. CASE EventLoop
  <2>1. UNCHANGED list /\ UNCHANGED panels
    BY <1>7 DEF EventLoop, EndList, BeginList, ActiveInput, SocketClosed
  <2> QED
    BY <1>1, <2>1 DEF panels
<1>5. ASSUME NEW e \in Entities, Update(e) \/ Output(e) PROVE PageTypes'
  BY <1>1, <1>5 DEF Update, Output, panels
<1>6. ASSUME NEW p \in Pages, Open(p) \/ Lost(p) \/ \E e \in Entities : Activate(p, e) PROVE PageTypes'
  BY <1>1, <1>6 DEF Open, Lost, Activate, panels
<1> QED
  BY <1>2, <1>3, <1>4, <1>5, <1>6, <1>7 DEF Next

(* A step that changes nothing keeps everything. *)
LEMMA Stuttering ==
    ASSUME UNCHANGED vars
    PROVE  /\ TypeInv' = TypeInv /\ Numbered' = Numbered /\ Registered' = Registered
           /\ Identified' = Identified /\ Inputs' = Inputs
<1>1. UNCHANGED <<guis, number, counter, ids, writer, lister, keys, consumers, reg, posted, toPage,
                  toServer, data, rows, grid, place, panelId, conn, events>>
  BY DEF vars, elements, bridge, wires, list, panels
<1>2. TypeInv' = TypeInv
  BY <1>1 DEF TypeInv, ElementTypes, BridgeTypes, WireTypes, PageTypes
<1>3. Numbered' = Numbered
  BY <1>1 DEF Numbered
<1>4. Registered' = Registered
  BY <1>1 DEF Registered, Handled
<1>5. Identified' = Identified
  BY <1>1 DEF Identified, FromServer, FromPage, Own
<1>6. Inputs' = Inputs
  BY <1>1 DEF Inputs, Port
<1> QED
  BY <1>2, <1>3, <1>4, <1>5, <1>6

-----------------------------------------------------------------------------
(* Numbers. *)

LEMMA NumberedInit == ASSUME Init PROVE Numbered
BY IdTypes DEF Init, Numbered

LEMMA NumberedNext == ASSUME TypeInv, Numbered, Next PROVE Numbered'
<1> USE IdTypes DEF TypeInv, ElementTypes
<1>1. ASSUME NEW e \in Entities, Update(e) PROVE Numbered'
  BY <1>1 DEF Update, Numbered
<1>2. CASE RemoveIds
  <2>1. writer.entity \in Entities /\ writer.entity \in Longer[writer.entity]
    BY <1>2 DEF RemoveIds, Numbered
  <2> QED
    BY <1>2, <2>1 DEF RemoveIds, Numbered
<1>3. CASE InsertIds
  <2>1. writer.entity \in Entities /\ counter[writer.entity] + 1 = 0
    BY <1>3 DEF InsertIds, Numbered
  <2>2. /\ number' = [number EXCEPT ![writer.entity] = 0]
        /\ ids' = ids \cup {<<writer.entity, 0>>}
        /\ writer' = [entity |-> Nobody, step |-> "idle"]
        /\ UNCHANGED guis
    BY <1>3, <2>1 DEF InsertIds
  <2> QED
    BY <2>1, <2>2, <1>3 DEF Numbered, InsertIds
<1>4. ASSUME UNCHANGED elements PROVE Numbered'
  BY <1>4 DEF elements, Numbered
<1>5. CASE EventLoop
  BY <1>4, <1>5 DEF EventLoop, EndList, BeginList, ActiveInput, SocketClosed
<1> QED
  BY <1>1, <1>2, <1>3, <1>4, <1>5 DEF Next, CentralThread, Output, Open, Lost, Receive, Checkbox,
     Activate, elements

-----------------------------------------------------------------------------
(* Registrations. *)

LEMMA RegisteredInit == ASSUME Init PROVE Registered
BY DEF Init, Registered, Handled

LEMMA RegisteredNext == ASSUME TypeInv, Registered, Next PROVE Registered'
<1> USE DEF TypeInv
<1>1. ASSUME UNCHANGED <<lister, reg, toServer, conn>> PROVE Registered'
  BY <1>1 DEF Registered, Handled
<1>2. ASSUME NEW q \in Pages, BeginList(q) PROVE Registered'
  <2>1. Arrives(q, "register") /\ lister' = q /\ UNCHANGED <<reg, conn>>
    BY <1>2 DEF BeginList
  <2>2. /\ lister = Nobody /\ 1 \in DOMAIN toServer[q] /\ toServer[q][1].type = "register"
        /\ \A p \in Pages \ {q} : toServer'[p] = toServer[p]
        /\ \A i \in DOMAIN toServer'[q] :
               i + 1 \in DOMAIN toServer[q] /\ toServer'[q][i] = toServer[q][i + 1]
    BY <2>1, ArrivesFirst
  <2>3. reg[q] + 1 <= 2 /\ conn[q] # "none"
    BY <2>2 DEF Registered, Handled, BridgeTypes
  <2>4. \A i \in DOMAIN toServer'[q] : toServer'[q][i].type = "register" => i + reg'[q] + Handled(q)' <= 2
    <3>1. \A i \in DOMAIN toServer'[q] : i \in Nat
      BY ArrivesFirst, <2>1 DEF WireTypes
    <3>2. Handled(q)' = 1 /\ Handled(q) = 0 /\ reg'[q] = reg[q] /\ reg[q] \in Nat
      BY <2>1, <2>2 DEF Handled, BridgeTypes
    <3> QED
      BY <2>2, <3>1, <3>2 DEF Registered
  <2>5. \A p \in Pages \ {q} : Handled(p)' = 0 /\ Handled(p) = 0
    BY <2>1, <2>2 DEF Handled
  <2> QED
    BY <2>1, <2>2, <2>3, <2>4, <2>5 DEF Registered, Handled
<1>3. CASE EndList
  <2>1. lister \in Pages /\ lister' = Nobody /\ reg' = [reg EXCEPT ![lister] = @ + 1]
        /\ UNCHANGED <<toServer, conn>>
    BY <1>3 DEF EndList, BridgeTypes
  <2>2. ASSUME NEW p \in Pages
        PROVE  /\ reg[p] \in Nat /\ reg'[p] \in Nat /\ Handled(p) \in Nat /\ Handled(p)' \in Nat
               /\ reg'[p] + Handled(p)' = reg[p] + Handled(p)
               /\ lister # p => reg'[p] = reg[p]
    <3>1. reg[p] \in Nat
      BY DEF BridgeTypes
    <3>2. CASE lister = p
      <4>1. reg' = [reg EXCEPT ![p] = reg[p] + 1] /\ lister' # p
        BY <2>1, <3>2
      <4>2. Handled(p) = 1 /\ Handled(p)' = 0
        BY <4>1, <3>2 DEF Handled
      <4>3. reg'[p] = reg[p] + 1
        BY <4>1 DEF BridgeTypes
      <4> QED
        BY <4>2, <4>3, <3>1, <3>2
    <3>3. CASE lister # p
      <4>1. reg'[p] = reg[p]
        BY <2>1, <3>3 DEF BridgeTypes
      <4>2. lister' # p
        BY <2>1
      <4>3. Handled(p) = 0 /\ Handled(p)' = 0
        BY <4>2, <3>3 DEF Handled
      <4> QED
        BY <4>1, <4>3, <3>1
    <3> QED
      BY <3>2, <3>3
  <2>3. ASSUME NEW p \in Pages, NEW i \in DOMAIN toServer[p], toServer[p][i].type = "register"
        PROVE  i + reg'[p] + Handled(p)' <= 2
    <3>1. i \in Nat
      BY DEF WireTypes
    <3>2. i + reg[p] + Handled(p) <= 2
      BY <2>3 DEF Registered
    <3> QED
      BY <2>2, <3>1, <3>2
  <2>4. \A p \in Pages : conn[p] = "none" => reg'[p] = 0 /\ lister' # p
    BY <2>1, <2>2 DEF Registered
  <2>5. \A p \in Pages : reg'[p] + Handled(p)' <= 2
    BY <2>2 DEF Registered
  <2>6. toServer' = toServer /\ conn' = conn
    BY <2>1
  <2> QED
    BY <2>3, <2>4, <2>5, <2>6 DEF Registered
<1>4. ASSUME NEW q \in Pages, ActiveInput(q) PROVE Registered'
  <2>1. Arrives(q, "port") /\ UNCHANGED <<lister, reg, conn>>
    BY <1>4 DEF ActiveInput
  <2>2. /\ 1 \in DOMAIN toServer[q]
        /\ \A p \in Pages \ {q} : toServer'[p] = toServer[p]
        /\ \A i \in DOMAIN toServer'[q] :
               i + 1 \in DOMAIN toServer[q] /\ toServer'[q][i] = toServer[q][i + 1]
    BY <2>1, ArrivesFirst
  <2>3. \A p \in Pages : Handled(p)' = Handled(p) /\ Handled(p) \in Nat /\ reg[p] \in Nat
    <3>1. \A p \in Pages : Handled(p)' = Handled(p) /\ Handled(p) \in Nat
      BY <2>1 DEF Handled
    <3>2. ASSUME NEW p \in Pages PROVE reg[p] \in Nat
      <4>1. reg[p] \in 0 .. 2
        BY DEF BridgeTypes
      <4> QED
        BY <4>1
    <3> QED
      BY <3>1, <3>2
  <2>4. \A i \in DOMAIN toServer'[q] : i \in Nat
    BY ArrivesFirst, <2>1 DEF WireTypes
  <2>5. conn[q] # "none"
    BY <2>2 DEF Registered
  <2>6. \A i \in DOMAIN toServer'[q] : toServer'[q][i].type = "register" => i + reg[q] + Handled(q) <= 2
    BY <2>2, <2>3, <2>4 DEF Registered
  <2> QED
    BY <2>1, <2>2, <2>3, <2>5, <2>6 DEF Registered
<1>5. ASSUME NEW q \in Pages, SocketClosed(q) PROVE Registered'
  BY <1>5 DEF SocketClosed, Registered, Handled, BridgeTypes, wires, WireTypes
<1>6. ASSUME NEW q \in Pages, Open(q) PROVE Registered'
  <2>1. conn[q] = "none" /\ UNCHANGED <<lister, reg>> /\ conn' = [conn EXCEPT ![q] = "open"]
        /\ toServer' = [toServer EXCEPT ![q] = <<[type |-> "register"], [type |-> "register"]>>]
    BY <1>6 DEF Open, bridge
  <2>2. reg[q] = 0 /\ Handled(q) = 0 /\ toServer'[q] = <<[type |-> "register"], [type |-> "register"]>>
    BY <2>1 DEF Registered, WireTypes, Handled
  <2>3. \A p \in Pages : Handled(p)' = Handled(p)
    BY <2>1 DEF Handled
  <2> QED
    BY <2>1, <2>2, <2>3 DEF Registered, BridgeTypes, WireTypes
<1>7. ASSUME NEW q \in Pages, Lost(q) PROVE Registered'
  <2>1. PICK n \in 0 .. Len(toServer[q]) : toServer' = [toServer EXCEPT ![q] = SubSeq(@, 1, n)]
    BY <1>7 DEF Lost
  <2>2. UNCHANGED <<lister, reg>> /\ conn' = [conn EXCEPT ![q] = "closed"]
    BY <1>7 DEF Lost, bridge
  <2>3. \A p \in Pages : Handled(p)' = Handled(p)
    BY <2>2 DEF Handled
  <2>4. \A i \in DOMAIN toServer'[q] : i \in DOMAIN toServer[q] /\ toServer'[q][i] = toServer[q][i]
    BY <2>1 DEF WireTypes
  <2>5. \A p \in Pages \ {q} : toServer'[p] = toServer[p]
    BY <2>1 DEF WireTypes
  <2> QED
    BY <2>2, <2>3, <2>4, <2>5 DEF Registered, BridgeTypes
<1>8. ASSUME NEW q \in Pages, NEW e \in Entities, Activate(q, e) PROVE Registered'
  <2> DEFINE m == [type |-> "port", id |-> panelId[q][e], nr |-> events + 1]
  <2>1. toServer' = [toServer EXCEPT ![q] = Append(@, m)] /\ UNCHANGED <<lister, reg, conn>>
        /\ conn[q] = "open" /\ m.type # "register"
    BY <1>8 DEF Activate, bridge
  <2> HIDE DEF m
  <2>2. \A p \in Pages : \A i \in DOMAIN toServer'[p] :
            (p = q /\ toServer'[p][i] = m) \/ (i \in DOMAIN toServer[p] /\ toServer'[p][i] = toServer[p][i])
    BY <2>1 DEF WireTypes
  <2>3. \A p \in Pages : Handled(p)' = Handled(p)
    BY <2>1 DEF Handled
  <2>4. \A p \in Pages \ {q} : toServer'[p] = toServer[p]
    BY <2>1 DEF WireTypes
  <2> QED
    BY <2>1, <2>2, <2>3, <2>4 DEF Registered
<1>9. CASE CentralThread
  BY <1>1, <1>9 DEF CentralThread, RemoveIds, InsertIds, bridge, wires
<1>10. ASSUME NEW e \in Entities, Update(e) \/ Output(e) PROVE Registered'
  BY <1>1, <1>10 DEF Update, Output, bridge, wires
<1>11. ASSUME NEW p \in Pages, Receive(p) PROVE Registered'
  BY <1>1, <1>11 DEF Receive, bridge
<1>12. ASSUME NEW p \in Pages, NEW e \in Entities, Checkbox(p, e) PROVE Registered'
  BY <1>1, <1>12 DEF Checkbox, bridge, wires
<1> QED
  BY <1>2, <1>3, <1>4, <1>5, <1>6, <1>7, <1>8, <1>9, <1>10, <1>11, <1>12 DEF Next, EventLoop

-----------------------------------------------------------------------------
(* Identifiers. *)

LEMMA IdentifiedInit == ASSUME Init PROVE Identified
BY DEF Init, Identified, Own

(* What is known stays known, and consumers are never taken away. *)
Grows == ids \subseteq ids' /\ consumers' >= consumers

LEMMA OwnStays ==
    ASSUME BridgeTypes, BridgeTypes', Grows
    PROVE  /\ \A e : Own(e) \subseteq Own(e)'
           /\ FromServer \subseteq FromServer'
           /\ FromPage \subseteq FromPage'
<1>1. consumers > 0 => consumers' > 0
  BY DEF BridgeTypes, Grows
<1>2. \A e : Own(e) \subseteq Own(e)'
  BY <1>1 DEF Own, Grows
<1>3. FromServer \subseteq FromServer'
  BY <1>2 DEF FromServer
<1>4. FromPage \subseteq FromPage'
  BY <1>1 DEF FromPage, Grows
<1> QED
  BY <1>2, <1>3, <1>4

LEMMA GrowsNext == ASSUME TypeInv, Next PROVE Grows
<1> USE DEF TypeInv, BridgeTypes, Grows
<1>1. CASE CentralThread \/ \E e \in Entities : Update(e)
  BY <1>1 DEF CentralThread, RemoveIds, InsertIds, Update, bridge
<1>2. CASE EndList
  BY <1>2 DEF EndList, elements
<1>3. ASSUME NEW p \in Pages, BeginList(p) \/ ActiveInput(p) \/ SocketClosed(p) PROVE Grows
  BY <1>3 DEF BeginList, ActiveInput, SocketClosed, elements
<1>4. ASSUME UNCHANGED <<ids, bridge>> PROVE Grows
  BY <1>4 DEF bridge
<1> QED
  BY <1>1, <1>2, <1>3, <1>4 DEF Next, EventLoop, Output, Open, Lost, Receive, Checkbox, Activate, elements

LEMMA IdentifiedNext ==
    ASSUME TypeInv, TypeInv', Numbered, Identified, Next
    PROVE  Identified'
<1> USE DEF TypeInv
<1>1. (\A e : Own(e) \subseteq Own(e)') /\ FromServer \subseteq FromServer' /\ FromPage \subseteq FromPage'
  BY GrowsNext, OwnStays
<1> PICK S, T : S = FromServer' /\ T = FromPage'
  OBVIOUS
<1>2. toPage \in [Pages -> Seq(S)] /\ toServer \in [Pages -> Seq(T)]
  BY <1>1 DEF Identified
<1>3. \A p \in Pages, e \in Entities : data[p][e] \in Own(e)' /\ panelId[p][e] \in Own(e)'
  BY <1>1 DEF Identified
<1>4. ASSUME toPage' \in [Pages -> Seq(S)], toServer' \in [Pages -> Seq(T)], UNCHANGED <<data, panelId>>
      PROVE  Identified'
  BY <1>3, <1>4 DEF Identified
<1>5. ASSUME UNCHANGED <<data, panelId, toPage, toServer>> PROVE Identified'
  BY <1>2, <1>4, <1>5
<1>6. ASSUME NEW e \in Entities, Output(e) PROVE Identified'
  <2> DEFINE m == [type |-> "output", id |-> <<e, number[e]>>]
  <2>1. m \in ToPage /\ m.type # "list" /\ m.id = <<e, 0>> /\ Send(m) /\ UNCHANGED <<toServer, data, panelId>>
    BY <1>6, OutputTypes DEF Output, list, panels
  <2> HIDE DEF m
  <2>2. m \in S
    BY <2>1 DEF FromServer
  <2>3. toPage' \in [Pages -> Seq(S)]
    BY <1>2, <2>1, <2>2, SentTo
  <2> QED
    BY <1>2, <1>4, <2>1, <2>3
<1>7. CASE EndList
  <2> DEFINE f == [e \in Entities |-> Entry(e)]
             m == [type |-> "list", entries |-> f]
  <2>1. m \in ToPage /\ UNCHANGED <<toServer, data, panelId>>
    BY <1>7, ListTypes DEF EndList, list, panels
  <2>2. CASE keys = guis
    <3>1. Send(m) /\ consumers' > 0 /\ ids' = ids
      BY <1>7, <2>2 DEF EndList, elements, BridgeTypes
    <3>2. ASSUME NEW e \in Entities PROVE f[e] \in Own(e)'
      BY <3>1, EntryTypes DEF Own
    <3> HIDE DEF f
    <3>3. m \in S
      BY <2>1, <3>2 DEF FromServer
    <3> HIDE DEF m
    <3>4. toPage' \in [Pages -> Seq(S)]
      BY <1>2, <3>1, <3>3, SentTo
    <3> QED
      BY <1>2, <1>4, <2>1, <3>4
  <2>3. CASE keys # guis
    BY <1>5, <1>7, <2>1, <2>3 DEF EndList
  <2> QED
    BY <2>2, <2>3
<1>8. ASSUME NEW q \in Pages, NEW type, Arrives(q, type), UNCHANGED <<toPage, data, panelId>> PROVE Identified'
  <2>1. toServer' \in [Pages -> Seq(T)]
    BY <1>2, <1>8 DEF Arrives
  <2> QED
    BY <1>2, <1>4, <1>8, <2>1
<1>9. ASSUME NEW q \in Pages, Open(q) PROVE Identified'
  <2> DEFINE m == [type |-> "register"]
  <2>1. m \in T
    BY MessageTypes DEF FromPage
  <2>2. toServer' = [toServer EXCEPT ![q] = <<m, m>>] /\ UNCHANGED <<toPage, data, panelId>>
    BY <1>9 DEF Open, list, panels
  <2> HIDE DEF m
  <2>3. toServer' \in [Pages -> Seq(T)]
    BY <1>2, <2>1, <2>2
  <2> QED
    BY <1>2, <1>4, <2>2, <2>3
<1>10. ASSUME NEW q \in Pages, Lost(q) PROVE Identified'
  <2>1. PICK n \in 0 .. Len(toServer[q]) : toServer' = [toServer EXCEPT ![q] = SubSeq(@, 1, n)]
    BY <1>10 DEF Lost
  <2>2. toPage' = [toPage EXCEPT ![q] = <<>>] /\ UNCHANGED <<data, panelId>>
    BY <1>10 DEF Lost, list, panels
  <2>3. toServer' \in [Pages -> Seq(T)]
    BY <1>2, <2>1
  <2>4. toPage' \in [Pages -> Seq(S)]
    BY <1>2, <2>2
  <2> QED
    BY <1>4, <2>2, <2>3, <2>4
<1>11. ASSUME NEW q \in Pages, Receive(q) PROVE Identified'
  <2> DEFINE m == Head(toPage[q])
  <2>1. m \in S /\ toPage' \in [Pages -> Seq(S)]
    BY <1>2, <1>11 DEF Receive
  <2>2. UNCHANGED <<toServer, panelId>>
    BY <1>11 DEF Receive, panels
  <2>3. CASE m.type = "list"
    <3>1. data' = [data EXCEPT ![q] = m.entries]
      BY <1>11, <2>3 DEF Receive
    <3>2. \A e \in Entities : m.entries[e] \in Own(e)'
      BY <2>1, <2>3 DEF FromServer
    <3> HIDE DEF m
    <3>3. \A p \in Pages, e \in Entities : data'[p][e] \in Own(e)'
      BY <1>3, <3>1, <3>2 DEF PageTypes
    <3> QED
      BY <1>2, <1>3, <2>1, <2>2, <3>3 DEF Identified
  <2>4. CASE m.type # "list"
    <3>1. UNCHANGED data
      BY <1>11, <2>4 DEF Receive, list
    <3> HIDE DEF m
    <3> QED
      BY <1>2, <1>4, <2>1, <2>2, <3>1
  <2> QED
    BY <2>3, <2>4
<1>12. ASSUME NEW q \in Pages, NEW x \in Entities, Checkbox(q, x) PROVE Identified'
  <2>1. UNCHANGED <<toPage, toServer, data>>
    BY <1>12 DEF Checkbox, wires, list
  <2>2. \E id : id \in Own(x)' /\ panelId' = [panelId EXCEPT ![q][x] = id]
    <3>1. CASE RemovePanel(q, x)
      <4>1. panelId' = [panelId EXCEPT ![q][x] = Nobody] /\ Nobody \in Own(x)'
        BY <3>1 DEF RemovePanel, Own
      <4> QED
        BY <4>1
    <3>2. CASE NewInterface(q, x)
      <4>1. panelId' = [panelId EXCEPT ![q][x] = data[q][x]] /\ data[q][x] \in Own(x)'
        BY <1>3, <3>2 DEF NewInterface
      <4> QED
        BY <4>1
    <3> QED
      BY <1>12, <3>1, <3>2 DEF Checkbox
  <2>3. \A p \in Pages, e \in Entities : panelId'[p][e] \in Own(e)'
    BY <1>3, <2>2 DEF PageTypes
  <2> QED
    BY <1>2, <1>3, <2>1, <2>3 DEF Identified
<1>13. ASSUME NEW q \in Pages, NEW e \in Entities, Activate(q, e) PROVE Identified'
  <2> DEFINE m == [type |-> "port", id |-> panelId[q][e], nr |-> events + 1]
  <2>1. /\ toServer' = [toServer EXCEPT ![q] = Append(@, m)] /\ UNCHANGED <<toPage, data, panelId>>
        /\ panelId[q][e] # Nobody
    BY <1>13 DEF Activate, list, panels
  <2>2. panelId[q][e] \in Own(e)' /\ panelId[q][e] \in Ids
    BY <1>3, <2>1 DEF PageTypes
  <2>3. consumers' > 0 /\ (panelId[q][e] = Null \/ panelId[q][e] \in ids')
    BY <2>1, <2>2 DEF Own
  <2>4. m \in ToServer
    <3>1. events + 1 \in Nat
      BY DEF BridgeTypes
    <3> QED
      BY <2>2, <3>1, MessageTypes
  <2>5. m \in T
    BY <2>3, <2>4 DEF FromPage
  <2> HIDE DEF m
  <2>6. toServer' \in [Pages -> Seq(T)]
    BY <1>2, <2>1, <2>5
  <2> QED
    BY <1>2, <1>4, <2>1, <2>6
<1>14. CASE CentralThread
  BY <1>5, <1>14 DEF CentralThread, RemoveIds, InsertIds, wires, list, panels
<1>15. ASSUME NEW e \in Entities, Update(e) PROVE Identified'
  BY <1>5, <1>15 DEF Update, wires, list, panels
<1>16. ASSUME NEW p \in Pages, SocketClosed(p) PROVE Identified'
  BY <1>5, <1>16 DEF SocketClosed, wires, list, panels
<1>17. ASSUME NEW p \in Pages, BeginList(p) \/ ActiveInput(p) PROVE Identified'
  <2>1. UNCHANGED <<toPage, data, panelId>>
    BY <1>17 DEF BeginList, ActiveInput, list, panels
  <2> QED
    BY <1>8, <1>17, <2>1 DEF BeginList, ActiveInput
<1> QED
  BY <1>6, <1>7, <1>9, <1>10, <1>11, <1>12, <1>13, <1>14, <1>15, <1>16, <1>17 DEF Next, EventLoop

-----------------------------------------------------------------------------
(* Inputs. *)

LEMMA InputsInit == ASSUME Init PROVE Inputs
BY DEF Init, Inputs, Port

LEMMA InputsNext ==
    ASSUME TypeInv, TypeInv', Registered, Inputs, Next
    PROVE  Inputs'
<1> USE DEF TypeInv
<1>1. /\ events \in Nat /\ events' \in Nat
      /\ \A p \in Pages : posted[p] \in Seq(Nat) /\ toServer[p] \in Seq(ToServer)
      /\ \A p \in Pages : \A i \in DOMAIN toServer[p] : Port(p, i) => toServer[p][i].nr \in Nat
  <2>1. events \in Nat /\ events' \in Nat
    BY DEF BridgeTypes
  <2>2. \A p \in Pages : posted[p] \in Seq(Nat) /\ toServer[p] \in Seq(ToServer)
    BY DEF BridgeTypes, WireTypes
  <2>3. ASSUME NEW p \in Pages, NEW i \in DOMAIN toServer[p], Port(p, i) PROVE toServer[p][i].nr \in Nat
    <3>1. toServer[p][i] \in ToServer
      BY <2>2
    <3> QED
      BY <2>3, <3>1, MessageTypes DEF Port
  <2> QED
    BY <2>1, <2>2, <2>3
(* What a page has sent is left where it was, or moves up, and nothing is  *)
(* posted.                                                                 *)
<1>2. ASSUME UNCHANGED posted, events' >= events, NEW k \in Nat, NEW q \in Pages,
             \A p \in Pages \ {q} : toServer'[p] = toServer[p],
             \A i \in DOMAIN toServer'[q] :
                 i + k \in DOMAIN toServer[q] /\ toServer'[q][i] = toServer[q][i + k]
      PROVE  Inputs'
  <2>1. ASSUME NEW i, Port(q, i)' PROVE i \in Nat /\ Port(q, i + k) /\ toServer'[q][i] = toServer[q][i + k]
    BY <1>2, <2>1 DEF Port, WireTypes
  <2>2. ASSUME NEW p \in Pages \ {q} PROVE \A i : Port(p, i)' <=> Port(p, i)
    BY <1>2, <2>2 DEF Port
  <2>3. ASSUME NEW p \in Pages, NEW i \in DOMAIN posted'[p] PROVE posted'[p][i] <= events'
    BY <1>1, <1>2 DEF Inputs
  <2>4. ASSUME NEW p \in Pages, NEW i, Port(p, i)' PROVE toServer'[p][i].nr <= events'
    <3>1. CASE p = q
      BY <1>1, <1>2, <2>1, <2>4, <3>1 DEF Inputs, Port
    <3>2. CASE p # q
      BY <1>1, <1>2, <2>2, <2>4, <3>2 DEF Inputs, Port
    <3> QED
      BY <3>1, <3>2
  <2>5. ASSUME NEW p \in Pages, NEW i \in DOMAIN posted'[p], NEW j, Port(p, j)'
        PROVE  posted'[p][i] < toServer'[p][j].nr
    <3>1. CASE p = q
      BY <1>2, <2>1, <2>5, <3>1 DEF Inputs, Port
    <3>2. CASE p # q
      BY <1>2, <2>2, <2>5, <3>2 DEF Inputs, Port
    <3> QED
      BY <3>1, <3>2
  <2>6. ASSUME NEW p \in Pages, NEW i, NEW j, i < j, Port(p, i)', Port(p, j)'
        PROVE  toServer'[p][i].nr < toServer'[p][j].nr
    <3>1. CASE p = q
      <4>1. i + k < j + k /\ Port(q, i + k) /\ Port(q, j + k)
        BY <2>1, <2>6, <3>1
      <4>2. toServer'[q][i] = toServer[q][i + k] /\ toServer'[q][j] = toServer[q][j + k]
        BY <2>1, <2>6, <3>1
      <4> QED
        BY <4>1, <4>2, <3>1 DEF Inputs, Port
    <3>2. CASE p # q
      BY <1>2, <2>2, <2>6, <3>2 DEF Inputs, Port
    <3> QED
      BY <3>1, <3>2
  <2>7. \A p \in Pages : \A i, j \in DOMAIN posted'[p] : i < j => posted'[p][i] < posted'[p][j]
    BY <1>2 DEF Inputs
  <2> QED
    BY <2>3, <2>4, <2>5, <2>6, <2>7 DEF Inputs, Port
<1>3. ASSUME UNCHANGED <<posted, toServer>>, events' >= events PROVE Inputs'
  BY <1>1, <1>3 DEF Inputs, Port
<1>4. ASSUME NEW q \in Pages, BeginList(q) PROVE Inputs'
  <2>1. Arrives(q, "register") /\ UNCHANGED <<posted, events>>
    BY <1>4 DEF BeginList
  <2>2. /\ \A p \in Pages \ {q} : toServer'[p] = toServer[p]
        /\ \A i \in DOMAIN toServer'[q] :
               i + 1 \in DOMAIN toServer[q] /\ toServer'[q][i] = toServer[q][i + 1]
    BY <2>1, ArrivesFirst
  <2>3. events' >= events
    BY <1>1, <2>1
  <2> QED
    BY <1>2, <2>1, <2>2, <2>3
<1>5. ASSUME NEW q \in Pages, ActiveInput(q) PROVE Inputs'
  <2> DEFINE n == Head(toServer[q]).nr
  <2>1. Arrives(q, "port") /\ UNCHANGED events
    BY <1>5 DEF ActiveInput
  <2>2. CASE UNCHANGED posted
    <3>1. /\ \A p \in Pages \ {q} : toServer'[p] = toServer[p]
          /\ \A i \in DOMAIN toServer'[q] :
                 i + 1 \in DOMAIN toServer[q] /\ toServer'[q][i] = toServer[q][i + 1]
      BY <2>1, ArrivesFirst
    <3>2. events' >= events
      BY <1>1, <2>1
    <3> QED
      BY <1>2, <2>2, <3>1, <3>2
  <2>3. CASE posted' = [posted EXCEPT ![q] = Append(@, n)]
    <3>1. Port(q, 1) /\ n = toServer[q][1].nr /\ n \in Nat
      BY <1>1, <2>1, ArrivesFirst DEF Port
    <3>2. \A i \in DOMAIN toServer'[q] :
              i \in Nat /\ i + 1 \in DOMAIN toServer[q] /\ toServer'[q][i] = toServer[q][i + 1] /\ 1 < i + 1
      BY <2>1, ArrivesFirst DEF WireTypes
    <3>3. \A p \in Pages \ {q} : toServer'[p] = toServer[p] /\ posted'[p] = posted[p]
      BY <2>1, <2>3, ArrivesFirst DEF BridgeTypes
    <3> HIDE DEF n
    <3>4. posted'[q] = Append(posted[q], n)
      BY <2>3 DEF BridgeTypes
    <3>5. \A i \in DOMAIN posted'[q] :
              (i = Len(posted[q]) + 1 /\ posted'[q][i] = n)
              \/ (i \in DOMAIN posted[q] /\ i <= Len(posted[q]) /\ posted'[q][i] = posted[q][i])
      BY <1>1, <3>1, <3>4
    <3>6. /\ n <= events
          /\ \A i \in DOMAIN posted[q] : posted[q][i] < n
          /\ \A j \in DOMAIN toServer[q] : 1 < j /\ Port(q, j) => n < toServer[q][j].nr
      BY <3>1 DEF Inputs, Port
    <3>7. ASSUME NEW i, Port(q, i)' PROVE i \in Nat /\ Port(q, i + 1) /\ toServer'[q][i] = toServer[q][i + 1]
      BY <3>2, <3>7 DEF Port
    <3>8. ASSUME NEW p \in Pages \ {q} PROVE \A i : Port(p, i)' <=> Port(p, i)
      BY <3>3, <3>8 DEF Port
    <3>9. ASSUME NEW i \in DOMAIN posted'[q] PROVE posted'[q][i] <= events'
      BY <2>1, <3>5, <3>6 DEF Inputs
    <3>10. ASSUME NEW i, Port(q, i)' PROVE toServer'[q][i].nr <= events'
      BY <2>1, <3>7, <3>10 DEF Inputs, Port
    <3>11. ASSUME NEW i \in DOMAIN posted'[q], NEW j \in DOMAIN posted'[q], i < j
           PROVE  posted'[q][i] < posted'[q][j]
      <4>1. i \in DOMAIN posted[q] /\ posted'[q][i] = posted[q][i]
        BY <1>1, <3>5, <3>11
      <4>2. CASE j \in DOMAIN posted[q] /\ posted'[q][j] = posted[q][j]
        BY <3>11, <4>1, <4>2 DEF Inputs
      <4>3. CASE posted'[q][j] = n
        BY <3>6, <4>1, <4>3
      <4> QED
        BY <3>5, <4>2, <4>3
    <3>12. ASSUME NEW i \in DOMAIN posted'[q], NEW j, Port(q, j)' PROVE posted'[q][i] < toServer'[q][j].nr
      <4>1. Port(q, j + 1) /\ j + 1 \in DOMAIN toServer[q] /\ toServer'[q][j] = toServer[q][j + 1] /\ 1 < j + 1
        BY <3>2, <3>7, <3>12 DEF Port
      <4>2. CASE i \in DOMAIN posted[q] /\ posted'[q][i] = posted[q][i]
        BY <4>1, <4>2 DEF Inputs
      <4>3. CASE posted'[q][i] = n
        BY <3>6, <4>1, <4>3
      <4> QED
        BY <3>5, <4>2, <4>3
    <3>13. ASSUME NEW i, NEW j, i < j, Port(q, i)', Port(q, j)' PROVE toServer'[q][i].nr < toServer'[q][j].nr
      <4>1. i + 1 < j + 1 /\ Port(q, i + 1) /\ Port(q, j + 1)
        BY <3>7, <3>13
      <4>2. toServer'[q][i] = toServer[q][i + 1] /\ toServer'[q][j] = toServer[q][j + 1]
        BY <3>7, <3>13
      <4> QED
        BY <4>1, <4>2 DEF Inputs, Port
    <3>14. ASSUME NEW p \in Pages \ {q}
           PROVE  /\ \A i \in DOMAIN posted'[p] : posted'[p][i] <= events'
                  /\ \A i \in DOMAIN toServer'[p] : Port(p, i)' => toServer'[p][i].nr <= events'
                  /\ \A i, j \in DOMAIN posted'[p] : i < j => posted'[p][i] < posted'[p][j]
                  /\ \A i \in DOMAIN posted'[p] : \A j \in DOMAIN toServer'[p] :
                         Port(p, j)' => posted'[p][i] < toServer'[p][j].nr
                  /\ \A i, j \in DOMAIN toServer'[p] :
                         i < j /\ Port(p, i)' /\ Port(p, j)' => toServer'[p][i].nr < toServer'[p][j].nr
      BY <2>1, <3>3, <3>8 DEF Inputs
    <3> QED
      BY <3>9, <3>10, <3>11, <3>12, <3>13, <3>14 DEF Inputs, Port
  <2> QED
    BY <1>5, <2>2, <2>3 DEF ActiveInput
<1>6. ASSUME NEW q \in Pages, Open(q) PROVE Inputs'
  <2>1. /\ toServer'[q] = <<[type |-> "register"], [type |-> "register"]>>
        /\ \A p \in Pages \ {q} : toServer'[p] = toServer[p]
        /\ UNCHANGED posted /\ events' = events + 1
    BY <1>6 DEF Open, Event, bridge, WireTypes
  <2>2. \A i : ~Port(q, i)'
    BY <2>1 DEF Port
  <2>3. \A p \in Pages \ {q} : \A i : Port(p, i)' <=> Port(p, i)
    BY <2>1 DEF Port
  <2>4. ASSUME NEW p \in Pages, NEW i \in DOMAIN posted'[p] PROVE posted'[p][i] <= events'
    BY <1>1, <2>1 DEF Inputs
  <2>5. ASSUME NEW p \in Pages, NEW i, Port(p, i)' PROVE toServer'[p][i].nr <= events'
    <3>1. p # q /\ Port(p, i) /\ toServer'[p][i] = toServer[p][i]
      BY <2>1, <2>2, <2>3, <2>5
    <3> QED
      BY <1>1, <2>1, <3>1 DEF Inputs, Port
  <2> QED
    BY <2>1, <2>2, <2>3, <2>4, <2>5 DEF Inputs, Port
<1>7. ASSUME NEW q \in Pages, Lost(q) PROVE Inputs'
  <2>1. PICK n \in 0 .. Len(toServer[q]) : toServer' = [toServer EXCEPT ![q] = SubSeq(@, 1, n)]
    BY <1>7 DEF Lost
  <2>2. UNCHANGED posted /\ events' = events + 1
    BY <1>7 DEF Lost, Event, bridge
  <2>3. \A p \in Pages \ {q} : toServer'[p] = toServer[p]
    BY <2>1 DEF WireTypes
  <2>4. \A i \in DOMAIN toServer'[q] : i + 0 \in DOMAIN toServer[q] /\ toServer'[q][i] = toServer[q][i + 0]
    BY <2>1 DEF WireTypes
  <2> QED
    BY <1>1, <1>2, <2>2, <2>3, <2>4
<1>8. ASSUME NEW q \in Pages, NEW e \in Entities, Activate(q, e) PROVE Inputs'
  <2> DEFINE m == [type |-> "port", id |-> panelId[q][e], nr |-> events + 1]
  <2>1. /\ toServer' = [toServer EXCEPT ![q] = Append(@, m)]
        /\ UNCHANGED posted /\ events' = events + 1 /\ m.nr = events + 1
    BY <1>8 DEF Activate, Event, bridge
  <2> HIDE DEF m
  <2>2. \A p \in Pages \ {q} : toServer'[p] = toServer[p]
    BY <2>1 DEF WireTypes
  <2>3. \A i \in DOMAIN toServer'[q] :
            (i = Len(toServer[q]) + 1 /\ toServer'[q][i] = m)
            \/ (i \in DOMAIN toServer[q] /\ i <= Len(toServer[q]) /\ toServer'[q][i] = toServer[q][i])
    BY <2>1 DEF WireTypes
  <2>4. ASSUME NEW i, Port(q, i)'
        PROVE  (i = Len(toServer[q]) + 1 /\ toServer'[q][i].nr = events + 1)
               \/ (Port(q, i) /\ i <= Len(toServer[q]) /\ toServer'[q][i] = toServer[q][i])
    BY <2>1, <2>3, <2>4 DEF Port
  <2>5. \A p \in Pages \ {q} : \A i : Port(p, i)' <=> Port(p, i)
    BY <2>2 DEF Port
  <2>6. ASSUME NEW p \in Pages, NEW i \in DOMAIN posted'[p] PROVE posted'[p][i] <= events'
    BY <1>1, <2>1 DEF Inputs
  <2>7. ASSUME NEW p \in Pages, NEW i, Port(p, i)' PROVE toServer'[p][i].nr <= events'
    <3>1. CASE Port(p, i) /\ toServer'[p][i] = toServer[p][i]
      <4>1. i \in DOMAIN toServer[p]
        BY <3>1 DEF Port
      <4>2. toServer[p][i].nr <= events /\ toServer[p][i].nr \in Nat
        BY <1>1, <3>1, <4>1 DEF Inputs
      <4>3. toServer[p][i].nr <= events'
        BY <1>1, <2>1, <4>2
      <4> QED
        BY <3>1, <4>3
    <3>2. CASE toServer'[p][i].nr = events + 1
      <4>1. events + 1 <= events'
        BY <1>1, <2>1
      <4> QED
        BY <3>2, <4>1
    <3> QED
      BY <2>2, <2>4, <2>5, <2>7, <3>1, <3>2
  <2>8. ASSUME NEW p \in Pages, NEW i \in DOMAIN posted'[p], NEW j, Port(p, j)'
        PROVE  posted'[p][i] < toServer'[p][j].nr
    <3>1. CASE Port(p, j) /\ toServer'[p][j] = toServer[p][j]
      BY <2>1, <3>1 DEF Inputs, Port
    <3>2. CASE toServer'[p][j].nr = events + 1
      <4>1. i \in DOMAIN posted[p]
        BY <2>1
      <4>2. posted[p][i] <= events /\ posted[p][i] \in Nat
        BY <1>1, <4>1 DEF Inputs
      <4>3. posted'[p][i] = posted[p][i]
        BY <2>1
      <4> QED
        BY <1>1, <3>2, <4>2, <4>3
    <3> QED
      BY <2>2, <2>4, <2>5, <2>8, <3>1, <3>2
  <2>9. ASSUME NEW p \in Pages, NEW i, NEW j, i < j, Port(p, i)', Port(p, j)'
        PROVE  toServer'[p][i].nr < toServer'[p][j].nr
    <3>1. CASE p # q
      BY <2>2, <2>5, <2>9, <3>1 DEF Inputs, Port
    <3>2. CASE p = q
      <4>1. Port(q, i) /\ toServer'[q][i] = toServer[q][i]
        <5>1. j <= Len(toServer[q]) + 1 /\ j \in Nat
          <6>1. j \in DOMAIN toServer'[q] /\ toServer'[q] \in Seq(ToServer)
            BY <2>9, <3>2 DEF Port, WireTypes
          <6>2. j = Len(toServer[q]) + 1 \/ j <= Len(toServer[q])
            BY <2>3, <6>1
          <6>3. Len(toServer[q]) \in Nat /\ j \in Nat
            BY <1>1, <6>1
          <6> QED
            BY <6>2, <6>3
        <5>2. i \in Nat
          BY <2>9, <3>2 DEF Port, WireTypes
        <5>3. i # Len(toServer[q]) + 1
          BY <2>9, <5>1, <5>2, <1>1
        <5> QED
          BY <2>4, <2>9, <3>2, <5>3
      <4>2. CASE Port(q, j) /\ toServer'[q][j] = toServer[q][j]
        BY <2>9, <3>2, <4>1, <4>2 DEF Inputs, Port
      <4>3. CASE toServer'[q][j].nr = events + 1
        <5>1. toServer[q][i].nr <= events /\ toServer[q][i].nr \in Nat
          BY <1>1, <4>1 DEF Inputs, Port
        <5> QED
          BY <1>1, <3>2, <4>1, <4>3, <5>1
      <4> QED
        BY <2>4, <2>9, <3>2, <4>2, <4>3
    <3> QED
      BY <3>1, <3>2
  <2>10. \A p \in Pages : \A i, j \in DOMAIN posted'[p] : i < j => posted'[p][i] < posted'[p][j]
    BY <2>1 DEF Inputs
  <2> QED
    BY <2>6, <2>7, <2>8, <2>9, <2>10 DEF Inputs, Port
<1>9. ASSUME NEW q \in Pages, SocketClosed(q) PROVE Inputs'
  BY <1>1, <1>3, <1>9 DEF SocketClosed, wires
<1>10. CASE EndList
  BY <1>1, <1>3, <1>10 DEF EndList
<1>11. CASE CentralThread
  BY <1>1, <1>3, <1>11 DEF CentralThread, RemoveIds, InsertIds, bridge, wires
<1>12. ASSUME NEW e \in Entities, Update(e) \/ Output(e) PROVE Inputs'
  BY <1>1, <1>3, <1>12 DEF Update, Output, Event, bridge, wires
<1>13. ASSUME NEW p \in Pages, Receive(p) PROVE Inputs'
  BY <1>1, <1>3, <1>13 DEF Receive, bridge
<1>14. ASSUME NEW p \in Pages, NEW e \in Entities, Checkbox(p, e) PROVE Inputs'
  BY <1>1, <1>3, <1>14 DEF Checkbox, bridge, wires
<1> QED
  BY <1>4, <1>5, <1>6, <1>7, <1>8, <1>9, <1>10, <1>11, <1>12, <1>13, <1>14 DEF Next, EventLoop

-----------------------------------------------------------------------------
(* Theorems. *)

IInv == TypeInv /\ Numbered /\ Registered /\ Identified /\ Inputs

LEMMA IInvHolds == Spec => []IInv
<1>1. Init => IInv
  BY TypesInit, NumberedInit, RegisteredInit, IdentifiedInit, InputsInit DEF IInv
<1>2. IInv /\ [Next]_vars => IInv'
  <2>1. ASSUME IInv, Next PROVE IInv'
    <3>1. TypeInv'
      BY <2>1, ElementTypesNext, BridgeTypesNext, WireTypesNext, PageTypesNext DEF IInv, TypeInv
    <3>2. Numbered' /\ Registered'
      BY <2>1, NumberedNext, RegisteredNext DEF IInv
    <3>3. Identified' /\ Inputs'
      BY <2>1, <3>1, IdentifiedNext, InputsNext DEF IInv
    <3> QED
      BY <3>1, <3>2, <3>3 DEF IInv
  <2>2. ASSUME IInv, UNCHANGED vars PROVE IInv'
    BY <2>2, Stuttering DEF IInv
  <2> QED
    BY <2>1, <2>2
<1> QED
  BY <1>1, <1>2, PTL DEF Spec

(* The state of the server, of the connections and of the pages has its    *)
(* types (fields of WebEntity and ElementIdManager; client.js 1-12).       *)
THEOREM WebTypesHold == Spec => []TypeInv
<1>1. IInv => TypeInv
  BY DEF IInv
<1> QED
  BY <1>1, IInvHolds, PTL

(* An identifier that a page got holds while the GUI of the entity is      *)
(* updated under it: outputs find its panel, and its inputs a consumer and *)
(* an element (WebEntity 73-78, 258-327; ElementIdManager 41-53, 82-91).   *)
THEOREM IdentifiersStay == Spec => []IdentifiersHold
<1>1. ASSUME IInv PROVE IdentifiersHold
  <2> USE <1>1 DEF IInv, TypeInv
  <2>1. ASSUME NEW p \in Pages, NEW e \in Entities, NEW i \in DOMAIN toPage[p],
               panelId[p][e] \notin {Nobody, Null}, toPage[p][i].type = "output", toPage[p][i].id[1] = e
        PROVE  toPage[p][i].id = panelId[p][e]
    <3>1. panelId[p][e] = <<e, 0>>
      BY <2>1 DEF Identified, Own
    <3>2. toPage[p][i] \in FromServer
      BY DEF Identified
    <3>3. PICK x \in Entities : toPage[p][i].id = <<x, 0>>
      BY <2>1, <3>2 DEF FromServer
    <3> QED
      BY <2>1, <3>1, <3>3
  <2>2. ASSUME NEW p \in Pages, NEW i \in DOMAIN toServer[p],
               toServer[p][i].type = "port", toServer[p][i].id # Null
        PROVE  consumers > 0 /\ toServer[p][i].id \in ids
    <3>1. toServer[p][i] \in FromPage
      BY DEF Identified
    <3> QED
      BY <2>2, <3>1 DEF FromPage
  <2> QED
    BY <2>1, <2>2 DEF IdentifiersHold
<1> QED
  BY <1>1, IInvHolds, PTL

(* What a page activates is posted once and in order, though every         *)
(* registration adds a consumer (WebEntity 73-78).                         *)
THEOREM InputsStayInOrder == Spec => []InputsInOrder
<1>1. IInv => InputsInOrder
  BY DEF IInv, Inputs, InputsInOrder
<1> QED
  BY <1>1, IInvHolds, PTL

=============================================================================
