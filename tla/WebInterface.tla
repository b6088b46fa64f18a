---------------------------- MODULE WebInterface ----------------------------
(***************************************************************************)
(* web/WebEntity.java with gui/structure/ElementIdManager.java, and the    *)
(* page it serves, web/js/client.js: the central entity tells WebEntity    *)
(* what the GUIs of entities look like and what they output; a page lists  *)
(* the entities, shows the GUIs of the selected ones in panels and sends   *)
(* back the inputs that are activated.                                     *)
(*                                                                         *)
(* Three kinds of threads: the one of the central entity, which calls      *)
(* updateGui() and sendOutput(); the event loop of the server, which runs  *)
(* the hook of the bridge and the consumers; and the pages.  A page is     *)
(* loaded once: one that is reloaded is another page.                      *)
(*                                                                         *)
(* The GUI of an entity has one port with one input and its activator, all *)
(* of whose identifiers are represented by one: the entity and the number  *)
(* newID() gives.  The bridge of Vert.x and the sockets are external:      *)
(* send() hands a message to one of the connections registered for its     *)
(* address, and to none when there is none.  "entity update" messages are  *)
(* left out: client.js has no case for them.                               *)
(***************************************************************************)
EXTENDS Integers, Sequences, FiniteSets, SequencesExt

CONSTANTS Entities,
          First,       \* entities whose GUI is known before any page is loaded
          Busy,        \* entities that are updated again, output and take inputs
          Plain,       \* entities with a GUI of labels, buttons and forms only
          Longer,      \* entity -> the entities whose name begins with its name
          Pages,
          Readers,     \* pages on which somebody clicks
          Nobody,
          Columns,     \* panels in a line: 3
          MaxEvents    \* bound: pages opened or lost, updates, outputs and inputs, in all

ASSUME EntitiesAssumption == First \cup Busy \cup Plain \subseteq Entities
ASSUME LongerAssumption ==
    Longer \in [Entities -> SUBSET Entities] /\ \A e \in Entities : e \in Longer[e]
ASSUME PagesAssumption == Readers \subseteq Pages /\ Nobody \notin Pages \cup Entities
ASSUME ColumnsAssumption == Columns \in Nat \ {0}
ASSUME EventsAssumption == MaxEvents \in Nat

None == -1
Numbers == Nat \cup {None}
Null == <<Nobody, None>>               \* the identifier of an element that has none
Ids == (Entities \X Nat) \cup {Null}

VARIABLES
    guis,      \* the keys of entityGUIs
    number,    \* entity -> the number in the identifiers of its Element, or None
    counter,   \* idCounter: entity -> the last number given
    ids,       \* the keys of idToElement
    writer,    \* where updateGui() is: an entity and a step
    lister,    \* the page whose registration the event loop handles
    keys,      \* the keys of entityGUIs when it began
    consumers, \* consumers of "client-to-server"
    reg,       \* page -> its registrations that are through
    posted,    \* page -> the clicks that were posted to the central entity
    conn,      \* page -> the state of its EventBus
    toPage, toServer, \* page -> what its connection carries
    data,      \* page -> entity -> the identifier in specification_data, or Nobody
    rows,      \* page -> entity -> rows in the list of entities
    grid,      \* page -> the lines of panels
    place,     \* page -> selected_entities: entity -> its index
    panelId,   \* page -> entity -> the identifier in its panel
    events     \* how many events there were

elements == <<guis, number, counter, ids, writer>>
bridge   == <<lister, keys, consumers, reg, posted>>
wires    == <<toPage, toServer>>
list     == <<data, rows>>
panels   == <<grid, place, panelId>>
vars == <<elements, bridge, wires, list, panels, conn, events>>

ElementTypes ==
    /\ guis \subseteq Entities
    /\ number \in [Entities -> Numbers] /\ counter \in [Entities -> Numbers]
    /\ ids \subseteq Ids \ {Null}
    /\ writer \in [entity : Entities \cup {Nobody}, step : {"idle", "remove", "insert"}]
    /\ (writer.entity = Nobody) = (writer.step = "idle")

BridgeTypes ==
    /\ lister \in Pages \cup {Nobody} /\ keys \subseteq guis
    /\ consumers \in Nat
    /\ reg \in [Pages -> 0 .. 2]
    /\ posted \in [Pages -> Seq(Nat)]
    /\ conn \in [Pages -> {"none", "open", "closed", "gone"}]
    /\ events \in Nat

ToPage == [type : {"list"}, entries : [Entities -> Ids \cup {Nobody}]] \cup [type : {"output"}, id : Ids]
ToServer == [type : {"register"}] \cup [type : {"port"}, id : Ids, nr : Nat]

WireTypes == toPage \in [Pages -> Seq(ToPage)] /\ toServer \in [Pages -> Seq(ToServer)]

PageTypes ==
    /\ data \in [Pages -> [Entities -> Ids \cup {Nobody}]]
    /\ rows \in [Pages -> [Entities -> Nat]]
    /\ panelId \in [Pages -> [Entities -> Ids \cup {Nobody}]]

PanelTypes ==
    /\ grid \in [Pages -> Seq(Seq(Entities))]
    /\ place \in [Pages -> [Entities -> Numbers]]

TypeOK == ElementTypes /\ BridgeTypes /\ WireTypes /\ PageTypes /\ PanelTypes

Init ==
    /\ guis = First
    /\ number = [e \in Entities |-> IF e \in First THEN 0 ELSE None]
    /\ counter = number
    /\ ids = First \X {0}
    /\ writer = [entity |-> Nobody, step |-> "idle"]
    /\ lister = Nobody /\ keys = {} /\ consumers = 0
    /\ reg = [p \in Pages |-> 0]
    /\ posted = [p \in Pages |-> <<>>]
    /\ conn = [p \in Pages |-> "none"]
    /\ toPage = [p \in Pages |-> <<>>] /\ toServer = [p \in Pages |-> <<>>]
    /\ data = [p \in Pages |-> [e \in Entities |-> Nobody]]
    /\ rows = [p \in Pages |-> [e \in Entities |-> 0]]
    /\ grid = [p \in Pages |-> <<>>]
    /\ place = [p \in Pages |-> [e \in Entities |-> None]]
    /\ panelId = data
    /\ events = 0

-----------------------------------------------------------------------------
(* The thread of the central entity. *)

Event == events < MaxEvents /\ events' = events + 1

(* send(): one of those that are registered for "server-to-client". *)
Send(m) ==
    LET registered == {p \in Pages : reg[p] > 0} IN
    IF registered = {} THEN UNCHANGED toPage
    ELSE \E p \in registered :
            toPage' = IF conn[p] = "open" THEN [toPage EXCEPT ![p] = Append(@, m)] ELSE toPage

(* updateGui(): the new Element is in entityGUIs before it has identifiers. *)
Update(e) ==
    /\ writer.step = "idle"
    /\ Event
    /\ guis' = guis \cup {e}
    /\ number' = [number EXCEPT ![e] = None]
    /\ writer' = [entity |-> e, step |-> "remove"]
    /\ UNCHANGED <<counter, ids, bridge, wires, list, panels, conn>>

(* Mutant: the identifiers are removed with their counters. *)
RemoveAllIds ==
    /\ writer.step = "remove"
    /\ counter' = [e \in Entities |-> IF e \in Longer[writer.entity] THEN None ELSE counter[e]]
    /\ ids' = {id \in ids : id[1] \notin Longer[writer.entity]}
    /\ writer' = [writer EXCEPT !.step = "insert"]
    /\ UNCHANGED <<guis, number, bridge, wires, list, panels, conn, events>>

(* removeIdsWithPrefix(): the keys of idCounter are no keys of idToElement. *)
RemoveIds ==
    /\ writer.step = "remove"
    /\ counter' = [e \in Entities |-> IF e \in Longer[writer.entity] THEN None ELSE counter[e]]
    /\ writer' = [writer EXCEPT !.step = "insert"]
    /\ UNCHANGED <<guis, number, ids, bridge, wires, list, panels, conn, events>>

(* insertIdsInto(). *)
InsertIds ==
    LET e == writer.entity IN
    /\ writer.step = "insert"
    /\ counter' = [counter EXCEPT ![e] = @ + 1]
    /\ number' = [number EXCEPT ![e] = counter[e] + 1]
    /\ ids' = ids \cup {<<e, counter[e] + 1>>}
    /\ writer' = [entity |-> Nobody, step |-> "idle"]
    /\ UNCHANGED <<guis, bridge, wires, list, panels, conn, events>>

(* sendOutput(). *)
Output(e) ==
    /\ writer.step = "idle"
    /\ e \in guis
    /\ Event
    /\ Send([type |-> "output", id |-> <<e, number[e]>>])
    /\ UNCHANGED <<guis, number, counter, ids, writer, toServer, bridge, list, panels, conn>>

-----------------------------------------------------------------------------
(* The event loop of the server. *)

Arrives(p, type) ==
    /\ lister = Nobody
    /\ toServer[p] # <<>>
    /\ Head(toServer[p]).type = type
    /\ toServer' = [toServer EXCEPT ![p] = Tail(@)]

(* REGISTER: getEntities() iterates over the keys of entityGUIs, *)
BeginList(p) ==
    /\ Arrives(p, "register")
    /\ lister' = p
    /\ keys' = guis
    /\ UNCHANGED <<consumers, reg, posted, toPage, elements, list, panels, conn, events>>

Entry(e) == IF e \notin guis THEN Nobody ELSE IF number[e] = None THEN Null ELSE <<e, number[e]>>

(* Mutant: the list is sent for the first registration only. *)
EndListOnce ==
    /\ lister # Nobody
    /\ IF keys = guis /\ reg[lister] = 0
       THEN /\ Send([type |-> "list", entries |-> [e \in Entities |-> Entry(e)]])
            /\ consumers' = consumers + 1
       ELSE UNCHANGED <<toPage, consumers>>
    /\ reg' = [reg EXCEPT ![lister] = @ + 1]
    /\ lister' = Nobody
    /\ keys' = {}
    /\ UNCHANGED <<posted, toServer, elements, list, panels, conn, events>>

(* and throws, into an empty catch, when one was added meanwhile.  The     *)
(* registration itself comes after the hook: the list that the first one   *)
(* sends cannot reach its own page.                                        *)
EndList ==
    /\ lister # Nobody
    /\ IF keys = guis
       THEN /\ Send([type |-> "list", entries |-> [e \in Entities |-> Entry(e)]])
            /\ consumers' = consumers + 1
       ELSE UNCHANGED <<toPage, consumers>>
    /\ reg' = [reg EXCEPT ![lister] = @ + 1]
    /\ lister' = Nobody
    /\ keys' = {}
    /\ UNCHANGED <<posted, toServer, elements, list, panels, conn, events>>

Known(p) == Head(toServer[p]).id \in ids

(* Mutant: every consumer gets what a page sends. *)
ActiveInputEach(p) ==
    /\ Arrives(p, "port")
    /\ posted' = IF Known(p)
                 THEN [posted EXCEPT ![p] = @ \o [k \in 1 .. consumers |-> Head(toServer[p]).nr]]
                 ELSE posted
    /\ UNCHANGED <<lister, keys, consumers, reg, toPage, elements, list, panels, conn, events>>

(* activeInput(), by one of the consumers. *)
ActiveInput(p) ==
    /\ Arrives(p, "port")
    /\ posted' = IF consumers > 0 /\ Known(p)
                 THEN [posted EXCEPT ![p] = Append(@, Head(toServer[p]).nr)]
                 ELSE posted
    /\ UNCHANGED <<lister, keys, consumers, reg, toPage, elements, list, panels, conn, events>>

(* The bridge notices that a connection is closed. *)
SocketClosed(p) ==
    /\ lister = Nobody
    /\ conn[p] = "closed"
    /\ toServer[p] = <<>>
    /\ conn' = [conn EXCEPT ![p] = "gone"]
    /\ reg' = [reg EXCEPT ![p] = 0]
    /\ UNCHANGED <<lister, keys, consumers, posted, wires, elements, list, panels, events>>

-----------------------------------------------------------------------------
(* The pages. *)

(* init() and onopen: both handlers are registered. *)
Open(p) ==
    /\ conn[p] = "none"
    /\ Event
    /\ conn' = [conn EXCEPT ![p] = "open"]
    /\ toServer' = [toServer EXCEPT ![p] = <<[type |-> "register"], [type |-> "register"]>>]
    /\ UNCHANGED <<toPage, elements, bridge, list, panels>>

(* onclose: no reconnection, which client.js does not enable.  Some of     *)
(* what the page has sent still arrives.                                   *)
Lost(p) ==
    /\ conn[p] = "open"
    /\ Event
    /\ conn' = [conn EXCEPT ![p] = "closed"]
    /\ toPage' = [toPage EXCEPT ![p] = <<>>]
    /\ \E n \in 0 .. Len(toServer[p]) : toServer' = [toServer EXCEPT ![p] = SubSeq(@, 1, n)]
    /\ UNCHANGED <<elements, bridge, list, panels>>

(* A list replaces what is known and adds a row for each of its entities;  *)
(* an output goes to the panel with its identifier, if there is one.       *)
Receive(p) ==
    /\ toPage[p] # <<>>
    /\ toPage' = [toPage EXCEPT ![p] = Tail(@)]
    /\ LET m == Head(toPage[p]) IN
        IF m.type = "list"
        THEN /\ data' = [data EXCEPT ![p] = m.entries]
             /\ rows' = [rows EXCEPT ![p] = [e \in Entities |-> @[e] + IF m.entries[e] # Nobody THEN 1 ELSE 0]]
        ELSE UNCHANGED list
    /\ UNCHANGED <<toServer, elements, bridge, panels, conn, events>>

Selected(p) == {e \in Entities : place[p][e] # None}

(* new_interface(). *)
NewInterface(p, e) ==
    LET index == Cardinality(Selected(p))
        column == index % Columns
    IN
    /\ grid' = [grid EXCEPT ![p] =
                  IF column = 0 THEN Append(@, <<e>>)
                  ELSE [@ EXCEPT ![1 + (index - column) \div Columns] = Append(@, e)]]
    /\ place' = [place EXCEPT ![p][e] = index]
    /\ panelId' = [panelId EXCEPT ![p][e] = data[p][e]]

(* What is left of a line when remove() comes to it takes the first panel  *)
(* of the next.                                                            *)
Refilled(lines, line) ==
    IF line = Len(lines) THEN lines
    ELSE [lines EXCEPT ![line] = Append(@, Head(lines[line + 1])), ![line + 1] = Tail(@)]

Back(places, line, column) ==
    [e \in Entities |-> IF \E k \in DOMAIN line : k > column /\ line[k] = e
                        THEN places[e] - 1 ELSE places[e]]

(* Mutant: every line is gone through from the column of the removal. *)
ShiftColumn(s, line) ==
    LET lines == Refilled(s.lines, line) IN
    IF lines[line] = <<>> THEN [s EXCEPT !.lines = Front(lines)]
    ELSE [s EXCEPT !.lines = lines, !.place = Back(@, lines[line], s.column)]

(* One round of the loop in remove(): the indices of the panels that moved *)
(* go down by one.                                                         *)
Shift(s, line) ==
    LET lines == Refilled(s.lines, line) IN
    IF lines[line] = <<>> THEN [s EXCEPT !.lines = Front(lines)]
    ELSE [lines |-> lines, place |-> Back(s.place, lines[line], s.column), column |-> 0]

(* remove(). *)
RemovePanel(p, e) ==
    LET index == place[p][e]
        column == index % Columns
        line == 1 + (index - column) \div Columns
        lines == [grid[p] EXCEPT ![line] = RemoveAt(@, column + 1)]
        end == FoldLeft(Shift, [lines |-> lines, place |-> [place[p] EXCEPT ![e] = None], column |-> column],
                        [k \in 1 .. Len(lines) - line + 1 |-> line + k - 1])
    IN
    /\ grid' = [grid EXCEPT ![p] = end.lines]
    /\ place' = [place EXCEPT ![p] = end.place]
    /\ panelId' = [panelId EXCEPT ![p][e] = Nobody]

(* checkbox().  Where an element has another type, new_interface() throws  *)
(* and no panel is shown, and remove() throws for want of an index.  Boxes *)
(* that share an identifier are not followed.                              *)
Checkbox(p, e) ==
    /\ rows[p][e] = 1
    /\ e \in Plain
    /\ IF e \in Selected(p) THEN RemovePanel(p, e) ELSE NewInterface(p, e)
    /\ UNCHANGED <<elements, bridge, wires, list, conn, events>>

(* activate().  send() throws unless the connection is open. *)
Activate(p, e) ==
    /\ conn[p] = "open"
    /\ panelId[p][e] # Nobody
    /\ panelId[p][e] \in {data[p][x] : x \in Entities}
    /\ Event
    /\ toServer' = [toServer EXCEPT ![p] =
                        Append(@, [type |-> "port", id |-> panelId[p][e], nr |-> events + 1])]
    /\ UNCHANGED <<toPage, elements, bridge, list, panels, conn>>

-----------------------------------------------------------------------------
CentralThread == RemoveIds \/ InsertIds
EventLoop == EndList \/ \E p \in Pages : BeginList(p) \/ ActiveInput(p) \/ SocketClosed(p)

Next ==
    \/ CentralThread \/ EventLoop
    \/ \E e \in Busy \cup (Entities \ First) : Update(e)
    \/ \E e \in Busy : Output(e)
    \/ \E p \in Pages : Open(p) \/ Lost(p) \/ Receive(p)
    \/ \E p \in Readers :
        \/ \E e \in Entities : Checkbox(p, e)
        \/ \E e \in Busy : Activate(p, e)

Spec == Init /\ [][Next]_vars

(* Threads go on with what they have begun, and pages with what they get.  *)
FairSpec ==
    /\ Spec
    /\ WF_vars(CentralThread) /\ WF_vars(EventLoop)
    /\ \A p \in Pages : WF_vars(Receive(p))

-----------------------------------------------------------------------------
(* Properties. *)

(* The panels of a page fill its lines from the first on, and the index    *)
(* kept for each is where it is: remove() finds the panel it is to remove  *)
(* whatever was selected and removed before (client.js 395-598).           *)
PanelsInOrder ==
    \A p \in Pages :
        /\ \A l \in DOMAIN grid[p] :
               IF l < Len(grid[p]) THEN Len(grid[p][l]) = Columns ELSE Len(grid[p][l]) \in 1 .. Columns
        /\ \A l \in DOMAIN grid[p] : \A k \in DOMAIN grid[p][l] :
               place[p][grid[p][l][k]] = Columns * (l - 1) + k - 1
        /\ Cardinality(Selected(p)) = Len(FlattenSeq(grid[p]))

(* An identifier that a page got holds while the GUI of the entity is      *)
(* updated under it: its panel goes on to get the outputs of the entity,   *)
(* and a consumer is there for its inputs and finds the element (WebEntity *)
(* 73-78, 258-327; ElementIdManager 41-53, 82-91).                         *)
IdentifiersHold ==
    \A p \in Pages :
        /\ \A e \in Entities : \A i \in DOMAIN toPage[p] :
               /\ panelId[p][e] \notin {Nobody, Null}
               /\ toPage[p][i].type = "output"
               /\ toPage[p][i].id[1] = e
               => toPage[p][i].id = panelId[p][e]
        /\ \A i \in DOMAIN toServer[p] :
               toServer[p][i].type = "port" /\ toServer[p][i].id # Null
                   => consumers > 0 /\ toServer[p][i].id \in ids

(* What a page activates is posted once and in order, though every         *)
(* registration adds a consumer (WebEntity 73-78).                         *)
InputsInOrder ==
    \A p \in Pages : \A i, j \in DOMAIN posted[p] : i < j => posted[p][i] < posted[p][j]

Alone(p) == \A q \in Pages \ {p} : reg[q] = 0

(* A page that opens gets the list of entities, by its second registration *)
(* at the latest, if it is the only one, its connection holds and no       *)
(* entity is new to WebEntity meanwhile (WebEntity 67-72; client.js 18-38, *)
(* 145-146).                                                               *)
ListArrives ==
    \A p \in Pages :
        (conn[p] = "open" /\ reg[p] = 0 /\ guis = Entities)
            ~> ((\E e \in Entities : rows[p][e] > 0) \/ conn[p] # "open" \/ ~Alone(p))

(* What a reader may take for granted and the code does not keep: a list   *)
(* goes to the page that asked, once;                                      *)
RowsOnce == \A p \in Pages, e \in Entities : rows[p][e] <= 1

(* the elements on a page can be used;                                     *)
PanelsUsable == \A p \in Pages, e \in Entities : panelId[p][e] # Null

(* every page that is open gets the entities.                              *)
EveryPageLists ==
    \A p \in Pages :
        (conn[p] = "open" /\ guis = Entities)
            ~> ((\E e \in Entities : rows[p][e] > 0) \/ conn[p] # "open")

=============================================================================
