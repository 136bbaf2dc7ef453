---------------------------- MODULE CompanyGraph ----------------------------
(* The company graph in the browser: the adapter (org-data.js), the canvas *)
(* (org-canvas.js) and the room panel (rooms.js) over the rows of the      *)
(* server. A request is handled by the server in one step and its answer   *)
(* reaches the page in a later one, so several are under way at a time.    *)
EXTENDS Naturals, Sequences, FiniteSets

CONSTANTS
    Agents,         \* the agents followed; GET /agents lists the first 100
    Founders,       \* those hired before the page was opened
    NoList,         \* agentsCache before the first answer
    Lenses,         \* the sub-views tried, of the five
    Kinds,          \* the kinds of entry created: team, project, resource
    MaxRows,        \* bound: relationship rows of the server
    MaxEntries,     \* bound: entries of the server
    MaxRooms,       \* bound: rooms of the server
    MaxLoads,       \* bound: load() calls under way
    MaxCalls,       \* bound: other requests under way
    OrgLimit        \* GET /org gives this many of every table, oldest first

ASSUME KindsAssumption == Kinds \subseteq {"team", "project", "resource"}
ASSUME LensesAssumption == Lenses # {} /\ Lenses \subseteq {"organisation", "teams", "projekte", "ressourcen", "liste"}
ASSUME AgentsAssumption == Agents \cap (1..MaxEntries) = {} /\ Founders \subseteq Agents
ASSUME BoundsAssumption ==
    MaxRows \in Nat /\ MaxEntries \in Nat /\ MaxRooms \in Nat /\ MaxLoads \in Nat /\ MaxCalls \in Nat
    /\ OrgLimit \in Nat

VARIABLES
    rows,           \* server: relationships, oldest first
    entries,        \* server: the kind of every team, project and resource
    rooms,          \* server: the host of every chat room
    agents,         \* server: what GET /agents lists
    lists,          \* history: everything GET /agents has listed
    cache,          \* agentsCache of the sidebar
    loaded,         \* state is not null
    org,            \* state of the adapter: ids, and which edges are removed
    load,           \* load() calls under way
    call,           \* other requests under way
    canvas,         \* visible, mounted, dirty, the sub-view and what is drawn
    confirm,        \* the pair the open access dialog asks about
    agreed,         \* history: pairs the owner chose an access for
    panel           \* the room shown and the messages typed in each room

server == <<rows, entries, rooms, agents, lists>>
vars == <<server, cache, loaded, org, load, call, canvas, confirm, agreed, panel>>

Entries == 1..MaxEntries
Nodes == Agents \cup Entries
Hosts == {0} \cup Entries                           \* 0 is the company itself
Loads == 1..MaxLoads
Calls == 1..MaxCalls
Null == [agents |-> {}, rels |-> <<>>, entries |-> {}, rooms |-> <<>>]
Nobody == <<>>
NoCall == [at |-> "idle", what |-> [op |-> "none"], new |-> 0]
NoLoad == [at |-> "idle", snap |-> Null, host |-> MaxEntries + 1]
Undrawn == [lens |-> "none", nodes |-> {}, edges |-> {}]

Init ==
    /\ rows = <<>> /\ entries = <<>> /\ rooms = <<>>
    /\ agents = Founders /\ lists = {Founders} /\ cache = NoList
    /\ loaded = FALSE /\ org = Null
    /\ load = [l \in Loads |-> IF l = 1 THEN [NoLoad EXCEPT !.at = "asked"] ELSE NoLoad]
    /\ call = [c \in Calls |-> NoCall]
    /\ canvas = [visible |-> FALSE, mounted |-> FALSE, dirty |-> FALSE,
                 lens |-> CHOOSE l \in Lenses : TRUE, drawn |-> Undrawn]
    /\ confirm = Nobody /\ agreed = {}
    /\ panel = [room |-> 0, messages |-> {}]

IsKind(n, kind) == IF n \in Agents THEN kind = "agent" ELSE n <= Len(entries) /\ entries[n] = kind

-----------------------------------------------------------------------------
(* What a lens shows of the adapter's state.                               *)

\* Active edges, in the order the state holds them.
ActiveEdges(st) == {i \in DOMAIN st.rels : ~st.rels[i].removed}
Edge(st, i) == rows[st.rels[i].id]

\* reports_to: of an agent's edges the first one, all of them being primary.
FirstOfSource(st, set) ==
    {i \in set : \A j \in set : Edge(st, j).src = Edge(st, i).src => i <= j}

LensTypes == [organisation |-> {"reports_to"}, teams |-> {"member_of_team"},
              projekte |-> {"works_on_project"},
              ressourcen |-> {"responsible_for_resource", "may_use_resource"}, liste |-> {}]
LensKinds == [organisation |-> {}, teams |-> {"team"}, projekte |-> {"project"},
              ressourcen |-> {"resource", "team"}, liste |-> {"team", "project", "resource"}]

\* The sidebar's list once it has one, else the list of the load. An answer is
\* never empty: the agents that the registry seeds are in it, whoever is followed.
getAllAgents(st) == IF cache # NoList THEN cache ELSE st.agents

buildElements(st, people, lens) ==
    LET nodes == people \cup {n \in st.entries : entries[n] \in LensKinds[lens]}
        typed == {i \in ActiveEdges(st) : Edge(st, i).type \in LensTypes[lens]}
        chosen == IF lens = "organisation" THEN FirstOfSource(st, typed) ELSE typed
    IN  [lens |-> lens, nodes |-> nodes,
         edges |-> {st.rels[i].id : i \in {j \in chosen : {Edge(st, j).src, Edge(st, j).tgt} \subseteq nodes}}]

\* refresh() of a mounted canvas, with the state st it finds.
refresh(cv, st, hasState) ==
    [cv EXCEPT !.dirty = FALSE,
               !.drawn = IF hasState THEN buildElements(st, getAllAgents(st), cv.lens)
                         ELSE [Undrawn EXCEPT !.lens = "loading"]]

notify_DropsHidden(cv, st) ==
    IF cv.mounted /\ cv.visible THEN refresh(cv, st, TRUE) ELSE cv

\* notify(): the canvas has subscribed when it was mounted.
notify(cv, st) ==
    IF ~cv.mounted THEN cv
    ELSE IF cv.visible THEN refresh(cv, st, TRUE) ELSE [cv EXCEPT !.dirty = TRUE]

\* renderGraphView(currentSubview) at the end of a drop, visible or not; the
\* list has an element of its own.
renderGraphView(cv, st) ==
    IF cv.lens = "liste" THEN cv ELSE [cv EXCEPT !.drawn = buildElements(st, getAllAgents(st), cv.lens)]

Publish(st) == org' = st /\ canvas' = notify(canvas, st)

-----------------------------------------------------------------------------
(* Loading: the boot of nav.js starts one, a room opened before the first  *)
(* answer another.                                                         *)

\* The first request of a load, GET /agents; a failure stands for nobody.
LoadAgents(l, ok) ==
    /\ load[l].at = "asked"
    /\ load' = [load EXCEPT ![l] = [@ EXCEPT !.at = "people", !.snap.agents = IF ok THEN agents ELSE {}]]
    /\ UNCHANGED <<server, cache, loaded, org, call, canvas, confirm, agreed, panel>>

\* GET /org: the oldest of every table, with the agents read before.
Shown(table) == {i \in DOMAIN table : i <= OrgLimit}
OldestOfKind(i) == Cardinality({j \in 1..i : entries[j] = entries[i]}) <= OrgLimit
Snapshot(people) ==
    [agents |-> people, rels |-> [i \in Shown(rows) |-> [id |-> i, removed |-> rows[i].removed]],
     entries |-> {i \in DOMAIN entries : OldestOfKind(i)}, rooms |-> [i \in Shown(rooms) |-> i]]

\* The second request, GET /org; a failure stands for no graph.
LoadRead(l, ok) ==
    LET people == load[l].snap.agents
    IN  /\ load[l].at = "people"
        /\ load' = [load EXCEPT ![l] = [@ EXCEPT !.at = "read",
                        !.snap = IF ok THEN Snapshot(people) ELSE [Null EXCEPT !.agents = people]]]
        /\ UNCHANGED <<server, cache, loaded, org, call, canvas, confirm, agreed, panel>>

Free(c) == call[c] = NoCall /\ \A d \in Calls : d < c => call[d] # NoCall
Ask(what) ==
    \E c \in Calls : Free(c) /\ call' = [call EXCEPT ![c] = [at |-> "asked", what |-> what, new |-> 0]]

RoomOf(st, host) == {i \in DOMAIN st.rooms : rooms[st.rooms[i]] = host}

\* open() once it has a state: an existing room is shown, else one is created.
ShowOrCreate(st, host) ==
    \/ \E i \in RoomOf(st, host) :
           /\ \A j \in RoomOf(st, host) : i <= j
           /\ panel' = [panel EXCEPT !.room = st.rooms[i]] /\ UNCHANGED call
    \/ RoomOf(st, host) = {} /\ Ask([op |-> "room", host |-> host]) /\ UNCHANGED panel

LoadApply_AlwaysRoom(l) ==
    /\ load[l].at = "read"
    /\ Publish(load[l].snap) /\ loaded' = TRUE
    /\ load' = [load EXCEPT ![l] = NoLoad]
    /\ ShowOrCreate(load[l].snap, load[l].host)
    /\ UNCHANGED <<server, cache, confirm, agreed>>

\* The state is replaced, everyone is notified, and the room that asked for
\* this load is opened.
LoadApply(l) ==
    /\ load[l].at = "read"
    /\ Publish(load[l].snap) /\ loaded' = TRUE
    /\ load' = [load EXCEPT ![l] = NoLoad]
    /\ IF load[l].host \in Hosts THEN ShowOrCreate(load[l].snap, load[l].host) ELSE UNCHANGED <<call, panel>>
    /\ UNCHANGED <<server, cache, confirm, agreed>>

\* An agent is hired, here or by another client.
hire(a) ==
    /\ a \notin agents
    /\ agents' = agents \cup {a} /\ lists' = lists \cup {agents'}
    /\ UNCHANGED <<rows, entries, rooms, cache, loaded, org, load, call, canvas, confirm, agreed, panel>>

\* loadSidebar gets its answer: at the start, after a search, a hire or an
\* activity, so any number are under way and an old one may come last. The
\* canvas is not told.
loadSidebar(list) ==
    /\ list \in lists
    /\ cache' = list
    /\ UNCHANGED <<server, loaded, org, load, call, canvas, confirm, agreed, panel>>

-----------------------------------------------------------------------------
(* What the owner does. An open access dialog covers the page.             *)

Reachable == confirm = Nobody
unasked == <<server, cache, loaded, org, load>>

showFirma ==
    /\ ~canvas.visible
    /\ canvas' = LET cv == [canvas EXCEPT !.visible = TRUE]
                 IN  IF ~cv.mounted THEN refresh([cv EXCEPT !.mounted = TRUE], org, loaded)
                     ELSE IF cv.dirty THEN refresh(cv, org, loaded) ELSE cv
    /\ Reachable
    /\ UNCHANGED <<unasked, call, confirm, agreed, panel>>

hideFirma ==
    /\ canvas.visible /\ Reachable
    /\ canvas' = [canvas EXCEPT !.visible = FALSE]
    /\ UNCHANGED <<unasked, call, confirm, agreed, panel>>

setSubview(lens) ==
    /\ canvas.visible /\ Reachable /\ lens # canvas.lens
    /\ canvas' = refresh([canvas EXCEPT !.lens = lens], org, loaded)
    /\ UNCHANGED <<unasked, call, confirm, agreed, panel>>

Add(type, src, tgt, via) == [op |-> "add", via |-> via, row |-> [type |-> type, src |-> src, tgt |-> tgt]]
Connected(type, src, tgt) ==
    \E i \in ActiveEdges(org) : LET e == Edge(org, i) IN e.type = type /\ e.src = src /\ e.tgt = tgt

\* A drop of an agent on a team, a project or another agent; an edge the
\* state already has is not asked for again.
createOrNotify(type, src, tgt) ==
    IF Connected(type, src, tgt)
    THEN canvas' = renderGraphView(canvas, org) /\ UNCHANGED call
    ELSE Ask(Add(type, src, tgt, "drop")) /\ UNCHANGED canvas

DropType(src, tgt) ==
    IF ~IsKind(src, "agent") THEN "none"
    ELSE IF IsKind(tgt, "agent") THEN "reports_to"
    ELSE IF IsKind(tgt, "team") THEN "member_of_team"
    ELSE IF IsKind(tgt, "project") THEN "works_on_project" ELSE "none"
AsksAccess(src, tgt) == (IsKind(src, "agent") \/ IsKind(src, "team")) /\ IsKind(tgt, "resource")

handleDrop_Unasked(src, tgt) ==
    /\ canvas.visible /\ Reachable
    /\ canvas.drawn.lens \notin {"none", "loading", "liste"} /\ {src, tgt} \subseteq canvas.drawn.nodes /\ src # tgt
    /\ IF DropType(src, tgt) # "none" THEN createOrNotify(DropType(src, tgt), src, tgt)
       ELSE IF AsksAccess(src, tgt) THEN createOrNotify("may_use_resource", src, tgt)
       ELSE canvas' = renderGraphView(canvas, org) /\ UNCHANGED call
    /\ UNCHANGED <<unasked, confirm, agreed, panel>>

\* resolveDrop: a resource asks for the access first, every other pair only
\* gives a notice.
handleDrop(src, tgt) ==
    /\ canvas.visible /\ Reachable
    /\ canvas.drawn.lens \notin {"none", "loading", "liste"} /\ {src, tgt} \subseteq canvas.drawn.nodes /\ src # tgt
    /\ IF DropType(src, tgt) # "none"
       THEN createOrNotify(DropType(src, tgt), src, tgt) /\ UNCHANGED confirm
       ELSE IF AsksAccess(src, tgt)
       THEN confirm' = <<src, tgt>> /\ UNCHANGED <<canvas, call>>
       ELSE canvas' = renderGraphView(canvas, org) /\ UNCHANGED <<call, confirm>>
    /\ UNCHANGED <<unasked, agreed, panel>>

\* A drop beside every node, or on the owner, is drawn again where it was.
DropBeside ==
    /\ canvas.visible /\ Reachable
    /\ canvas.drawn.lens \notin {"none", "loading", "liste"}
    /\ canvas' = renderGraphView(canvas, org)
    /\ UNCHANGED <<unasked, call, confirm, agreed, panel>>

\* Typing in the search field or sorting a column.
renderListView ==
    /\ canvas.visible /\ Reachable /\ loaded /\ canvas.lens = "liste"
    /\ canvas' = [canvas EXCEPT !.drawn = buildElements(org, getAllAgents(org), "liste")]
    /\ UNCHANGED <<unasked, call, confirm, agreed, panel>>

\* The access dialog. Its buttons stay enabled while a request is under way;
\* Escape, the scrim and "Nicht erlauben" close it, and what it asked for goes
\* on without it.
FromDialog(what) == what.op = "add" /\ what.via = "confirm"
Orphaned(calls) ==
    [c \in Calls |-> IF FromDialog(calls[c].what) THEN [calls[c] EXCEPT !.what.via = "gone"] ELSE calls[c]]

ConfirmChoose(type) ==
    /\ confirm # Nobody
    /\ Ask(Add(type, confirm[1], confirm[2], "confirm"))
    /\ agreed' = agreed \cup {confirm}
    /\ UNCHANGED <<unasked, canvas, confirm, panel>>

ConfirmClose ==
    /\ confirm # Nobody
    /\ confirm' = Nobody /\ call' = Orphaned(call)
    /\ canvas' \in {canvas, renderGraphView(canvas, org)}    \* cancel settles the drop, Escape does not
    /\ UNCHANGED <<unasked, agreed, panel>>

\* The edit dialog, from the list or a detail card: it offers every target of
\* the state and does not look whether the edge exists. Its source is a row of
\* the list or of a card.
EditAdd(src, tgt) ==
    /\ loaded /\ Reachable /\ canvas.visible /\ src # tgt
    /\ tgt \in getAllAgents(org) \cup org.entries
    /\ src \in canvas.drawn.nodes \cup getAllAgents(org) \cup org.entries
    /\ IF AsksAccess(src, tgt)
       THEN confirm' = <<src, tgt>> /\ UNCHANGED call
       ELSE /\ DropType(src, tgt) # "none"
            /\ Ask(Add(DropType(src, tgt), src, tgt, "edit")) /\ UNCHANGED confirm
    /\ UNCHANGED <<unasked, canvas, agreed, panel>>

EditRemove(i) ==
    /\ loaded /\ Reachable /\ canvas.visible /\ i \in ActiveEdges(org)
    /\ \A c \in Calls : call[c].what.op = "remove" => call[c].what.id # org.rels[i].id     \* its button is disabled
    /\ Ask([op |-> "remove", id |-> org.rels[i].id])
    /\ UNCHANGED <<unasked, canvas, confirm, agreed, panel>>

\* createTeam, createGraphProject, createResource. Before the first load they
\* only raise, since the adapter reads state.mock of null.
Create(kind) ==
    /\ loaded /\ Reachable /\ canvas.visible
    /\ Ask([op |-> "create", kind |-> kind])
    /\ UNCHANGED <<unasked, canvas, confirm, agreed, panel>>

\* Hufi.rooms.open, of the company at any time, of a team or a project once
\* its card is shown.
openRoom(host) ==
    /\ Reachable /\ (host = 0 \/ (host \in org.entries /\ entries[host] # "resource"))
    /\ IF loaded
       THEN ShowOrCreate(org, host) /\ UNCHANGED load
       ELSE \E l \in Loads : /\ load[l] = NoLoad
                             /\ load' = [load EXCEPT ![l] = [NoLoad EXCEPT !.at = "asked", !.host = host]]
                             /\ UNCHANGED <<call, panel>>
    /\ UNCHANGED <<server, cache, loaded, org, canvas, confirm, agreed>>

\* A message of a room lives in the page only, under the room's id.
sendRoomMessage ==
    /\ panel.room # 0 /\ panel.room \notin panel.messages
    /\ panel' = [panel EXCEPT !.messages = @ \cup {panel.room}]
    /\ UNCHANGED <<unasked, call, canvas, confirm, agreed>>

closeRoom ==
    /\ panel.room # 0
    /\ panel' = [panel EXCEPT !.room = 0]
    /\ UNCHANGED <<unasked, call, canvas, confirm, agreed>>

-----------------------------------------------------------------------------
(* The server handles a request.                                           *)

\* The walk of add_relationship goes on from an agent along its oldest active
\* row (the page always asks for primary ones).
ManagerRows(a) == {i \in DOMAIN rows : ~rows[i].removed /\ rows[i].type = "reports_to" /\ rows[i].src = a}
Managers(a) == {rows[i].tgt : i \in {j \in ManagerRows(a) : \A k \in ManagerRows(a) : j <= k}}

\* Where the walk is after n steps from the new edge's target: nobody once it
\* has ended.
Walk(tgt, steps) ==
    LET at[n \in 0..steps] == IF n = 0 THEN {tgt} ELSE UNION {Managers(a) : a \in at[n - 1]}
    IN  at[steps]

\* The walk meets the source, or comes back to where it was.
Refused(row) ==
    /\ row.type = "reports_to"
    /\ \/ \E n \in 0..Cardinality(Agents) : row.src \in Walk(row.tgt, n)
       \/ Walk(row.tgt, Cardinality(Agents)) # {}

add_relationship(row) ==
    /\ ~Refused(row) /\ Len(rows) < MaxRows
    /\ rows' = Append(rows, [type |-> row.type, src |-> row.src, tgt |-> row.tgt, removed |-> FALSE])
    /\ UNCHANGED <<entries, rooms>>

remove_relationship(id) ==
    /\ rows' = [rows EXCEPT ![id].removed = TRUE]
    /\ UNCHANGED <<entries, rooms>>

\* create_team, create_project and create_resource.
create_entry(kind) ==
    /\ Len(entries) < MaxEntries
    /\ entries' = Append(entries, kind)
    /\ UNCHANGED <<rows, rooms>>

create_room(host) ==
    /\ Len(rooms) < MaxRooms
    /\ rooms' = Append(rooms, host)
    /\ UNCHANGED <<rows, entries>>

Effect(what) ==
    \/ what.op = "add" /\ add_relationship(what.row)
    \/ what.op = "remove" /\ remove_relationship(what.id)
    \/ what.op = "create" /\ create_entry(what.kind)
    \/ what.op = "room" /\ create_room(what.host)

\* The id in the answer.
New(what) == CASE what.op = "add" -> Len(rows) + 1
               [] what.op = "create" -> Len(entries) + 1
               [] what.op = "remove" -> what.id
               [] OTHER -> Len(rooms) + 1

CallHandled(c, lost) ==
    /\ call[c].at = "asked"
    /\ Effect(call[c].what)
    /\ call' = [call EXCEPT ![c] = IF lost THEN [@ EXCEPT !.at = "failed"]
                                   ELSE [@ EXCEPT !.at = "answered", !.new = New(call[c].what)]]
    /\ UNCHANGED <<agents, lists, cache, loaded, org, load, canvas, confirm, agreed, panel>>

\* A cycle, a policy or the network says no.
CallRefused(c) ==
    /\ call[c].at = "asked"
    /\ call' = [call EXCEPT ![c].at = "failed"]
    /\ UNCHANGED <<server, cache, loaded, org, load, canvas, confirm, agreed, panel>>

-----------------------------------------------------------------------------
(* The answer reaches the page.                                            *)

\* find() gives the first edge with that id.
Marked(rels, id) ==
    [i \in DOMAIN rels |-> IF rels[i].id = id /\ \A j \in DOMAIN rels : j < i => rels[j].id # id
                           THEN [rels[i] EXCEPT !.removed = TRUE] ELSE rels[i]]

\* The new row goes to the end of whatever state there is by now; a removed
\* one is marked if the state has it.
Pushed(what, new) ==
    CASE what.op = "add" -> [org EXCEPT !.rels = Append(@, [id |-> new, removed |-> FALSE])]
      [] what.op = "create" -> [org EXCEPT !.entries = @ \cup {new}]
      [] what.op = "remove" -> [org EXCEPT !.rels = Marked(@, new)]
      [] OTHER -> [org EXCEPT !.rooms = Append(@, new)]

\* What the caller leaves drawn: a drop ends in a re-render, and so does the
\* first answer to a dialog that a drop has opened.
Settled(what, cv, st) ==
    IF what.op # "add" \/ what.via = "edit" THEN {cv}
    ELSE IF what.via = "drop" THEN {renderGraphView(cv, st)} ELSE {cv, renderGraphView(cv, st)}

\* Push, notify, then what the caller does next: re-render the graph after a
\* drop, close the dialog that asked, show the room.
CallAnswered(c) ==
    LET what == call[c].what
        st == Pushed(what, call[c].new)
    IN  /\ call[c].at = "answered"
        /\ org' = st
        /\ canvas' \in Settled(what, notify(canvas, st), st)
        /\ confirm' = IF FromDialog(what) THEN Nobody ELSE confirm
        /\ panel' = IF what.op = "room" THEN [panel EXCEPT !.room = call[c].new] ELSE panel
        /\ LET left == [call EXCEPT ![c] = NoCall]
           IN  call' = IF FromDialog(what) THEN Orphaned(left) ELSE left
        /\ UNCHANGED <<server, cache, loaded, load, agreed>>

CallFailed_Optimistic(c) ==
    LET what == call[c].what
    IN  /\ call[c].at = "failed"
        /\ org' = IF what.op = "add" /\ Len(rows) < MaxRows
                  THEN [org EXCEPT !.rels = Append(@, [id |-> Len(rows) + 1, removed |-> FALSE])]
                  ELSE org
        /\ call' = [call EXCEPT ![c] = NoCall]
        /\ UNCHANGED <<server, cache, loaded, load, canvas, confirm, agreed, panel>>

\* A notice and nothing else; a drop is re-rendered all the same.
CallFailed(c) ==
    /\ call[c].at = "failed"
    /\ canvas' \in Settled(call[c].what, canvas, org)
    /\ call' = [call EXCEPT ![c] = NoCall]
    /\ UNCHANGED <<server, cache, loaded, org, load, confirm, agreed, panel>>

-----------------------------------------------------------------------------
Loading == \E l \in Loads : LoadApply(l) \/ \E ok \in BOOLEAN : LoadAgents(l, ok) \/ LoadRead(l, ok)

Hiring == (\E a \in Agents : hire(a)) \/ (\E list \in lists : loadSidebar(list))

Editing ==
    \/ \E src, tgt \in Nodes : handleDrop(src, tgt) \/ EditAdd(src, tgt)
    \/ \E type \in {"responsible_for_resource", "may_use_resource"} : ConfirmChoose(type)
    \/ ConfirmClose \/ DropBeside
    \/ \E i \in 1..Len(org.rels) : EditRemove(i)
    \/ \E kind \in Kinds : Create(kind)

Viewing ==
    \/ showFirma \/ hideFirma \/ renderListView \/ \E lens \in Lenses : setSubview(lens)
    \/ \E host \in Hosts : openRoom(host)
    \/ sendRoomMessage \/ closeRoom

Answering ==
    \E c \in Calls : \/ CallRefused(c) \/ CallAnswered(c) \/ CallFailed(c)
                     \/ \E lost \in BOOLEAN : CallHandled(c, lost)

Next == Loading \/ Hiring \/ Editing \/ Viewing \/ Answering

Spec == Init /\ [][Next]_vars

-----------------------------------------------------------------------------
RelTypes == {"reports_to", "member_of_team", "works_on_project", "responsible_for_resource", "may_use_resource"}
Row == [type : RelTypes, src : Nodes, tgt : Nodes, removed : BOOLEAN]
State == [agents : SUBSET Agents, rels : Seq([id : 1..MaxRows, removed : BOOLEAN]), entries : SUBSET Entries,
          rooms : Seq(1..MaxRooms)]
Asked ==
    [op : {"none"}] \cup [op : {"remove"}, id : 1..MaxRows] \cup [op : {"create"}, kind : Kinds]
    \cup [op : {"room"}, host : Hosts]
    \cup [op : {"add"}, via : {"drop", "confirm", "gone", "edit"}, row : [type : RelTypes, src : Nodes, tgt : Nodes]]
Drawing == [lens : Lenses \cup {"none", "loading"}, nodes : SUBSET Nodes, edges : SUBSET (1..MaxRows)]

\* Every variable has the type of the row, the object or the closure it models.
TypeOK ==
    /\ rows \in Seq(Row) /\ entries \in Seq(Kinds) /\ rooms \in Seq(Hosts)
    /\ agents \subseteq Agents /\ lists \subseteq SUBSET Agents /\ cache \in (SUBSET Agents) \cup {NoList}
    /\ loaded \in BOOLEAN /\ org \in State
    /\ load \in [Loads -> [at : {"idle", "asked", "people", "read"}, snap : State, host : Hosts \cup {MaxEntries + 1}]]
    /\ call \in [Calls -> [at : {"idle", "asked", "answered", "failed"}, what : Asked, new : Nat]]
    /\ canvas \in [visible : BOOLEAN, mounted : BOOLEAN, dirty : BOOLEAN, lens : Lenses, drawn : Drawing]
    /\ confirm \in {Nobody} \cup (Nodes \X Nodes) /\ agreed \subseteq Nodes \X Nodes
    /\ panel \in [room : 0..MaxRooms, messages : SUBSET (1..MaxRooms)]

Portrayed == canvas.drawn.nodes \cap Agents

\* Whatever was answered while the canvas was hidden, in another sub-view or
\* in the middle of a drop, a visible canvas shows its lens of the state: every
\* entry, and every edge between what is drawn. The agents are those of the list
\* it was drawn with: a newer list of the sidebar does not make it dirty.
CanvasCurrent ==
    canvas.visible /\ loaded => canvas.drawn = buildElements(org, Portrayed, canvas.lens)

\* The page never shows a relationship, an entry or a room the server does not
\* have, never an edge as removed that the server still holds, and no other
\* agents than one list of the server named.
NothingInvented ==
    /\ \A i \in DOMAIN org.rels :
          /\ org.rels[i].id \in DOMAIN rows
          /\ org.rels[i].removed => rows[org.rels[i].id].removed
    /\ org.entries \subseteq DOMAIN entries
    /\ {org.rooms[i] : i \in DOMAIN org.rooms} \cup panel.messages \subseteq DOMAIN rooms
    /\ panel.room # 0 => panel.room \in DOMAIN rooms
    /\ {getAllAgents(org), org.agents, Portrayed} \subseteq lists \cup {{}}

\* No access to a resource is ever stored that the owner has not chosen in the
\* access dialog for that very pair, by drag and drop or by keyboard.
AccessConfirmed ==
    \A i \in DOMAIN rows :
        rows[i].type \in {"responsible_for_resource", "may_use_resource"} => <<rows[i].src, rows[i].tgt>> \in agreed

Manages == {<<rows[i].src, rows[i].tgt>> :
               i \in {j \in DOMAIN rows : ~rows[j].removed /\ rows[j].type = "reports_to"}}

\* The active reporting edges have no cycle: nobody is, over any number of
\* edges, their own manager.
ReportingAcyclic ==
    \A team \in SUBSET Agents :
        team # {} => \E a \in team : \A b \in team : <<a, b>> \notin Manages
=============================================================================
