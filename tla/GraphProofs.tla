---------------------------- MODULE GraphProofs ----------------------------
(* Theorems about the company graph: loads, requests and answers that      *)
(* overlap never make the page show what the server does not have, leave a *)
(* visible canvas behind its state, or store an access nobody chose.       *)
EXTENDS CompanyGraph, SequenceTheorems, TLAPS

Rel == [id : 1..MaxRows, removed : BOOLEAN]
LoadRow == [at : {"idle", "asked", "people", "read"}, snap : State, host : Hosts \cup {MaxEntries + 1}]
CallRow == [at : {"idle", "asked", "answered", "failed"}, what : Asked, new : Nat]
Canvas == [visible : BOOLEAN, mounted : BOOLEAN, dirty : BOOLEAN, lens : Lenses, drawn : Drawing]
Panel == [room : 0..MaxRooms, messages : SUBSET (1..MaxRooms)]
Access == {"responsible_for_resource", "may_use_resource"}

\* The bounds of the server's rows.
Bounded(rs, es, ms) == Len(rs) <= MaxRows /\ Len(es) <= MaxEntries /\ Len(ms) <= MaxRooms

\* A state of the adapter holds only what the server has, and marks an edge as
\* removed only if it is.
StateTrue(st, rs, es, ms) ==
    /\ \A i \in DOMAIN st.rels :
           st.rels[i].id \in DOMAIN rs /\ (st.rels[i].removed => rs[st.rels[i].id].removed)
    /\ st.entries \subseteq DOMAIN es
    /\ \A i \in DOMAIN st.rooms : st.rooms[i] \in DOMAIN ms

PanelTrue(pn, ms) == pn.messages \subseteq DOMAIN ms /\ (pn.room # 0 => pn.room \in DOMAIN ms)

\* A request to remove is about a row that exists, and one for an access about
\* a pair the owner chose it for.
WhatTrue(what, rs, ag) ==
    /\ what.op = "remove" => what.id \in DOMAIN rs
    /\ what.op = "add" /\ what.row.type \in Access => <<what.row.src, what.row.tgt>> \in ag

\* An answer on its way names a row, entry or room the server has by then.
AnswerTrue(one, rs, es, ms) ==
    one.at = "answered" =>
        /\ one.what.op # "none"
        /\ one.what.op = "add" => one.new \in DOMAIN rs
        /\ one.what.op = "remove" => one.new \in DOMAIN rs /\ rs[one.new].removed
        /\ one.what.op = "create" => one.new \in DOMAIN es
        /\ one.what.op = "room" => one.new \in DOMAIN ms

CallTrue(one, rs, es, ms, ag) ==
    /\ one.at # "idle" => one.what.op # "none"
    /\ WhatTrue(one.what, rs, ag) /\ AnswerTrue(one, rs, es, ms)

\* A drawing is the lens of a state for the agents it shows.
Draws(drawn, st, lens) == drawn = buildElements(st, drawn.nodes \cap Agents, lens)

\* A hidden canvas that is not dirty is as current as a visible one.
CanvasFits(cv, st, has) ==
    /\ cv.visible => cv.mounted /\ ~cv.dirty
    /\ cv.mounted /\ ~cv.dirty /\ has => Draws(cv.drawn, st, cv.lens)

AccessChosen(rs, ag) == \A i \in DOMAIN rs : rs[i].type \in Access => <<rs[i].src, rs[i].tgt>> \in ag

IInv ==
    /\ TypeOK /\ Bounded(rows, entries, rooms)
    /\ StateTrue(org, rows, entries, rooms)
    /\ \A l \in Loads : StateTrue(load[l].snap, rows, entries, rooms)
    /\ \A c \in Calls : CallTrue(call[c], rows, entries, rooms, agreed)
    /\ PanelTrue(panel, rooms) /\ AccessChosen(rows, agreed)
    /\ CanvasFits(canvas, org, loaded)

-----------------------------------------------------------------------------
(* Types.                                                                  *)

Typed ==
    /\ rows \in Seq(Row) /\ entries \in Seq(Kinds) /\ rooms \in Seq(Hosts)
    /\ agents \subseteq Agents /\ lists \subseteq SUBSET Agents /\ cache \in (SUBSET Agents) \cup {NoList}
    /\ loaded \in BOOLEAN /\ org \in State /\ load \in [Loads -> LoadRow] /\ call \in [Calls -> CallRow]
    /\ canvas \in Canvas /\ confirm \in {Nobody} \cup (Nodes \X Nodes) /\ agreed \subseteq Nodes \X Nodes
    /\ panel \in Panel

\* The type invariant with its rows named.
LEMMA TypedIsTypeOK == TypeOK <=> Typed
  BY DEF TypeOK, Typed, LoadRow, CallRow, Canvas, Panel

\* What a request of each kind holds.
LEMMA AskedFacts ==
    ASSUME NEW what \in Asked
    PROVE  /\ what.op \in {"none", "add", "remove", "create", "room"}
           /\ what.op = "remove" => what.id \in 1..MaxRows
           /\ what.op = "create" => what.kind \in Kinds
           /\ what.op = "room" => what.host \in Hosts
           /\ what.op = "add" => what.row.type \in RelTypes /\ what.row.src \in Nodes /\ what.row.tgt \in Nodes
  BY DEF Asked

\* Every kind of request the page makes is one of them.
LEMMA AskedKinds ==
    /\ [op |-> "none"] \in Asked
    /\ \A host \in Hosts : [op |-> "room", host |-> host] \in Asked
    /\ \A kind \in Kinds : [op |-> "create", kind |-> kind] \in Asked
    /\ \A id \in 1..MaxRows : [op |-> "remove", id |-> id] \in Asked
    /\ \A type \in RelTypes, src \in Nodes, tgt \in Nodes, via \in {"drop", "confirm", "gone", "edit"} :
           Add(type, src, tgt, via) \in Asked
  <1>1. \A type \in RelTypes, src \in Nodes, tgt \in Nodes, via \in {"drop", "confirm", "gone", "edit"} :
            Add(type, src, tgt, via) \in Asked
    BY DEF Asked, Add
  <1>2. [op |-> "none"] \in Asked
    BY DEF Asked
  <1>3. \A host \in Hosts : [op |-> "room", host |-> host] \in Asked
    BY DEF Asked
  <1>4. \A kind \in Kinds : [op |-> "create", kind |-> kind] \in Asked
    BY DEF Asked
  <1>5. \A id \in 1..MaxRows : [op |-> "remove", id |-> id] \in Asked
    BY DEF Asked
  <1> QED BY <1>1, <1>2, <1>3, <1>4, <1>5

\* A place without a request, a load or a graph is typed and true of every
\* server.
LEMMA NothingFacts ==
    /\ Null \in State /\ NoLoad \in LoadRow /\ NoLoad.snap = Null /\ NoCall \in CallRow
    /\ \A rs, es, ms : StateTrue(Null, rs, es, ms)
    /\ \A rs, es, ms, ag : CallTrue(NoCall, rs, es, ms, ag)
  <1>1. Null \in State /\ Null.rels = <<>> /\ Null.entries = {} /\ Null.rooms = <<>>
    BY EmptySeq DEF Null, State
  <1>2. NoLoad \in LoadRow /\ NoLoad.snap = Null
    BY <1>1 DEF NoLoad, LoadRow
  <1>3. NoCall \in CallRow /\ NoCall.at = "idle" /\ NoCall.what = [op |-> "none"]
    BY AskedKinds DEF NoCall, CallRow
  <1>4. NoCall.what.op = "none"
    BY <1>3
  <1>5. \A rs, es, ms : StateTrue(Null, rs, es, ms)
    BY <1>1 DEF StateTrue
  <1>6. \A rs, es, ms, ag : CallTrue(NoCall, rs, es, ms, ag)
    BY <1>3, <1>4 DEF CallTrue, WhatTrue, AnswerTrue
  <1> QED BY <1>1, <1>2, <1>3, <1>5, <1>6

-----------------------------------------------------------------------------
(* Drawing.                                                                *)

\* A lens draws the agents it is given, entries of the state, and edges the
\* server has.
LEMMA BuildTyped ==
    ASSUME NEW st \in State, NEW people \in SUBSET Agents, NEW lens \in Lenses
    PROVE  /\ buildElements(st, people, lens) \in Drawing
           /\ buildElements(st, people, lens).nodes \cap Agents = people
  <1> DEFINE nodes == people \cup {n \in st.entries : entries[n] \in LensKinds[lens]}
             typed == {i \in ActiveEdges(st) : Edge(st, i).type \in LensTypes[lens]}
             chosen == IF lens = "organisation" THEN FirstOfSource(st, typed) ELSE typed
             edges == {st.rels[i].id : i \in {j \in chosen : {Edge(st, j).src, Edge(st, j).tgt} \subseteq nodes}}
  <1>1. buildElements(st, people, lens) = [lens |-> lens, nodes |-> nodes, edges |-> edges]
    BY DEF buildElements
  <1>2. st.rels \in Seq([id : 1..MaxRows, removed : BOOLEAN]) /\ st.entries \subseteq Entries
    BY DEF State
  <1>3. nodes \subseteq Nodes /\ nodes \cap Agents = people
    BY <1>2, AgentsAssumption DEF Nodes, Entries
  <1>4. \A i \in DOMAIN st.rels : st.rels[i].id \in 1..MaxRows
    <2>1. \A i \in DOMAIN st.rels : st.rels[i] \in [id : 1..MaxRows, removed : BOOLEAN]
      BY <1>2, ElementOfSeq, LenProperties
    <2> QED BY <2>1
  <1>5. chosen \subseteq DOMAIN st.rels
    BY DEF FirstOfSource, ActiveEdges
  <1> HIDE DEF nodes, chosen
  <1>6. edges \subseteq 1..MaxRows
    BY <1>4, <1>5
  <1> HIDE DEF edges
  <1> QED BY <1>1, <1>3, <1>6 DEF Drawing

\* So what is drawn with the agents the page knows is a drawing of the state.
LEMMA BuildDraws ==
    ASSUME NEW st \in State, NEW lens \in Lenses, cache \in (SUBSET Agents) \cup {NoList}
    PROVE  LET drawn == buildElements(st, getAllAgents(st), lens)
           IN  drawn \in Drawing /\ Draws(drawn, st, lens) /\ drawn.nodes \cap Agents = getAllAgents(st)
  <1>1. getAllAgents(st) \in SUBSET Agents
    <2>1. st.agents \in SUBSET Agents
      BY DEF State
    <2>2. CASE cache = NoList
      BY <2>1, <2>2 DEF getAllAgents
    <2>3. CASE cache # NoList
      <3>1. cache \in SUBSET Agents
        BY <2>3
      <3> QED BY <2>3, <3>1 DEF getAllAgents
    <2> QED BY <2>2, <2>3
  <1> QED BY <1>1, BuildTyped DEF Draws

\* refresh draws the state it finds and clears the dirty flag.
LEMMA RefreshFacts ==
    ASSUME NEW cv \in Canvas, NEW st \in State, NEW has \in BOOLEAN, cache \in (SUBSET Agents) \cup {NoList}
    PROVE  /\ refresh(cv, st, has) \in Canvas
           /\ refresh(cv, st, has).visible = cv.visible /\ refresh(cv, st, has).mounted = cv.mounted
           /\ refresh(cv, st, has).lens = cv.lens /\ refresh(cv, st, has).dirty = FALSE
           /\ has => Draws(refresh(cv, st, has).drawn, st, cv.lens)
  <1> DEFINE blank == [Undrawn EXCEPT !.lens = "loading"]
             drawn == IF has THEN buildElements(st, getAllAgents(st), cv.lens) ELSE blank
             new == [cv EXCEPT !.dirty = FALSE, !.drawn = drawn]
  <1>1. Undrawn \in Drawing
    BY DEF Undrawn, Drawing
  <1>2. blank \in Drawing
    BY <1>1 DEF Drawing
  <1>3. cv.lens \in Lenses
    BY DEF Canvas
  <1> HIDE DEF blank
  <1>4. drawn \in Drawing /\ (has => Draws(drawn, st, cv.lens))
    BY <1>2, <1>3, BuildDraws
  <1>5. refresh(cv, st, has) = new
    BY DEF refresh, blank
  <1> HIDE DEF drawn
  <1>6. /\ new \in Canvas /\ new.visible = cv.visible /\ new.mounted = cv.mounted /\ new.lens = cv.lens
        /\ new.dirty = FALSE /\ new.drawn = drawn
    BY <1>4 DEF Canvas
  <1> HIDE DEF new
  <1> QED BY <1>4, <1>5, <1>6

\* Everyone notified of a new state has drawn it or will when shown.
LEMMA NotifyFits ==
    ASSUME NEW cv \in Canvas, NEW st \in State, cv.visible => cv.mounted, cache \in (SUBSET Agents) \cup {NoList}
    PROVE  notify(cv, st) \in Canvas /\ notify(cv, st).lens = cv.lens /\ CanvasFits(notify(cv, st), st, TRUE)
  <1>1. CASE ~cv.mounted
    BY <1>1 DEF notify, CanvasFits
  <1>2. CASE cv.mounted /\ cv.visible
    <2> DEFINE new == refresh(cv, st, TRUE)
    <2>1. notify(cv, st) = new
      BY <1>2 DEF notify
    <2>2. /\ new \in Canvas /\ new.mounted = cv.mounted /\ new.lens = cv.lens /\ new.dirty = FALSE
          /\ Draws(new.drawn, st, cv.lens)
      BY RefreshFacts
    <2> HIDE DEF new
    <2> QED BY <1>2, <2>1, <2>2 DEF CanvasFits
  <1>3. CASE cv.mounted /\ ~cv.visible
    <2> DEFINE new == [cv EXCEPT !.dirty = TRUE]
    <2>1. notify(cv, st) = new
      BY <1>3 DEF notify
    <2>2. new \in Canvas /\ new.visible = cv.visible /\ new.dirty = TRUE /\ new.lens = cv.lens
      BY DEF Canvas
    <2> HIDE DEF new
    <2> QED BY <1>3, <2>1, <2>2 DEF CanvasFits
  <1> QED BY <1>1, <1>2, <1>3

\* A drop that ends draws the state again.
LEMMA RenderFits ==
    ASSUME NEW cv \in Canvas, NEW st \in State, NEW has, CanvasFits(cv, st, has), cache \in (SUBSET Agents) \cup {NoList}
    PROVE  renderGraphView(cv, st) \in Canvas /\ CanvasFits(renderGraphView(cv, st), st, has)
  <1>1. CASE cv.lens = "liste"
    BY <1>1 DEF renderGraphView
  <1>2. CASE cv.lens # "liste"
    <2> DEFINE drawn == buildElements(st, getAllAgents(st), cv.lens)
               new == [cv EXCEPT !.drawn = drawn]
    <2>1. drawn \in Drawing /\ Draws(drawn, st, cv.lens)
      BY BuildDraws DEF Canvas
    <2>2. renderGraphView(cv, st) = new
      BY <1>2 DEF renderGraphView
    <2> HIDE DEF drawn
    <2>3. /\ new \in Canvas /\ new.visible = cv.visible /\ new.mounted = cv.mounted /\ new.lens = cv.lens
          /\ new.dirty = cv.dirty /\ new.drawn = drawn
      BY <2>1 DEF Canvas
    <2> HIDE DEF new
    <2> QED BY <2>1, <2>2, <2>3 DEF CanvasFits
  <1> QED BY <1>1, <1>2

-----------------------------------------------------------------------------
(* Steps of the page: the server's rows stay.                              *)

LoadsTrue(ld, rs, es, ms) == \A l \in Loads : StateTrue(ld[l].snap, rs, es, ms)
CallsTrue(cl, rs, es, ms, ag) == \A c \in Calls : CallTrue(cl[c], rs, es, ms, ag)

Inv ==
    /\ Typed /\ Bounded(rows, entries, rooms) /\ StateTrue(org, rows, entries, rooms)
    /\ LoadsTrue(load, rows, entries, rooms) /\ CallsTrue(call, rows, entries, rooms, agreed)
    /\ PanelTrue(panel, rooms) /\ AccessChosen(rows, agreed) /\ CanvasFits(canvas, org, loaded)

PageKept ==
    /\ rows' = rows /\ entries' = entries /\ rooms' = rooms
    /\ agents' \subseteq Agents /\ lists' \subseteq SUBSET Agents /\ cache' \in (SUBSET Agents) \cup {NoList}
    /\ loaded' \in BOOLEAN /\ org' \in State /\ StateTrue(org', rows, entries, rooms)
    /\ load' \in [Loads -> LoadRow] /\ LoadsTrue(load', rows, entries, rooms)
    /\ call' \in [Calls -> CallRow] /\ CallsTrue(call', rows, entries, rooms, agreed')
    /\ canvas' \in Canvas /\ CanvasFits(canvas', org', loaded')
    /\ confirm' \in {Nobody} \cup (Nodes \X Nodes) /\ agreed \subseteq agreed' /\ agreed' \subseteq Nodes \X Nodes
    /\ panel' \in Panel /\ PanelTrue(panel', rooms)

Staff == agents' = agents /\ lists' = lists /\ cache' = cache

\* Such a step keeps the invariant.
LEMMA PageStep ==
    ASSUME Inv, PageKept
    PROVE  Inv'
  <1>1. buildElements(org', canvas'.drawn.nodes \cap Agents, canvas'.lens)
            = buildElements(org, canvas.drawn.nodes \cap Agents, canvas.lens)'
    BY DEF PageKept, buildElements, FirstOfSource, ActiveEdges, Edge
  <1>2. CanvasFits(canvas, org, loaded)'
    BY <1>1 DEF PageKept, CanvasFits, Draws
  <1>3. AccessChosen(rows, agreed)'
    BY DEF Inv, PageKept, AccessChosen
  <1>4. Typed'
    BY DEF Inv, Typed, PageKept
  <1> QED BY <1>2, <1>3, <1>4 DEF Inv, PageKept

\* A request that is made goes to a free place.
LEMMA AskFacts ==
    ASSUME Inv, NEW what \in Asked, what.op # "none", WhatTrue(what, rows, agreed'), agreed \subseteq agreed', Ask(what)
    PROVE  call' \in [Calls -> CallRow] /\ CallsTrue(call', rows, entries, rooms, agreed')
  <1> DEFINE one == [at |-> "asked", what |-> what, new |-> 0]
  <1>1. PICK c \in Calls : call' = [call EXCEPT ![c] = one]
    BY DEF Ask
  <1>2. one \in CallRow /\ one.at = "asked" /\ one.what = what
    BY DEF CallRow
  <1> HIDE DEF one
  <1>3. CallTrue(one, rows, entries, rooms, agreed')
    BY <1>2 DEF CallTrue, AnswerTrue
  <1>4. \A d \in Calls : CallTrue(call[d], rows, entries, rooms, agreed')
    BY DEF Inv, CallsTrue, CallTrue, WhatTrue
  <1> QED BY <1>1, <1>2, <1>3, <1>4 DEF Inv, Typed, CallsTrue

\* A request that is settled gives its place back.
LEMMA SettledFacts ==
    ASSUME Inv, NEW c \in Calls, call' = [call EXCEPT ![c] = NoCall], agreed' = agreed
    PROVE  call' \in [Calls -> CallRow] /\ CallsTrue(call', rows, entries, rooms, agreed')
  BY NothingFacts DEF Inv, Typed, CallsTrue

\* A request whose dialog is gone is still the same request.
LEMMA OrphanedFacts ==
    ASSUME NEW calls \in [Calls -> CallRow], CallsTrue(calls, rows, entries, rooms, agreed)
    PROVE  Orphaned(calls) \in [Calls -> CallRow] /\ CallsTrue(Orphaned(calls), rows, entries, rooms, agreed)
  <1>1. ASSUME NEW c \in Calls
        PROVE  Orphaned(calls)[c] \in CallRow /\ CallTrue(Orphaned(calls)[c], rows, entries, rooms, agreed)
    <2> DEFINE old == calls[c]
               what == old.what
               gone == [what EXCEPT !.via = "gone"]
               new == [old EXCEPT !.what = gone]
    <2>1. old \in CallRow /\ CallTrue(old, rows, entries, rooms, agreed) /\ what \in Asked
      BY DEF CallsTrue, CallRow
    <2>2. CASE FromDialog(what)
      <3>1. Orphaned(calls)[c] = [old EXCEPT !.what.via = "gone"]
        BY <2>2 DEF Orphaned
      <3>2. Orphaned(calls)[c] = new
        BY <2>1, <3>1 DEF CallRow
      <3>3. what.op = "add"
        BY <2>2 DEF FromDialog
      <3> HIDE DEF what
      <3>4. /\ gone \in Asked /\ gone.op = "add" /\ gone.row = what.row
        BY <2>1, <3>3 DEF Asked
      <3> HIDE DEF gone
      <3>5. new \in CallRow /\ new.what = gone /\ new.at = old.at /\ new.new = old.new
        BY <2>1, <3>4 DEF CallRow
      <3> HIDE DEF new, old
      <3>6. CallTrue(new, rows, entries, rooms, agreed)
        BY <2>1, <3>3, <3>4, <3>5 DEF CallTrue, WhatTrue, AnswerTrue, what
      <3> QED BY <3>2, <3>5, <3>6
    <2>3. CASE ~FromDialog(what)
      BY <2>1, <2>3 DEF Orphaned
    <2> QED BY <2>2, <2>3
  <1>2. Orphaned(calls) = [c \in Calls |-> Orphaned(calls)[c]]
    BY DEF Orphaned
  <1> QED BY <1>1, <1>2 DEF CallsTrue

\* Calls that are left alone stay true.
LEMMA CallsLeft ==
    ASSUME Inv, call' = call, agreed \subseteq agreed'
    PROVE  call' \in [Calls -> CallRow] /\ CallsTrue(call', rows, entries, rooms, agreed')
  BY DEF Inv, Typed, CallsTrue, CallTrue, WhatTrue

\* open() shows a room the server has, or asks for one.
LEMMA ShowFacts ==
    ASSUME Inv, NEW st \in State, StateTrue(st, rows, entries, rooms), NEW host \in Hosts, agreed' = agreed,
           ShowOrCreate(st, host)
    PROVE  /\ call' \in [Calls -> CallRow] /\ CallsTrue(call', rows, entries, rooms, agreed')
           /\ panel' \in Panel /\ PanelTrue(panel', rooms)
  <1>1. CASE \E i \in RoomOf(st, host) : panel' = [panel EXCEPT !.room = st.rooms[i]] /\ call' = call
    <2>1. PICK i \in RoomOf(st, host) : panel' = [panel EXCEPT !.room = st.rooms[i]] /\ call' = call
      BY <1>1
    <2>2. i \in DOMAIN st.rooms /\ st.rooms \in Seq(1..MaxRooms)
      BY <2>1 DEF RoomOf, State
    <2>3. st.rooms[i] \in 1..MaxRooms /\ st.rooms[i] \in DOMAIN rooms
      BY <2>2, ElementOfSeq, LenProperties DEF StateTrue
    <2> DEFINE id == st.rooms[i]
               new == [panel EXCEPT !.room = id]
    <2>4. panel \in Panel /\ id \in 0..MaxRooms /\ panel' = new
      BY <2>1, <2>3 DEF Inv, Typed
    <2> HIDE DEF id
    <2>5. new \in Panel /\ new.room = id /\ new.messages = panel.messages
      BY <2>4 DEF Panel
    <2> HIDE DEF new
    <2>6. PanelTrue(panel', rooms)
      BY <2>3, <2>4, <2>5 DEF Inv, PanelTrue, id
    <2> QED BY <2>1, <2>4, <2>5, <2>6, CallsLeft
  <1>2. CASE Ask([op |-> "room", host |-> host]) /\ panel' = panel
    <2> DEFINE what == [op |-> "room", host |-> host]
    <2>1. what \in Asked /\ what.op = "room"
      BY AskedKinds
    <2> HIDE DEF what
    <2>2. WhatTrue(what, rows, agreed')
      BY <2>1 DEF WhatTrue
    <2> QED BY <1>2, <2>1, <2>2, AskFacts DEF Inv, Typed, what
  <1> QED BY <1>1, <1>2 DEF ShowOrCreate

\* What the server answers GET /org with is true when it is read.
LEMMA SnapshotFacts ==
    ASSUME Inv, NEW people \in SUBSET Agents
    PROVE  Snapshot(people) \in State /\ StateTrue(Snapshot(people), rows, entries, rooms)
  <1> DEFINE rels == [i \in Shown(rows) |-> [id |-> i, removed |-> rows[i].removed]]
             es == {i \in DOMAIN entries : OldestOfKind(i)}
             ms == [i \in Shown(rooms) |-> i]
             snap == Snapshot(people)
  <1>1. /\ rows \in Seq(Row) /\ Len(rows) \in Nat /\ DOMAIN rows = 1..Len(rows) /\ Len(rows) <= MaxRows
        /\ Len(entries) \in Nat /\ DOMAIN entries = 1..Len(entries) /\ Len(entries) <= MaxEntries
        /\ Len(rooms) \in Nat /\ DOMAIN rooms = 1..Len(rooms) /\ Len(rooms) <= MaxRooms
    BY LenProperties DEF Inv, Typed, Bounded
  <1>2. \A i \in 1..Len(rows) : i \in 1..MaxRows /\ rows[i].removed \in BOOLEAN
    <2>1. \A i \in 1..Len(rows) : rows[i] \in Row
      BY <1>1, ElementOfSeq
    <2> QED BY <1>1, <2>1, BoundsAssumption DEF Row
  <1>3. \A n \in Nat : \E k \in 0..n : {i \in 1..n : i <= OrgLimit} = 1..k
    <2> SUFFICES ASSUME NEW n \in Nat PROVE \E k \in 0..n : {i \in 1..n : i <= OrgLimit} = 1..k
      OBVIOUS
    <2>1. CASE n <= OrgLimit
      <3>1. {i \in 1..n : i <= OrgLimit} = 1..n
        BY <2>1, BoundsAssumption
      <3> QED BY <3>1
    <2>2. CASE ~(n <= OrgLimit)
      <3>1. {i \in 1..n : i <= OrgLimit} = 1..OrgLimit /\ OrgLimit \in 0..n
        BY <2>2, BoundsAssumption
      <3> QED BY <3>1
    <2> QED BY <2>1, <2>2
  <1>4. PICK k \in 0..Len(rows) : Shown(rows) = 1..k
    BY <1>1, <1>3 DEF Shown
  <1>5. PICK m \in 0..Len(rooms) : Shown(rooms) = 1..m
    BY <1>1, <1>3 DEF Shown
  <1>6. \A i \in 1..k : rels[i] \in Rel /\ rels[i].id = i /\ rels[i].removed = rows[i].removed /\ i \in DOMAIN rows
    BY <1>1, <1>2, <1>4 DEF Rel
  <1>7. rels \in [1..k -> Rel] /\ DOMAIN rels = 1..k /\ k \in Nat
    BY <1>1, <1>4, <1>6
  <1>8. ms \in [1..m -> 1..MaxRooms] /\ m \in Nat /\ \A i \in DOMAIN ms : ms[i] \in DOMAIN rooms
    BY <1>1, <1>5, BoundsAssumption
  <1>9. es \subseteq DOMAIN entries /\ es \subseteq Entries
    BY <1>1, BoundsAssumption DEF Entries
  <1>10. snap = [agents |-> people, rels |-> rels, entries |-> es, rooms |-> ms]
    BY DEF Snapshot
  <1> HIDE DEF rels, es, ms, snap
  <1>11. rels \in Seq(Rel) /\ ms \in Seq(1..MaxRooms)
    <2>1. \A S, n, f : n \in Nat /\ f \in [1..n -> S] => f \in Seq(S)
      OBVIOUS
    <2> QED BY <1>7, <1>8, <2>1
  <1>12. snap \in State
    <2> DEFINE R == Seq(Rel)
               M == Seq(1..MaxRooms)
    <2>1. /\ State = [agents : SUBSET Agents, rels : R, entries : SUBSET Entries, rooms : M]
          /\ rels \in R /\ ms \in M
      BY <1>11 DEF State, Rel
    <2> HIDE DEF R, M
    <2> QED BY <1>9, <1>10, <2>1
  <1>13. snap.rels = rels /\ snap.entries = es /\ snap.rooms = ms
    BY <1>10
  <1>14. StateTrue(snap, rows, entries, rooms)
    BY <1>6, <1>7, <1>8, <1>9, <1>13 DEF StateTrue
  <1> QED BY <1>12, <1>14 DEF snap

\* A state that only names agents claims nothing of the graph.
LEMMA OnlyAgents ==
    ASSUME NEW people \in SUBSET Agents
    PROVE  [Null EXCEPT !.agents = people] \in State
           /\ \A rs, es, ms : StateTrue([Null EXCEPT !.agents = people], rs, es, ms)
  <1> DEFINE st == [Null EXCEPT !.agents = people]
  <1>1. Null \in State /\ Null.rels = <<>> /\ Null.entries = {} /\ Null.rooms = <<>>
    BY NothingFacts DEF Null
  <1>2. st \in State /\ st.rels = Null.rels /\ st.entries = Null.entries /\ st.rooms = Null.rooms
    BY <1>1 DEF State
  <1> HIDE DEF st
  <1>3. \A rs, es, ms : StateTrue(st, rs, es, ms)
    BY <1>1, <1>2 DEF StateTrue
  <1> QED BY <1>2, <1>3 DEF st

\* Loading keeps the invariant: a late answer replaces the state by an older
\* one, which is still true of the server.
LEMMA LoadingStep ==
    ASSUME Inv, Loading
    PROVE  Inv'
  <1>r. ASSUME NEW l \in Loads, NEW snap \in State, StateTrue(snap, rows, entries, rooms), NEW at \in {"people", "read"},
               load' = [load EXCEPT ![l] = [@ EXCEPT !.at = at, !.snap = snap]],
               UNCHANGED <<server, cache, loaded, org, call, canvas, confirm, agreed, panel>>
        PROVE  Inv'
    <2> DEFINE one == [load[l] EXCEPT !.at = at, !.snap = snap]
    <2>1. load' = [load EXCEPT ![l] = one] /\ load \in [Loads -> LoadRow]
      BY <1>r DEF Inv, Typed
    <2>2. one \in LoadRow /\ one.snap = snap
      BY <2>1 DEF LoadRow
    <2> HIDE DEF one
    <2>3. load' \in [Loads -> LoadRow] /\ LoadsTrue(load', rows, entries, rooms)
      BY <1>r, <2>1, <2>2 DEF Inv, LoadsTrue
    <2>4. /\ rows' = rows /\ entries' = entries /\ rooms' = rooms /\ Staff /\ loaded' = loaded /\ org' = org
          /\ call' = call /\ canvas' = canvas /\ confirm' = confirm /\ agreed' = agreed /\ panel' = panel
      BY <1>r DEF server, Staff
    <2>5. PageKept
      BY <2>3, <2>4 DEF Inv, Typed, PageKept, Staff
    <2> QED BY <2>5, PageStep
  <1>s. ASSUME NEW l \in Loads PROVE load[l] \in LoadRow /\ load[l].snap \in State /\ load[l].snap.agents \in SUBSET Agents
               /\ StateTrue(load[l].snap, rows, entries, rooms)
    <2>1. load[l] \in LoadRow /\ load[l].snap \in State
      BY <1>s DEF Inv, Typed, LoadRow
    <2>2. StateTrue(load[l].snap, rows, entries, rooms)
      BY DEF Inv, LoadsTrue
    <2> QED BY <2>1, <2>2 DEF State
  <1>0. ASSUME NEW l \in Loads, NEW ok \in BOOLEAN, LoadAgents(l, ok) PROVE Inv'
    <2> DEFINE old == load[l].snap
               people == IF ok THEN agents ELSE {}
               snap == [old EXCEPT !.agents = people]
    <2>1. people \in SUBSET Agents /\ old \in State /\ StateTrue(old, rows, entries, rooms)
      BY <1>s DEF Inv, Typed
    <2>2. load' = [load EXCEPT ![l] = [@ EXCEPT !.at = "people", !.snap.agents = people]]
          /\ UNCHANGED <<server, cache, loaded, org, call, canvas, confirm, agreed, panel>>
      BY <1>0 DEF LoadAgents
    <2>3. load' = [load EXCEPT ![l] = [@ EXCEPT !.at = "people", !.snap = snap]]
      <3>1. load[l] \in LoadRow
        BY <1>s
      <3> QED BY <2>2, <3>1 DEF LoadRow
    <2> HIDE DEF people, old
    <2>4. snap \in State /\ snap.rels = old.rels /\ snap.entries = old.entries /\ snap.rooms = old.rooms
      BY <2>1 DEF State
    <2> HIDE DEF snap
    <2>5. StateTrue(snap, rows, entries, rooms)
      BY <2>1, <2>4 DEF StateTrue
    <2> QED BY <1>r, <2>2, <2>3, <2>4, <2>5
  <1>1. ASSUME NEW l \in Loads, NEW ok \in BOOLEAN, LoadRead(l, ok) PROVE Inv'
    <2> DEFINE people == load[l].snap.agents
               snap == IF ok THEN Snapshot(people) ELSE [Null EXCEPT !.agents = people]
    <2>1. people \in SUBSET Agents
      BY <1>s
    <2>2. load' = [load EXCEPT ![l] = [@ EXCEPT !.at = "read", !.snap = snap]]
          /\ UNCHANGED <<server, cache, loaded, org, call, canvas, confirm, agreed, panel>>
      BY <1>1 DEF LoadRead
    <2> HIDE DEF people
    <2>3. snap \in State /\ StateTrue(snap, rows, entries, rooms)
      BY <2>1, SnapshotFacts, OnlyAgents
    <2> HIDE DEF snap
    <2> QED BY <1>r, <2>2, <2>3
  <1>2. ASSUME NEW l \in Loads, LoadApply(l) PROVE Inv'
    <2> DEFINE st == load[l].snap
    <2>1. load[l] \in LoadRow /\ st \in State /\ StateTrue(st, rows, entries, rooms)
      BY DEF Inv, Typed, LoadsTrue, LoadRow
    <2>2. /\ rows' = rows /\ entries' = entries /\ rooms' = rooms /\ Staff /\ loaded' = TRUE /\ org' = st
          /\ canvas' = notify(canvas, st) /\ confirm' = confirm /\ agreed' = agreed
          /\ load' = [load EXCEPT ![l] = NoLoad]
      BY <1>2 DEF LoadApply, Publish, server, Staff
    <2>3. load' \in [Loads -> LoadRow] /\ LoadsTrue(load', rows, entries, rooms)
      BY <2>2, NothingFacts DEF Inv, Typed, LoadsTrue
    <2>4. /\ call' \in [Calls -> CallRow] /\ CallsTrue(call', rows, entries, rooms, agreed')
          /\ panel' \in Panel /\ PanelTrue(panel', rooms)
      <3>1. CASE load[l].host \in Hosts
        BY <1>2, <2>1, <2>2, <3>1, ShowFacts DEF LoadApply
      <3>2. CASE load[l].host \notin Hosts
        BY <1>2, <2>2, <3>2, CallsLeft DEF LoadApply, Inv, Typed
      <3> QED BY <3>1, <3>2
    <2> HIDE DEF st
    <2>5. canvas' \in Canvas /\ CanvasFits(canvas', org', loaded')
      <3>1. canvas \in Canvas /\ (canvas.visible => canvas.mounted) /\ cache \in (SUBSET Agents) \cup {NoList}
        BY DEF Inv, Typed, CanvasFits
      <3> QED BY <2>1, <2>2, <3>1, NotifyFits
    <2>6. PageKept
      BY <2>1, <2>2, <2>3, <2>4, <2>5 DEF Inv, Typed, PageKept, Staff
    <2> QED BY <2>6, PageStep
  <1> QED BY <1>0, <1>1, <1>2 DEF Loading

\* Hiring keeps the invariant: what is drawn stays as it is.
LEMMA HiringStep ==
    ASSUME Inv, Hiring
    PROVE  Inv'
  <1>1. CASE \E a \in Agents : hire(a)
    <2>1. PICK a \in Agents : hire(a)
      BY <1>1
    <2>2. /\ rows' = rows /\ entries' = entries /\ rooms' = rooms /\ loaded' = loaded /\ org' = org /\ load' = load
          /\ call' = call /\ canvas' = canvas /\ confirm' = confirm /\ agreed' = agreed /\ panel' = panel
          /\ cache' = cache /\ agents' = agents \cup {a} /\ lists' = lists \cup {agents'}
      BY <2>1 DEF hire
    <2>3. agents' \subseteq Agents /\ lists' \subseteq SUBSET Agents
      BY <2>2 DEF Inv, Typed
    <2>4. PageKept
      BY <2>2, <2>3 DEF Inv, Typed, PageKept
    <2> QED BY <2>4, PageStep
  <1>2. CASE \E list \in lists : loadSidebar(list)
    <2>1. PICK list \in lists : loadSidebar(list)
      BY <1>2
    <2>2. /\ rows' = rows /\ entries' = entries /\ rooms' = rooms /\ loaded' = loaded /\ org' = org /\ load' = load
          /\ call' = call /\ canvas' = canvas /\ confirm' = confirm /\ agreed' = agreed /\ panel' = panel
          /\ cache' = list /\ agents' = agents /\ lists' = lists
      BY <2>1 DEF loadSidebar, server
    <2>3. cache' \in (SUBSET Agents) \cup {NoList}
      BY <2>1, <2>2 DEF Inv, Typed
    <2>4. PageKept
      BY <2>2, <2>3 DEF Inv, Typed, PageKept
    <2> QED BY <2>4, PageStep
  <1> QED BY <1>1, <1>2 DEF Hiring

\* Viewing keeps the invariant: a canvas that comes back is drawn anew if it
\* missed anything.
LEMMA ViewingStep ==
    ASSUME Inv, Viewing
    PROVE  Inv'
  <1>t. /\ canvas \in Canvas /\ org \in State /\ loaded \in BOOLEAN /\ CanvasFits(canvas, org, loaded)
        /\ cache \in (SUBSET Agents) \cup {NoList}
    BY DEF Inv, Typed
  <1>c. ASSUME UNCHANGED <<unasked, call, confirm, agreed, panel>>, canvas' \in Canvas, CanvasFits(canvas', org, loaded)
        PROVE  Inv'
    <2>1. /\ rows' = rows /\ entries' = entries /\ rooms' = rooms /\ Staff /\ loaded' = loaded /\ org' = org /\ call' = call
          /\ load' = load /\ confirm' = confirm /\ agreed' = agreed /\ panel' = panel
      BY <1>c DEF unasked, server, Staff
    <2>2. PageKept
      BY <1>c, <2>1 DEF Inv, Typed, PageKept, Staff
    <2> QED BY <2>2, PageStep
  <1>p. ASSUME UNCHANGED <<unasked, call, canvas, confirm, agreed>>, panel' \in Panel, PanelTrue(panel', rooms)
        PROVE  Inv'
    <2>1. /\ rows' = rows /\ entries' = entries /\ rooms' = rooms /\ Staff /\ loaded' = loaded /\ org' = org /\ call' = call
          /\ load' = load /\ confirm' = confirm /\ agreed' = agreed /\ canvas' = canvas
      BY <1>p DEF unasked, server, Staff
    <2>2. PageKept
      BY <1>p, <2>1 DEF Inv, Typed, PageKept, Staff
    <2> QED BY <2>2, PageStep
  <1>1. CASE showFirma
    <2> DEFINE cv == [canvas EXCEPT !.visible = TRUE]
               fresh == [cv EXCEPT !.mounted = TRUE]
    <2>1. /\ cv \in Canvas /\ cv.visible = TRUE /\ cv.mounted = canvas.mounted /\ cv.dirty = canvas.dirty
          /\ cv.lens = canvas.lens /\ cv.drawn = canvas.drawn
      BY <1>t DEF Canvas
    <2>2. canvas' = IF ~cv.mounted THEN refresh(fresh, org, loaded)
                    ELSE IF cv.dirty THEN refresh(cv, org, loaded) ELSE cv
      BY <1>1 DEF showFirma
    <2> HIDE DEF cv
    <2>3. fresh \in Canvas /\ fresh.mounted = TRUE
      BY <2>1 DEF Canvas
    <2> HIDE DEF fresh
    <2>4. \A x \in Canvas : x.mounted => refresh(x, org, loaded) \in Canvas /\ CanvasFits(refresh(x, org, loaded), org, loaded)
      <3> SUFFICES ASSUME NEW x \in Canvas, x.mounted
                   PROVE  refresh(x, org, loaded) \in Canvas /\ CanvasFits(refresh(x, org, loaded), org, loaded)
        OBVIOUS
      <3> DEFINE new == refresh(x, org, loaded)
      <3>1. /\ new \in Canvas /\ new.mounted = x.mounted /\ new.lens = x.lens /\ new.dirty = FALSE
            /\ loaded => Draws(new.drawn, org, x.lens)
        BY <1>t, RefreshFacts
      <3> HIDE DEF new
      <3>2. CanvasFits(new, org, loaded)
        BY <3>1 DEF CanvasFits
      <3> QED BY <3>1, <3>2 DEF new
    <2>5. canvas' \in Canvas /\ CanvasFits(canvas', org, loaded)
      <3>1. CASE ~cv.mounted
        BY <2>2, <2>3, <2>4, <3>1
      <3>2. CASE cv.mounted /\ cv.dirty
        BY <2>1, <2>2, <2>4, <3>2
      <3>3. CASE cv.mounted /\ ~cv.dirty
        BY <1>t, <2>1, <2>2, <3>3 DEF CanvasFits
      <3> QED BY <3>1, <3>2, <3>3
    <2> QED BY <1>1, <1>c, <2>5 DEF showFirma
  <1>2. CASE hideFirma
    <2> DEFINE new == [canvas EXCEPT !.visible = FALSE]
    <2>1. /\ new \in Canvas /\ new.visible = FALSE /\ new.mounted = canvas.mounted /\ new.dirty = canvas.dirty
          /\ new.lens = canvas.lens /\ new.drawn = canvas.drawn
      BY <1>t DEF Canvas
    <2>2. canvas' = new
      BY <1>2 DEF hideFirma
    <2> HIDE DEF new
    <2>3. canvas' \in Canvas /\ CanvasFits(canvas', org, loaded)
      BY <1>t, <2>1, <2>2 DEF CanvasFits
    <2> QED BY <1>2, <1>c, <2>3 DEF hideFirma
  <1>3. ASSUME NEW lens \in Lenses, setSubview(lens) PROVE Inv'
    <2> DEFINE cv == [canvas EXCEPT !.lens = lens]
               new == refresh(cv, org, loaded)
    <2>1. cv \in Canvas /\ cv.mounted = canvas.mounted
      BY <1>t DEF Canvas
    <2>2. canvas' = new /\ canvas.mounted
      BY <1>3, <1>t DEF setSubview, CanvasFits
    <2> HIDE DEF cv
    <2>3. /\ new \in Canvas /\ new.mounted = cv.mounted /\ new.lens = cv.lens /\ new.dirty = FALSE
          /\ loaded => Draws(new.drawn, org, cv.lens)
      BY <1>t, <2>1, RefreshFacts
    <2> HIDE DEF new
    <2>4. canvas' \in Canvas /\ CanvasFits(canvas', org, loaded)
      BY <2>1, <2>2, <2>3 DEF CanvasFits
    <2> QED BY <1>3, <1>c, <2>4 DEF setSubview
  <1>4. ASSUME NEW host \in Hosts, openRoom(host) PROVE Inv'
    <2>1. /\ rows' = rows /\ entries' = entries /\ rooms' = rooms /\ Staff /\ loaded' = loaded /\ org' = org
          /\ canvas' = canvas /\ confirm' = confirm /\ agreed' = agreed
      BY <1>4 DEF openRoom, server, Staff
    <2>2. CASE loaded
      <3>1. load' = load /\ ShowOrCreate(org, host)
        BY <1>4, <2>2 DEF openRoom
      <3>2. StateTrue(org, rows, entries, rooms)
        BY DEF Inv
      <3>3. /\ call' \in [Calls -> CallRow] /\ CallsTrue(call', rows, entries, rooms, agreed')
            /\ panel' \in Panel /\ PanelTrue(panel', rooms)
        BY <1>t, <2>1, <3>1, <3>2, ShowFacts
      <3>4. PageKept
        BY <2>1, <3>1, <3>3 DEF Inv, Typed, PageKept, Staff
      <3> QED BY <3>4, PageStep
    <2>3. CASE ~loaded
      <3> DEFINE one == [NoLoad EXCEPT !.at = "asked", !.host = host]
      <3>1. PICK l \in Loads : load' = [load EXCEPT ![l] = one] /\ call' = call /\ panel' = panel
        BY <1>4, <2>3 DEF openRoom
      <3>2. one \in LoadRow /\ one.snap = Null
        BY NothingFacts DEF LoadRow
      <3> HIDE DEF one
      <3>3. load' \in [Loads -> LoadRow] /\ LoadsTrue(load', rows, entries, rooms)
        BY <3>1, <3>2, NothingFacts DEF Inv, Typed, LoadsTrue
      <3>4. PageKept
        BY <2>1, <3>1, <3>3 DEF Inv, Typed, PageKept, Staff
      <3> QED BY <3>4, PageStep
    <2> QED BY <2>2, <2>3
  <1>m. panel \in Panel /\ PanelTrue(panel, rooms) /\ panel.room \in 0..MaxRooms /\ panel.messages \subseteq 1..MaxRooms
    BY DEF Inv, Typed, Panel
  <1>5. CASE sendRoomMessage
    <2> DEFINE messages == panel.messages \cup {panel.room}
               new == [panel EXCEPT !.messages = messages]
    <2>1. panel' = new /\ panel.room # 0
      BY <1>5 DEF sendRoomMessage
    <2>2. messages \subseteq 1..MaxRooms /\ messages \subseteq DOMAIN rooms
      BY <1>m, <2>1, BoundsAssumption DEF PanelTrue
    <2> HIDE DEF messages
    <2>3. new \in Panel /\ new.room = panel.room /\ new.messages = messages
      BY <1>m, <2>2 DEF Panel
    <2> HIDE DEF new
    <2> QED BY <1>5, <1>m, <1>p, <2>1, <2>2, <2>3 DEF sendRoomMessage, PanelTrue
  <1>6. CASE closeRoom
    <2> DEFINE new == [panel EXCEPT !.room = 0]
    <2>1. new \in Panel /\ new.room = 0 /\ new.messages = panel.messages
      BY <1>m, BoundsAssumption DEF Panel
    <2>2. panel' = new
      BY <1>6 DEF closeRoom
    <2> HIDE DEF new
    <2> QED BY <1>6, <1>m, <1>p, <2>1, <2>2 DEF closeRoom, PanelTrue
  <1>7. CASE renderListView
    <2> DEFINE drawn == buildElements(org, getAllAgents(org), "liste")
               new == [canvas EXCEPT !.drawn = drawn]
    <2>1. canvas' = new /\ canvas.lens = "liste" /\ "liste" \in Lenses
      BY <1>7, <1>t DEF renderListView, Canvas
    <2>2. drawn \in Drawing /\ Draws(drawn, org, "liste")
      BY <1>t, <2>1, BuildDraws
    <2> HIDE DEF drawn
    <2>3. /\ new \in Canvas /\ new.visible = canvas.visible /\ new.mounted = canvas.mounted
          /\ new.lens = canvas.lens /\ new.dirty = canvas.dirty /\ new.drawn = drawn
      BY <1>t, <2>2 DEF Canvas
    <2> HIDE DEF new
    <2>4. canvas' \in Canvas /\ CanvasFits(canvas', org, loaded)
      BY <1>t, <2>1, <2>2, <2>3 DEF CanvasFits
    <2> QED BY <1>7, <1>c, <2>4 DEF renderListView
  <1> QED BY <1>1, <1>2, <1>3, <1>4, <1>5, <1>6, <1>7 DEF Viewing

\* Editing keeps the invariant: only the access dialog asks for an access.
LEMMA EditingStep ==
    ASSUME Inv, Editing
    PROVE  Inv'
  <1>t. /\ canvas \in Canvas /\ org \in State /\ loaded \in BOOLEAN /\ CanvasFits(canvas, org, loaded)
        /\ StateTrue(org, rows, entries, rooms) /\ agreed \subseteq Nodes \X Nodes
        /\ confirm \in {Nobody} \cup (Nodes \X Nodes) /\ cache \in (SUBSET Agents) \cup {NoList}
    BY DEF Inv, Typed
  <1>k. ASSUME UNCHANGED <<unasked, panel>>, call' \in [Calls -> CallRow],
               CallsTrue(call', rows, entries, rooms, agreed'), canvas' = canvas \/ canvas' = renderGraphView(canvas, org),
               confirm' \in {Nobody} \cup (Nodes \X Nodes), agreed \subseteq agreed', agreed' \subseteq Nodes \X Nodes
        PROVE  Inv'
    <2>1. /\ rows' = rows /\ entries' = entries /\ rooms' = rooms /\ Staff /\ loaded' = loaded /\ org' = org
          /\ load' = load /\ panel' = panel
      BY <1>k DEF unasked, server, Staff
    <2>2. canvas' \in Canvas /\ CanvasFits(canvas', org', loaded')
      BY <1>k, <1>t, <2>1, RenderFits
    <2>3. PageKept
      BY <1>k, <2>1, <2>2 DEF Inv, Typed, PageKept, Staff
    <2> QED BY <2>3, PageStep
  <1>d. \A src, tgt : DropType(src, tgt) # "none" => DropType(src, tgt) \in RelTypes \ Access
    BY DEF DropType, RelTypes, Access
  <1>a. ASSUME NEW type \in RelTypes, NEW src \in Nodes, NEW tgt \in Nodes, NEW via \in {"drop", "confirm", "gone", "edit"},
               type \in Access => <<src, tgt>> \in agreed', agreed \subseteq agreed', Ask(Add(type, src, tgt, via))
        PROVE  call' \in [Calls -> CallRow] /\ CallsTrue(call', rows, entries, rooms, agreed')
    <2> DEFINE what == Add(type, src, tgt, via)
    <2>1. what \in Asked
      BY AskedKinds
    <2>2. what.op = "add" /\ what.row.type = type /\ what.row.src = src /\ what.row.tgt = tgt
      BY DEF Add
    <2> HIDE DEF what
    <2>3. WhatTrue(what, rows, agreed')
      BY <1>a, <2>2 DEF WhatTrue
    <2> QED BY <1>a, <2>1, <2>2, <2>3, AskFacts DEF what
  <1>1. ASSUME NEW src \in Nodes, NEW tgt \in Nodes, handleDrop(src, tgt) PROVE Inv'
    <2>1. UNCHANGED <<unasked, panel>> /\ agreed' = agreed
      BY <1>1 DEF handleDrop
    <2>2. CASE DropType(src, tgt) # "none"
      <3> DEFINE type == DropType(src, tgt)
      <3>1. type \in RelTypes \ Access /\ confirm' = confirm /\ createOrNotify(type, src, tgt)
        BY <1>1, <1>d, <2>2 DEF handleDrop
      <3> HIDE DEF type
      <3>2. CASE Connected(type, src, tgt)
        <4>1. canvas' = renderGraphView(canvas, org) /\ call' = call
          BY <3>1, <3>2 DEF createOrNotify
        <4> QED BY <1>k, <1>t, <2>1, <3>1, <4>1, CallsLeft
      <3>3. CASE ~Connected(type, src, tgt)
        <4>1. canvas' = canvas /\ Ask(Add(type, src, tgt, "drop"))
          BY <3>1, <3>3 DEF createOrNotify
        <4>2. call' \in [Calls -> CallRow] /\ CallsTrue(call', rows, entries, rooms, agreed')
          BY <1>a, <2>1, <3>1, <4>1
        <4> QED BY <1>k, <1>t, <2>1, <3>1, <4>1, <4>2
      <3> QED BY <3>2, <3>3
    <2>3. CASE DropType(src, tgt) = "none"
      <3>1. /\ call' = call /\ (canvas' = canvas \/ canvas' = renderGraphView(canvas, org))
            /\ confirm' = confirm \/ confirm' = <<src, tgt>>
        BY <1>1, <2>3 DEF handleDrop
      <3>2. confirm' \in {Nobody} \cup (Nodes \X Nodes)
        BY <1>t, <3>1
      <3> QED BY <1>k, <1>t, <2>1, <3>1, <3>2, CallsLeft
    <2> QED BY <2>2, <2>3
  <1>2. ASSUME NEW src \in Nodes, NEW tgt \in Nodes, EditAdd(src, tgt) PROVE Inv'
    <2>1. UNCHANGED <<unasked, panel>> /\ agreed' = agreed /\ canvas' = canvas
      BY <1>2 DEF EditAdd
    <2>2. CASE AsksAccess(src, tgt)
      <3>1. confirm' = <<src, tgt>> /\ call' = call
        BY <1>2, <2>2 DEF EditAdd
      <3>2. confirm' \in {Nobody} \cup (Nodes \X Nodes)
        BY <3>1
      <3> QED BY <1>k, <1>t, <2>1, <3>1, <3>2, CallsLeft
    <2>3. CASE ~AsksAccess(src, tgt)
      <3> DEFINE type == DropType(src, tgt)
      <3>1. type \in RelTypes \ Access /\ confirm' = confirm /\ Ask(Add(type, src, tgt, "edit"))
        BY <1>2, <1>d, <2>3 DEF EditAdd
      <3> HIDE DEF type
      <3>2. call' \in [Calls -> CallRow] /\ CallsTrue(call', rows, entries, rooms, agreed')
        BY <1>a, <2>1, <3>1
      <3> QED BY <1>k, <1>t, <2>1, <3>1, <3>2
    <2> QED BY <2>2, <2>3
  <1>3. ASSUME NEW type \in Access, ConfirmChoose(type) PROVE Inv'
    <2>1. /\ UNCHANGED <<unasked, panel>> /\ canvas' = canvas /\ confirm' = confirm /\ confirm # Nobody
          /\ agreed' = agreed \cup {confirm} /\ Ask(Add(type, confirm[1], confirm[2], "confirm"))
      BY <1>3 DEF ConfirmChoose
    <2>2. confirm \in Nodes \X Nodes
      BY <1>t, <2>1
    <2>3. confirm[1] \in Nodes /\ confirm[2] \in Nodes /\ <<confirm[1], confirm[2]>> = confirm
      BY <2>2
    <2>4. type \in RelTypes /\ <<confirm[1], confirm[2]>> \in agreed' /\ agreed \subseteq agreed'
          /\ agreed' \subseteq Nodes \X Nodes
      BY <1>t, <2>1, <2>2, <2>3 DEF Access, RelTypes
    <2>5. call' \in [Calls -> CallRow] /\ CallsTrue(call', rows, entries, rooms, agreed')
      BY <1>a, <2>1, <2>3, <2>4
    <2> QED BY <1>k, <1>t, <2>1, <2>4, <2>5
  <1>4. CASE ConfirmClose
    <2>1. call' = Orphaned(call) /\ agreed' = agreed
      BY <1>4 DEF ConfirmClose
    <2>2. call' \in [Calls -> CallRow] /\ CallsTrue(call', rows, entries, rooms, agreed')
      BY <2>1, OrphanedFacts DEF Inv, Typed
    <2> QED BY <1>4, <1>k, <1>t, <2>2 DEF ConfirmClose
  <1>7. CASE DropBeside
    BY <1>7, <1>k, <1>t, CallsLeft DEF DropBeside
  <1>5. ASSUME NEW i \in 1..Len(org.rels), EditRemove(i) PROVE Inv'
    <2> DEFINE id == org.rels[i].id
               what == [op |-> "remove", id |-> id]
    <2>1. UNCHANGED <<unasked, panel>> /\ agreed' = agreed /\ canvas' = canvas /\ confirm' = confirm /\ Ask(what)
      BY <1>5 DEF EditRemove
    <2>2. org.rels \in Seq(Rel) /\ i \in DOMAIN org.rels
      BY <1>t, LenProperties DEF State, Rel
    <2>3. org.rels[i] \in Rel
      BY <2>2, ElementOfSeq
    <2>4. id \in 1..MaxRows /\ id \in DOMAIN rows
      BY <1>t, <2>2, <2>3 DEF Rel, StateTrue
    <2> HIDE DEF id
    <2>5. what \in Asked /\ what.op = "remove" /\ what.id = id
      BY <2>4, AskedKinds
    <2> HIDE DEF what
    <2>6. WhatTrue(what, rows, agreed')
      BY <2>4, <2>5 DEF WhatTrue
    <2>7. call' \in [Calls -> CallRow] /\ CallsTrue(call', rows, entries, rooms, agreed')
      BY <2>1, <2>5, <2>6, AskFacts
    <2> QED BY <1>k, <1>t, <2>1, <2>7
  <1>6. ASSUME NEW kind \in Kinds, Create(kind) PROVE Inv'
    <2> DEFINE what == [op |-> "create", kind |-> kind]
    <2>1. UNCHANGED <<unasked, panel>> /\ agreed' = agreed /\ canvas' = canvas /\ confirm' = confirm /\ Ask(what)
      BY <1>6 DEF Create
    <2>2. what \in Asked /\ what.op = "create"
      BY AskedKinds
    <2> HIDE DEF what
    <2>3. WhatTrue(what, rows, agreed')
      BY <2>2 DEF WhatTrue
    <2>4. call' \in [Calls -> CallRow] /\ CallsTrue(call', rows, entries, rooms, agreed')
      BY <2>1, <2>2, <2>3, AskFacts
    <2> QED BY <1>k, <1>t, <2>1, <2>4
  <1> QED BY <1>1, <1>2, <1>3, <1>4, <1>5, <1>6, <1>7 DEF Editing, Access

-----------------------------------------------------------------------------
(* Steps of the server: rows are added or marked as removed, nothing else. *)

Grown(rs, es, ms, rs2, es2, ms2) ==
    /\ \A i \in DOMAIN rs : /\ i \in DOMAIN rs2 /\ (rs[i].removed => rs2[i].removed)
                            /\ rs2[i].type = rs[i].type /\ rs2[i].src = rs[i].src /\ rs2[i].tgt = rs[i].tgt
    /\ \A i \in DOMAIN es : i \in DOMAIN es2 /\ es2[i] = es[i]
    /\ \A i \in DOMAIN ms : i \in DOMAIN ms2 /\ ms2[i] = ms[i]

\* What was true of the server stays true of it.
LEMMA GrownTrue ==
    ASSUME NEW rs, NEW es, NEW ms, NEW rs2, NEW es2, NEW ms2, Grown(rs, es, ms, rs2, es2, ms2)
    PROVE  /\ \A st : StateTrue(st, rs, es, ms) => StateTrue(st, rs2, es2, ms2)
           /\ \A pn : PanelTrue(pn, ms) => PanelTrue(pn, ms2)
           /\ \A one, ag : CallTrue(one, rs, es, ms, ag) => CallTrue(one, rs2, es2, ms2, ag)
  BY DEF Grown, StateTrue, PanelTrue, CallTrue, WhatTrue, AnswerTrue

\* A state that is true of the server looks the same after such a step.
LEMMA BuildGrown ==
    ASSUME StateTrue(org, rows, entries, rooms), Grown(rows, entries, rooms, rows', entries', rooms'),
           org' = org, canvas' = canvas
    PROVE  buildElements(org, canvas.drawn.nodes \cap Agents, canvas.lens)'
               = buildElements(org, canvas.drawn.nodes \cap Agents, canvas.lens)
  <1> DEFINE lens == canvas.lens
             people == canvas.drawn.nodes \cap Agents
             nodes == people \cup {n \in org.entries : entries[n] \in LensKinds[lens]}
             typed == {i \in ActiveEdges(org) : Edge(org, i).type \in LensTypes[lens]}
             chosen == IF lens = "organisation" THEN FirstOfSource(org, typed) ELSE typed
             edges == {org.rels[i].id : i \in {j \in chosen : {Edge(org, j).src, Edge(org, j).tgt} \subseteq nodes}}
  <1>1. \A i \in DOMAIN org.rels :
            /\ Edge(org, i)'.type = Edge(org, i).type
            /\ Edge(org, i)'.src = Edge(org, i).src /\ Edge(org, i)'.tgt = Edge(org, i).tgt
    BY DEF StateTrue, Grown, Edge
  <1>2. ActiveEdges(org)' = ActiveEdges(org) /\ ActiveEdges(org) \subseteq DOMAIN org.rels
    BY DEF ActiveEdges
  <1>3. \A n \in org.entries : entries'[n] = entries[n]
    BY DEF StateTrue, Grown
  <1>4. nodes' = nodes
    BY <1>3 DEF LensKinds
  <1>5. typed' = typed /\ typed \subseteq DOMAIN org.rels
    BY <1>1, <1>2 DEF LensTypes
  <1> HIDE DEF nodes, typed
  <1>6. FirstOfSource(org, typed)' = FirstOfSource(org, typed)
    BY <1>1, <1>5 DEF FirstOfSource
  <1>7. chosen' = chosen /\ chosen \subseteq DOMAIN org.rels
    BY <1>5, <1>6 DEF FirstOfSource
  <1> HIDE DEF chosen
  <1>8. edges' = edges
    BY <1>1, <1>4, <1>7
  <1>9. buildElements(org, people, lens) = [lens |-> lens, nodes |-> nodes, edges |-> edges]
    BY DEF buildElements, nodes, typed, chosen
  <1>10. buildElements(org, people, lens)' = [lens |-> lens', nodes |-> nodes', edges |-> edges']
    BY DEF buildElements, nodes, typed, chosen
  <1> HIDE DEF edges
  <1> QED BY <1>4, <1>8, <1>9, <1>10

\* The server handles a request: the rows it had stay, and the answer names
\* the one it added or marked.
LEMMA EffectFacts ==
    ASSUME Inv, NEW what \in Asked, WhatTrue(what, rows, agreed), Effect(what)
    PROVE  /\ rows' \in Seq(Row) /\ entries' \in Seq(Kinds) /\ rooms' \in Seq(Hosts)
           /\ Bounded(rows', entries', rooms') /\ Grown(rows, entries, rooms, rows', entries', rooms')
           /\ AccessChosen(rows', agreed) /\ New(what) \in Nat
           /\ \A one : one.at = "answered" /\ one.what = what /\ one.new = New(what)
                       => AnswerTrue(one, rows', entries', rooms')
  <1>t. /\ rows \in Seq(Row) /\ entries \in Seq(Kinds) /\ rooms \in Seq(Hosts)
        /\ Len(rows) \in Nat /\ Len(entries) \in Nat /\ Len(rooms) \in Nat
        /\ DOMAIN rows = 1..Len(rows) /\ DOMAIN entries = 1..Len(entries) /\ DOMAIN rooms = 1..Len(rooms)
        /\ Bounded(rows, entries, rooms) /\ AccessChosen(rows, agreed)
    BY LenProperties DEF Inv, Typed
  <1>b. MaxRows \in Nat /\ MaxEntries \in Nat /\ MaxRooms \in Nat
    BY BoundsAssumption
  <1>s. ASSUME NEW S, NEW s \in Seq(S), NEW e \in S
        PROVE  /\ Append(s, e) \in Seq(S) /\ Len(Append(s, e)) = Len(s) + 1 /\ Len(s) \in Nat
               /\ DOMAIN s = 1..Len(s) /\ DOMAIN Append(s, e) = 1..(Len(s) + 1)
               /\ Append(s, e)[Len(s) + 1] = e /\ \A i \in 1..Len(s) : Append(s, e)[i] = s[i]
    BY AppendProperties, LenProperties
  <1>1. CASE what.op = "add"
    <2> DEFINE row == [type |-> what.row.type, src |-> what.row.src, tgt |-> what.row.tgt, removed |-> FALSE]
    <2>1. rows' = Append(rows, row) /\ Len(rows) < MaxRows /\ entries' = entries /\ rooms' = rooms
      BY <1>1 DEF Effect, add_relationship
    <2>2. /\ row \in Row /\ row.type = what.row.type /\ row.src = what.row.src /\ row.tgt = what.row.tgt
      BY <1>1, AskedFacts DEF Row
    <2> HIDE DEF row
    <2>3. /\ rows' \in Seq(Row) /\ Len(rows') = Len(rows) + 1 /\ DOMAIN rows' = 1..(Len(rows) + 1)
          /\ rows'[Len(rows) + 1] = row /\ \A i \in 1..Len(rows) : rows'[i] = rows[i]
      BY <1>s, <1>t, <2>1, <2>2
    <2>4. \A i \in 1..(Len(rows) + 1) : i \in 1..Len(rows) \/ i = Len(rows) + 1
      BY <1>t
    <2>5. Bounded(rows', entries', rooms')
      BY <1>t, <1>b, <2>1, <2>3 DEF Bounded
    <2>6. Grown(rows, entries, rooms, rows', entries', rooms')
      BY <1>t, <2>1, <2>3 DEF Grown
    <2>7. AccessChosen(rows', agreed)
      BY <1>1, <1>t, <2>2, <2>3, <2>4 DEF AccessChosen, WhatTrue
    <2>8. New(what) = Len(rows) + 1
      BY <1>1 DEF New
    <2>9. New(what) \in Nat /\ New(what) \in DOMAIN rows'
      BY <1>t, <2>3, <2>8
    <2> QED BY <1>1, <1>t, <2>1, <2>3, <2>5, <2>6, <2>7, <2>9 DEF AnswerTrue
  <1>2. CASE what.op = "remove"
    <2> DEFINE id == what.id
               row == [rows[id] EXCEPT !.removed = TRUE]
    <2>1. id \in 1..Len(rows) /\ rows[id] \in Row
      BY <1>2, <1>t, ElementOfSeq DEF WhatTrue
    <2>2. rows' = [rows EXCEPT ![id] = row] /\ entries' = entries /\ rooms' = rooms
      BY <1>2 DEF Effect, remove_relationship
    <2>3. /\ row \in Row /\ row.removed = TRUE /\ row.type = rows[id].type
          /\ row.src = rows[id].src /\ row.tgt = rows[id].tgt
      BY <2>1 DEF Row
    <2> HIDE DEF row
    <2>4. /\ rows' \in Seq(Row) /\ Len(rows') = Len(rows)
          /\ \A i \in 1..Len(rows) : rows'[i] = IF i = id THEN row ELSE rows[i]
      BY <1>t, <2>1, <2>2, <2>3, ExceptSeq
    <2>5. DOMAIN rows' = 1..Len(rows)
      BY <2>4, LenProperties
    <2>6. Bounded(rows', entries', rooms')
      BY <1>t, <2>2, <2>4 DEF Bounded
    <2>7. Grown(rows, entries, rooms, rows', entries', rooms')
      BY <1>t, <2>1, <2>2, <2>3, <2>4, <2>5 DEF Grown
    <2>8. AccessChosen(rows', agreed)
      BY <1>t, <2>1, <2>3, <2>4, <2>5 DEF AccessChosen
    <2>9. New(what) = id
      BY <1>2 DEF New
    <2>10. New(what) \in Nat /\ New(what) \in DOMAIN rows' /\ rows'[New(what)].removed
      BY <1>t, <2>1, <2>3, <2>4, <2>5, <2>9
    <2> QED BY <1>2, <1>t, <2>2, <2>4, <2>6, <2>7, <2>8, <2>10 DEF AnswerTrue
  <1>3. CASE what.op = "create"
    <2>1. entries' = Append(entries, what.kind) /\ Len(entries) < MaxEntries /\ rows' = rows /\ rooms' = rooms
      BY <1>3 DEF Effect, create_entry
    <2>2. what.kind \in Kinds
      BY <1>3, AskedFacts
    <2>3. /\ entries' \in Seq(Kinds) /\ Len(entries') = Len(entries) + 1 /\ DOMAIN entries' = 1..(Len(entries) + 1)
          /\ \A i \in 1..Len(entries) : entries'[i] = entries[i]
      BY <1>s, <1>t, <2>1, <2>2
    <2>4. Bounded(rows', entries', rooms')
      BY <1>t, <1>b, <2>1, <2>3 DEF Bounded
    <2>5. Grown(rows, entries, rooms, rows', entries', rooms')
      BY <1>t, <2>1, <2>3 DEF Grown
    <2>6. New(what) = Len(entries) + 1
      BY <1>3 DEF New
    <2>7. New(what) \in Nat /\ New(what) \in DOMAIN entries'
      BY <1>t, <2>3, <2>6
    <2> QED BY <1>3, <1>t, <2>1, <2>3, <2>4, <2>5, <2>7 DEF AnswerTrue
  <1>4. CASE what.op = "room"
    <2>1. rooms' = Append(rooms, what.host) /\ Len(rooms) < MaxRooms /\ rows' = rows /\ entries' = entries
      BY <1>4 DEF Effect, create_room
    <2>2. what.host \in Hosts
      BY <1>4, AskedFacts
    <2>3. /\ rooms' \in Seq(Hosts) /\ Len(rooms') = Len(rooms) + 1 /\ DOMAIN rooms' = 1..(Len(rooms) + 1)
          /\ \A i \in 1..Len(rooms) : rooms'[i] = rooms[i]
      BY <1>s, <1>t, <2>1, <2>2
    <2>4. Bounded(rows', entries', rooms')
      BY <1>t, <1>b, <2>1, <2>3 DEF Bounded
    <2>5. Grown(rows, entries, rooms, rows', entries', rooms')
      BY <1>t, <2>1, <2>3 DEF Grown
    <2>6. New(what) = Len(rooms) + 1
      BY <1>4 DEF New
    <2>7. New(what) \in Nat /\ New(what) \in DOMAIN rooms'
      BY <1>t, <2>3, <2>6
    <2> QED BY <1>4, <1>t, <2>1, <2>3, <2>4, <2>5, <2>7 DEF AnswerTrue
  <1> QED BY <1>1, <1>2, <1>3, <1>4 DEF Effect

\* A request the server has handled keeps the invariant.
LEMMA HandledStep ==
    ASSUME Inv, NEW c \in Calls, NEW lost \in BOOLEAN, CallHandled(c, lost)
    PROVE  Inv'
  <1> DEFINE old == call[c]
             what == call[c].what
             one == IF lost THEN [old EXCEPT !.at = "failed"] ELSE [old EXCEPT !.at = "answered", !.new = New(what)]
  <1>1. /\ loaded' = loaded /\ org' = org /\ load' = load /\ canvas' = canvas /\ confirm' = confirm
        /\ agreed' = agreed /\ panel' = panel /\ call' = [call EXCEPT ![c] = one] /\ Effect(what) /\ old.at = "asked"
        /\ Staff
    BY DEF CallHandled, Staff
  <1>2. old \in CallRow /\ call \in [Calls -> CallRow] /\ CallTrue(old, rows, entries, rooms, agreed)
    BY DEF Inv, Typed, CallsTrue
  <1>3. what \in Asked /\ WhatTrue(what, rows, agreed) /\ what.op # "none"
    BY <1>1, <1>2 DEF CallRow, CallTrue
  <1>4. /\ rows' \in Seq(Row) /\ entries' \in Seq(Kinds) /\ rooms' \in Seq(Hosts)
        /\ Bounded(rows', entries', rooms') /\ Grown(rows, entries, rooms, rows', entries', rooms')
        /\ AccessChosen(rows', agreed) /\ New(what) \in Nat
        /\ \A x : x.at = "answered" /\ x.what = what /\ x.new = New(what) => AnswerTrue(x, rows', entries', rooms')
    BY <1>1, <1>3, EffectFacts
  <1>5. one \in CallRow /\ one.what = what /\ (one.at = "failed" \/ (one.at = "answered" /\ one.new = New(what)))
    <2> DEFINE new == New(what)
    <2>1. new \in Nat
      BY <1>4
    <2> HIDE DEF new
    <2>2. [old EXCEPT !.at = "failed"] \in CallRow /\ [old EXCEPT !.at = "failed"].at = "failed"
          /\ [old EXCEPT !.at = "failed"].what = old.what
      BY <1>2 DEF CallRow
    <2>3. /\ [old EXCEPT !.at = "answered", !.new = new] \in CallRow
          /\ [old EXCEPT !.at = "answered", !.new = new].at = "answered"
          /\ [old EXCEPT !.at = "answered", !.new = new].new = new
          /\ [old EXCEPT !.at = "answered", !.new = new].what = old.what
      BY <1>2, <2>1 DEF CallRow
    <2> QED BY <2>2, <2>3 DEF new
  <1> HIDE DEF one, what, old
  <1>6. WhatTrue(what, rows', agreed)
    BY <1>3, <1>4 DEF WhatTrue, Grown
  <1>7. CallTrue(one, rows', entries', rooms', agreed)
    BY <1>3, <1>4, <1>5, <1>6 DEF CallTrue, AnswerTrue
  <1>8. /\ \A d \in Calls : CallTrue(call[d], rows', entries', rooms', agreed)
        /\ StateTrue(org, rows', entries', rooms') /\ PanelTrue(panel, rooms')
        /\ \A l \in Loads : StateTrue(load[l].snap, rows', entries', rooms')
    BY <1>4, GrownTrue DEF Inv, CallsTrue, LoadsTrue
  <1>9. call' \in [Calls -> CallRow] /\ CallsTrue(call', rows', entries', rooms', agreed)
    BY <1>1, <1>2, <1>5, <1>7, <1>8 DEF CallsTrue
  <1>10. CanvasFits(canvas, org, loaded)'
    <2>1. buildElements(org, canvas.drawn.nodes \cap Agents, canvas.lens)'
              = buildElements(org, canvas.drawn.nodes \cap Agents, canvas.lens)
      BY <1>1, <1>4, BuildGrown DEF Inv
    <2> QED BY <1>1, <2>1 DEF Inv, CanvasFits, Draws
  <1>11. Typed'
    BY <1>1, <1>4, <1>9 DEF Inv, Typed, Staff
  <1> QED BY <1>1, <1>4, <1>8, <1>9, <1>10, <1>11 DEF Inv, LoadsTrue

-----------------------------------------------------------------------------
(* The answers.                                                            *)

\* What an answer pushes into the state is true of the server, also when the
\* state has been loaded again since the request was made.
LEMMA PushedFacts ==
    ASSUME Inv, NEW c \in Calls, call[c].at = "answered"
    PROVE  /\ Pushed(call[c].what, call[c].new) \in State
           /\ StateTrue(Pushed(call[c].what, call[c].new), rows, entries, rooms)
  <1> DEFINE what == call[c].what
             new == call[c].new
             st == Pushed(what, new)
             Rels == Seq(Rel)
             Es == SUBSET Entries
             Ms == Seq(1..MaxRooms)
  <1>1. call[c] \in CallRow /\ AnswerTrue(call[c], rows, entries, rooms)
    BY DEF Inv, Typed, CallsTrue, CallTrue
  <1>2. what \in Asked /\ new \in Nat
    BY <1>1 DEF CallRow
  <1>3. /\ what.op # "none" /\ (what.op = "add" => new \in DOMAIN rows)
        /\ what.op = "remove" => new \in DOMAIN rows /\ rows[new].removed
        /\ what.op = "create" => new \in DOMAIN entries
        /\ what.op = "room" => new \in DOMAIN rooms
    BY <1>1 DEF AnswerTrue
  <1>4. what.op \in {"add", "remove", "create", "room"}
    BY <1>2, <1>3, AskedFacts
  <1>5. State = [agents : SUBSET Agents, rels : Rels, entries : Es, rooms : Ms] /\ org \in State /\ StateTrue(org, rows, entries, rooms)
    BY DEF Inv, Typed, State, Rel
  <1>6. org.rels \in Seq(Rel) /\ org.entries \subseteq Entries /\ org.rooms \in Seq(1..MaxRooms)
    BY <1>5 DEF Rels, Es, Ms
  <1>7. /\ DOMAIN rows = 1..Len(rows) /\ Len(rows) \in Nat /\ Len(rows) <= MaxRows
        /\ DOMAIN entries = 1..Len(entries) /\ Len(entries) \in Nat /\ Len(entries) <= MaxEntries
        /\ DOMAIN rooms = 1..Len(rooms) /\ Len(rooms) \in Nat /\ Len(rooms) <= MaxRooms
    BY LenProperties DEF Inv, Typed, Bounded
  <1>8. /\ DOMAIN rows \subseteq 1..MaxRows /\ DOMAIN entries \subseteq Entries /\ DOMAIN rooms \subseteq 1..MaxRooms
    BY <1>7, BoundsAssumption DEF Entries
  <1>s. ASSUME NEW S, NEW s \in Seq(S), NEW e \in S
        PROVE  /\ Append(s, e) \in Seq(S)
               /\ \A i \in DOMAIN Append(s, e) : (i \in DOMAIN s /\ Append(s, e)[i] = s[i]) \/ Append(s, e)[i] = e
    <2>1. /\ Append(s, e) \in Seq(S) /\ Len(s) \in Nat /\ DOMAIN s = 1..Len(s) /\ Len(Append(s, e)) = Len(s) + 1
          /\ Append(s, e)[Len(s) + 1] = e /\ \A i \in 1..Len(s) : Append(s, e)[i] = s[i]
      BY <1>s, AppendProperties, LenProperties
    <2>2. DOMAIN Append(s, e) = 1..(Len(s) + 1)
      BY <2>1, LenProperties
    <2>3. \A i \in 1..(Len(s) + 1) : i \in 1..Len(s) \/ i = Len(s) + 1
      BY <2>1
    <2> QED BY <2>1, <2>2, <2>3
  <1> HIDE DEF what, new, Rels, Es, Ms
  <1>9. CASE what.op = "add"
    <2> DEFINE rel == [id |-> new, removed |-> FALSE]
               rels == Append(org.rels, rel)
    <2>1. st = [org EXCEPT !.rels = rels]
      BY <1>9 DEF Pushed
    <2>2. rel \in Rel /\ rel.id = new /\ rel.removed = FALSE /\ new \in DOMAIN rows
      BY <1>3, <1>8, <1>9 DEF Rel
    <2> HIDE DEF rel
    <2>3. /\ rels \in Rels
          /\ \A i \in DOMAIN rels : (i \in DOMAIN org.rels /\ rels[i] = org.rels[i]) \/ rels[i] = rel
      BY <1>6, <1>s, <2>2 DEF Rels
    <2> HIDE DEF rels
    <2>4. st \in State /\ st.rels = rels /\ st.entries = org.entries /\ st.rooms = org.rooms
      BY <1>5, <2>1, <2>3
    <2> HIDE DEF st
    <2>5. StateTrue(st, rows, entries, rooms)
      BY <1>5, <2>2, <2>3, <2>4 DEF StateTrue
    <2> QED BY <2>4, <2>5 DEF st, what, new
  <1>10. CASE what.op = "create"
    <2> DEFINE es == org.entries \cup {new}
    <2>1. st = [org EXCEPT !.entries = es]
      BY <1>10 DEF Pushed
    <2>2. new \in Entries /\ new \in DOMAIN entries
      BY <1>3, <1>8, <1>10
    <2>3. es \in Es /\ \A n \in es : n \in org.entries \/ n = new
      BY <1>6, <2>2 DEF Es
    <2> HIDE DEF es
    <2>4. st \in State /\ st.rels = org.rels /\ st.entries = es /\ st.rooms = org.rooms
      BY <1>5, <2>1, <2>3
    <2> HIDE DEF st
    <2>5. StateTrue(st, rows, entries, rooms)
      BY <1>5, <2>2, <2>3, <2>4 DEF StateTrue
    <2> QED BY <2>4, <2>5 DEF st, what, new
  <1>11. CASE what.op = "room"
    <2> DEFINE ms == Append(org.rooms, new)
    <2>1. st = [org EXCEPT !.rooms = ms]
      BY <1>11 DEF Pushed
    <2>2. new \in 1..MaxRooms /\ new \in DOMAIN rooms
      BY <1>3, <1>8, <1>11
    <2>3. /\ ms \in Ms
          /\ \A i \in DOMAIN ms : (i \in DOMAIN org.rooms /\ ms[i] = org.rooms[i]) \/ ms[i] = new
      BY <1>6, <1>s, <2>2 DEF Ms
    <2> HIDE DEF ms
    <2>4. st \in State /\ st.rels = org.rels /\ st.entries = org.entries /\ st.rooms = ms
      BY <1>5, <2>1, <2>3
    <2> HIDE DEF st
    <2>5. StateTrue(st, rows, entries, rooms)
      BY <1>5, <2>2, <2>3, <2>4 DEF StateTrue
    <2> QED BY <2>4, <2>5 DEF st, what, new
  <1>12. CASE what.op = "remove"
    <2> DEFINE old == org.rels
               rels == Marked(old, new)
    <2>1. st = [org EXCEPT !.rels = rels]
      BY <1>12 DEF Pushed
    <2>2. old \in Seq(Rel) /\ Len(old) \in Nat /\ DOMAIN old = 1..Len(old) /\ rows[new].removed /\ new \in DOMAIN rows
      BY <1>3, <1>6, <1>12, LenProperties
    <2>3. \A i \in DOMAIN old : old[i] \in Rel
      BY <2>2, ElementOfSeq
    <2>4. ASSUME NEW i \in DOMAIN old
          PROVE  /\ rels[i] \in Rel /\ rels[i].id = old[i].id
                 /\ rels[i].removed => old[i].removed \/ old[i].id = new
      <3> DEFINE marked == [old[i] EXCEPT !.removed = TRUE]
      <3>1. rels[i] = old[i] \/ (rels[i] = marked /\ old[i].id = new)
        BY DEF Marked
      <3>2. old[i] \in Rel
        BY <2>3
      <3>3. marked \in Rel /\ marked.id = old[i].id
        BY <3>2 DEF Rel
      <3> HIDE DEF marked, old, rels
      <3> QED BY <3>1, <3>2, <3>3
    <2>5. rels = [i \in DOMAIN old |-> rels[i]]
      BY DEF Marked
    <2> HIDE DEF rels
    <2>6. rels \in [1..Len(old) -> Rel] /\ DOMAIN rels = DOMAIN old
      BY <2>2, <2>4, <2>5
    <2>7. rels \in Rels
      <3>1. \A S, n, f : n \in Nat /\ f \in [1..n -> S] => f \in Seq(S)
        OBVIOUS
      <3> QED BY <2>2, <2>6, <3>1 DEF Rels
    <2>8. st \in State /\ st.rels = rels /\ st.entries = org.entries /\ st.rooms = org.rooms
      BY <1>5, <2>1, <2>7
    <2> HIDE DEF st
    <2>9. StateTrue(st, rows, entries, rooms)
      BY <1>5, <2>2, <2>4, <2>6, <2>8 DEF StateTrue
    <2> QED BY <2>8, <2>9 DEF st, what, new
  <1> QED BY <1>4, <1>9, <1>10, <1>11, <1>12

\* The steps in which an answer or a failure arrives keep the invariant.
LEMMA AnsweringStep ==
    ASSUME Inv, Answering
    PROVE  Inv'
  <1>t. /\ canvas \in Canvas /\ org \in State /\ loaded \in BOOLEAN /\ CanvasFits(canvas, org, loaded)
        /\ cache \in (SUBSET Agents) \cup {NoList}
    BY DEF Inv, Typed
  <1>1. ASSUME NEW c \in Calls, CallRefused(c) PROVE Inv'
    <2> DEFINE one == [call[c] EXCEPT !.at = "failed"]
    <2>1. /\ rows' = rows /\ entries' = entries /\ rooms' = rooms /\ Staff /\ loaded' = loaded /\ org' = org /\ load' = load
          /\ canvas' = canvas /\ confirm' = confirm /\ agreed' = agreed /\ panel' = panel
          /\ call' = [call EXCEPT ![c] = one] /\ call[c].at = "asked"
      BY <1>1 DEF CallRefused, server, Staff
    <2>2. call[c] \in CallRow /\ CallTrue(call[c], rows, entries, rooms, agreed)
      BY DEF Inv, Typed, CallsTrue
    <2>3. one \in CallRow /\ one.at = "failed" /\ one.what = call[c].what
      BY <2>2 DEF CallRow
    <2> HIDE DEF one
    <2>4. CallTrue(one, rows, entries, rooms, agreed)
      BY <2>1, <2>2, <2>3 DEF CallTrue, AnswerTrue
    <2>5. call' \in [Calls -> CallRow] /\ CallsTrue(call', rows, entries, rooms, agreed')
      BY <2>1, <2>3, <2>4 DEF Inv, Typed, CallsTrue
    <2>6. PageKept
      BY <2>1, <2>5 DEF Inv, Typed, PageKept, Staff
    <2> QED BY <2>6, PageStep
  <1>2. ASSUME NEW c \in Calls, CallFailed(c) PROVE Inv'
    <2>1. /\ rows' = rows /\ entries' = entries /\ rooms' = rooms /\ Staff /\ loaded' = loaded /\ org' = org /\ load' = load
          /\ confirm' = confirm /\ agreed' = agreed /\ panel' = panel /\ call' = [call EXCEPT ![c] = NoCall]
          /\ canvas' = canvas \/ canvas' = renderGraphView(canvas, org)
      BY <1>2 DEF CallFailed, Settled, server, Staff
    <2>2. canvas' \in Canvas /\ CanvasFits(canvas', org', loaded')
      BY <1>t, <2>1, RenderFits
    <2>3. call' \in [Calls -> CallRow] /\ CallsTrue(call', rows, entries, rooms, agreed')
      BY <2>1, SettledFacts
    <2>4. PageKept
      BY <2>1, <2>2, <2>3 DEF Inv, Typed, PageKept, Staff
    <2> QED BY <2>4, PageStep
  <1>3. ASSUME NEW c \in Calls, CallAnswered(c) PROVE Inv'
    <2> DEFINE what == call[c].what
               new == call[c].new
               st == Pushed(what, new)
    <2>1. /\ rows' = rows /\ entries' = entries /\ rooms' = rooms /\ Staff /\ loaded' = loaded /\ org' = st /\ load' = load
          /\ agreed' = agreed /\ call[c].at = "answered"
          /\ LET left == [call EXCEPT ![c] = NoCall] IN call' \in {left, Orphaned(left)}
          /\ canvas' \in Settled(what, notify(canvas, st), st)
          /\ confirm' = Nobody \/ confirm' = confirm
          /\ panel' = IF what.op = "room" THEN [panel EXCEPT !.room = new] ELSE panel
      BY <1>3 DEF CallAnswered, server, Staff
    <2>2. st \in State /\ StateTrue(st, rows, entries, rooms)
      BY <2>1, PushedFacts
    <2>3. panel' \in Panel /\ PanelTrue(panel', rooms)
      <3>1. AnswerTrue(call[c], rows, entries, rooms) /\ panel \in Panel /\ PanelTrue(panel, rooms)
        BY DEF Inv, Typed, CallsTrue, CallTrue
      <3>2. CASE what.op = "room"
        <4>1. new \in DOMAIN rooms
          BY <2>1, <3>1, <3>2 DEF AnswerTrue
        <4>2. new \in 0..MaxRooms
          BY <4>1, LenProperties, BoundsAssumption DEF Inv, Typed, Bounded
        <4> DEFINE pn == [panel EXCEPT !.room = new]
        <4> HIDE DEF new
        <4>3. pn \in Panel /\ pn.room = new /\ pn.messages = panel.messages
          BY <3>1, <4>2 DEF Panel
        <4>4. panel' = pn
          BY <2>1, <3>2
        <4> HIDE DEF pn
        <4> QED BY <3>1, <4>1, <4>3, <4>4 DEF PanelTrue
      <3>3. CASE what.op # "room"
        BY <2>1, <3>1, <3>3
      <3> QED BY <3>2, <3>3
    <2> HIDE DEF st
    <2>4. canvas' \in Canvas /\ CanvasFits(canvas', org', loaded')
      <3> DEFINE cv == notify(canvas, st)
      <3>1. canvas.visible => canvas.mounted
        BY <1>t DEF CanvasFits
      <3>2. cv \in Canvas /\ CanvasFits(cv, st, TRUE)
        BY <1>t, <2>2, <3>1, NotifyFits
      <3>3. canvas' = cv \/ canvas' = renderGraphView(cv, st)
        BY <2>1 DEF Settled
      <3> HIDE DEF cv
      <3>4. canvas' \in Canvas /\ CanvasFits(canvas', st, TRUE)
        BY <1>t, <2>2, <3>2, <3>3, RenderFits
      <3> QED BY <2>1, <3>4 DEF CanvasFits
    <2>5. call' \in [Calls -> CallRow] /\ CallsTrue(call', rows, entries, rooms, agreed')
      <3> DEFINE left == [call EXCEPT ![c] = NoCall]
      <3>1. left \in [Calls -> CallRow] /\ CallsTrue(left, rows, entries, rooms, agreed)
        BY NothingFacts DEF Inv, Typed, CallsTrue
      <3>2. call' \in {left, Orphaned(left)}
        BY <2>1
      <3> HIDE DEF left
      <3> QED BY <2>1, <3>1, <3>2, OrphanedFacts
    <2>6. PageKept
      BY <2>1, <2>2, <2>3, <2>4, <2>5 DEF Inv, Typed, PageKept, Staff
    <2> QED BY <2>6, PageStep
  <1> QED BY <1>1, <1>2, <1>3, HandledStep DEF Answering

-----------------------------------------------------------------------------
(* Invariance.                                                             *)

\* The invariant with its parts named is the inductive invariant.
LEMMA InvIsIInv == IInv <=> Inv
  BY TypedIsTypeOK DEF IInv, Inv, LoadsTrue, CallsTrue

\* The inductive invariant holds of every behaviour.
LEMMA Invariance == Spec => []Inv
  <1>1. Init => Inv
    <2> SUFFICES ASSUME Init PROVE Inv
      OBVIOUS
    <2> DEFINE first == [NoLoad EXCEPT !.at = "asked"]
               lens == CHOOSE l \in Lenses : TRUE
    <2>1. first \in LoadRow /\ first.snap = Null
      BY NothingFacts DEF LoadRow
    <2> HIDE DEF first
    <2>2. load \in [Loads -> LoadRow] /\ \A l \in Loads : load[l].snap = Null
      BY <2>1, NothingFacts DEF Init, first
    <2>3. lens \in Lenses
      BY LensesAssumption
    <2> HIDE DEF lens
    <2>4. Undrawn \in Drawing
      BY DEF Undrawn, Drawing
    <2>5. canvas \in Canvas /\ canvas.visible = FALSE /\ canvas.mounted = FALSE
      BY <2>3, <2>4 DEF Init, Canvas, lens
    <2>6. panel \in Panel /\ panel.room = 0 /\ panel.messages = {}
      BY BoundsAssumption DEF Init, Panel
    <2>7. /\ rows = <<>> /\ entries = <<>> /\ rooms = <<>> /\ org = Null /\ loaded = FALSE /\ agreed = {}
          /\ confirm = Nobody /\ agents = Founders /\ lists = {Founders} /\ cache = NoList
      BY DEF Init
    <2>8. Typed
      <3>1. cache \in (SUBSET Agents) \cup {NoList}
        BY <2>7
      <3>2. agents \in SUBSET Agents /\ lists \in SUBSET SUBSET Agents
        BY <2>7, AgentsAssumption
      <3> QED BY <2>2, <2>5, <2>6, <2>7, <3>1, <3>2, NothingFacts, EmptySeq DEF Init, Typed
    <2>9. Bounded(rows, entries, rooms)
      BY <2>7, BoundsAssumption DEF Bounded
    <2>10. StateTrue(org, rows, entries, rooms) /\ LoadsTrue(load, rows, entries, rooms)
      BY <2>2, <2>7, NothingFacts DEF LoadsTrue
    <2>11. CallsTrue(call, rows, entries, rooms, agreed)
      BY NothingFacts DEF Init, CallsTrue
    <2>12. PanelTrue(panel, rooms) /\ AccessChosen(rows, agreed)
      BY <2>6, <2>7 DEF PanelTrue, AccessChosen
    <2>13. CanvasFits(canvas, org, loaded)
      BY <2>5 DEF CanvasFits
    <2> QED BY <2>8, <2>9, <2>10, <2>11, <2>12, <2>13 DEF Inv
  <1>2. Inv /\ [Next]_vars => Inv'
    <2> SUFFICES ASSUME Inv, [Next]_vars PROVE Inv'
      OBVIOUS
    <2>1. CASE UNCHANGED vars
      <3>1. /\ rows' = rows /\ entries' = entries /\ rooms' = rooms /\ Staff /\ loaded' = loaded /\ org' = org /\ load' = load
            /\ call' = call /\ canvas' = canvas /\ confirm' = confirm /\ agreed' = agreed /\ panel' = panel
        BY <2>1 DEF vars, server, Staff
      <3>2. PageKept
        BY <3>1 DEF Inv, Typed, PageKept, Staff
      <3> QED BY <3>2, PageStep
    <2> QED BY <2>1, LoadingStep, HiringStep, EditingStep, ViewingStep, AnsweringStep DEF Next
  <1> QED BY <1>1, <1>2, PTL DEF Spec

-----------------------------------------------------------------------------
(* The agents the page knows of.                                           *)

\* Every list of agents the page holds, shows or has under way is one the
\* server has given, or stands for a request that failed.
Listed == lists \cup {{}}
People ==
    /\ agents \in lists /\ cache \in Listed \cup {NoList} /\ org.agents \in Listed /\ Portrayed \in Listed
    /\ \A l \in Loads : load[l].snap.agents \in Listed

Of(cv) == cv.drawn.nodes \cap Agents

\* However a canvas is drawn, it shows whom it showed, or the agents the page
\* knows of with that state, or nobody while loading.
LEMMA DrawnPeople ==
    ASSUME NEW cv \in Canvas, NEW st \in State, NEW has \in BOOLEAN, cache \in (SUBSET Agents) \cup {NoList}
    PROVE  /\ Of(refresh(cv, st, has)) \in {getAllAgents(st), {}}
           /\ Of(notify(cv, st)) \in {Of(cv), getAllAgents(st), {}}
           /\ Of(renderGraphView(cv, st)) \in {Of(cv), getAllAgents(st)}
  <1>l. cv.lens \in Lenses
    BY DEF Canvas
  <1> DEFINE full == buildElements(st, getAllAgents(st), cv.lens)
             blank == [Undrawn EXCEPT !.lens = "loading"]
  <1>1. full.nodes \cap Agents = getAllAgents(st)
    BY <1>l, BuildDraws
  <1>2. blank.nodes = {}
    BY DEF Undrawn
  <1>3. ASSUME NEW x PROVE [cv EXCEPT !.dirty = FALSE, !.drawn = x].drawn = x /\ [cv EXCEPT !.drawn = x].drawn = x
                           /\ [cv EXCEPT !.dirty = TRUE].drawn = cv.drawn
    BY DEF Canvas
  <1>4. /\ refresh(cv, st, TRUE) = [cv EXCEPT !.dirty = FALSE, !.drawn = full]
        /\ refresh(cv, st, FALSE) = [cv EXCEPT !.dirty = FALSE, !.drawn = blank]
        /\ renderGraphView(cv, st) = cv \/ renderGraphView(cv, st) = [cv EXCEPT !.drawn = full]
    BY DEF refresh, renderGraphView
  <1> HIDE DEF full, blank
  <1>5. /\ refresh(cv, st, TRUE).drawn = full /\ refresh(cv, st, FALSE).drawn = blank
        /\ renderGraphView(cv, st).drawn \in {cv.drawn, full}
    BY <1>3, <1>4
  <1>6. notify(cv, st).drawn \in {cv.drawn, refresh(cv, st, TRUE).drawn}
    BY <1>3 DEF notify
  <1>7. /\ Of(refresh(cv, st, TRUE)) = getAllAgents(st) /\ Of(refresh(cv, st, FALSE)) = {}
        /\ Of(renderGraphView(cv, st)) \in {Of(cv), getAllAgents(st)}
        /\ Of(notify(cv, st)) \in {Of(cv), getAllAgents(st)}
    BY <1>1, <1>2, <1>5, <1>6 DEF Of
  <1> QED BY <1>7

\* A step that leaves the lists, the loads and the state alone.
LEMMA PeopleLeft ==
    ASSUME People, Staff, org' = org, load' = load, Of(canvas') \in {Of(canvas), getAllAgents(org), {}}
    PROVE  People'
  BY DEF People, Staff, Listed, Portrayed, Of, getAllAgents

\* Loading and hiring keep to the lists.
LEMMA ListingStep ==
    ASSUME Inv, People, Loading \/ Hiring
    PROVE  People'
  <1>t. canvas \in Canvas /\ cache \in (SUBSET Agents) \cup {NoList} /\ load \in [Loads -> LoadRow]
    BY DEF Inv, Typed
  <1>r. ASSUME NEW l \in Loads PROVE load[l] \in LoadRow /\ load[l].snap \in State
    BY <1>t DEF LoadRow
  <1>1. ASSUME NEW l \in Loads, NEW ok \in BOOLEAN, LoadAgents(l, ok) PROVE People'
    <2> DEFINE people == IF ok THEN agents ELSE {}
    <2>1. /\ Staff /\ org' = org /\ canvas' = canvas
          /\ load' = [load EXCEPT ![l] = [@ EXCEPT !.at = "people", !.snap.agents = people]]
      BY <1>1 DEF LoadAgents, server, Staff
    <2>2. people \in Listed
      BY DEF People, Listed
    <2> HIDE DEF people
    <2>3. [load[l] EXCEPT !.at = "people", !.snap.agents = people].snap.agents = people
      BY <1>r DEF LoadRow, State
    <2>4. \A k \in Loads : load'[k].snap.agents \in Listed
      BY <1>t, <2>1, <2>2, <2>3 DEF People
    <2> QED BY <2>1, <2>4 DEF People, Staff, Listed, Portrayed
  <1>2. ASSUME NEW l \in Loads, NEW ok \in BOOLEAN, LoadRead(l, ok) PROVE People'
    <2> DEFINE people == load[l].snap.agents
               snap == IF ok THEN Snapshot(people) ELSE [Null EXCEPT !.agents = people]
    <2>1. /\ Staff /\ org' = org /\ canvas' = canvas
          /\ load' = [load EXCEPT ![l] = [@ EXCEPT !.at = "read", !.snap = snap]]
      BY <1>2 DEF LoadRead, server, Staff
    <2>2. people \in Listed
      BY DEF People
    <2> HIDE DEF people
    <2>3. snap.agents = people
      BY DEF Snapshot, Null
    <2> HIDE DEF snap
    <2>4. [load[l] EXCEPT !.at = "read", !.snap = snap].snap = snap
      BY <1>r DEF LoadRow
    <2>5. \A k \in Loads : load'[k].snap.agents \in Listed
      BY <1>t, <2>1, <2>2, <2>3, <2>4 DEF People
    <2> QED BY <2>1, <2>5 DEF People, Staff, Listed, Portrayed
  <1>3. ASSUME NEW l \in Loads, LoadApply(l) PROVE People'
    <2> DEFINE st == load[l].snap
    <2>1. /\ Staff /\ org' = st /\ canvas' = notify(canvas, st) /\ load' = [load EXCEPT ![l] = NoLoad]
      BY <1>3 DEF LoadApply, Publish, server, Staff
    <2>2. st \in State /\ st.agents \in Listed
      BY <1>r DEF People
    <2> HIDE DEF st
    <2>3. Of(canvas') \in {Of(canvas), getAllAgents(st), {}}
      BY <1>t, <2>1, <2>2, DrawnPeople
    <2>4. getAllAgents(st) \in Listed
      BY <2>2 DEF getAllAgents, People
    <2>5. NoLoad.snap.agents = {}
      BY NothingFacts DEF Null
    <2>6. \A k \in Loads : load'[k].snap.agents \in Listed
      BY <1>t, <2>1, <2>5 DEF People, Listed
    <2> QED BY <2>1, <2>2, <2>3, <2>4, <2>6 DEF People, Staff, Listed, Portrayed, Of
  <1>4. CASE Hiring
    BY <1>4 DEF Hiring, hire, loadSidebar, server, People, Listed, Portrayed
  <1> QED BY <1>1, <1>2, <1>3, <1>4 DEF Loading

\* The owner's steps keep to the lists.
LEMMA OwnerStep ==
    ASSUME Inv, People, Editing \/ Viewing
    PROVE  People'
  <1>t. /\ canvas \in Canvas /\ org \in State /\ loaded \in BOOLEAN /\ cache \in (SUBSET Agents) \cup {NoList}
        /\ load \in [Loads -> LoadRow]
    BY DEF Inv, Typed
  <1>u. UNCHANGED unasked => Staff /\ org' = org /\ load' = load
    BY DEF unasked, server, Staff
  <1>r. Of(renderGraphView(canvas, org)) \in {Of(canvas), getAllAgents(org)}
    BY <1>t, DrawnPeople
  <1>k. ASSUME UNCHANGED unasked, canvas' = canvas \/ canvas' = renderGraphView(canvas, org) PROVE People'
    BY <1>k, <1>u, <1>r, PeopleLeft
  <1>1. CASE Editing
    <2>1. UNCHANGED unasked /\ (canvas' = canvas \/ canvas' = renderGraphView(canvas, org))
      BY <1>1 DEF Editing, handleDrop, createOrNotify, EditAdd, ConfirmChoose, ConfirmClose, DropBeside, EditRemove, Create
    <2> QED BY <1>k, <2>1
  <1>2. CASE showFirma
    <2> DEFINE cv == [canvas EXCEPT !.visible = TRUE]
               fresh == [cv EXCEPT !.mounted = TRUE]
    <2>1. /\ canvas' \in {refresh(fresh, org, loaded), refresh(cv, org, loaded), cv} /\ UNCHANGED unasked
      BY <1>2 DEF showFirma
    <2>2. cv \in Canvas /\ cv.drawn = canvas.drawn
      BY <1>t DEF Canvas
    <2> HIDE DEF cv
    <2>3. fresh \in Canvas
      BY <2>2 DEF Canvas
    <2> HIDE DEF fresh
    <2>4. Of(canvas') \in {Of(canvas), getAllAgents(org), {}}
      BY <1>t, <2>1, <2>2, <2>3, DrawnPeople DEF Of
    <2> QED BY <1>u, <2>1, <2>4, PeopleLeft
  <1>3. CASE hideFirma
    <2>1. canvas'.drawn = canvas.drawn /\ UNCHANGED unasked
      BY <1>3, <1>t DEF hideFirma, Canvas
    <2> QED BY <1>u, <2>1, PeopleLeft DEF Of
  <1>4. ASSUME NEW lens \in Lenses, setSubview(lens) PROVE People'
    <2> DEFINE cv == [canvas EXCEPT !.lens = lens]
    <2>1. canvas' = refresh(cv, org, loaded) /\ UNCHANGED unasked
      BY <1>4 DEF setSubview
    <2>2. cv \in Canvas
      BY <1>t DEF Canvas
    <2> HIDE DEF cv
    <2>3. Of(canvas') \in {Of(canvas), getAllAgents(org), {}}
      BY <1>t, <2>1, <2>2, DrawnPeople
    <2> QED BY <1>u, <2>1, <2>3, PeopleLeft
  <1>5. CASE renderListView
    <2> DEFINE drawn == buildElements(org, getAllAgents(org), "liste")
    <2>1. canvas' = [canvas EXCEPT !.drawn = drawn] /\ UNCHANGED unasked /\ "liste" \in Lenses
      BY <1>5, <1>t DEF renderListView, Canvas
    <2>2. drawn.nodes \cap Agents = getAllAgents(org)
      BY <1>t, <2>1, BuildDraws
    <2> HIDE DEF drawn
    <2>3. canvas'.drawn = drawn
      BY <1>t, <2>1 DEF Canvas
    <2>4. Of(canvas') = getAllAgents(org)
      BY <2>2, <2>3 DEF Of
    <2> QED BY <1>u, <2>1, <2>4, PeopleLeft
  <1>6. ASSUME NEW host \in Hosts, openRoom(host) PROVE People'
    <2>1. Staff /\ org' = org /\ canvas' = canvas
      BY <1>6 DEF openRoom, server, Staff
    <2>2. CASE loaded
      <3>1. load' = load
        BY <1>6, <2>2 DEF openRoom
      <3> QED BY <2>1, <3>1, PeopleLeft
    <2>3. CASE ~loaded
      <3> DEFINE one == [NoLoad EXCEPT !.at = "asked", !.host = host]
      <3>1. PICK l \in Loads : load' = [load EXCEPT ![l] = one]
        BY <1>6, <2>3 DEF openRoom
      <3>2. one.snap.agents = {}
        BY DEF NoLoad, Null
      <3> HIDE DEF one
      <3>3. \A k \in Loads : load'[k].snap.agents \in Listed
        BY <1>t, <3>1, <3>2 DEF People, Listed
      <3> QED BY <2>1, <3>3 DEF People, Staff, Listed, Portrayed
    <2> QED BY <2>2, <2>3
  <1>7. CASE sendRoomMessage \/ closeRoom
    BY <1>7, <1>k DEF sendRoomMessage, closeRoom
  <1> QED BY <1>1, <1>2, <1>3, <1>4, <1>5, <1>6, <1>7 DEF Viewing

\* The answers keep to the lists.
LEMMA AnswerStep ==
    ASSUME Inv, People, Answering
    PROVE  People'
  <1>t. canvas \in Canvas /\ org \in State /\ cache \in (SUBSET Agents) \cup {NoList}
    BY DEF Inv, Typed
  <1>1. ASSUME NEW c \in Calls, CallRefused(c) \/ \E lost \in BOOLEAN : CallHandled(c, lost) PROVE People'
    <2>1. Staff /\ org' = org /\ load' = load /\ canvas' = canvas
      BY <1>1 DEF CallRefused, CallHandled, server, Staff
    <2> QED BY <2>1, PeopleLeft
  <1>2. ASSUME NEW c \in Calls, CallFailed(c) PROVE People'
    <2>1. /\ Staff /\ org' = org /\ load' = load
          /\ canvas' = canvas \/ canvas' = renderGraphView(canvas, org)
      BY <1>2 DEF CallFailed, Settled, server, Staff
    <2>2. Of(canvas') \in {Of(canvas), getAllAgents(org), {}}
      BY <1>t, <2>1, DrawnPeople
    <2> QED BY <2>1, <2>2, PeopleLeft
  <1>3. ASSUME NEW c \in Calls, CallAnswered(c) PROVE People'
    <2> DEFINE what == call[c].what
               st == Pushed(what, call[c].new)
               cv == notify(canvas, st)
    <2>1. /\ Staff /\ org' = st /\ load' = load /\ canvas' \in {cv, renderGraphView(cv, st)}
          /\ call[c].at = "answered"
      BY <1>3 DEF CallAnswered, Settled, server, Staff
    <2>2. st \in State
      BY <2>1, PushedFacts
    <2>3. st.agents = org.agents
      BY <1>t DEF Pushed, State
    <2> HIDE DEF st
    <2>4. cv \in Canvas /\ Of(cv) \in {Of(canvas), getAllAgents(st), {}}
      <3>1. canvas.visible => canvas.mounted
        BY DEF Inv, CanvasFits
      <3> QED BY <1>t, <2>2, <3>1, NotifyFits, DrawnPeople
    <2> HIDE DEF cv
    <2>5. Of(renderGraphView(cv, st)) \in {Of(cv), getAllAgents(st)}
      BY <1>t, <2>2, <2>4, DrawnPeople
    <2>6. Of(canvas') \in {Of(canvas), getAllAgents(st), {}}
      BY <2>1, <2>4, <2>5
    <2>7. getAllAgents(st) \in Listed
      BY <2>3 DEF getAllAgents, People
    <2> QED BY <2>1, <2>3, <2>6, <2>7 DEF People, Staff, Listed, Portrayed, Of
  <1> QED BY <1>1, <1>2, <1>3 DEF Answering

\* Every behaviour keeps to the lists of the server.
LEMMA PeopleListed == Spec => []People
  <1>1. Init => People
    <2> SUFFICES ASSUME Init PROVE People
      OBVIOUS
    <2>1. Null.agents = {} /\ NoLoad.snap.agents = {} /\ [NoLoad EXCEPT !.at = "asked"].snap.agents = {}
      BY DEF Null, NoLoad
    <2>2. \A l \in Loads : load[l].snap.agents = {}
      BY <2>1 DEF Init
    <2>3. Portrayed = {}
      BY DEF Init, Portrayed, Undrawn
    <2> QED BY <2>1, <2>2, <2>3 DEF Init, People, Listed
  <1>2. Inv /\ People /\ [Next]_vars => People'
    <2> SUFFICES ASSUME Inv, People, [Next]_vars PROVE People'
      OBVIOUS
    <2>1. CASE UNCHANGED vars
      BY <2>1, PeopleLeft DEF vars, server, Staff
    <2> QED BY <2>1, ListingStep, OwnerStep, AnswerStep DEF Next
  <1> QED BY <1>1, <1>2, Invariance, PTL DEF Spec

-----------------------------------------------------------------------------
(* Theorems.                                                               *)

\* Every variable of the page and of the server keeps its type.
THEOREM TypeCorrect == Spec => []TypeOK
  <1>1. Inv => TypeOK
    BY TypedIsTypeOK DEF Inv
  <1> QED BY <1>1, Invariance, PTL

\* A visible canvas shows its lens of the state the adapter holds, whatever
\* arrived while it was hidden or another lens was chosen.
THEOREM CanvasFollows == Spec => []CanvasCurrent
  <1>1. Inv => CanvasCurrent
    BY DEF Inv, CanvasFits, Draws, CanvasCurrent, Portrayed
  <1> QED BY <1>1, Invariance, PTL

\* The page shows nothing the server does not have, however loads, lost
\* answers and removals overlap.
THEOREM OnlyWhatExists == Spec => []NothingInvented
  <1>1. Inv /\ People => NothingInvented
    BY DEF Inv, StateTrue, PanelTrue, NothingInvented, People, Listed, getAllAgents
  <1> QED BY <1>1, Invariance, PeopleListed, PTL

\* Every stored access was chosen by the owner for that very pair.
THEOREM AccessIsChosen == Spec => []AccessConfirmed
  <1>1. Inv => AccessConfirmed
    BY DEF Inv, AccessChosen, AccessConfirmed, Access
  <1> QED BY <1>1, Invariance, PTL
=============================================================================
