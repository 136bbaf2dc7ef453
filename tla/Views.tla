------------------------------- MODULE Views -------------------------------
(* The views of the page (nav.js) and what the lists in them load: the work *)
(* evidence (work.js), the projects and repositories and the routines      *)
(* (cards.js). A view that is shown again is built anew, while requests of  *)
(* the old one are still under way. The right pane is module AgentPane, the *)
(* canvas of "firma" module CompanyGraph, the chat module MissionChat.      *)
EXTENDS Naturals, FiniteSets

CONSTANTS
    Agents,         \* agents the evidence can be filtered by
    NoAgent,        \* agentFilter = null
    MaxFetches,     \* bound: fetchEvidence() calls
    MaxLoads,       \* bound: load() calls of the routines under way
    MaxOrg          \* bound: changes of the organisation

ASSUME AgentsAssumption == NoAgent \notin Agents
ASSUME BoundsAssumption == MaxFetches \in Nat /\ MaxLoads \in Nat \ {0} /\ MaxOrg \in Nat

VARIABLES
    current,        \* the active view
    org,            \* number of changes the adapter has notified
    work,           \* state of work.js
    fetch,          \* evidence requests under way: the filter each asks for
    projekte,       \* subscribers, the held unsubscribe, and what is drawn
    routinen,       \* checkbox and list of the routines view
    load,           \* load() calls of the shown routines root under way
    op,             \* the pause, resume or archive request under way
    routine         \* server: status of the routine

vars == <<current, org, work, fetch, projekte, routinen, load, op, routine>>

ViewNames == {"hufi", "firma", "projekte", "routinen", "arbeit"}
Filters == Agents \cup {NoAgent}
Tokens == 1..MaxFetches
Loads == 1..MaxLoads
RoutineStatus == {"active", "paused", "archived"}

NoLoad == [at |-> "idle", seen |-> "none"]
NoLoads == [l \in Loads |-> NoLoad]
NoOp == [at |-> "idle", do |-> "none", attached |-> FALSE, row |-> FALSE]
NoList == [shows |-> "nothing", archived |-> FALSE, seen |-> "none"]
Unbuilt == [showArchived |-> FALSE, list |-> NoList, disabled |-> {}]

Init ==
    /\ current = "hufi" /\ org = 0
    /\ work = [mounted |-> FALSE, agentFilter |-> NoAgent, requestToken |-> 0, loading |-> FALSE,
               items |-> NoAgent]
    /\ fetch = [k \in {} |-> NoAgent]
    /\ projekte = [listeners |-> 0, held |-> FALSE, drawn |-> 0, registry |-> "none"]
    /\ routinen = Unbuilt
    /\ load = NoLoads /\ op = NoOp
    /\ routine = "active"

-----------------------------------------------------------------------------
(* Loading evidence: a newer request supersedes the older ones.            *)

\* The state after fetchEvidence(), n times in a row.
Fetching(w, n) == [w EXCEPT !.requestToken = @ + n, !.loading = TRUE]
Requested(w, n) ==
    [k \in DOMAIN fetch \cup ((w.requestToken + 1)..(w.requestToken + n)) |->
        IF k \in DOMAIN fetch THEN fetch[k] ELSE w.agentFilter]

fetchEvidence(w, n) ==
    /\ w.requestToken + n <= MaxFetches
    /\ work' = Fetching(w, n)
    /\ fetch' = Requested(w, n)

Forget(k) == fetch' = [j \in DOMAIN fetch \ {k} |-> fetch[j]]
others == <<current, org, projekte, routinen, load, op, routine>>

EvidenceAnswer_Unordered(k) ==
    /\ k \in DOMAIN fetch
    /\ Forget(k)
    /\ work' = [work EXCEPT !.loading = FALSE, !.items = fetch[k]]
    /\ UNCHANGED others

EvidenceAnswer_StaysLoading(k) ==
    /\ k \in DOMAIN fetch
    /\ Forget(k)
    /\ work' = IF k = work.requestToken THEN [work EXCEPT !.items = fetch[k]] ELSE work
    /\ UNCHANGED others

\* An answer that is not of the newest request is dropped. A failed request is
\* answered too: loadWorkEvidence makes an empty list of it. items is the
\* filter the list shown was asked for with.
EvidenceAnswer(k) ==
    /\ k \in DOMAIN fetch
    /\ Forget(k)
    /\ work' = IF k = work.requestToken
               THEN [work EXCEPT !.loading = FALSE, !.items = fetch[k]]
               ELSE work
    /\ UNCHANGED others

\* "Aktualisieren" is disabled while loading.
refreshEvidence ==
    /\ current = "arbeit" /\ ~work.loading
    /\ fetchEvidence(work, 1)
    /\ UNCHANGED others

clearFilter ==
    /\ current = "arbeit" /\ work.agentFilter # NoAgent
    /\ fetchEvidence([work EXCEPT !.agentFilter = NoAgent], 1)
    /\ UNCHANGED others

-----------------------------------------------------------------------------
(* Switching views.                                                        *)

onHide_KeepsListening(p) ==
    IF current = "projekte" THEN [p EXCEPT !.held = FALSE] ELSE p

\* Only the projects view has something to stop. Its root is never shown again.
onHide(p) ==
    IF current = "projekte" /\ p.held THEN [p EXCEPT !.listeners = @ - 1, !.held = FALSE, !.drawn = 0, !.registry = "none"] ELSE p

\* A new root: it subscribes, draws the state and asks for the repositories.
showProjekte(p) ==
    [p EXCEPT !.listeners = @ + 1, !.held = TRUE, !.drawn = org, !.registry = "loading"]

\* load() of the root that is shown now.
startLoad(loads) ==
    \E l \in Loads :
        /\ loads[l] = NoLoad /\ \A m \in Loads : m < l => loads[m] # NoLoad
        /\ load' = [loads EXCEPT ![l].at = "asked"]
LoadingList == [NoList EXCEPT !.shows = "loading"]

\* The root of the routines is never shown again: what still arrives for it
\* fills detached nodes.
leaveRoutinen ==
    /\ routinen' = Unbuilt /\ load' = NoLoads
    /\ op' = IF op.at = "asked" THEN [op EXCEPT !.attached = FALSE, !.row = FALSE] ELSE NoOp

show_AlwaysUnsubscribes(view) ==
    /\ view # current
    /\ current' = view
    /\ projekte' = [projekte EXCEPT !.listeners = @ - 1, !.held = FALSE]
    /\ UNCHANGED <<org, work, fetch, routinen, load, op, routine>>

\* views.show of another view: the old one's onHide, the switch, then the new
\* one's onShow. Nothing happens when the view is shown already.
show(view) ==
    /\ view # current
    /\ current' = view
    /\ LET left == onHide(projekte)
       IN  projekte' = IF view = "projekte" THEN showProjekte(left) ELSE left
    /\ IF view = "routinen"
       THEN routinen' = [Unbuilt EXCEPT !.list = LoadingList] /\ startLoad(NoLoads) /\ UNCHANGED op
       ELSE leaveRoutinen
    /\ IF view = "arbeit" THEN fetchEvidence([work EXCEPT !.mounted = TRUE], 1) ELSE UNCHANGED <<work, fetch>>
    /\ UNCHANGED <<org, routine>>

\* Hufi.work.openForAgent: the show above fetches when it switches, and the
\* call itself when the view had been opened before, so at times both do.
openForAgent(a) ==
    LET switches == current # "arbeit"
        times == (IF switches THEN 1 ELSE 0) + (IF work.mounted THEN 1 ELSE 0)
    IN  /\ fetchEvidence([work EXCEPT !.agentFilter = a, !.mounted = TRUE], times)
        /\ current' = "arbeit"
        /\ projekte' = IF switches THEN onHide(projekte) ELSE projekte
        /\ IF switches THEN leaveRoutinen ELSE UNCHANGED <<routinen, load, op>>
        /\ UNCHANGED <<org, routine>>

-----------------------------------------------------------------------------
(* The projects view.                                                      *)

\* The adapter notifies its subscribers; without one nothing is drawn. The
\* work view only re-draws what it has.
OrgNotified ==
    /\ org < MaxOrg
    /\ org' = org + 1
    /\ projekte' = [projekte EXCEPT !.drawn = IF projekte.listeners > 0 THEN org + 1 ELSE @]
    /\ UNCHANGED <<current, work, fetch, routinen, load, op, routine>>

\* GET /projects of the newest root; those of older roots fill detached nodes.
loadRegistryProjects(ok) ==
    /\ projekte.registry = "loading"
    /\ projekte' = [projekte EXCEPT !.registry = IF ok THEN "rows" ELSE "error"]
    /\ UNCHANGED <<current, org, work, fetch, routinen, load, op, routine>>

-----------------------------------------------------------------------------
(* The routines view.                                                      *)

unrelated == <<current, org, work, fetch, projekte>>

\* The server answers GET /routines with the status of this moment.
LoadRead(l) ==
    /\ load[l].at = "asked"
    /\ load' = [load EXCEPT ![l] = [@ EXCEPT !.at = "read", !.seen = routine]]
    /\ UNCHANGED <<unrelated, routinen, op, routine>>

\* The rows of whichever answer comes last, with the checkbox as it is now.
renderList(r, seen) ==
    [r EXCEPT !.list = [shows |-> "rows", archived |-> r.showArchived, seen |-> seen], !.disabled = {}]
Rerendered == op' = [op EXCEPT !.row = FALSE]

LoadAnswer(l) ==
    /\ load[l].at = "read"
    /\ routinen' = renderList(routinen, load[l].seen) /\ Rerendered
    /\ load' = [load EXCEPT ![l] = NoLoad]
    /\ UNCHANGED <<unrelated, routine>>

LoadFails(l) ==
    /\ load[l].at \in {"asked", "read"}
    /\ routinen' = [routinen EXCEPT !.list = [NoList EXCEPT !.shows = "error"], !.disabled = {}]
    /\ Rerendered
    /\ load' = [load EXCEPT ![l] = NoLoad]
    /\ UNCHANGED <<unrelated, routine>>

\* load() again: the list says "Lädt …" until an answer is there.
Reload(r) == routinen' = [r EXCEPT !.list = LoadingList, !.disabled = {}] /\ startLoad(load)

changeArchived_NoLoad ==
    /\ current = "routinen"
    /\ routinen' = [routinen EXCEPT !.showArchived = ~@]
    /\ UNCHANGED <<unrelated, load, op, routine>>

\* "Archivierte anzeigen".
changeArchived ==
    /\ current = "routinen"
    /\ Reload([routinen EXCEPT !.showArchived = ~@])
    /\ Rerendered
    /\ UNCHANGED <<unrelated, routine>>

\* The POST behind "+ Routine" was answered while its root is still shown: the
\* modal's callback is load. For a root that is gone it fills detached nodes.
\* The new routine is a row of its own beside the one modelled here.
routineCreated ==
    /\ current = "routinen"
    /\ Reload(routinen)
    /\ Rerendered
    /\ UNCHANGED <<unrelated, routine>>

\* A button of the row: what it asks for is what the row showed.
clickRow(button) ==
    /\ current = "routinen" /\ op = NoOp                      \* bound: one such request
    /\ routinen.list.shows = "rows" /\ routinen.list.seen # "archived"
    /\ button \notin routinen.disabled
    /\ routinen' = [routinen EXCEPT !.disabled = @ \cup {button}]
    /\ op' = [at |-> "asked", attached |-> TRUE, row |-> TRUE,
              do |-> IF button = "archive" THEN "archive"
                     ELSE IF routinen.list.seen = "active" THEN "pause" ELSE "resume"]
    /\ UNCHANGED <<unrelated, load, routine>>

\* The server: nothing brings an archived routine back.
OpHandled(lost) ==
    /\ op.at = "asked"
    /\ routine' = IF routine = "archived" \/ op.do = "archive" THEN "archived"
                  ELSE IF op.do = "pause" THEN "paused" ELSE "active"
    /\ op' = IF op.attached THEN [op EXCEPT !.at = IF lost THEN "failed" ELSE "answered"] ELSE NoOp
    /\ UNCHANGED <<unrelated, routinen, load>>

OpRefused ==
    /\ op.at = "asked"
    /\ op' = IF op.attached THEN [op EXCEPT !.at = "failed"] ELSE NoOp
    /\ UNCHANGED <<unrelated, routinen, load, routine>>

\* The list is loaded again; a failed request enables the button again.
OpAnswer ==
    /\ op.at = "answered"
    /\ Reload(routinen)
    /\ op' = NoOp
    /\ UNCHANGED <<unrelated, routine>>

OpFails ==
    /\ op.at = "failed"
    /\ routinen' = IF op.row THEN [routinen EXCEPT !.disabled = {}] ELSE routinen
    /\ op' = NoOp
    /\ UNCHANGED <<unrelated, load, routine>>

-----------------------------------------------------------------------------
Work == refreshEvidence \/ clearFilter \/ \E a \in Agents : openForAgent(a)
LoadAnswers(l) == LoadRead(l) \/ LoadAnswer(l) \/ LoadFails(l)
Routinen == changeArchived \/ routineCreated \/ \E button \in {"toggle", "archive"} : clickRow(button)
OpAnswers == OpRefused \/ OpAnswer \/ OpFails \/ \E lost \in BOOLEAN : OpHandled(lost)

Next ==
    \/ \E view \in ViewNames : show(view)
    \/ Work \/ Routinen \/ OpAnswers \/ OrgNotified
    \/ \E ok \in BOOLEAN : loadRegistryProjects(ok)
    \/ \E k \in Tokens : EvidenceAnswer(k)
    \/ \E l \in Loads : LoadAnswers(l)

Spec == Init /\ [][Next]_vars

\* The browser settles every request, with an answer or an error. Nothing is
\* assumed of the owner.
Fairness ==
    /\ \A k \in Tokens : WF_vars(EvidenceAnswer(k))
    /\ \A l \in Loads : WF_vars(LoadAnswers(l))

FairSpec == Spec /\ Fairness

-----------------------------------------------------------------------------
\* Every variable has the type of the closure variable or node it models.
TypeOK ==
    /\ current \in ViewNames /\ org \in 0..MaxOrg
    /\ work \in [mounted : BOOLEAN, agentFilter : Filters, requestToken : 0..MaxFetches, loading : BOOLEAN,
                 items : Filters]
    /\ DOMAIN fetch \subseteq Tokens /\ \A k \in DOMAIN fetch : fetch[k] \in Filters
    /\ projekte \in [listeners : Nat, held : BOOLEAN, drawn : 0..MaxOrg,
                     registry : {"none", "loading", "rows", "error"}]
    /\ routinen \in [showArchived : BOOLEAN, disabled : SUBSET {"toggle", "archive"},
                     list : [shows : {"nothing", "loading", "rows", "error"}, archived : BOOLEAN,
                             seen : RoutineStatus \cup {"none"}]]
    /\ load \in [Loads -> [at : {"idle", "asked", "read"}, seen : RoutineStatus \cup {"none"}]]
    /\ op \in [at : {"idle", "asked", "answered", "failed"}, do : {"none", "pause", "resume", "archive"},
               attached : BOOLEAN, row : BOOLEAN]
    /\ routine \in RoutineStatus

\* Whatever the order of the answers, a work view that is done loading shows
\* the evidence of the agent its filter names, never that of an older request.
EvidenceOfFilter ==
    work.mounted /\ ~work.loading => work.items = work.agentFilter

\* The projects view listens to the organisation exactly while it is shown,
\* once however often it was opened, and then shows the newest state.
ProjekteListens ==
    IF current = "projekte"
    THEN projekte.listeners = 1 /\ projekte.held /\ projekte.drawn = org
    ELSE projekte.listeners = 0 /\ ~projekte.held

\* When no answer is awaited any more, the routines view neither goes on
\* saying that it loads, nor shows a list that ignores its checkbox: a late
\* answer of an earlier load counts with the checkbox as it is now.
RoutinesOfCheckbox ==
    (current = "routinen" /\ \A l \in Loads : load[l] = NoLoad) =>
        \/ routinen.list.shows = "error"
        \/ routinen.list.shows = "rows" /\ routinen.list.archived = routinen.showArchived

\* Neither list says for ever that it loads.
LoadingEnds ==
    /\ work.loading ~> ~work.loading
    /\ (current = "routinen" /\ routinen.list.shows = "loading")
       ~> (current # "routinen" \/ routinen.list.shows # "loading")
=============================================================================
