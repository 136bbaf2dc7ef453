---------------------------- MODULE ViewsProofs ----------------------------
(* Theorems about the lists of the views: for any number of agents,        *)
(* requests and visits.                                                    *)
EXTENDS Views, TLAPS

\* Requests under way are not younger than the newest one, and the newest one,
\* if it is under way, asks for the filter shown.
NewestAsksForFilter ==
    /\ \A k \in DOMAIN fetch : k <= work.requestToken
    /\ work.requestToken \in DOMAIN fetch => fetch[work.requestToken] = work.agentFilter

\* A work view that is shown has been built.
ShownIsMounted == current = "arbeit" => work.mounted

Inv == TypeOK /\ ShownIsMounted /\ NewestAsksForFilter /\ EvidenceOfFilter /\ ProjekteListens

WorkRecord ==
    [mounted : BOOLEAN, agentFilter : Filters, requestToken : 0..MaxFetches, loading : BOOLEAN, items : Filters]
FetchType == DOMAIN fetch \subseteq Tokens /\ \A k \in DOMAIN fetch : fetch[k] \in Filters

\* fetchEvidence leaves the newest request asking for the filter it is called
\* with, however many requests it starts, as long as it starts one.
LEMMA FetchingAsks ==
    ASSUME FetchType, NEW w \in WorkRecord, NEW n \in Nat \ {0},
           w.requestToken = work.requestToken,
           \A k \in DOMAIN fetch : k <= work.requestToken,
           fetchEvidence(w, n)
    PROVE  /\ work' \in WorkRecord /\ work'.mounted = w.mounted /\ FetchType'
           /\ NewestAsksForFilter' /\ EvidenceOfFilter'
  <1> DEFINE new == (w.requestToken + 1)..(w.requestToken + n)
  <1>1. work' = [w EXCEPT !.requestToken = @ + n, !.loading = TRUE] /\ w.requestToken + n \in 0..MaxFetches
    BY BoundsAssumption DEF fetchEvidence, Fetching, WorkRecord
  <1>2. /\ work' \in WorkRecord /\ work'.loading = TRUE /\ work'.mounted = w.mounted
        /\ work'.requestToken = w.requestToken + n /\ work'.agentFilter = w.agentFilter
    BY <1>1 DEF WorkRecord
  <1>3. /\ DOMAIN fetch' = DOMAIN fetch \cup new
        /\ \A k \in DOMAIN fetch' : fetch'[k] = IF k \in DOMAIN fetch THEN fetch[k] ELSE w.agentFilter
    BY DEF fetchEvidence, Requested
  <1>4. w.requestToken \in Nat /\ w.agentFilter \in Filters
    BY DEF WorkRecord
  <1>5. new \subseteq Tokens /\ \A k \in new : k <= w.requestToken + n
    BY <1>1, <1>4, BoundsAssumption DEF Tokens
  <1>6. FetchType'
    BY <1>3, <1>4, <1>5 DEF FetchType
  <1>7. \A k \in DOMAIN fetch : k \in Nat /\ k <= w.requestToken
    BY DEF FetchType, Tokens
  <1>8. \A k \in DOMAIN fetch' : k <= work'.requestToken
    BY <1>2, <1>3, <1>4, <1>5, <1>7
  <1>9. w.requestToken + n \notin DOMAIN fetch
    BY <1>4, <1>7
  <1>10. NewestAsksForFilter'
    BY <1>2, <1>3, <1>8, <1>9 DEF NewestAsksForFilter
  <1>11. EvidenceOfFilter'
    BY <1>2 DEF EvidenceOfFilter
  <1> QED BY <1>2, <1>6, <1>10, <1>11

-----------------------------------------------------------------------------
(* The types and the invariant of each part of the page.                   *)

ProjekteRecord ==
    [listeners : Nat, held : BOOLEAN, drawn : 0..MaxOrg, registry : {"none", "loading", "rows", "error"}]
ProjekteType == projekte \in ProjekteRecord
ListRecord ==
    [shows : {"nothing", "loading", "rows", "error"}, archived : BOOLEAN, seen : RoutineStatus \cup {"none"}]
RoutinenRecord == [showArchived : BOOLEAN, disabled : SUBSET {"toggle", "archive"}, list : ListRecord]
LoadRecord == [at : {"idle", "asked", "read"}, seen : RoutineStatus \cup {"none"}]
OpRecord ==
    [at : {"idle", "asked", "answered", "failed"}, do : {"none", "pause", "resume", "archive"},
     attached : BOOLEAN, row : BOOLEAN]
RoutinenType ==
    /\ routinen \in RoutinenRecord
    /\ load \in [Loads -> LoadRecord]
    /\ op \in OpRecord
    /\ routine \in RoutineStatus

WorkInv == work \in WorkRecord /\ FetchType /\ ShownIsMounted /\ NewestAsksForFilter /\ EvidenceOfFilter
ProjekteInv == current \in ViewNames /\ org \in 0..MaxOrg /\ ProjekteType /\ ProjekteListens

\* The invariant is the conjunction of its parts.
LEMMA Parts == Inv <=> WorkInv /\ ProjekteInv /\ RoutinenType
  BY DEF Inv, TypeOK, WorkInv, ShownIsMounted, ProjekteInv, RoutinenType, WorkRecord, FetchType, ProjekteType, ProjekteRecord,
         ListRecord, RoutinenRecord, LoadRecord, OpRecord

\* What the work view keeps is unchanged, so its invariant is.
LEMMA WorkUntouched ==
    ASSUME WorkInv, UNCHANGED <<work, fetch>>, current' = "arbeit" => current = "arbeit" PROVE WorkInv'
  BY DEF WorkInv, ShownIsMounted, FetchType, NewestAsksForFilter, EvidenceOfFilter

\* Every step keeps the newest request and the filter together.
LEMMA WorkStep == ASSUME WorkInv, [Next]_vars PROVE WorkInv'
  <1> USE DEF WorkInv
  <1>1. ASSUME NEW k \in Tokens, EvidenceAnswer(k) PROVE WorkInv'
    <2>1. /\ k \in DOMAIN fetch /\ DOMAIN fetch' = DOMAIN fetch \ {k}
          /\ \A j \in DOMAIN fetch' : fetch'[j] = fetch[j]
      BY <1>1 DEF EvidenceAnswer, Forget
    <2>2. FetchType'
      BY <2>1 DEF FetchType
    <2> current' = current
      BY <1>1 DEF EvidenceAnswer, others
    <2>3. CASE k = work.requestToken
      <3>1. /\ work' \in WorkRecord /\ work'.items = fetch[k]
            /\ work'.requestToken = work.requestToken /\ work'.agentFilter = work.agentFilter
            /\ work'.mounted = work.mounted
        BY <1>1, <2>1, <2>3 DEF EvidenceAnswer, WorkRecord, FetchType
      <3> QED BY <2>1, <2>2, <2>3, <3>1 DEF NewestAsksForFilter, EvidenceOfFilter, ShownIsMounted
    <2>4. CASE k # work.requestToken
      <3>1. work' = work
        BY <1>1, <2>4 DEF EvidenceAnswer
      <3> QED BY <2>1, <2>2, <3>1 DEF NewestAsksForFilter, EvidenceOfFilter, ShownIsMounted
    <2> QED BY <2>3, <2>4
  <1>2. CASE refreshEvidence
    BY <1>2, FetchingAsks DEF refreshEvidence, NewestAsksForFilter, ShownIsMounted, others
  <1>3. CASE clearFilter
    <2> DEFINE w == [work EXCEPT !.agentFilter = NoAgent]
    <2>1. w \in WorkRecord /\ w.requestToken = work.requestToken /\ w.mounted = work.mounted
      BY DEF WorkRecord, Filters
    <2>2. fetchEvidence(w, 1) /\ current' = current
      BY <1>3 DEF clearFilter, others
    <2> HIDE DEF w
    <2> QED BY <2>1, <2>2, FetchingAsks DEF NewestAsksForFilter, ShownIsMounted
  <1>4. ASSUME NEW a \in Agents, openForAgent(a) PROVE WorkInv'
    <2> DEFINE w == [work EXCEPT !.agentFilter = a, !.mounted = TRUE]
               n == (IF current # "arbeit" THEN 1 ELSE 0) + (IF work.mounted THEN 1 ELSE 0)
    <2>1. w \in WorkRecord /\ w.requestToken = work.requestToken /\ w.mounted
      BY DEF WorkRecord, Filters
    <2>2. n \in Nat \ {0}
      BY DEF ShownIsMounted
    <2>3. fetchEvidence(w, n)
      BY <1>4 DEF openForAgent
    <2> HIDE DEF w, n
    <2> QED BY <2>1, <2>2, <2>3, FetchingAsks DEF NewestAsksForFilter, ShownIsMounted
  <1>5. ASSUME NEW view \in ViewNames, show(view) PROVE WorkInv'
    <2> DEFINE w == [work EXCEPT !.mounted = TRUE]
    <2>1. w \in WorkRecord /\ w.requestToken = work.requestToken /\ w.mounted
      BY DEF WorkRecord
    <2>2. fetchEvidence(w, 1) \/ (UNCHANGED <<work, fetch>> /\ current' # "arbeit")
      BY <1>5 DEF show
    <2> HIDE DEF w
    <2>3. CASE fetchEvidence(w, 1)
      BY <2>1, <2>3, FetchingAsks DEF NewestAsksForFilter, ShownIsMounted
    <2> QED BY <2>2, <2>3, WorkUntouched
  <1>6. CASE Routinen \/ OpAnswers \/ OrgNotified \/ UNCHANGED vars
    BY <1>6, WorkUntouched DEF Routinen, changeArchived, routineCreated, clickRow, OpAnswers, OpRefused, OpAnswer, OpFails,
                               OpHandled, OrgNotified, unrelated, vars
  <1>7. CASE (\E ok \in BOOLEAN : loadRegistryProjects(ok)) \/ (\E l \in Loads : LoadAnswers(l))
    BY <1>7, WorkUntouched DEF loadRegistryProjects, LoadAnswers, LoadRead, LoadAnswer, LoadFails, unrelated
  <1> QED BY <1>1, <1>2, <1>3, <1>4, <1>5, <1>6, <1>7 DEF Next, Work

\* A record of the projects view with new values for its fields is one.
LEMMA RecordChanged ==
    ASSUME NEW p \in ProjekteRecord, NEW n \in Nat, NEW h \in BOOLEAN, NEW d \in 0..MaxOrg,
           NEW r \in {"none", "loading", "rows", "error"}
    PROVE  [p EXCEPT !.listeners = n, !.held = h, !.drawn = d, !.registry = r] \in ProjekteRecord
  BY DEF ProjekteRecord

\* Leaving a view never leaves a listener behind, and takes off only one that
\* is there.
LEMMA LeavingListens ==
    ASSUME ProjekteInv
    PROVE  LET left == onHide(projekte)
           IN  /\ left \in ProjekteRecord
               /\ left.listeners = 0 /\ ~left.held
  <1>1. CASE current = "projekte"
    <2>1. projekte.held /\ projekte.listeners = 1
      BY <1>1 DEF ProjekteInv, ProjekteListens
    <2>2. onHide(projekte) = [projekte EXCEPT !.listeners = @ - 1, !.held = FALSE, !.drawn = 0, !.registry = "none"]
      BY <1>1, <2>1 DEF onHide
    <2>3. projekte.listeners - 1 = 0 /\ 0 \in 0..MaxOrg
      BY <2>1, BoundsAssumption
    <2>4. onHide(projekte) \in ProjekteRecord
      <3>1. onHide(projekte) = [projekte EXCEPT !.listeners = 0, !.held = FALSE, !.drawn = 0, !.registry = "none"]
        BY <2>2, <2>3
      <3>2. projekte \in ProjekteRecord
        BY DEF ProjekteInv, ProjekteType
      <3>3. [projekte EXCEPT !.listeners = 0, !.held = FALSE, !.drawn = 0, !.registry = "none"] \in ProjekteRecord
        BY <2>3, <3>2 DEF ProjekteRecord
      <3> QED BY <3>1, <3>3
    <2>5. onHide(projekte).listeners = 0
      BY <2>2, <2>3 DEF ProjekteInv, ProjekteType, ProjekteRecord
    <2>6. onHide(projekte).held = FALSE
      BY <2>2 DEF ProjekteInv, ProjekteType, ProjekteRecord
    <2> QED BY <2>4, <2>5, <2>6
  <1>2. CASE current # "projekte"
    BY <1>2 DEF onHide, ProjekteInv, ProjekteType, ProjekteListens
  <1> QED BY <1>1, <1>2

\* Every step keeps the projects view listening exactly while it is shown.
LEMMA ProjekteStep == ASSUME ProjekteInv, [Next]_vars PROVE ProjekteInv'
  <1> USE DEF ProjekteInv
  <1> DEFINE left == onHide(projekte)
  <1>1. left \in ProjekteRecord /\ left.listeners = 0 /\ ~left.held
    BY LeavingListens
  <1>2. ASSUME NEW view \in ViewNames, show(view) PROVE ProjekteInv'
    <2>1. /\ current' = view /\ org' = org
          /\ projekte' = IF view = "projekte" THEN showProjekte(left) ELSE left
      BY <1>2 DEF show
    <2> HIDE DEF left
    <2>2. CASE view = "projekte"
      <3>1. projekte' = [left EXCEPT !.listeners = @ + 1, !.held = TRUE, !.drawn = org, !.registry = "loading"]
        BY <2>1, <2>2 DEF showProjekte
      <3>2. projekte' \in ProjekteRecord
        <4>1. left.listeners + 1 = 1
          BY <1>1
        <4> QED BY <1>1, <3>1, <4>1, RecordChanged
      <3>3. projekte'.listeners = 1
        BY <1>1, <3>1 DEF ProjekteRecord
      <3>4. projekte'.held = TRUE /\ projekte'.drawn = org
        BY <1>1, <3>1 DEF ProjekteRecord
      <3> QED BY <2>1, <2>2, <3>2, <3>3, <3>4 DEF ProjekteType, ProjekteListens
    <2>3. CASE view # "projekte"
      BY <1>1, <2>1, <2>3 DEF ProjekteType, ProjekteListens
    <2> QED BY <2>2, <2>3
  <1>3. ASSUME NEW a \in Agents, openForAgent(a) PROVE ProjekteInv'
    <2>1. /\ current' = "arbeit" /\ org' = org
          /\ projekte' = IF current # "arbeit" THEN left ELSE projekte
      BY <1>3 DEF openForAgent
    <2> HIDE DEF left
    <2> QED BY <1>1, <2>1 DEF ViewNames, ProjekteType, ProjekteListens
  <1>4. CASE OrgNotified
    <2>1. /\ org' = org + 1 /\ org' \in 0..MaxOrg /\ current' = current
          /\ projekte' = [projekte EXCEPT !.drawn = IF projekte.listeners > 0 THEN org + 1 ELSE @]
      BY <1>4, BoundsAssumption DEF OrgNotified
    <2>2. /\ projekte' \in ProjekteRecord /\ projekte'.listeners = projekte.listeners /\ projekte'.held = projekte.held
          /\ projekte.listeners > 0 => projekte'.drawn = org'
      BY <2>1 DEF ProjekteType, ProjekteRecord
    <2> QED BY <2>1, <2>2 DEF ProjekteType, ProjekteListens
  <1>5. ASSUME NEW ok \in BOOLEAN, loadRegistryProjects(ok) PROVE ProjekteInv'
    <2>1. /\ org' = org /\ current' = current
          /\ projekte' = [projekte EXCEPT !.registry = IF ok THEN "rows" ELSE "error"]
      BY <1>5 DEF loadRegistryProjects
    <2>2. /\ projekte' \in ProjekteRecord /\ projekte'.listeners = projekte.listeners
          /\ projekte'.held = projekte.held /\ projekte'.drawn = projekte.drawn
      BY <2>1 DEF ProjekteType, ProjekteRecord
    <2> QED BY <2>1, <2>2 DEF ProjekteType, ProjekteListens
  <1>6. CASE UNCHANGED <<current, org, projekte>>
    BY <1>6 DEF ProjekteType, ProjekteListens
  <1>7. CASE Routinen \/ OpAnswers \/ UNCHANGED vars
    BY <1>6, <1>7 DEF Routinen, changeArchived, routineCreated, clickRow, OpAnswers, OpRefused, OpAnswer, OpFails, OpHandled,
                      unrelated, vars
  <1>8. CASE refreshEvidence \/ clearFilter \/ (\E k \in Tokens : EvidenceAnswer(k))
    BY <1>6, <1>8 DEF refreshEvidence, clearFilter, EvidenceAnswer, others
  <1>9. CASE \E l \in Loads : LoadAnswers(l)
    BY <1>6, <1>9 DEF LoadAnswers, LoadRead, LoadAnswer, LoadFails, unrelated
  <1> QED BY <1>2, <1>3, <1>4, <1>5, <1>7, <1>8, <1>9 DEF Next, Work

\* load() starts in a free place of the loads.
LEMMA LoadStarts ==
    ASSUME NEW loads \in [Loads -> LoadRecord], startLoad(loads) PROVE load' \in [Loads -> LoadRecord]
  <1>1. PICK l \in Loads : load' = [loads EXCEPT ![l].at = "asked"]
    BY DEF startLoad
  <1>2. [loads[l] EXCEPT !.at = "asked"] \in LoadRecord
    BY DEF LoadRecord
  <1> QED BY <1>1, <1>2

\* The lists the routines view starts with.
LEMMA FreshLists ==
    /\ NoLoad \in LoadRecord /\ NoLoads \in [Loads -> LoadRecord] /\ NoOp \in OpRecord
    /\ LoadingList \in ListRecord /\ [NoList EXCEPT !.shows = "error"] \in ListRecord
    /\ Unbuilt \in RoutinenRecord
  <1>1. NoLoad \in LoadRecord /\ NoOp \in OpRecord
    BY DEF NoLoad, NoOp, LoadRecord, OpRecord
  <1>2. NoLoads \in [Loads -> LoadRecord]
    BY <1>1 DEF NoLoads
  <1>3. NoList \in ListRecord
    BY DEF NoList, ListRecord
  <1>4. LoadingList \in ListRecord /\ [NoList EXCEPT !.shows = "error"] \in ListRecord
    BY <1>3 DEF LoadingList, ListRecord
  <1>5. Unbuilt \in RoutinenRecord
    BY <1>3 DEF Unbuilt, RoutinenRecord
  <1> QED BY <1>1, <1>2, <1>4, <1>5

\* Every step keeps the types of the routines view and of its requests.
LEMMA RoutinenStep == ASSUME RoutinenType, [Next]_vars PROVE RoutinenType'
  <1> USE DEF RoutinenType
  <1>1. ASSUME leaveRoutinen, UNCHANGED routine PROVE RoutinenType'
    <2>1. [op EXCEPT !.attached = FALSE, !.row = FALSE] \in OpRecord
      BY DEF OpRecord
    <2> QED BY <1>1, <2>1, FreshLists DEF leaveRoutinen
  <1>2. ASSUME NEW view \in ViewNames, show(view) PROVE RoutinenType'
    <2>1. [Unbuilt EXCEPT !.list = LoadingList] \in RoutinenRecord
      BY FreshLists DEF RoutinenRecord
    <2>2. routine' = routine
      BY <1>2 DEF show
    <2>3. CASE view = "routinen"
      <3>1. routinen' \in RoutinenRecord /\ startLoad(NoLoads) /\ op' = op
        BY <1>2, <2>1, <2>3 DEF show
      <3>2. load' \in [Loads -> LoadRecord]
        BY <3>1, FreshLists, LoadStarts
      <3> QED BY <2>2, <3>1, <3>2
    <2>4. CASE view # "routinen"
      BY <1>1, <1>2, <2>2, <2>4 DEF show
    <2> QED BY <2>3, <2>4
  <1>3. ASSUME NEW a \in Agents, openForAgent(a) PROVE RoutinenType'
    BY <1>1, <1>3 DEF openForAgent
  <1>4. ASSUME NEW r \in RoutinenRecord, Reload(r) PROVE routinen' \in RoutinenRecord /\ load' \in [Loads -> LoadRecord]
    <2>1. [r EXCEPT !.list = LoadingList, !.disabled = {}] \in RoutinenRecord
      BY FreshLists DEF RoutinenRecord
    <2> QED BY <1>4, <2>1, LoadStarts DEF Reload
  <1>5. [op EXCEPT !.row = FALSE] \in OpRecord
    BY DEF OpRecord
  <1>6. CASE changeArchived
    <2>1. [routinen EXCEPT !.showArchived = ~@] \in RoutinenRecord
      BY DEF RoutinenRecord
    <2> QED BY <1>4, <1>5, <1>6, <2>1 DEF changeArchived, Rerendered
  <1>12. CASE routineCreated
    BY <1>4, <1>5, <1>12 DEF routineCreated, Rerendered
  <1>7. ASSUME NEW button \in {"toggle", "archive"}, clickRow(button) PROVE RoutinenType'
    <2>1. [routinen EXCEPT !.disabled = @ \cup {button}] \in RoutinenRecord
      BY DEF RoutinenRecord
    <2>2. op' \in OpRecord
      BY <1>7 DEF clickRow, OpRecord
    <2> QED BY <1>7, <2>1, <2>2 DEF clickRow
  <1>8. CASE OpAnswers
    <2>1. \A at \in {"answered", "failed"} : [op EXCEPT !.at = at] \in OpRecord
      BY DEF OpRecord
    <2>2. CASE OpRefused
      BY <2>1, <2>2, FreshLists DEF OpRefused
    <2>3. CASE OpAnswer
      BY <1>4, <2>3, FreshLists DEF OpAnswer
    <2>4. CASE OpFails
      <3>1. [routinen EXCEPT !.disabled = {}] \in RoutinenRecord
        BY DEF RoutinenRecord
      <3> QED BY <2>4, <3>1, FreshLists DEF OpFails
    <2>5. ASSUME NEW lost \in BOOLEAN, OpHandled(lost) PROVE RoutinenType'
      <3>1. routine' \in RoutineStatus
        BY <2>5 DEF OpHandled, RoutineStatus
      <3>2. op' = IF op.attached THEN [op EXCEPT !.at = IF lost THEN "failed" ELSE "answered"] ELSE NoOp
        BY <2>5 DEF OpHandled
      <3>3. op' \in OpRecord
        BY <2>1, <3>2, FreshLists
      <3> QED BY <2>5, <3>1, <3>3 DEF OpHandled
    <2> QED BY <1>8, <2>2, <2>3, <2>4, <2>5 DEF OpAnswers
  <1>9. ASSUME NEW l \in Loads, LoadAnswers(l) PROVE RoutinenType'
    <2>1. [load EXCEPT ![l] = NoLoad] \in [Loads -> LoadRecord]
      BY FreshLists
    <2>2. CASE LoadRead(l)
      <3>1. [load[l] EXCEPT !.at = "read", !.seen = routine] \in LoadRecord
        BY DEF LoadRecord
      <3> QED BY <2>2, <3>1 DEF LoadRead
    <2>3. CASE LoadAnswer(l)
      <3>1. load[l].seen \in RoutineStatus \cup {"none"} /\ routinen.showArchived \in BOOLEAN
        BY DEF LoadRecord, RoutinenRecord
      <3>2. [shows |-> "rows", archived |-> routinen.showArchived, seen |-> load[l].seen] \in ListRecord
        BY <3>1 DEF ListRecord
      <3>3. routinen' \in RoutinenRecord
        BY <2>3, <3>2 DEF LoadAnswer, renderList, RoutinenRecord
      <3> QED BY <1>5, <2>1, <2>3, <3>3 DEF LoadAnswer, Rerendered
    <2>4. CASE LoadFails(l)
      <3>1. routinen' \in RoutinenRecord
        BY <2>4, FreshLists DEF LoadFails, RoutinenRecord
      <3> QED BY <1>5, <2>1, <2>4, <3>1 DEF LoadFails, Rerendered
    <2> QED BY <1>9, <2>2, <2>3, <2>4 DEF LoadAnswers
  <1>10. CASE refreshEvidence \/ clearFilter \/ (\E k \in Tokens : EvidenceAnswer(k))
    BY <1>10 DEF refreshEvidence, clearFilter, EvidenceAnswer, others
  <1>11. CASE OrgNotified \/ (\E ok \in BOOLEAN : loadRegistryProjects(ok)) \/ UNCHANGED vars
    BY <1>11 DEF OrgNotified, loadRegistryProjects, vars
  <1> QED BY <1>2, <1>3, <1>6, <1>7, <1>8, <1>9, <1>10, <1>11, <1>12 DEF Next, Work, Routinen

-----------------------------------------------------------------------------
(* The list of the routines and its checkbox.                              *)

\* A shown routines view waits for an answer as long as it says so, and its
\* rows were drawn with the checkbox as it is.
ListFollowsCheckbox ==
    current = "routinen" =>
        \/ routinen.list.shows = "loading" /\ \E l \in Loads : load[l].at # "idle"
        \/ routinen.list.shows = "error"
        \/ routinen.list.shows = "rows" /\ routinen.list.archived = routinen.showArchived

\* load() leaves a request under way.
LEMMA LoadUnderWay ==
    ASSUME NEW loads \in [Loads -> LoadRecord], startLoad(loads) PROVE \E l \in Loads : load'[l].at # "idle"
  <1>1. PICK l \in Loads : load' = [loads EXCEPT ![l].at = "asked"]
    BY DEF startLoad
  <1>2. load'[l] = [loads[l] EXCEPT !.at = "asked"]
    BY <1>1
  <1>3. load'[l].at = "asked"
    BY <1>2 DEF LoadRecord
  <1> QED BY <1>3

\* Every step keeps the list and the checkbox together.
LEMMA CheckboxStep ==
    ASSUME RoutinenType, ListFollowsCheckbox, [Next]_vars PROVE ListFollowsCheckbox'
  <1> USE DEF RoutinenType
  <1>1. LoadingList.shows = "loading"
    BY DEF LoadingList, NoList
  <1>2. ASSUME NEW r \in RoutinenRecord, Reload(r) PROVE ListFollowsCheckbox'
    <2>1. routinen'.list = LoadingList
      BY <1>2 DEF Reload, RoutinenRecord
    <2> QED BY <1>1, <1>2, <2>1, LoadUnderWay DEF Reload, ListFollowsCheckbox
  <1>3. ASSUME NEW view \in ViewNames, show(view) PROVE ListFollowsCheckbox'
    <2>1. CASE view = "routinen"
      <3>1. routinen' = [Unbuilt EXCEPT !.list = LoadingList] /\ startLoad(NoLoads)
        BY <1>3, <2>1 DEF show
      <3>2. routinen'.list = LoadingList
        BY <3>1, FreshLists DEF RoutinenRecord
      <3> QED BY <1>1, <3>1, <3>2, FreshLists, LoadUnderWay DEF ListFollowsCheckbox
    <2>2. CASE view # "routinen"
      BY <1>3, <2>2 DEF show, ListFollowsCheckbox
    <2> QED BY <2>1, <2>2
  <1>4. ASSUME NEW a \in Agents, openForAgent(a) PROVE ListFollowsCheckbox'
    BY <1>4 DEF openForAgent, ListFollowsCheckbox
  <1>5. CASE changeArchived
    <2>1. [routinen EXCEPT !.showArchived = ~@] \in RoutinenRecord
      BY DEF RoutinenRecord
    <2> QED BY <1>2, <1>5, <2>1 DEF changeArchived
  <1>6. CASE OpAnswer \/ routineCreated
    BY <1>2, <1>6 DEF OpAnswer, routineCreated
  <1>7. ASSUME UNCHANGED <<current, load>>, routinen'.list = routinen.list,
               routinen'.showArchived = routinen.showArchived
        PROVE  ListFollowsCheckbox'
    BY <1>7 DEF ListFollowsCheckbox
  <1>8. ASSUME NEW button \in {"toggle", "archive"}, clickRow(button) PROVE ListFollowsCheckbox'
    <2>1. routinen' = [routinen EXCEPT !.disabled = @ \cup {button}] /\ UNCHANGED <<current, load>>
      BY <1>8 DEF clickRow, unrelated
    <2>2. routinen'.list = routinen.list /\ routinen'.showArchived = routinen.showArchived
      BY <2>1 DEF RoutinenRecord
    <2> QED BY <1>7, <2>1, <2>2
  <1>9. CASE OpFails
    <2>1. /\ routinen' = IF op.row THEN [routinen EXCEPT !.disabled = {}] ELSE routinen
          /\ UNCHANGED <<current, load>>
      BY <1>9 DEF OpFails, unrelated
    <2>2. routinen'.list = routinen.list /\ routinen'.showArchived = routinen.showArchived
      BY <2>1 DEF RoutinenRecord
    <2> QED BY <1>7, <2>1, <2>2
  <1>10. CASE OpRefused \/ (\E lost \in BOOLEAN : OpHandled(lost))
    BY <1>7, <1>10 DEF OpRefused, OpHandled, unrelated
  <1>11. ASSUME NEW l \in Loads, LoadRead(l) PROVE ListFollowsCheckbox'
    <2>1. /\ load' = [load EXCEPT ![l] = [@ EXCEPT !.at = "read", !.seen = routine]]
          /\ UNCHANGED <<current, routinen>>
      BY <1>11 DEF LoadRead, unrelated
    <2>2. load'[l] = [load[l] EXCEPT !.at = "read", !.seen = routine]
      BY <2>1
    <2>3. load'[l].at = "read"
      BY <2>2 DEF LoadRecord
    <2> QED BY <2>1, <2>3 DEF ListFollowsCheckbox
  <1>12. ASSUME NEW l \in Loads, LoadAnswer(l) PROVE ListFollowsCheckbox'
    <2> DEFINE rows == [shows |-> "rows", archived |-> routinen.showArchived, seen |-> load[l].seen]
    <2>1. routinen' = [routinen EXCEPT !.list = rows, !.disabled = {}]
      BY <1>12 DEF LoadAnswer, renderList
    <2>2. routinen'.list = rows /\ routinen'.showArchived = routinen.showArchived
      BY <2>1 DEF RoutinenRecord
    <2> QED BY <2>2 DEF ListFollowsCheckbox
  <1>13. ASSUME NEW l \in Loads, LoadFails(l) PROVE ListFollowsCheckbox'
    <2>1. routinen' = [routinen EXCEPT !.list = [NoList EXCEPT !.shows = "error"], !.disabled = {}]
      BY <1>13 DEF LoadFails
    <2>2. routinen'.list = [NoList EXCEPT !.shows = "error"]
      BY <2>1 DEF RoutinenRecord
    <2>3. routinen'.list.shows = "error"
      BY <2>2 DEF NoList
    <2> QED BY <2>3 DEF ListFollowsCheckbox
  <1>14. CASE refreshEvidence \/ clearFilter \/ (\E k \in Tokens : EvidenceAnswer(k))
    BY <1>7, <1>14 DEF refreshEvidence, clearFilter, EvidenceAnswer, others
  <1>15. CASE OrgNotified \/ (\E ok \in BOOLEAN : loadRegistryProjects(ok)) \/ UNCHANGED vars
    BY <1>7, <1>15 DEF OrgNotified, loadRegistryProjects, vars
  <1> QED BY <1>3, <1>4, <1>5, <1>6, <1>8, <1>9, <1>10, <1>11, <1>12, <1>13, <1>14, <1>15
          DEF Next, Work, Routinen, OpAnswers, LoadAnswers

-----------------------------------------------------------------------------
\* The page starts in the invariant.
LEMMA Start == Init => Inv
  <1> SUFFICES ASSUME Init PROVE Inv OBVIOUS
  <1>1. WorkInv
    BY BoundsAssumption DEF Init, WorkInv, WorkRecord, FetchType, Filters, ShownIsMounted,
                            NewestAsksForFilter, EvidenceOfFilter
  <1>2. ProjekteInv
    BY BoundsAssumption DEF Init, ProjekteInv, ProjekteType, ProjekteRecord, ProjekteListens, ViewNames
  <1>3. RoutinenType
    BY FreshLists DEF Init, RoutinenType, RoutineStatus
  <1> QED BY <1>1, <1>2, <1>3, Parts

\* Every step of the page and of the server keeps the invariant.
THEOREM PageInvariant == Spec => []Inv
  <1>1. Inv /\ [Next]_vars => Inv'
    <2> SUFFICES ASSUME Inv, [Next]_vars PROVE Inv' OBVIOUS
    <2>1. WorkInv' /\ ProjekteInv' /\ RoutinenType'
      BY Parts, WorkStep, ProjekteStep, RoutinenStep
    <2>2. Inv' <=> WorkInv' /\ ProjekteInv' /\ RoutinenType'
      BY Parts, PTL
    <2> QED BY <2>1, <2>2
  <1> QED BY <1>1, Start, PTL DEF Spec

\* Every closure variable and node keeps its type; in particular no view ever
\* takes off a listener that is not there.
THEOREM PageTypes == Spec => []TypeOK
  <1>1. Inv => TypeOK
    BY DEF Inv
  <1> QED BY <1>1, PageInvariant, PTL

\* A work view that is done loading shows the evidence of the agent its filter
\* names, in whatever order any number of requests is answered.
THEOREM EvidenceIsOfFilter == Spec => []EvidenceOfFilter
  <1>1. Inv => EvidenceOfFilter
    BY DEF Inv
  <1> QED BY <1>1, PageInvariant, PTL

\* The projects view has one listener while it is shown and none otherwise,
\* after any number of visits.
THEOREM ListensWhileShown == Spec => []ProjekteListens
  <1>1. Inv => ProjekteListens
    BY DEF Inv
  <1> QED BY <1>1, PageInvariant, PTL

\* When no answer is awaited any more, the routines view shows an error or the
\* rows its checkbox asks for, in whatever order its loads were answered.
THEOREM CheckboxRespected == Spec => []RoutinesOfCheckbox
  <1>1. Init => ListFollowsCheckbox
    BY DEF Init, ListFollowsCheckbox
  <1>2. Inv /\ ListFollowsCheckbox /\ [Next]_vars => ListFollowsCheckbox'
    BY Parts, CheckboxStep
  <1>3. ListFollowsCheckbox => RoutinesOfCheckbox
    BY DEF ListFollowsCheckbox, RoutinesOfCheckbox, NoLoad
  <1> QED BY <1>1, <1>2, <1>3, PageInvariant, PTL DEF Spec
=============================================================================
