---------------------------- MODULE MissionChat ----------------------------
(* The chat surface (chat.js) with the secret warning of credentials.js.   *)
(* A message is the set of signals its pattern matches find in it. Every   *)
(* await of a handler ends an action; the requests of one handler are      *)
(* answered in order, those of different handlers and of overlapping polls *)
(* in any order, and any of them may fail.                                 *)
EXTENDS Naturals, Sequences, FiniteSets

CONSTANTS
    Texts,          \* the messages the owner may type, sets of signals
    Blank,          \* the empty input field
    Agents,         \* agents of the sidebar
    NoAgent,        \* currentAgentId before the first openAgent
    MaxTurns,       \* bound: turns of the thread
    MaxWarnings,    \* bound: secret warnings below the input at one time
    MaxPolls,       \* bound: overlapping ticks of one turn
    MaxApprovals,   \* bound: approvals the server ever creates
    Kinds,          \* bound: what each of them may be asked for
    Ends,           \* bound: the final statuses missions get
    ApprovalLimit   \* the limit=20 of GET /approvals

Signals == {"weekday", "daily", "eachMorning", "weekly", "monthly", "morningAt", "time", "secret"}

ASSUME TextsAssumption == Texts \subseteq SUBSET Signals /\ Blank \notin Texts
ASSUME AgentsAssumption == NoAgent \notin Agents
ASSUME BoundsAssumption ==
    /\ MaxTurns \in Nat /\ MaxWarnings \in Nat /\ MaxPolls \in Nat
    /\ MaxApprovals \in Nat /\ ApprovalLimit \in Nat
    /\ Kinds \in [1..MaxApprovals -> SUBSET {"task", "call"}]
    /\ Ends \subseteq {"completed", "failed", "cancelled"}

VARIABLES
    input,          \* inputEl.value
    warnings,       \* the warnings shown, each closed over the text it warns of
    agreed,         \* history: texts the owner sent after a warning
    currentAgentId, \* the agent of the last openAgent
    turn,           \* the turns of the thread
    poll,           \* the ticks of every turn that wait for an answer
    mission,        \* server: status of the mission of every turn
    approvals,      \* server: approval rows, oldest first
    routines        \* server: owners of the routines each turn has created

serverVars == <<mission, approvals, routines>>
vars == <<input, warnings, agreed, currentAgentId, turn, poll, serverVars>>

Turns == 1..MaxTurns
Polls == 1..MaxPolls
TERMINAL_STATUSES == {"completed", "failed", "cancelled"}
MissionStatus == {"none", "running", "waiting_approval", "blocked"} \cup TERMINAL_STATUSES

Unused == [text |-> Blank, kind |-> "none", at |-> "unused", owner |-> NoAgent, progress |-> "none",
           rendered |-> FALSE, cards |-> <<>>, result |-> <<>>]
Idle == [at |-> "idle", seen |-> "none", tasks |-> FALSE, pending |-> {}]

Init ==
    /\ input = Blank /\ warnings = <<>> /\ agreed = {} /\ currentAgentId = NoAgent
    /\ turn = [t \in Turns |-> Unused]
    /\ poll = [t \in Turns |-> [p \in Polls |-> Idle]]
    /\ mission = [t \in Turns |-> "none"]
    /\ approvals = <<>>
    /\ routines = [t \in Turns |-> <<>>]

-----------------------------------------------------------------------------
(* Composing a message.                                                    *)

looksLikeSecret(text) == "secret" \in text

detectRoutineIntent_TimedIsPlain(text) ==
    LET weeklyVague == "weekly" \in text /\ "weekday" \notin text /\ "time" \notin text
        tomorrow == "morningAt" \in text /\ "eachMorning" \notin text
        often == text \cap {"weekday", "daily", "eachMorning"} # {}
    IN  IF "monthly" \in text \/ tomorrow THEN "unsupported"
        ELSE IF weeklyVague \/ (often /\ "time" \notin text) THEN "clarify"
        ELSE IF often THEN "clear" ELSE "null"

\* The patterns in the order the code asks for them.
detectRoutineIntent(text) ==
    LET weeklyVague == "weekly" \in text /\ "weekday" \notin text
        tomorrow == "morningAt" \in text /\ "eachMorning" \notin text
        often == text \cap {"weekday", "daily", "eachMorning"} # {}
    IN  IF "monthly" \in text \/ tomorrow THEN "unsupported"
        ELSE IF weeklyVague \/ (often /\ "time" \notin text) THEN "clarify"
        ELSE IF often THEN "clear" ELSE "null"

\* Bound: nothing more is composed once the thread is full.
Room == \E t \in Turns : turn[t] = Unused

NextTurn(t) == turn[t] = Unused /\ \A u \in Turns : u < t => turn[u] # Unused

\* A new turn of the thread; the input field is emptied first. A message that
\* is not about a routine is posted as a mission at once.
sendText(text) ==
    LET intent == detectRoutineIntent(text)
        kind == CASE intent = "clear" -> "routine"
                  [] intent = "null" -> "mission"
                  [] OTHER -> "clarify"
        at == CASE kind = "routine" -> "offered"
                [] kind = "mission" -> "posting"
                [] OTHER -> "answered"
    IN  /\ \E t \in Turns :
               /\ NextTurn(t)
               /\ turn' = [turn EXCEPT ![t] = [Unused EXCEPT !.text = text, !.kind = kind, !.at = at]]
        /\ input' = Blank

\* The owner edits the field, or takes a starter chip.
Type(text) ==
    /\ Room
    /\ input' = text /\ input # text
    /\ UNCHANGED <<warnings, agreed, currentAgentId, turn, poll, serverVars>>

\* A blank message does nothing; one that looks like a secret only adds a
\* warning, and the field keeps it.
handleSend ==
    /\ input # Blank
    /\ IF looksLikeSecret(input)
       THEN /\ Room /\ Len(warnings) < MaxWarnings
            /\ warnings' = Append(warnings, input)
            /\ UNCHANGED <<input, turn>>
       ELSE sendText(input) /\ UNCHANGED warnings
    /\ UNCHANGED <<agreed, currentAgentId, poll, serverVars>>

Without(i) == [j \in 1..(Len(warnings) - 1) |-> IF j < i THEN warnings[j] ELSE warnings[j + 1]]

\* "Verwerfen" empties the field, whatever it holds by now. ("Sicher
\* hinterlegen" leaves the warning and opens the dialog of module AgentPane.)
WarningDiscard(i) ==
    /\ input' = Blank
    /\ warnings' = Without(i)
    /\ UNCHANGED <<agreed, currentAgentId, turn, poll, serverVars>>

WarningSend_FieldText(i) ==
    /\ input # Blank
    /\ agreed' = agreed \cup {warnings[i]}
    /\ warnings' = Without(i)
    /\ sendText(input)
    /\ UNCHANGED <<currentAgentId, poll, serverVars>>

\* "Trotzdem senden" sends the text the warning was made for.
WarningSend(i) ==
    /\ agreed' = agreed \cup {warnings[i]}
    /\ warnings' = Without(i)
    /\ sendText(warnings[i])
    /\ UNCHANGED <<currentAgentId, poll, serverVars>>

\* The sidebar opens a chat: later routines belong to that agent.
openAgent(a) ==
    /\ \E t \in Turns : turn[t].at \in {"offered", "creating"}    \* bound: else nothing reads it
    /\ currentAgentId # a
    /\ currentAgentId' = a
    /\ UNCHANGED <<input, warnings, agreed, turn, poll, serverVars>>

-----------------------------------------------------------------------------
(* The confirmation card of a routine.                                     *)

At(t, place) == turn[t].at = place
Enter(t, place) == turn' = [turn EXCEPT ![t].at = place]
composing == <<input, warnings, agreed, currentAgentId>>

\* All three buttons are disabled while POST /routines is on its way, which
\* names the agent of the chat that is open now (the builder if none is).
RoutineCreate(t) ==
    /\ At(t, "offered")
    /\ turn' = [turn EXCEPT ![t].at = "creating", ![t].owner = currentAgentId]
    /\ UNCHANGED <<composing, poll, serverVars>>

\* The server creates the routine and its answer arrives, or gets lost.
RoutineAnswer(t, lost) ==
    /\ At(t, "creating")
    /\ Len(routines[t]) < 2                         \* bound: retries after a lost answer
    /\ routines' = [routines EXCEPT ![t] = Append(@, [owner |-> turn[t].owner, lost |-> lost])]
    /\ Enter(t, IF lost THEN "offered" ELSE "created")
    /\ UNCHANGED <<composing, poll, mission, approvals>>

RoutineRefused(t) ==
    /\ At(t, "creating")
    /\ Enter(t, "offered")
    /\ UNCHANGED <<composing, poll, serverVars>>

\* "Ändern" puts the text back into the field, to be sent again.
RoutineChange(t) ==
    /\ At(t, "offered")
    /\ Enter(t, "withdrawn")
    /\ input' = turn[t].text
    /\ UNCHANGED <<warnings, agreed, currentAgentId, poll, serverVars>>

RoutineCancel(t) ==
    /\ At(t, "offered")
    /\ Enter(t, "withdrawn")
    /\ UNCHANGED <<composing, poll, serverVars>>

-----------------------------------------------------------------------------
(* Starting a mission.                                                     *)

\* POST /missions: accepted and answered, accepted with the answer lost, or
\* refused. An error ends the turn with an error bubble.
MissionPosted(t, accepted, answered) ==
    /\ At(t, "posting")
    /\ answered => accepted
    /\ mission' = [mission EXCEPT ![t] = IF accepted THEN "running" ELSE @]
    /\ Enter(t, IF answered THEN "dispatching" ELSE "notStarted")
    /\ UNCHANGED <<composing, poll, approvals, routines>>

\* GET /company/live, whose failure counts as no events, then trackMission:
\* the first tick starts at once and the timer is set.
TrackMission(t) ==
    /\ At(t, "dispatching")
    /\ Enter(t, "tracking")
    /\ poll' = [poll EXCEPT ![t][1].at = "mission"]
    /\ UNCHANGED <<composing, serverVars>>

-----------------------------------------------------------------------------
(* Polling. The timer starts a tick whether or not the last one is done.   *)

Settle(t, p) == poll' = [poll EXCEPT ![t][p] = Idle]

TickStart(t, p) ==
    /\ At(t, "tracking")                            \* stopped, or the timer is cleared
    /\ poll[t][p].at = "idle" /\ \A q \in Polls : q < p => poll[t][q].at # "idle"
    /\ poll' = [poll EXCEPT ![t][p].at = "mission"]
    /\ UNCHANGED <<composing, turn, serverVars>>

TickFails_GivesUp(t, p) ==
    /\ poll[t][p].at = "mission"
    /\ Settle(t, p)
    /\ IF At(t, "tracking") THEN Enter(t, "notStarted") ELSE UNCHANGED turn
    /\ UNCHANGED <<composing, serverVars>>

\* A failing request ends this tick and not the timer.
TickFails(t, p) ==
    /\ poll[t][p].at = "mission"
    /\ Settle(t, p)
    /\ UNCHANGED <<composing, turn, serverVars>>

TickMission(t, p) ==
    /\ poll[t][p].at = "mission"
    /\ poll' = [poll EXCEPT ![t][p] = [@ EXCEPT !.at = "tasks", !.seen = mission[t]]]
    /\ UNCHANGED <<composing, turn, serverVars>>

Shown_AlwaysResult(tu, status) ==
    [tu EXCEPT !.progress = IF status \in TERMINAL_STATUSES THEN "none" ELSE "line",
               !.at = IF status \in TERMINAL_STATUSES THEN "stopped" ELSE @,
               !.result = Append(@, status)]

\* What a tick shows of the status it has read.
Shown(tu, status) ==
    [tu EXCEPT !.progress = CASE status \in {"waiting_approval", "blocked"} -> "line"
                              [] status \in TERMINAL_STATUSES -> "none"
                              [] OTHER -> "checklist",
               !.at = IF status \in TERMINAL_STATUSES THEN "stopped" ELSE @,
               !.result = IF status \in TERMINAL_STATUSES THEN Append(@, status) ELSE @]

TickRest_NotAsked(t, p, tasks) ==
    /\ poll[t][p].at = "tasks"
    /\ turn' = [turn EXCEPT ![t] = Shown(@, poll[t][p].seen)]
    /\ IF poll[t][p].seen = "waiting_approval" /\ ~turn[t].rendered
       THEN poll' = [poll EXCEPT ![t][p] = [@ EXCEPT !.at = "approvals", !.tasks = tasks]]
       ELSE Settle(t, p)
    /\ UNCHANGED <<composing, serverVars>>

\* The tasks and the execution are in (a failure counts as none): stopped is
\* asked again, then the status is shown, an approval looked for unless the
\* slot has one, and a terminal status ends the polling with a result.
TickRest(t, p, tasks) ==
    /\ poll[t][p].at = "tasks"
    /\ IF At(t, "stopped")
       THEN Settle(t, p) /\ UNCHANGED turn
       ELSE /\ turn' = [turn EXCEPT ![t] = Shown(@, poll[t][p].seen)]
            /\ IF poll[t][p].seen = "waiting_approval" /\ ~turn[t].rendered
               THEN poll' = [poll EXCEPT ![t][p] = [@ EXCEPT !.at = "approvals", !.tasks = tasks]]
               ELSE Settle(t, p)
    /\ UNCHANGED <<composing, serverVars>>

\* The card of the first row found. Nothing asks again whether the slot was
\* filled meanwhile.
renderApprovalCard(t, found) ==
    \E a \in found :
        /\ \A b \in found : a <= b
        /\ turn' = [turn EXCEPT ![t].rendered = TRUE,
                                ![t].cards = Append(@, [approval |-> a, state |-> "open"])]

ListedPending(by) ==
    {a \in 1..Len(approvals) : a <= ApprovalLimit /\ approvals[a].status = "pending" /\ approvals[a].by = by}

\* GET /approvals answers with the oldest rows, resolved ones among them. A
\* row of a known task is taken; else the pending rows of tool calls are kept
\* and the calls of the own tasks are asked for.
TickApprovals(t, p) ==
    /\ poll[t][p].at = "approvals"
    /\ LET own == {a \in ListedPending("task") : poll[t][p].tasks /\ approvals[a].mission = t}
       IN  \/ renderApprovalCard(t, own) /\ Settle(t, p)
           \/ /\ own = {} /\ ListedPending("call") # {}
              /\ poll' = [poll EXCEPT ![t][p] = [@ EXCEPT !.at = "calls", !.pending = ListedPending("call")]]
              /\ UNCHANGED turn
           \/ /\ own = {} /\ ListedPending("call") = {}
              /\ Settle(t, p) /\ UNCHANGED turn
    /\ UNCHANGED <<composing, serverVars>>

TickApprovalsFail(t, p) ==
    /\ poll[t][p].at = "approvals"
    /\ Settle(t, p)
    /\ UNCHANGED <<composing, turn, serverVars>>

TickCalls_AnyCall(t, p, answered) ==
    /\ poll[t][p].at = "calls"
    /\ renderApprovalCard(t, poll[t][p].pending)
    /\ Settle(t, p)
    /\ UNCHANGED <<composing, serverVars>>

\* The tool calls of the own tasks; a failing list counts as empty.
TickCalls(t, p, answered) ==
    /\ poll[t][p].at = "calls"
    /\ LET own == {a \in poll[t][p].pending : answered /\ poll[t][p].tasks /\ approvals[a].mission = t}
       IN  IF own = {} THEN UNCHANGED turn ELSE renderApprovalCard(t, own)
    /\ Settle(t, p)
    /\ UNCHANGED <<composing, serverVars>>

-----------------------------------------------------------------------------
(* The buttons of an approval card.                                        *)

CardState(t, c) == turn[t].cards[c].state
CardApproval(t, c) == turn[t].cards[c].approval
Cards(t) == 1..Len(turn[t].cards)

\* Both buttons are disabled before the request.
ResolveClick(t, c, action) ==
    /\ CardState(t, c) = "open"
    /\ turn' = [turn EXCEPT ![t].cards[c].state = IF action = "approved" THEN "approving" ELSE "denying"]
    /\ UNCHANGED <<composing, poll, serverVars>>

Decision(t, c) == IF CardState(t, c) = "approving" THEN "approved" ELSE "denied"

\* Server: the roll-up of a mission one of whose tasks gets a new status: a
\* failed task counts before a cancelled one, and both before the live ones.
RolledUp(m, status) ==
    IF mission[m] \in {"completed", "failed"} \/ (mission[m] = "cancelled" /\ status # "failed")
    THEN mission[m] ELSE status

OthersPending(a) ==
    \E b \in 1..Len(approvals) \ {a} :
        approvals[b].mission = approvals[a].mission /\ approvals[b].status = "pending"

\* Server: the approval gets its status, and the task that waits for it goes
\* on or ends as status says.
Decided(a, result, status) ==
    /\ approvals[a].status = "pending"
    /\ approvals' = [approvals EXCEPT ![a].status = result]
    /\ LET after == IF status = "running" /\ OthersPending(a) THEN "waiting_approval" ELSE status
       IN  mission' = [m \in Turns |-> IF m = approvals[a].mission THEN RolledUp(m, after) ELSE mission[m]]

\* The request is accepted: its label replaces the buttons; a lost answer
\* enables them again, as a refusal does.
ResolveAnswer(t, c, lost) ==
    /\ CardState(t, c) \in {"approving", "denying"}
    /\ Decided(CardApproval(t, c), Decision(t, c), IF Decision(t, c) = "approved" THEN "running" ELSE "cancelled")
    /\ turn' = [turn EXCEPT ![t].cards[c].state = IF lost THEN "open" ELSE Decision(t, c)]
    /\ UNCHANGED <<composing, poll, routines>>

ResolveRefused(t, c) ==
    /\ CardState(t, c) \in {"approving", "denying"}
    /\ turn' = [turn EXCEPT ![t].cards[c].state = "open"]
    /\ UNCHANGED <<composing, poll, serverVars>>

-----------------------------------------------------------------------------
(* The server, as far as the chat sees it.                                 *)

client == <<composing, turn, poll>>

\* A step of a mission, or of something the chat does not track (0), asks for
\* an approval, for a task or for one of its tool calls.
AskApproval(m, by) ==
    /\ Len(approvals) < MaxApprovals /\ by \in Kinds[Len(approvals) + 1]
    /\ m \in Turns => mission[m] \in {"running", "waiting_approval", "failed", "cancelled"}
    /\ approvals' = Append(approvals, [mission |-> m, by |-> by, status |-> "pending"])
    /\ mission' = [t \in Turns |-> IF t = m THEN RolledUp(t, "waiting_approval") ELSE mission[t]]
    /\ UNCHANGED <<client, routines>>

\* An approval gets overdue and its task fails, or its task is cancelled.
Expire(a, status) ==
    /\ Decided(a, "expired", status)
    /\ UNCHANGED <<client, routines>>

\* A task without an approval gets on, or ends: also while another one waits,
\* and a mission that is cancelled can still fail.
MissionMoves(t, status) ==
    /\ mission[t] \notin {"none", "completed", status}
    /\ status \in {"running", "blocked"} \cup Ends
    /\ mission[t] = "waiting_approval" => status \in {"failed", "cancelled"}
    /\ RolledUp(t, status) = status
    /\ mission' = [mission EXCEPT ![t] = status]
    /\ UNCHANGED <<client, approvals, routines>>

-----------------------------------------------------------------------------
Composing ==
    \/ \E text \in Texts : Type(text)
    \/ handleSend
    \/ \E i \in 1..Len(warnings) : WarningDiscard(i) \/ WarningSend(i)
    \/ \E a \in Agents : openAgent(a)

RoutineCard(t) ==
    \/ RoutineCreate(t) \/ RoutineRefused(t) \/ RoutineChange(t) \/ RoutineCancel(t)
    \/ \E lost \in BOOLEAN : RoutineAnswer(t, lost)

Starting(t) ==
    \/ \E accepted, answered \in BOOLEAN : MissionPosted(t, accepted, answered)
    \/ TrackMission(t)

TickSteps(t, p) ==
    \/ TickFails(t, p) \/ TickMission(t, p)
    \/ \E tasks \in BOOLEAN : TickRest(t, p, tasks)
    \/ TickApprovals(t, p) \/ TickApprovalsFail(t, p)
    \/ \E answered \in BOOLEAN : TickCalls(t, p, answered)

ApprovalCard(t) ==
    \E c \in Cards(t) :
        \/ \E action \in {"approved", "denied"} : ResolveClick(t, c, action)
        \/ \E lost \in BOOLEAN : ResolveAnswer(t, c, lost)
        \/ ResolveRefused(t, c)

Server ==
    \/ \E m \in Turns \cup {0}, by \in {"task", "call"} : AskApproval(m, by)
    \/ \E a \in 1..Len(approvals), status \in {"failed", "cancelled"} : Expire(a, status)
    \/ \E t \in Turns, status \in MissionStatus : MissionMoves(t, status)

Next ==
    \/ Composing
    \/ \E t \in Turns :
        \/ RoutineCard(t) \/ Starting(t) \/ ApprovalCard(t)
        \/ \E p \in Polls : TickStart(t, p) \/ TickSteps(t, p)
    \/ Server

Spec == Init /\ [][Next]_vars

\* The timer fires, every request is answered or fails, and the requests for
\* the mission of a tracked turn do not fail for ever. Nothing is assumed of
\* the owner, of the missions' progress or of the other requests' success.
Fairness ==
    \A t \in Turns :
        /\ WF_vars(Starting(t))
        /\ WF_vars(\E p \in Polls : TickStart(t, p))
        /\ \A p \in Polls : WF_vars(TickSteps(t, p))
        /\ SF_vars(\E p \in Polls : TickMission(t, p))

FairSpec == Spec /\ Fairness

\* The other requests of a tick do not fail for ever either.
ReliableSpec ==
    /\ FairSpec
    /\ \A t \in Turns :
        /\ SF_vars(\E p \in Polls : TickRest(t, p, TRUE))
        /\ SF_vars(\E p \in Polls : poll[t][p].tasks /\ TickApprovals(t, p))
        /\ SF_vars(\E p \in Polls : poll[t][p].tasks /\ TickCalls(t, p, TRUE))

-----------------------------------------------------------------------------
CardStates == {"open", "approving", "denying", "approved", "denied"}
Places == {"unused", "answered", "offered", "creating", "created", "withdrawn",
           "posting", "notStarted", "dispatching", "tracking", "stopped"}

\* Every variable has the type of the DOM node, closure or row it models.
TypeOK ==
    /\ input \in Texts \cup {Blank}
    /\ warnings \in Seq(Texts)
    /\ agreed \subseteq Texts
    /\ currentAgentId \in Agents \cup {NoAgent}
    /\ turn \in [Turns ->
          [text : Texts \cup {Blank}, kind : {"none", "clarify", "routine", "mission"}, at : Places,
           owner : Agents \cup {NoAgent}, progress : {"none", "line", "checklist"}, rendered : BOOLEAN,
           cards : Seq([approval : Nat, state : CardStates]), result : Seq(TERMINAL_STATUSES)]]
    /\ poll \in [Turns -> [Polls ->
          [at : {"idle", "mission", "tasks", "approvals", "calls"}, seen : MissionStatus,
           tasks : BOOLEAN, pending : SUBSET Nat]]]
    /\ mission \in [Turns -> MissionStatus]
    /\ approvals \in Seq([mission : Turns \cup {0}, by : {"task", "call"},
                          status : {"pending", "approved", "denied", "expired"}])
    /\ routines \in [Turns -> Seq([owner : Agents \cup {NoAgent}, lost : BOOLEAN])]

\* However the ticks of a turn overlap, it ends with exactly one result card,
\* and no late tick puts a progress line back. The card shows how the mission
\* ended; only a mission shown as cancelled may have failed since.
ResultIsLast ==
    \A t \in Turns :
        IF At(t, "stopped")
        THEN /\ turn[t].progress = "none" /\ Len(turn[t].result) = 1
             /\ turn[t].result[1] = mission[t] \/ (turn[t].result[1] = "cancelled" /\ mission[t] = "failed")
        ELSE turn[t].result = <<>>

\* A message that looks like a secret enters the thread, and with it a request,
\* only after the owner insisted in a warning about that very message.
SecretsNeedConsent ==
    \A t \in Turns : turn[t] # Unused /\ looksLikeSecret(turn[t].text) => turn[t].text \in agreed

Recurring == {"weekday", "daily", "eachMorning", "weekly", "monthly"}

\* A message that sounds recurring is never run as a one-off mission, whatever
\* else it says and whichever way it was sent.
NeverOneOff ==
    \A t \in Turns : turn[t].kind = "mission" => turn[t].text \cap Recurring = {}

\* An approval card of a turn is about an approval of that turn's own mission,
\* and one that says approved or denied says what the server has decided.
CardsTrue ==
    \A t \in Turns : \A c \in Cards(t) :
        LET row == approvals[CardApproval(t, c)]
        IN  /\ row.mission = t
            /\ CardState(t, c) \in {"approved", "denied"} => row.status = CardState(t, c)

\* The result of every mission that ends while it is tracked is shown.
ResultShown ==
    \A t \in Turns : At(t, "tracking") /\ mission[t] \in TERMINAL_STATUSES ~> At(t, "stopped")

HasCard(t, a) == \E c \in Cards(t) : CardApproval(t, c) = a

\* The only open approval of a mission that goes on being tracked gets its
\* card, unless it is settled in another way.
ApprovalShown ==
    \A t \in Turns, a \in 1..MaxApprovals :
        (/\ At(t, "tracking") /\ a \in DOMAIN approvals
         /\ approvals[a].mission = t /\ approvals[a].status = "pending" /\ ~OthersPending(a))
        ~> (HasCard(t, a) \/ At(t, "stopped") \/ (a \in DOMAIN approvals /\ approvals[a].status # "pending"))
=============================================================================
