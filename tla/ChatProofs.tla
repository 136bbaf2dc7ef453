----------------------------- MODULE ChatProofs -----------------------------
(* Theorems about the chat surface: what overlapping ticks, lost answers   *)
(* and repeated warnings can never make a turn of the thread show.         *)
EXTENDS MissionChat, SequenceTheorems, TLAPS

Card == [approval : Nat, state : CardStates]
TurnRow ==
    [text : Texts \cup {Blank}, kind : {"none", "clarify", "routine", "mission"}, at : Places,
     owner : Agents \cup {NoAgent}, progress : {"none", "line", "checklist"}, rendered : BOOLEAN,
     cards : Seq(Card), result : Seq(TERMINAL_STATUSES)]
PollRow ==
    [at : {"idle", "mission", "tasks", "approvals", "calls"}, seen : MissionStatus,
     tasks : BOOLEAN, pending : SUBSET Nat]
ApprovalRow ==
    [mission : Turns \cup {0}, by : {"task", "call"},
     status : {"pending", "approved", "denied", "expired"}]

\* What a card may show of a mission: how it ended, or that it was cancelled
\* when it has failed since.
Ended(shown, status) == shown = status \/ (shown = "cancelled" /\ status = "failed")

\* A turn that is not in use is blank; one that is has the text of its owner.
Begun(t) == IF At(t, "unused") THEN turn[t] = Unused ELSE turn[t].text \in Texts

\* Only a tracked turn polls.
Quiet(t) == turn[t].at \notin {"tracking", "stopped"} => \A p \in Polls : poll[t][p] = Idle

\* A tick that has seen its mission end has seen how it ended.
SeenTrue(t) == \A p \in Polls : poll[t][p].seen \in TERMINAL_STATUSES => Ended(poll[t][p].seen, mission[t])

ResultTrue(t) ==
    IF At(t, "stopped")
    THEN turn[t].progress = "none" /\ Len(turn[t].result) = 1 /\ Ended(turn[t].result[1], mission[t])
    ELSE turn[t].result = <<>>

Consent(t) == turn[t] # Unused /\ looksLikeSecret(turn[t].text) => turn[t].text \in agreed
OneOff(t) == turn[t].kind = "mission" => turn[t].text \cap Recurring = {}

\* Cards and ticks know only approvals that exist.
CardTrue(t) ==
    \A c \in Cards(t) :
        /\ CardApproval(t, c) \in 1..Len(approvals)
        /\ approvals[CardApproval(t, c)].mission = t
        /\ CardState(t, c) \in {"approved", "denied"} => approvals[CardApproval(t, c)].status = CardState(t, c)
Known(t) == \A p \in Polls : poll[t][p].pending \subseteq 1..Len(approvals)

TurnPart(t) == Begun(t) /\ ResultTrue(t) /\ Consent(t) /\ OneOff(t)
PollPart(t) == Quiet(t) /\ SeenTrue(t) /\ Known(t)
TurnInv(t) == TurnPart(t) /\ PollPart(t) /\ CardTrue(t)

IInv == TypeOK /\ \A t \in Turns : TurnInv(t)

-----------------------------------------------------------------------------
(* Types.                                                                  *)

Typed ==
    /\ input \in Texts \cup {Blank} /\ warnings \in Seq(Texts) /\ agreed \subseteq Texts
    /\ currentAgentId \in Agents \cup {NoAgent}
    /\ turn \in [Turns -> TurnRow] /\ poll \in [Turns -> [Polls -> PollRow]]
    /\ mission \in [Turns -> MissionStatus] /\ approvals \in Seq(ApprovalRow)
    /\ routines \in [Turns -> Seq([owner : Agents \cup {NoAgent}, lost : BOOLEAN])]

\* The type invariant with its rows named.
LEMMA TypedIsTypeOK == TypeOK <=> Typed
  BY DEF TypeOK, Typed, TurnRow, Card, PollRow, ApprovalRow

\* The steps that move a turn to another place change nothing else of it.
Moved(t, place) ==
    /\ turn' \in [Turns -> TurnRow] /\ \A u \in Turns \ {t} : turn'[u] = turn[u]
    /\ turn'[t].at = place
    /\ turn'[t].text = turn[t].text /\ turn'[t].kind = turn[t].kind /\ turn'[t].progress = turn[t].progress
    /\ turn'[t].cards = turn[t].cards /\ turn'[t].result = turn[t].result

\* Enter is such a step.
LEMMA EnterMoves ==
    ASSUME Typed, NEW t \in Turns, NEW place \in Places, Enter(t, place)
    PROVE  Moved(t, place)
  <1> DEFINE new == [turn[t] EXCEPT !.at = place]
  <1>1. turn' = [turn EXCEPT ![t] = new] /\ turn \in [Turns -> TurnRow]
    BY DEF Enter, Typed
  <1>2. turn[t] \in TurnRow
    BY <1>1
  <1>3. new \in TurnRow /\ new.at = place
    BY <1>2 DEF TurnRow
  <1>4. /\ new.text = turn[t].text /\ new.kind = turn[t].kind /\ new.progress = turn[t].progress
        /\ new.cards = turn[t].cards /\ new.result = turn[t].result
    BY <1>2 DEF TurnRow
  <1> HIDE DEF new
  <1> QED BY <1>1, <1>3, <1>4 DEF Moved

\* So is the click that creates a routine, which also fixes its owner.
LEMMA CreateMoves ==
    ASSUME Typed, NEW t \in Turns, RoutineCreate(t)
    PROVE  Moved(t, "creating")
  <1> DEFINE new == [turn[t] EXCEPT !.at = "creating", !.owner = currentAgentId]
  <1>1. turn' = [turn EXCEPT ![t] = new] /\ turn \in [Turns -> TurnRow] /\ currentAgentId \in Agents \cup {NoAgent}
    BY DEF RoutineCreate, Typed
  <1>2. turn[t] \in TurnRow
    BY <1>1
  <1>3. new \in TurnRow /\ new.at = "creating"
    BY <1>1, <1>2 DEF TurnRow, Places
  <1>4. /\ new.text = turn[t].text /\ new.kind = turn[t].kind /\ new.progress = turn[t].progress
        /\ new.cards = turn[t].cards /\ new.result = turn[t].result
    BY <1>2 DEF TurnRow
  <1> HIDE DEF new
  <1> QED BY <1>1, <1>3, <1>4 DEF Moved

\* A message gets the first free turn of the thread, and a mission of its own
\* only if nothing in it sounds recurring.
LEMMA SendTextFacts ==
    ASSUME Typed, NEW text \in Texts, sendText(text)
    PROVE  \E t \in Turns :
               /\ turn[t] = Unused /\ turn' \in [Turns -> TurnRow] /\ \A u \in Turns \ {t} : turn'[u] = turn[u]
               /\ turn'[t].text = text /\ turn'[t].at \in {"offered", "posting", "answered"}
               /\ turn'[t].kind = "mission" => text \cap Recurring = {}
               /\ turn'[t].cards = <<>> /\ turn'[t].result = <<>>
  <1> DEFINE intent == detectRoutineIntent(text)
             kind == CASE intent = "clear" -> "routine"
                       [] intent = "null" -> "mission"
                       [] OTHER -> "clarify"
             at == CASE kind = "routine" -> "offered"
                     [] kind = "mission" -> "posting"
                     [] OTHER -> "answered"
             new == [Unused EXCEPT !.text = text, !.kind = kind, !.at = at]
  <1>1. PICK t \in Turns : turn[t] = Unused /\ turn' = [turn EXCEPT ![t] = new]
    BY DEF sendText, NextTurn
  <1>2. kind \in {"routine", "mission", "clarify"} /\ at \in {"offered", "posting", "answered"}
    OBVIOUS
  <1>3. text \subseteq Signals
    BY TextsAssumption
  <1>4. intent = "null" => text \cap Recurring = {}
    BY <1>3 DEF detectRoutineIntent, Recurring
  <1>5. kind = "mission" => text \cap Recurring = {}
    BY <1>4
  <1> HIDE DEF kind, at, intent
  <1>6. /\ new \in TurnRow /\ new.text = text /\ new.kind = kind /\ new.at = at
        /\ new.cards = <<>> /\ new.result = <<>>
    BY <1>2, EmptySeq DEF Unused, TurnRow, Places
  <1> HIDE DEF new
  <1> QED BY <1>1, <1>2, <1>5, <1>6 DEF Typed

\* A tick that shows a status leaves the text, the kind and the cards.
LEMMA ShownFacts ==
    ASSUME NEW tu \in TurnRow, NEW status \in MissionStatus
    PROVE  /\ Shown(tu, status) \in TurnRow
           /\ Shown(tu, status).text = tu.text /\ Shown(tu, status).kind = tu.kind
           /\ Shown(tu, status).cards = tu.cards
           /\ status \in TERMINAL_STATUSES =>
                  /\ Shown(tu, status).at = "stopped" /\ Shown(tu, status).progress = "none"
                  /\ Shown(tu, status).result = Append(tu.result, status)
           /\ status \notin TERMINAL_STATUSES =>
                  Shown(tu, status).at = tu.at /\ Shown(tu, status).result = tu.result
  <1> DEFINE progress == CASE status \in {"waiting_approval", "blocked"} -> "line"
                           [] status \in TERMINAL_STATUSES -> "none"
                           [] OTHER -> "checklist"
             at == IF status \in TERMINAL_STATUSES THEN "stopped" ELSE tu.at
             result == IF status \in TERMINAL_STATUSES THEN Append(tu.result, status) ELSE tu.result
  <1>1. /\ tu.at \in Places /\ tu.result \in Seq(TERMINAL_STATUSES)
    BY DEF TurnRow
  <1>2. progress \in {"none", "line", "checklist"} /\ (status \in TERMINAL_STATUSES => progress = "none")
    BY DEF TERMINAL_STATUSES
  <1>3. at \in Places
    BY <1>1 DEF Places
  <1>4. result \in Seq(TERMINAL_STATUSES)
    BY <1>1
  <1>5. Shown(tu, status) = [tu EXCEPT !.progress = progress, !.at = at, !.result = result]
    BY DEF Shown
  <1> HIDE DEF progress, at, result
  <1>6. /\ Shown(tu, status) \in TurnRow
        /\ Shown(tu, status).at = at /\ Shown(tu, status).progress = progress /\ Shown(tu, status).result = result
        /\ Shown(tu, status).text = tu.text /\ Shown(tu, status).kind = tu.kind
        /\ Shown(tu, status).cards = tu.cards
    BY <1>2, <1>3, <1>4, <1>5 DEF TurnRow
  <1> QED BY <1>2, <1>6 DEF at, result

\* The steps of the approval cards of a turn change nothing else of it.
CardStep(t) ==
    /\ turn' \in [Turns -> TurnRow] /\ \A u \in Turns \ {t} : turn'[u] = turn[u]
    /\ turn'[t].at = turn[t].at /\ turn'[t].text = turn[t].text /\ turn'[t].kind = turn[t].kind
    /\ turn'[t].progress = turn[t].progress /\ turn'[t].result = turn[t].result

\* A new card is open and is about one of the rows found.
LEMMA RenderFacts ==
    ASSUME Typed, NEW t \in Turns, NEW found \in SUBSET Nat, renderApprovalCard(t, found)
    PROVE  /\ CardStep(t)
           /\ \E a \in found : turn'[t].cards = Append(turn[t].cards, [approval |-> a, state |-> "open"])
  <1>1. PICK a \in found :
            turn' = [turn EXCEPT ![t].rendered = TRUE,
                                 ![t].cards = Append(@, [approval |-> a, state |-> "open"])]
    BY DEF renderApprovalCard
  <1> DEFINE cards == Append(turn[t].cards, [approval |-> a, state |-> "open"])
             new == [turn[t] EXCEPT !.rendered = TRUE, !.cards = cards]
  <1>2. turn \in [Turns -> TurnRow] /\ turn[t] \in TurnRow
    BY DEF Typed
  <1>3. turn' = [turn EXCEPT ![t] = new]
    BY <1>1, <1>2
  <1>4. cards \in Seq(Card)
    BY <1>2 DEF TurnRow, Card, CardStates
  <1> HIDE DEF cards
  <1>5. new \in TurnRow /\ new.cards = cards
    BY <1>2, <1>4 DEF TurnRow
  <1>6. /\ new.at = turn[t].at /\ new.text = turn[t].text /\ new.kind = turn[t].kind
        /\ new.progress = turn[t].progress /\ new.result = turn[t].result
    BY <1>2 DEF TurnRow
  <1> HIDE DEF new
  <1> QED BY <1>2, <1>3, <1>5, <1>6 DEF CardStep, cards

\* A click or an answer changes the state of one card.
LEMMA CardStateFacts ==
    ASSUME Typed, NEW t \in Turns, NEW c \in Cards(t), NEW state \in CardStates,
           turn' = [turn EXCEPT ![t].cards[c].state = state]
    PROVE  /\ CardStep(t) /\ Len(turn'[t].cards) = Len(turn[t].cards)
           /\ turn'[t].cards[c].approval = turn[t].cards[c].approval /\ turn'[t].cards[c].state = state
           /\ \A d \in Cards(t) \ {c} : turn'[t].cards[d] = turn[t].cards[d]
  <1> DEFINE old == turn[t].cards
             card == [old[c] EXCEPT !.state = state]
             cards == [old EXCEPT ![c] = card]
             new == [turn[t] EXCEPT !.cards = cards]
  <1>1. turn \in [Turns -> TurnRow] /\ turn[t] \in TurnRow
    BY DEF Typed
  <1>2. turn' = [turn EXCEPT ![t] = new]
    BY <1>1
  <1>3. old \in Seq(Card) /\ c \in 1..Len(old)
    BY <1>1 DEF TurnRow, Cards
  <1>4. card \in Card /\ card.approval = old[c].approval /\ card.state = state
    <2> HIDE DEF old
    <2>1. old[c] \in Card
      BY <1>3, ElementOfSeq
    <2> QED BY <2>1 DEF Card
  <1> HIDE DEF card
  <1>5. /\ cards \in Seq(Card) /\ Len(cards) = Len(old)
        /\ \A d \in 1..Len(old) : cards[d] = IF d = c THEN card ELSE old[d]
    BY <1>3, <1>4, ExceptSeq
  <1> HIDE DEF cards, old
  <1>6. new \in TurnRow /\ new.cards = cards
    BY <1>1, <1>5 DEF TurnRow
  <1>7. /\ new.at = turn[t].at /\ new.text = turn[t].text /\ new.kind = turn[t].kind
        /\ new.progress = turn[t].progress /\ new.result = turn[t].result
    BY <1>1 DEF TurnRow
  <1> HIDE DEF new
  <1>8. CardStep(t) /\ turn'[t].cards = cards
    BY <1>1, <1>2, <1>6, <1>7 DEF CardStep
  <1> QED BY <1>3, <1>4, <1>5, <1>8 DEF old, Cards

\* What every step does to the missions and the approvals of the server: a
\* mission that has ended stays so, or turns from cancelled to failed; a
\* decided approval keeps its status, and every approval its mission.
MissionsAge(u) ==
    mission[u] \in TERMINAL_STATUSES => Ended(mission[u], mission'[u])
ApprovalsKept ==
    /\ Len(approvals) <= Len(approvals')
    /\ \A a \in 1..Len(approvals) :
           /\ approvals'[a].mission = approvals[a].mission
           /\ approvals[a].status # "pending" => approvals'[a].status = approvals[a].status
ServerTyped == mission' \in [Turns -> MissionStatus] /\ approvals' \in Seq(ApprovalRow)

\* The roll-up follows that rule.
LEMMA RolledUpFacts ==
    ASSUME Typed, NEW u \in Turns, NEW status \in MissionStatus
    PROVE  /\ RolledUp(u, status) \in MissionStatus
           /\ mission[u] \in TERMINAL_STATUSES => Ended(mission[u], RolledUp(u, status))
  BY DEF Typed, RolledUp, Ended, TERMINAL_STATUSES, MissionStatus

\* Deciding an approval keeps the server to it.
LEMMA DecidedFacts ==
    ASSUME Typed, NEW a \in 1..Len(approvals), NEW result \in {"approved", "denied", "expired"},
           NEW status \in {"running", "failed", "cancelled"}, Decided(a, result, status)
    PROVE  /\ ServerTyped /\ ApprovalsKept /\ \A u \in Turns : MissionsAge(u)
           /\ approvals'[a].status = result
  <1> DEFINE row == [approvals[a] EXCEPT !.status = result]
             after == IF status = "running" /\ OthersPending(a) THEN "waiting_approval" ELSE status
  <1>1. approvals[a] \in ApprovalRow /\ approvals[a].status = "pending" /\ approvals \in Seq(ApprovalRow)
    BY ElementOfSeq DEF Typed, Decided
  <1>2. row \in ApprovalRow /\ row.mission = approvals[a].mission /\ row.status = result
    BY <1>1 DEF ApprovalRow
  <1>3. approvals' = [approvals EXCEPT ![a] = row]
    BY <1>1 DEF Decided
  <1> HIDE DEF row
  <1>4. /\ approvals' \in Seq(ApprovalRow) /\ Len(approvals') = Len(approvals)
        /\ \A b \in 1..Len(approvals) : approvals'[b] = IF b = a THEN row ELSE approvals[b]
    BY <1>1, <1>2, <1>3, ExceptSeq
  <1>5. ApprovalsKept /\ approvals'[a].status = result
    BY <1>1, <1>2, <1>4, LenProperties DEF ApprovalsKept
  <1>6. after \in MissionStatus
    BY DEF MissionStatus, TERMINAL_STATUSES
  <1>7. mission' = [m \in Turns |-> IF m = approvals[a].mission THEN RolledUp(m, after) ELSE mission[m]]
    BY DEF Decided
  <1> HIDE DEF after
  <1>8. mission' \in [Turns -> MissionStatus] /\ \A u \in Turns : MissionsAge(u)
    BY <1>6, <1>7, RolledUpFacts DEF Typed, MissionsAge, Ended
  <1> QED BY <1>4, <1>5, <1>8 DEF ServerTyped

\* Asking for an approval does, too.
LEMMA AskFacts ==
    ASSUME Typed, NEW m \in Turns \cup {0}, NEW by \in {"task", "call"}, AskApproval(m, by)
    PROVE  ServerTyped /\ ApprovalsKept /\ \A u \in Turns : MissionsAge(u)
  <1> DEFINE row == [mission |-> m, by |-> by, status |-> "pending"]
  <1>1. row \in ApprovalRow /\ approvals \in Seq(ApprovalRow)
    BY DEF ApprovalRow, Typed
  <1>2. approvals' = Append(approvals, row)
    BY DEF AskApproval
  <1> HIDE DEF row
  <1>3. approvals' \in Seq(ApprovalRow) /\ ApprovalsKept
    BY <1>1, <1>2 DEF ApprovalsKept
  <1>4. mission' \in [Turns -> MissionStatus] /\ \A u \in Turns : MissionsAge(u)
    BY RolledUpFacts DEF AskApproval, Typed, MissionsAge, Ended, MissionStatus
  <1> QED BY <1>3, <1>4 DEF ServerTyped

\* A move of a mission does, too.
LEMMA MoveFacts ==
    ASSUME Typed, NEW t \in Turns, NEW status \in MissionStatus, MissionMoves(t, status)
    PROVE  ServerTyped /\ ApprovalsKept /\ \A u \in Turns : MissionsAge(u)
  <1>1. mission' \in [Turns -> MissionStatus] /\ \A u \in Turns : MissionsAge(u)
    BY RolledUpFacts DEF MissionMoves, Typed, MissionsAge, Ended
  <1>2. approvals' = approvals /\ Len(approvals) \in Nat
    BY LenProperties DEF MissionMoves, Typed
  <1> QED BY <1>1, <1>2 DEF ServerTyped, ApprovalsKept, Typed

-----------------------------------------------------------------------------
(* What a step must leave alone for a part of the invariant to survive.    *)

Client(t) == turn'[t] = turn[t] /\ agreed \subseteq agreed'

\* What a card says of an ended mission stays true as the mission ages.
LEMMA EndedAges ==
    ASSUME NEW u \in Turns, MissionsAge(u), NEW shown \in TERMINAL_STATUSES, Ended(shown, mission[u])
    PROVE  Ended(shown, mission'[u])
  BY DEF MissionsAge, Ended, TERMINAL_STATUSES

\* A turn that a step leaves alone stays true while missions age.
LEMMA TurnLeft ==
    ASSUME Typed, NEW u \in Turns, TurnPart(u), Client(u), MissionsAge(u)
    PROVE  TurnPart(u)'
  <1>1. Begun(u)' /\ Consent(u)' /\ OneOff(u)'
    BY DEF TurnPart, Client, Begun, Consent, OneOff, At
  <1>2. ResultTrue(u)'
    <2>1. CASE At(u, "stopped")
      <3>1. turn[u].result \in Seq(TERMINAL_STATUSES) /\ Len(turn[u].result) = 1
        BY <2>1 DEF TurnPart, ResultTrue, Typed, TurnRow
      <3>2. turn[u].result[1] \in TERMINAL_STATUSES
        BY <3>1, ElementOfSeq
      <3> QED BY <2>1, <3>2, EndedAges DEF TurnPart, ResultTrue, Client, At
    <2>2. CASE ~At(u, "stopped")
      BY <2>2 DEF TurnPart, ResultTrue, Client, At
    <2> QED BY <2>1, <2>2
  <1> QED BY <1>1, <1>2 DEF TurnPart

\* So does a turn whose cards alone change.
LEMMA TurnWithCards ==
    ASSUME Typed, NEW t \in Turns, TurnPart(t), ~At(t, "unused"), CardStep(t), MissionsAge(t), agreed' = agreed
    PROVE  TurnPart(t)'
  <1>1. Begun(t)' /\ OneOff(t)'
    BY DEF TurnPart, CardStep, Begun, OneOff, At
  <1>2. Consent(t)'
    <2>1. turn[t] # Unused
      BY DEF At, Unused
    <2> QED BY <2>1 DEF TurnPart, CardStep, Consent
  <1>3. ResultTrue(t)'
    <2>1. CASE At(t, "stopped")
      <3>1. turn[t].result \in Seq(TERMINAL_STATUSES) /\ Len(turn[t].result) = 1
        BY <2>1 DEF TurnPart, ResultTrue, Typed, TurnRow
      <3>2. turn[t].result[1] \in TERMINAL_STATUSES
        BY <3>1, ElementOfSeq
      <3> QED BY <2>1, <3>2, EndedAges DEF TurnPart, ResultTrue, CardStep, At
    <2>2. CASE ~At(t, "stopped")
      BY <2>2 DEF TurnPart, ResultTrue, CardStep, At
    <2> QED BY <2>1, <2>2
  <1> QED BY <1>1, <1>2, <1>3 DEF TurnPart

\* A turn that moves on before it is stopped shows no result yet.
LEMMA TurnMoves ==
    ASSUME Typed, NEW t \in Turns, TurnPart(t), ~At(t, "unused"), ~At(t, "stopped"), agreed' = agreed,
           NEW place \in Places \ {"unused", "stopped"}, Moved(t, place)
    PROVE  TurnPart(t)'
  <1>1. Begun(t)' /\ OneOff(t)' /\ ResultTrue(t)'
    BY DEF TurnPart, Moved, Begun, OneOff, ResultTrue, At
  <1>2. turn[t] # Unused
    BY DEF At, Unused
  <1> QED BY <1>1, <1>2 DEF TurnPart, Moved, Consent

\* Ticks that a step leaves alone stay true while missions age.
LEMMA PollLeft ==
    ASSUME Typed, NEW u \in Turns, PollPart(u), poll'[u] = poll[u], turn'[u].at = turn[u].at, MissionsAge(u),
           1..Len(approvals) \subseteq 1..Len(approvals')
    PROVE  PollPart(u)'
  <1>1. Quiet(u)' /\ Known(u)'
    BY DEF PollPart, Quiet, Known
  <1>2. SeenTrue(u)'
    BY EndedAges DEF PollPart, SeenTrue
  <1> QED BY <1>1, <1>2 DEF PollPart

\* One tick goes on: it may learn the status of its mission and the approvals
\* that exist.
LEMMA PollTicks ==
    ASSUME Typed, NEW t \in Turns, NEW p \in Polls, PollPart(t), NEW new \in PollRow,
           poll' = [poll EXCEPT ![t][p] = new], new = Idle \/ turn'[t].at \in {"tracking", "stopped"},
           turn'[t].at = turn[t].at \/ turn'[t].at = "stopped",
           new.seen \in {"none", poll[t][p].seen, mission[t]}, new.pending \subseteq 1..Len(approvals),
           mission' = mission, approvals' = approvals
    PROVE  PollPart(t)' /\ \A u \in Turns \ {t} : poll'[u] = poll[u]
  <1>1. /\ \A u \in Turns \ {t} : poll'[u] = poll[u]
        /\ poll'[t][p] = new /\ \A q \in Polls \ {p} : poll'[t][q] = poll[t][q]
    BY DEF Typed
  <1>2. Quiet(t)' /\ Known(t)'
    BY <1>1 DEF PollPart, Quiet, Known
  <1>3. SeenTrue(t)'
    <2>1. "none" \notin TERMINAL_STATUSES
      BY DEF TERMINAL_STATUSES
    <2> QED BY <1>1, <2>1 DEF PollPart, SeenTrue, Ended
  <1> QED BY <1>1, <1>2, <1>3 DEF PollPart

\* Such a step keeps the ticks typed.
LEMMA PollTyped ==
    ASSUME Typed, NEW t \in Turns, NEW p \in Polls, NEW new \in PollRow, poll' = [poll EXCEPT ![t][p] = new]
    PROVE  poll' \in [Turns -> [Polls -> PollRow]]
  BY DEF Typed

\* Cards that a step leaves alone stay true while approvals are decided.
LEMMA CardsLeft ==
    ASSUME Typed, NEW u \in Turns, CardTrue(u), turn'[u].cards = turn[u].cards, ApprovalsKept
    PROVE  CardTrue(u)'
  <1>1. Cards(u)' = Cards(u)
    BY DEF Cards
  <1>2. Len(approvals) \in Nat
    BY LenProperties DEF Typed
  <1>3. 1..Len(approvals) \subseteq 1..Len(approvals')
    BY <1>2 DEF ApprovalsKept
  <1> QED BY <1>1, <1>3 DEF CardTrue, CardState, CardApproval, ApprovalsKept

\* Every turn that a step leaves alone keeps its invariant.
LEMMA TurnsLeft ==
    ASSUME Typed, \A u \in Turns : TurnInv(u), ApprovalsKept, approvals' \in Seq(ApprovalRow),
           NEW S \in SUBSET Turns,
           \A u \in S : Client(u) /\ poll'[u] = poll[u] /\ MissionsAge(u)
    PROVE  \A u \in S : TurnInv(u)'
  <1>1. Len(approvals) \in Nat /\ Len(approvals') \in Nat /\ Len(approvals) <= Len(approvals')
    BY LenProperties DEF Typed, ApprovalsKept
  <1>2. 1..Len(approvals) \subseteq 1..Len(approvals')
    BY <1>1
  <1> SUFFICES ASSUME NEW u \in S PROVE TurnInv(u)'
    OBVIOUS
  <1>3. /\ TurnPart(u) /\ PollPart(u) /\ CardTrue(u) /\ Client(u) /\ poll'[u] = poll[u] /\ MissionsAge(u)
        /\ turn'[u] = turn[u]
    BY DEF TurnInv, Client
  <1>4. TurnPart(u)'
    BY <1>3, TurnLeft
  <1>5. PollPart(u)'
    BY <1>2, <1>3, PollLeft
  <1>6. CardTrue(u)'
    BY <1>3, CardsLeft
  <1> QED BY <1>4, <1>5, <1>6 DEF TurnInv

\* A step of the page leaves the server's rows alone.
LEMMA ServerLeft ==
    ASSUME Typed, mission' = mission, approvals' = approvals
    PROVE  ServerTyped /\ ApprovalsKept /\ \A u \in Turns : MissionsAge(u)
  <1>1. Len(approvals) \in Nat
    BY LenProperties DEF Typed
  <1> QED BY <1>1 DEF Typed, ServerTyped, ApprovalsKept, MissionsAge, Ended

TurnsInv == \A u \in Turns : TurnInv(u)

\* The steps of composing a message keep the invariant.
LEMMA ComposingStep ==
    ASSUME Typed, TurnsInv, Composing
    PROVE  Typed' /\ TurnsInv'
  <1>s. mission' = mission /\ approvals' = approvals /\ routines' = routines /\ poll' = poll
    BY DEF Composing, Type, handleSend, WarningDiscard, WarningSend, openAgent, serverVars
  <1>v. ServerTyped /\ ApprovalsKept /\ \A u \in Turns : MissionsAge(u)
    BY <1>s, ServerLeft
  <1>p. poll' \in [Turns -> [Polls -> PollRow]] /\ routines' \in [Turns -> Seq([owner : Agents \cup {NoAgent}, lost : BOOLEAN])]
    BY <1>s DEF Typed
  <1>a. ASSUME turn' = turn, agreed' = agreed PROVE TurnsInv'
    BY <1>a, <1>s, <1>v, TurnsLeft DEF TurnsInv, Client, ServerTyped
  <1>b. ASSUME NEW text \in Texts, sendText(text), agreed \subseteq agreed', looksLikeSecret(text) => text \in agreed'
        PROVE  turn' \in [Turns -> TurnRow] /\ TurnsInv'
    <2>1. PICK t \in Turns :
              /\ turn[t] = Unused /\ turn' \in [Turns -> TurnRow] /\ \A u \in Turns \ {t} : turn'[u] = turn[u]
              /\ turn'[t].text = text /\ turn'[t].at \in {"offered", "posting", "answered"}
              /\ turn'[t].kind = "mission" => text \cap Recurring = {}
              /\ turn'[t].cards = <<>> /\ turn'[t].result = <<>>
      BY <1>b, SendTextFacts
    <2>2. \A u \in Turns \ {t} : TurnInv(u)'
      BY <1>b, <1>s, <1>v, <2>1, TurnsLeft DEF TurnsInv, Client, ServerTyped
    <2>3. TurnPart(t)'
      BY <1>b, <2>1 DEF TurnPart, Begun, ResultTrue, Consent, OneOff, At
    <2>4. PollPart(t)'
      <3>1. \A p \in Polls : poll'[t][p] = Idle
        BY <1>s, <2>1 DEF TurnsInv, TurnInv, PollPart, Quiet, Unused
      <3> QED BY <3>1 DEF PollPart, Quiet, SeenTrue, Known, Idle, TERMINAL_STATUSES
    <2>5. CardTrue(t)'
      BY <2>1 DEF CardTrue, Cards
    <2> QED BY <2>1, <2>2, <2>3, <2>4, <2>5 DEF TurnsInv, TurnInv
  <1>w. ASSUME NEW i \in 1..Len(warnings)
        PROVE  warnings[i] \in Texts /\ Without(i) \in Seq(Texts)
    <2>1. warnings \in Seq(Texts) /\ Len(warnings) \in Nat /\ Len(warnings) > 0
      BY LenProperties DEF Typed
    <2>2. \A j \in 1..Len(warnings) : warnings[j] \in Texts
      BY <2>1, ElementOfSeq
    <2>3. \A j \in 1..(Len(warnings) - 1) : (IF j < i THEN warnings[j] ELSE warnings[j + 1]) \in Texts
      BY <2>1, <2>2
    <2>4. Without(i) \in [1..(Len(warnings) - 1) -> Texts] /\ Len(warnings) - 1 \in Nat
      BY <2>1, <2>3 DEF Without
    <2> HIDE DEF Without
    <2>5. Without(i) \in Seq(Texts)
      BY <2>4
    <2> QED BY <2>2, <2>5
  <1>1. ASSUME NEW text \in Texts, Type(text) PROVE Typed' /\ TurnsInv'
    BY <1>1, <1>a, <1>p, <1>v DEF Type, Typed, ServerTyped
  <1>2. CASE handleSend
    <2>1. input \in Texts
      BY <1>2 DEF handleSend, Typed
    <2>2. CASE looksLikeSecret(input)
      <3>1. turn' = turn /\ agreed' = agreed /\ input' = input /\ warnings' = Append(warnings, input)
            /\ currentAgentId' = currentAgentId
        BY <1>2, <2>2 DEF handleSend
      <3>2. warnings' \in Seq(Texts)
        BY <2>1, <3>1 DEF Typed
      <3> QED BY <1>a, <1>p, <1>v, <3>1, <3>2 DEF Typed, ServerTyped
    <2>3. CASE ~looksLikeSecret(input)
      <3>1. /\ sendText(input) /\ agreed' = agreed /\ warnings' = warnings /\ input' = Blank
            /\ currentAgentId' = currentAgentId
        BY <1>2, <2>3 DEF handleSend, sendText
      <3>2. turn' \in [Turns -> TurnRow] /\ TurnsInv'
        BY <1>b, <2>1, <2>3, <3>1
      <3> QED BY <1>p, <1>v, <3>1, <3>2 DEF Typed, ServerTyped
    <2> QED BY <2>2, <2>3
  <1>3. ASSUME NEW i \in 1..Len(warnings), WarningDiscard(i) PROVE Typed' /\ TurnsInv'
    <2>1. warnings' \in Seq(Texts)
      BY <1>3, <1>w DEF WarningDiscard
    <2> QED BY <1>3, <1>a, <1>p, <1>v, <2>1 DEF WarningDiscard, Typed, ServerTyped
  <1>4. ASSUME NEW i \in 1..Len(warnings), WarningSend(i) PROVE Typed' /\ TurnsInv'
    <2>1. /\ sendText(warnings[i]) /\ agreed' = agreed \cup {warnings[i]} /\ warnings' = Without(i) /\ input' = Blank
          /\ currentAgentId' = currentAgentId
      BY <1>4 DEF WarningSend, sendText
    <2>2. turn' \in [Turns -> TurnRow] /\ TurnsInv'
      BY <1>b, <1>w, <2>1
    <2> QED BY <1>p, <1>v, <1>w, <2>1, <2>2 DEF Typed, ServerTyped
  <1>5. ASSUME NEW a \in Agents, openAgent(a) PROVE Typed' /\ TurnsInv'
    BY <1>5, <1>a, <1>p, <1>v DEF openAgent, Typed, ServerTyped
  <1> QED BY <1>1, <1>2, <1>3, <1>4, <1>5 DEF Composing

\* A turn that is not yet tracked moves on: the others are left alone and no
\* tick of its own is under way.
LEMMA MovesOn ==
    ASSUME Typed, TurnsInv, NEW t \in Turns, NEW place \in Places \ {"unused", "stopped", "tracking"}, Moved(t, place),
           turn[t].at \notin {"unused", "tracking", "stopped"}, poll' = poll, agreed' = agreed, approvals' = approvals,
           \A u \in Turns \ {t} : mission'[u] = mission[u]
    PROVE  TurnsInv'
  <1>1. ApprovalsKept /\ approvals' \in Seq(ApprovalRow)
    <2>1. Len(approvals) \in Nat
      BY LenProperties DEF Typed
    <2> QED BY <2>1 DEF ApprovalsKept, Typed
  <1>2. \A u \in Turns \ {t} : TurnInv(u)'
    BY <1>1, TurnsLeft DEF TurnsInv, Moved, Client, MissionsAge, Ended
  <1>3. TurnPart(t)'
    BY TurnMoves DEF TurnsInv, TurnInv, At
  <1>4. PollPart(t)'
    <2>1. \A p \in Polls : poll'[t][p] = Idle
      BY DEF TurnsInv, TurnInv, PollPart, Quiet
    <2> QED BY <2>1 DEF PollPart, Quiet, SeenTrue, Known, Idle, TERMINAL_STATUSES
  <1>5. CardTrue(t)'
    BY <1>1, CardsLeft DEF TurnsInv, TurnInv, Moved
  <1> QED BY <1>2, <1>3, <1>4, <1>5 DEF TurnsInv, TurnInv

\* The confirmation card of a routine and the start of a mission keep the
\* invariant.
LEMMA StartingStep ==
    ASSUME Typed, TurnsInv, NEW t \in Turns, RoutineCard(t) \/ Starting(t)
    PROVE  Typed' /\ TurnsInv'
  <1> USE DEF At
  <1>c. warnings' = warnings /\ agreed' = agreed /\ currentAgentId' = currentAgentId /\ approvals' = approvals
    BY DEF RoutineCard, Starting, RoutineCreate, RoutineAnswer, RoutineRefused, RoutineChange, RoutineCancel,
           MissionPosted, TrackMission, composing, serverVars
  <1>t. turn[t] \in TurnRow
    BY DEF Typed
  <1>1. CASE RoutineCreate(t)
    <2>1. Moved(t, "creating") /\ "creating" \in Places
      BY <1>1, CreateMoves DEF Places
    <2>2. TurnsInv'
      BY <1>1, <1>c, <2>1, MovesOn DEF RoutineCreate, serverVars
    <2> QED BY <1>1, <1>c, <2>1, <2>2 DEF RoutineCreate, composing, serverVars, Typed, Moved
  <1>2. ASSUME NEW lost \in BOOLEAN, RoutineAnswer(t, lost) PROVE Typed' /\ TurnsInv'
    <2> DEFINE place == IF lost THEN "offered" ELSE "created"
    <2>1. place \in Places \ {"unused", "stopped", "tracking"} /\ Enter(t, place)
      BY <1>2 DEF Places, RoutineAnswer
    <2> HIDE DEF place
    <2>2. Moved(t, place)
      BY <2>1, EnterMoves
    <2>3. TurnsInv'
      BY <1>2, <1>c, <2>1, <2>2, MovesOn DEF RoutineAnswer
    <2>4. routines' \in [Turns -> Seq([owner : Agents \cup {NoAgent}, lost : BOOLEAN])]
      <3> DEFINE Row == [owner : Agents \cup {NoAgent}, lost : BOOLEAN]
                 row == [owner |-> turn[t].owner, lost |-> lost]
      <3>1. row \in Row
        <4>1. turn[t].owner \in Agents \cup {NoAgent}
          BY <1>t DEF TurnRow
        <4> QED BY <4>1
      <3>2. routines' = [routines EXCEPT ![t] = Append(@, row)] /\ routines \in [Turns -> Seq(Row)]
        BY <1>2 DEF RoutineAnswer, Typed
      <3> HIDE DEF row, Row
      <3>3. Append(routines[t], row) \in Seq(Row)
        BY <3>1, <3>2
      <3>4. routines' \in [Turns -> Seq(Row)]
        BY <3>2, <3>3
      <3> QED BY <3>4 DEF Row
    <2> QED BY <1>2, <1>c, <2>2, <2>3, <2>4 DEF RoutineAnswer, composing, Typed, Moved
  <1>3. CASE RoutineRefused(t) \/ RoutineChange(t) \/ RoutineCancel(t)
    <2>1. PICK place \in {"offered", "withdrawn"} : Enter(t, place)
      BY <1>3 DEF RoutineRefused, RoutineChange, RoutineCancel
    <2>2. Moved(t, place) /\ place \in Places \ {"unused", "stopped", "tracking"}
      BY <2>1, EnterMoves DEF Places
    <2>3. turn[t].at \in {"offered", "creating"} /\ poll' = poll /\ mission' = mission /\ routines' = routines
      BY <1>3 DEF RoutineRefused, RoutineChange, RoutineCancel, serverVars
    <2>4. TurnsInv'
      BY <1>c, <2>2, <2>3, MovesOn
    <2>5. input' \in Texts \cup {Blank}
      BY <1>3, <1>t DEF RoutineRefused, RoutineChange, RoutineCancel, composing, Typed, TurnRow
    <2> QED BY <1>c, <2>2, <2>3, <2>4, <2>5 DEF Typed, Moved
  <1>4. ASSUME NEW accepted \in BOOLEAN, NEW answered \in BOOLEAN, MissionPosted(t, accepted, answered)
        PROVE  Typed' /\ TurnsInv'
    <2> DEFINE place == IF answered THEN "dispatching" ELSE "notStarted"
    <2>1. place \in Places \ {"unused", "stopped", "tracking"} /\ Enter(t, place)
      BY <1>4 DEF Places, MissionPosted
    <2> HIDE DEF place
    <2>2. Moved(t, place)
      BY <2>1, EnterMoves
    <2>3. mission' \in [Turns -> MissionStatus] /\ \A u \in Turns \ {t} : mission'[u] = mission[u]
      BY <1>4 DEF MissionPosted, Typed, MissionStatus
    <2>4. TurnsInv'
      BY <1>4, <1>c, <2>1, <2>2, <2>3, MovesOn DEF MissionPosted
    <2> QED BY <1>4, <1>c, <2>2, <2>3, <2>4 DEF MissionPosted, composing, Typed, Moved
  <1>5. CASE TrackMission(t)
    <2>1. Moved(t, "tracking") /\ "tracking" \in Places
      BY <1>5, EnterMoves DEF TrackMission, Places
    <2>2. mission' = mission /\ input' = input /\ routines' = routines /\ turn[t].at = "dispatching"
      BY <1>5 DEF TrackMission, composing, serverVars
    <2>3. ServerTyped /\ ApprovalsKept /\ \A u \in Turns : MissionsAge(u)
      BY <1>c, <2>2, ServerLeft
    <2>4. \A u \in Turns \ {t} : poll'[u] = poll[u]
      BY <1>5 DEF TrackMission, Typed
    <2>5. \A p \in Polls : poll[t][p] = Idle /\ Idle \in PollRow
      BY <2>2 DEF TurnsInv, TurnInv, PollPart, Quiet, Idle, PollRow, MissionStatus
    <2>6. \A p \in Polls : /\ poll'[t][p] \in PollRow /\ poll'[t][p].seen = "none" /\ poll'[t][p].pending = {}
      <3> SUFFICES ASSUME NEW p \in Polls
                   PROVE  poll'[t][p] \in PollRow /\ poll'[t][p].seen = "none" /\ poll'[t][p].pending = {}
        OBVIOUS
      <3>1. poll'[t][p] = IF p = 1 THEN [Idle EXCEPT !.at = "mission"] ELSE Idle
        BY <1>5, <2>5 DEF TrackMission, Typed
      <3>2. Idle.seen = "none" /\ Idle.pending = {}
        BY DEF Idle
      <3>3. CASE p = 1
        <4>1. /\ [Idle EXCEPT !.at = "mission"] \in PollRow
              /\ [Idle EXCEPT !.at = "mission"].seen = Idle.seen
              /\ [Idle EXCEPT !.at = "mission"].pending = Idle.pending
          BY <2>5 DEF PollRow
        <4> QED BY <3>1, <3>2, <3>3, <4>1
      <3>4. CASE p # 1
        BY <2>5, <3>1, <3>2, <3>4
      <3> QED BY <3>3, <3>4
    <2>7. poll' \in [Turns -> [Polls -> PollRow]]
      <3>1. poll' = [poll EXCEPT ![t] = [poll[t] EXCEPT ![1] = [poll[t][1] EXCEPT !.at = "mission"]]]
        BY <1>5 DEF TrackMission
      <3>2. poll'[t] \in [Polls -> PollRow]
        BY <2>6, <3>1 DEF Typed
      <3> QED BY <3>1, <3>2 DEF Typed
    <2>8. \A u \in Turns \ {t} : TurnInv(u)'
      BY <1>c, <2>1, <2>3, <2>4, TurnsLeft DEF TurnsInv, Moved, Client, ServerTyped
    <2>9. TurnPart(t)'
      BY <1>c, <2>1, <2>2, TurnMoves DEF TurnsInv, TurnInv
    <2>10. PollPart(t)'
      BY <2>1, <2>6 DEF PollPart, Quiet, SeenTrue, Known, Moved, TERMINAL_STATUSES
    <2>11. CardTrue(t)'
      BY <2>1, <2>3, CardsLeft DEF TurnsInv, TurnInv, Moved
    <2> QED BY <1>c, <2>1, <2>2, <2>3, <2>7, <2>8, <2>9, <2>10, <2>11 DEF Typed, ServerTyped, Moved, TurnsInv, TurnInv
  <1> QED BY <1>1, <1>2, <1>3, <1>4, <1>5 DEF RoutineCard, Starting

\* A tick changes one entry of its turn's polls and at most that turn.
LEMMA TickKeeps ==
    ASSUME Typed, TurnsInv, NEW t \in Turns, NEW p \in Polls, NEW new \in PollRow,
           poll' = [poll EXCEPT ![t][p] = new], new = Idle \/ turn'[t].at \in {"tracking", "stopped"},
           turn'[t].at = turn[t].at \/ turn'[t].at = "stopped",
           new.seen \in {"none", poll[t][p].seen, mission[t]}, new.pending \subseteq 1..Len(approvals),
           composing' = composing, serverVars' = serverVars,
           turn' \in [Turns -> TurnRow], \A u \in Turns \ {t} : turn'[u] = turn[u], TurnPart(t)', CardTrue(t)'
    PROVE  Typed' /\ TurnsInv'
  <1>1. /\ input' = input /\ warnings' = warnings /\ agreed' = agreed /\ currentAgentId' = currentAgentId
        /\ mission' = mission /\ approvals' = approvals /\ routines' = routines
    BY DEF composing, serverVars
  <1>2. ServerTyped /\ ApprovalsKept /\ \A u \in Turns : MissionsAge(u)
    BY <1>1, ServerLeft
  <1>3. PollPart(t)
    BY DEF TurnsInv, TurnInv
  <1>4. PollPart(t)' /\ \A u \in Turns \ {t} : poll'[u] = poll[u]
    BY <1>1, <1>3, PollTicks
  <1>5. \A u \in Turns \ {t} : TurnInv(u)'
    BY <1>1, <1>2, <1>4, TurnsLeft DEF TurnsInv, Client, ServerTyped
  <1>6. poll' \in [Turns -> [Polls -> PollRow]]
    BY PollTyped
  <1>7. Typed'
    BY <1>1, <1>2, <1>6 DEF Typed, ServerTyped
  <1> QED BY <1>4, <1>5, <1>7 DEF TurnsInv, TurnInv

\* A tick that ends is forgotten.
LEMMA IdleFacts == Idle \in PollRow /\ Idle.seen = "none" /\ Idle.pending = {} /\ Idle.at = "idle"
  BY DEF Idle, PollRow, MissionStatus

\* The steps of the ticks keep the invariant: a tick that finds its turn
\* stopped shows nothing, so that the first result is the only one.
LEMMA TickStep ==
    ASSUME Typed, TurnsInv, NEW t \in Turns, NEW p \in Polls, TickStart(t, p) \/ TickSteps(t, p)
    PROVE  Typed' /\ TurnsInv'
  <1> DEFINE old == poll[t][p]
  <1>t. /\ TurnPart(t) /\ CardTrue(t) /\ PollPart(t) /\ old \in PollRow /\ turn[t] \in TurnRow
        /\ turn \in [Turns -> TurnRow] /\ Len(approvals) \in Nat
    BY LenProperties DEF TurnsInv, TurnInv, Typed
  <1>c. /\ composing' = composing /\ serverVars' = serverVars
        /\ agreed' = agreed /\ mission' = mission /\ approvals' = approvals
    BY DEF TickStart, TickSteps, TickFails, TickMission, TickRest, TickApprovals, TickApprovalsFail, TickCalls,
           composing, serverVars
  <1>v. ServerTyped /\ ApprovalsKept /\ \A u \in Turns : MissionsAge(u)
    BY <1>c, ServerLeft
  <1>a. old.at # "idle" => turn[t].at \in {"tracking", "stopped"}
    BY <1>t DEF PollPart, Quiet, Idle
  <1>k. old.pending \subseteq 1..Len(approvals)
    BY <1>t DEF PollPart, Known
  <1>s. ASSUME turn' = turn PROVE TurnPart(t)' /\ CardTrue(t)' /\ turn'[t].at = turn[t].at
    BY <1>s, <1>t, <1>c, <1>v, TurnLeft, CardsLeft DEF Client
  <1>i. ASSUME turn' = turn, Settle(t, p) PROVE Typed' /\ TurnsInv'
    BY <1>i, <1>s, <1>c, <1>t, IdleFacts, TickKeeps DEF Settle
  <1>r. ASSUME NEW found \in SUBSET (1..Len(approvals)), \A a \in found : approvals[a].mission = t,
               renderApprovalCard(t, found), Settle(t, p), old.at # "idle"
        PROVE  Typed' /\ TurnsInv'
    <2>1. found \in SUBSET Nat
      BY <1>t
    <2>2. CardStep(t) /\ \E a \in found : turn'[t].cards = Append(turn[t].cards, [approval |-> a, state |-> "open"])
      BY <1>r, <2>1, RenderFacts
    <2>3. TurnPart(t)'
      BY <1>a, <1>c, <1>r, <1>t, <1>v, <2>2, TurnWithCards DEF At
    <2>4. CardTrue(t)'
      <3>1. PICK a \in found : turn'[t].cards = Append(turn[t].cards, [approval |-> a, state |-> "open"])
        BY <2>2
      <3> DEFINE card == [approval |-> a, state |-> "open"]
                 cards == turn[t].cards
      <3>2. card.approval = a /\ card.state = "open" /\ cards \in Seq(Card)
        BY <1>t DEF TurnRow
      <3> HIDE DEF card, cards
      <3>3. /\ Len(Append(cards, card)) = Len(cards) + 1 /\ Append(cards, card)[Len(cards) + 1] = card
            /\ \A c \in 1..Len(cards) : Append(cards, card)[c] = cards[c]
            /\ Len(cards) \in Nat
        BY <3>2, AppendProperties, LenProperties
      <3>4. turn'[t].cards = Append(cards, card) /\ turn[t].cards = cards
        BY <3>1 DEF cards, card
      <3>5. \A c \in 1..(Len(cards) + 1) : c \in 1..Len(cards) \/ c = Len(cards) + 1
        BY <3>3
      <3> QED BY <1>c, <1>r, <1>t, <3>2, <3>3, <3>4, <3>5 DEF CardTrue, Cards, CardState, CardApproval
    <2>5. turn'[t].at = turn[t].at /\ turn' \in [Turns -> TurnRow] /\ \A u \in Turns \ {t} : turn'[u] = turn[u]
      BY <2>2 DEF CardStep
    <2> QED BY <1>c, <1>r, <1>t, <2>3, <2>4, <2>5, IdleFacts, TickKeeps DEF Settle
  <1>n. ASSUME turn' = turn, turn[t].at \in {"tracking", "stopped"}, NEW new \in PollRow,
               poll' = [poll EXCEPT ![t][p] = new],
               new.seen \in {"none", old.seen, mission[t]}, new.pending \subseteq 1..Len(approvals)
        PROVE  Typed' /\ TurnsInv'
    BY <1>n, <1>s, <1>c, <1>t, TickKeeps
  <1>1. CASE TickStart(t, p)
    <2> DEFINE new == [old EXCEPT !.at = "mission"]
    <2>1. new \in PollRow /\ new.seen = old.seen /\ new.pending = old.pending
      BY <1>t DEF PollRow
    <2>2. turn' = turn /\ turn[t].at \in {"tracking", "stopped"} /\ poll' = [poll EXCEPT ![t][p] = new]
      BY <1>1 DEF TickStart, At
    <2> HIDE DEF new
    <2> QED BY <1>k, <1>n, <2>1, <2>2
  <1>2. CASE TickFails(t, p) \/ TickApprovalsFail(t, p)
    BY <1>2, <1>i DEF TickFails, TickApprovalsFail
  <1>3. CASE TickMission(t, p)
    <2> DEFINE new == [old EXCEPT !.at = "tasks", !.seen = mission[t]]
    <2>1. new \in PollRow /\ new.seen = mission[t] /\ new.pending = old.pending
      BY <1>t DEF PollRow, Typed
    <2>2. turn' = turn /\ turn[t].at \in {"tracking", "stopped"} /\ poll' = [poll EXCEPT ![t][p] = new]
      BY <1>3, <1>a DEF TickMission
    <2> HIDE DEF new
    <2> QED BY <1>k, <1>n, <2>1, <2>2
  <1>4. ASSUME NEW tasks \in BOOLEAN, TickRest(t, p, tasks) PROVE Typed' /\ TurnsInv'
    <2>1. CASE At(t, "stopped")
      BY <1>4, <1>i, <2>1 DEF TickRest
    <2>2. CASE ~At(t, "stopped")
      <3> DEFINE shown == Shown(turn[t], old.seen)
      <3>1. turn' = [turn EXCEPT ![t] = shown] /\ turn[t].at = "tracking"
        BY <1>4, <1>a, <2>2 DEF TickRest, At
      <3>2. old.seen \in MissionStatus
        BY <1>t DEF PollRow
      <3>3. /\ shown \in TurnRow /\ shown.text = turn[t].text /\ shown.kind = turn[t].kind
            /\ shown.cards = turn[t].cards
            /\ old.seen \in TERMINAL_STATUSES =>
                  /\ shown.at = "stopped" /\ shown.progress = "none" /\ shown.result = Append(turn[t].result, old.seen)
            /\ old.seen \notin TERMINAL_STATUSES => shown.at = turn[t].at /\ shown.result = turn[t].result
        BY <1>t, <3>2, ShownFacts
      <3> HIDE DEF shown
      <3>4. turn' \in [Turns -> TurnRow] /\ turn'[t] = shown /\ \A u \in Turns \ {t} : turn'[u] = turn[u]
        BY <1>t, <3>1, <3>3
      <3>5. turn'[t].at \in {"tracking", "stopped"} /\ (turn'[t].at = turn[t].at \/ turn'[t].at = "stopped")
        BY <3>1, <3>3, <3>4
      <3>6. TurnPart(t)'
        <4>1. Begun(t)' /\ OneOff(t)'
          BY <1>t, <3>1, <3>3, <3>4, <3>5 DEF TurnPart, Begun, OneOff, At
        <4>2. Consent(t)'
          <5>1. turn[t] # Unused
            BY <3>1 DEF Unused
          <5> QED BY <1>c, <1>t, <3>3, <3>4, <5>1 DEF TurnPart, Consent
        <4>3. ResultTrue(t)'
          <5>1. turn[t].result = <<>>
            BY <1>t, <2>2 DEF TurnPart, ResultTrue
          <5>2. CASE old.seen \in TERMINAL_STATUSES
            <6>1. Ended(old.seen, mission[t])
              BY <1>t, <5>2 DEF PollPart, SeenTrue
            <6>2. shown.result = Append(<<>>, old.seen)
              BY <3>3, <5>1, <5>2
            <6>3. Len(shown.result) = 1 /\ shown.result[1] = old.seen
              BY <5>2, <6>2
            <6> QED BY <1>c, <3>3, <3>4, <5>2, <6>1, <6>3 DEF ResultTrue, At
          <5>3. CASE old.seen \notin TERMINAL_STATUSES
            BY <3>1, <3>3, <3>4, <5>1, <5>3 DEF ResultTrue, At
          <5> QED BY <5>2, <5>3
        <4> QED BY <4>1, <4>2, <4>3 DEF TurnPart
      <3>7. CardTrue(t)'
        BY <1>t, <1>v, <3>3, <3>4, CardsLeft
      <3>8. CASE Settle(t, p)
        BY <1>c, <1>t, <3>4, <3>5, <3>6, <3>7, <3>8, IdleFacts, TickKeeps DEF Settle
      <3>9. CASE poll' = [poll EXCEPT ![t][p] = [@ EXCEPT !.at = "approvals", !.tasks = tasks]]
        <4> DEFINE new == [old EXCEPT !.at = "approvals", !.tasks = tasks]
        <4>1. new \in PollRow /\ new.seen = old.seen /\ new.pending = old.pending
          BY <1>t DEF PollRow
        <4>2. poll' = [poll EXCEPT ![t][p] = new]
          BY <3>9
        <4> HIDE DEF new
        <4> QED BY <1>c, <1>k, <1>t, <3>4, <3>5, <3>6, <3>7, <4>1, <4>2, TickKeeps
      <3> QED BY <1>4, <2>2, <3>8, <3>9 DEF TickRest
    <2> QED BY <2>1, <2>2
  <1>5. CASE TickApprovals(t, p)
    <2> DEFINE own == {a \in ListedPending("task") : old.tasks /\ approvals[a].mission = t}
    <2>1. \A by : ListedPending(by) \subseteq 1..Len(approvals)
      BY DEF ListedPending
    <2>2. own \in SUBSET (1..Len(approvals)) /\ \A a \in own : approvals[a].mission = t
      BY <2>1
    <2>3. old.at = "approvals" /\ turn[t].at \in {"tracking", "stopped"}
      BY <1>5, <1>a DEF TickApprovals
    <2>4. \/ renderApprovalCard(t, own) /\ Settle(t, p)
          \/ turn' = turn /\ poll' = [poll EXCEPT ![t][p] = [@ EXCEPT !.at = "calls", !.pending = ListedPending("call")]]
          \/ turn' = turn /\ Settle(t, p)
      BY <1>5 DEF TickApprovals
    <2> HIDE DEF own
    <2>5. CASE renderApprovalCard(t, own) /\ Settle(t, p)
      BY <1>r, <2>2, <2>3, <2>5
    <2>6. CASE turn' = turn /\ poll' = [poll EXCEPT ![t][p] = [@ EXCEPT !.at = "calls", !.pending = ListedPending("call")]]
      <3> DEFINE pending == ListedPending("call")
                 new == [old EXCEPT !.at = "calls", !.pending = pending]
      <3>1. poll' = [poll EXCEPT ![t][p] = new]
        BY <2>6
      <3>2. pending \subseteq 1..Len(approvals) /\ pending \in SUBSET Nat
        BY <1>t, <2>1
      <3> HIDE DEF pending
      <3>3. new \in PollRow /\ new.seen = old.seen /\ new.pending = pending
        BY <1>t, <3>2 DEF PollRow
      <3> HIDE DEF new
      <3> QED BY <1>n, <2>3, <2>6, <3>1, <3>2, <3>3
    <2> QED BY <1>i, <2>4, <2>5, <2>6
  <1>6. ASSUME NEW answered \in BOOLEAN, TickCalls(t, p, answered) PROVE Typed' /\ TurnsInv'
    <2> DEFINE own == {a \in old.pending : answered /\ old.tasks /\ approvals[a].mission = t}
    <2>1. own \in SUBSET (1..Len(approvals)) /\ \A a \in own : approvals[a].mission = t
      BY <1>k
    <2>2. (turn' = turn \/ renderApprovalCard(t, own)) /\ Settle(t, p) /\ old.at # "idle"
      BY <1>6 DEF TickCalls
    <2> HIDE DEF own
    <2> QED BY <1>i, <1>r, <2>1, <2>2
  <1> QED BY <1>1, <1>2, <1>3, <1>4, <1>5, <1>6 DEF TickSteps

\* A card whose state changes keeps its invariant when the label it gets is
\* what the server has decided.
LEMMA CardKeeps ==
    ASSUME Typed, TurnsInv, NEW t \in Turns, NEW c \in Cards(t), NEW state \in CardStates,
           turn' = [turn EXCEPT ![t].cards[c].state = state], composing' = composing, poll' = poll, routines' = routines,
           ServerTyped, ApprovalsKept, \A u \in Turns : MissionsAge(u),
           state \in {"approved", "denied"} => approvals'[CardApproval(t, c)].status = state
    PROVE  Typed' /\ TurnsInv'
  <1>1. /\ CardStep(t) /\ Len(turn'[t].cards) = Len(turn[t].cards)
        /\ turn'[t].cards[c].approval = turn[t].cards[c].approval /\ turn'[t].cards[c].state = state
        /\ \A d \in Cards(t) \ {c} : turn'[t].cards[d] = turn[t].cards[d]
    BY CardStateFacts
  <1>2. input' = input /\ warnings' = warnings /\ agreed' = agreed /\ currentAgentId' = currentAgentId
    BY DEF composing
  <1>3. Typed'
    BY <1>1, <1>2 DEF Typed, ServerTyped, CardStep
  <1>4. TurnPart(t) /\ PollPart(t) /\ CardTrue(t)
    BY DEF TurnsInv, TurnInv
  <1>5. ~At(t, "unused")
    <2> SUFFICES ASSUME At(t, "unused") PROVE FALSE
      OBVIOUS
    <2>1. turn[t].cards = <<>>
      BY <1>4 DEF TurnPart, Begun, Unused
    <2> QED BY <2>1 DEF Cards
  <1>6. TurnPart(t)'
    BY <1>1, <1>2, <1>4, <1>5, TurnWithCards
  <1>7. Len(approvals) \in Nat /\ 1..Len(approvals) \subseteq 1..Len(approvals')
    BY LenProperties DEF Typed, ServerTyped, ApprovalsKept
  <1>8. PollPart(t)'
    BY <1>1, <1>4, <1>7, PollLeft DEF CardStep
  <1>9. CardTrue(t)'
    <2> SUFFICES ASSUME NEW d \in Cards(t)'
                 PROVE  /\ turn'[t].cards[d].approval \in 1..Len(approvals')
                        /\ approvals'[turn'[t].cards[d].approval].mission = t
                        /\ turn'[t].cards[d].state \in {"approved", "denied"} =>
                               approvals'[turn'[t].cards[d].approval].status = turn'[t].cards[d].state
      BY DEF CardTrue, CardApproval, CardState
    <2>1. d \in Cards(t)
      BY <1>1 DEF Cards
    <2>2. /\ turn[t].cards[d].approval \in 1..Len(approvals)
          /\ approvals[turn[t].cards[d].approval].mission = t
          /\ turn[t].cards[d].state \in {"approved", "denied"} =>
                 approvals[turn[t].cards[d].approval].status = turn[t].cards[d].state
      BY <1>4, <2>1 DEF CardTrue, CardApproval, CardState
    <2>3. turn'[t].cards[d].approval = turn[t].cards[d].approval
      BY <1>1, <2>1
    <2>4. CASE d = c
      BY <1>1, <1>7, <2>2, <2>3, <2>4 DEF ApprovalsKept, CardApproval
    <2>5. CASE d # c
      BY <1>1, <1>7, <2>1, <2>2, <2>3, <2>5 DEF ApprovalsKept
    <2> QED BY <2>4, <2>5
  <1>10. \A u \in Turns \ {t} : TurnInv(u)'
    BY <1>1, <1>2, TurnsLeft DEF TurnsInv, Client, ServerTyped, CardStep
  <1> QED BY <1>3, <1>6, <1>8, <1>9, <1>10 DEF TurnsInv, TurnInv

\* The buttons of the approval cards keep the invariant.
LEMMA ApprovalCardStep ==
    ASSUME Typed, TurnsInv, NEW t \in Turns, ApprovalCard(t)
    PROVE  Typed' /\ TurnsInv'
  <1>1. PICK c \in Cards(t) :
            \/ \E action \in {"approved", "denied"} : ResolveClick(t, c, action)
            \/ \E lost \in BOOLEAN : ResolveAnswer(t, c, lost)
            \/ ResolveRefused(t, c)
    BY DEF ApprovalCard
  <1>2. CASE (\E action \in {"approved", "denied"} : ResolveClick(t, c, action)) \/ ResolveRefused(t, c)
    <2>1. composing' = composing /\ poll' = poll /\ routines' = routines /\ mission' = mission /\ approvals' = approvals
      BY <1>2 DEF ResolveClick, ResolveRefused, serverVars
    <2>2. PICK state \in {"open", "approving", "denying"} : turn' = [turn EXCEPT ![t].cards[c].state = state]
      BY <1>2 DEF ResolveClick, ResolveRefused
    <2>3. ServerTyped /\ ApprovalsKept /\ \A u \in Turns : MissionsAge(u)
      BY <2>1, ServerLeft
    <2>4. state \in CardStates
      BY <2>2 DEF CardStates
    <2> QED BY <2>1, <2>2, <2>3, <2>4, CardKeeps
  <1>3. ASSUME NEW lost \in BOOLEAN, ResolveAnswer(t, c, lost) PROVE Typed' /\ TurnsInv'
    <2> DEFINE a == CardApproval(t, c)
               result == Decision(t, c)
               status == IF Decision(t, c) = "approved" THEN "running" ELSE "cancelled"
               state == IF lost THEN "open" ELSE Decision(t, c)
    <2>1. a \in 1..Len(approvals)
      BY DEF TurnsInv, TurnInv, CardTrue
    <2>2. result \in {"approved", "denied"} /\ status \in {"running", "failed", "cancelled"}
      BY DEF Decision
    <2>3. Decided(a, result, status) /\ turn' = [turn EXCEPT ![t].cards[c].state = state]
      BY <1>3 DEF ResolveAnswer
    <2>4. composing' = composing /\ poll' = poll /\ routines' = routines
      BY <1>3 DEF ResolveAnswer
    <2>5. state \in CardStates /\ (state \in {"approved", "denied"} => state = result)
      BY <2>2 DEF CardStates
    <2> HIDE DEF a, result, status, state
    <2>6. ServerTyped /\ ApprovalsKept /\ (\A u \in Turns : MissionsAge(u)) /\ approvals'[a].status = result
      BY <2>1, <2>2, <2>3, DecidedFacts
    <2>7. state \in {"approved", "denied"} => approvals'[CardApproval(t, c)].status = state
      BY <2>5, <2>6 DEF a
    <2> QED BY <2>3, <2>4, <2>5, <2>6, <2>7, CardKeeps
  <1> QED BY <1>1, <1>2, <1>3

\* The steps of the server keep the invariant.
LEMMA ServerStep ==
    ASSUME Typed, TurnsInv, Server
    PROVE  Typed' /\ TurnsInv'
  <1>1. ServerTyped /\ ApprovalsKept /\ \A u \in Turns : MissionsAge(u)
    <2>1. ASSUME NEW a \in 1..Len(approvals), NEW status \in {"failed", "cancelled"}, Expire(a, status)
          PROVE  ServerTyped /\ ApprovalsKept /\ \A u \in Turns : MissionsAge(u)
      BY <2>1, DecidedFacts DEF Expire
    <2> QED BY <2>1, AskFacts, MoveFacts DEF Server
  <1>2. client' = client /\ routines' = routines
    BY DEF Server, AskApproval, Expire, MissionMoves
  <1>3. /\ input' = input /\ warnings' = warnings /\ agreed' = agreed /\ currentAgentId' = currentAgentId
        /\ turn' = turn /\ poll' = poll
    BY <1>2 DEF client, composing
  <1>4. Typed'
    BY <1>1, <1>2, <1>3 DEF Typed, ServerTyped
  <1>5. TurnsInv'
    BY <1>1, <1>3, TurnsLeft DEF TurnsInv, Client, ServerTyped
  <1> QED BY <1>4, <1>5

-----------------------------------------------------------------------------
(* Theorems.                                                               *)

\* The inductive invariant holds of every behaviour: a tick that has read a
\* final status, a card that shows one and the mission agree up to a late
\* failure, and every approval a card or a tick knows of exists.
LEMMA Invariance == Spec => []IInv
  <1>1. Init => IInv
    <2> SUFFICES ASSUME Init PROVE IInv
      OBVIOUS
    <2>1. Unused \in TurnRow /\ Unused.at = "unused" /\ Unused.result = <<>> /\ Unused.cards = <<>> /\ Unused.kind = "none"
      BY EmptySeq DEF Unused, TurnRow, Places
    <2>2. \A t \in Turns : turn[t] = Unused /\ \A p \in Polls : poll[t][p] = Idle
      BY DEF Init
    <2>3. Typed
      <3>1. turn \in [Turns -> TurnRow] /\ poll \in [Turns -> [Polls -> PollRow]]
        BY <2>1, IdleFacts DEF Init
      <3>2. /\ mission \in [Turns -> MissionStatus] /\ approvals \in Seq(ApprovalRow) /\ warnings \in Seq(Texts)
            /\ routines \in [Turns -> Seq([owner : Agents \cup {NoAgent}, lost : BOOLEAN])]
        BY EmptySeq DEF Init, MissionStatus
      <3> QED BY <3>1, <3>2 DEF Init, Typed
    <2>4. ASSUME NEW t \in Turns PROVE TurnInv(t)
      <3>1. TurnPart(t)
        BY <2>1, <2>2 DEF TurnPart, Begun, ResultTrue, Consent, OneOff, At
      <3>2. PollPart(t)
        BY <2>2, IdleFacts DEF PollPart, Quiet, SeenTrue, Known, TERMINAL_STATUSES
      <3>3. CardTrue(t)
        BY <2>1, <2>2 DEF CardTrue, Cards
      <3> QED BY <3>1, <3>2, <3>3 DEF TurnInv
    <2> QED BY <2>3, <2>4, TypedIsTypeOK DEF IInv
  <1>2. IInv /\ [Next]_vars => IInv'
    <2> SUFFICES ASSUME Typed, TurnsInv, [Next]_vars PROVE Typed' /\ TurnsInv'
      BY TypedIsTypeOK DEF IInv, TurnsInv, TypeOK, Typed, TurnRow, Card, PollRow, ApprovalRow
    <2>1. CASE UNCHANGED vars
      <3>1. /\ input' = input /\ warnings' = warnings /\ agreed' = agreed /\ currentAgentId' = currentAgentId
            /\ turn' = turn /\ poll' = poll /\ mission' = mission /\ approvals' = approvals /\ routines' = routines
        BY <2>1 DEF vars, serverVars
      <3>2. ServerTyped /\ ApprovalsKept /\ \A u \in Turns : MissionsAge(u)
        BY <3>1, ServerLeft
      <3>3. TurnsInv'
        BY <3>1, <3>2, TurnsLeft DEF TurnsInv, Client, ServerTyped
      <3> QED BY <3>1, <3>3 DEF Typed
    <2> QED BY <2>1, ComposingStep, StartingStep, TickStep, ApprovalCardStep, ServerStep DEF Next
  <1> QED BY <1>1, <1>2, PTL DEF Spec

\* Every variable of the chat keeps its type.
THEOREM TypeCorrect == Spec => []TypeOK
  <1>1. IInv => TypeOK
    BY DEF IInv
  <1> QED BY <1>1, Invariance, PTL

\* A stopped turn has one result card and no progress line, and the card shows
\* how its mission ended, however many ticks overlapped.
THEOREM OneResult == Spec => []ResultIsLast
  <1>1. IInv => ResultIsLast
    BY DEF IInv, TurnInv, TurnPart, ResultTrue, Ended, ResultIsLast
  <1> QED BY <1>1, Invariance, PTL

\* No secret enters the thread unless its owner insisted on that very text.
THEOREM SecretsAreAgreed == Spec => []SecretsNeedConsent
  <1>1. IInv => SecretsNeedConsent
    BY DEF IInv, TurnInv, TurnPart, Consent, SecretsNeedConsent
  <1> QED BY <1>1, Invariance, PTL

\* No message that sounds recurring is posted as a one-off mission.
THEOREM RecurringIsNotPosted == Spec => []NeverOneOff
  <1>1. IInv => NeverOneOff
    BY DEF IInv, TurnInv, TurnPart, OneOff, NeverOneOff
  <1> QED BY <1>1, Invariance, PTL

\* Approval cards are about their own mission and say what was decided, also
\* after lost answers, refusals and decisions made elsewhere.
THEOREM CardsSayTheTruth == Spec => []CardsTrue
  <1>1. IInv => CardsTrue
    BY DEF IInv, TurnInv, CardTrue, CardsTrue
  <1> QED BY <1>1, Invariance, PTL
=============================================================================
