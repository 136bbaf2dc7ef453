------------------------------- MODULE Rooms --------------------------------
(***************************************************************************)
(* Chat rooms: RoomMessageService (room_runtime.py) and the fan-in of      *)
(* mission outcomes, Orchestrator._notify_room_outcomes (orchestrator/     *)
(* engine.py). One room; missions of the rest of the system appear as      *)
(* missions without a message.                                             *)
(*                                                                         *)
(* A dispatch and a fan-in scan run in one turn of the event loop each,    *)
(* with a commit per mission or message in between, where the process may  *)
(* die. A definition named X_Fault is X with a plausible mistake.          *)
(***************************************************************************)
EXTENDS Naturals, FiniteSets, SequencesExt

CONSTANTS
    Agents,        \* the agents of the registry
    Mentions,      \* the resolved mentions a message may carry, in text order
    Requests,      \* the agent_ids a dispatch request may name
    MaxTargets,    \* 20: cap of the fan-out
    ScanLimit,     \* 200: terminal missions read by the fan-in scan
    MaxMessages, MaxMissions, MaxCrashes,  \* bounds of the model
    NoAgent        \* a mission the planner assigns

ASSUME RoomsAssumption ==
    /\ MaxTargets \in Nat \ {0} /\ ScanLimit \in Nat
    /\ MaxMessages \in Nat /\ MaxMissions \in Nat /\ MaxCrashes \in Nat
    /\ NoAgent \notin Agents
    /\ IsFiniteSet(Agents)
    /\ Mentions \cup Requests \subseteq Seq(Agents)
    /\ \A ids \in Mentions : IsInjective(ids)

VARIABLES
    participation, \* participation_state of each agent, "none" for a stranger
    messages,      \* the mentions of each message posted by a user
    link,          \* mission_id of each message, 0 if none
    missions,      \* missions in creation order: message (0: none), agent, status
                   \* (live, ended, or ended with a result no message can hold)
    posts,         \* result messages in the room about each mission
    inherited,     \* those of them that earlier lives of the process posted
    turn, current, \* what the event loop is doing, for which message or mission
    targets,       \* agents the dispatch in progress has still to reach
    todo,          \* missions of the scan in progress
    notified,      \* _room_notified
    up, crashes

room == <<participation, messages, link>>
turnVars == <<turn, current, targets, todo>>
vars == <<room, missions, posts, inherited, turnVars, notified, up, crashes>>

States == {"active", "listening", "sleeping", "left"}
Terminal == {"ended", "unpostable"}
Messages == 1..Len(messages)
Missions == 1..Len(missions)

Init ==
    /\ participation = [a \in Agents |-> "none"]
    /\ messages = <<>> /\ link = <<>> /\ missions = <<>>
    /\ posts = <<>> /\ inherited = <<>>
    /\ turn = "idle" /\ current = 0 /\ targets = <<>> /\ todo = {}
    /\ notified = {} /\ up = TRUE /\ crashes = 0

-----------------------------------------------------------------------------
(* Participants and messages.                                              *)

Request == up /\ turn = "idle"

join_room(a) ==
    /\ Request /\ participation[a] \in {"none", "left"}
    /\ participation' = [participation EXCEPT ![a] = "active"]
    /\ UNCHANGED <<messages, link, missions, posts, inherited, turnVars, notified, up, crashes>>

\* Also leave_room, which is the state "left".
set_participation_state(a, state) ==
    /\ Request /\ participation[a] # "none"
    /\ participation' = [participation EXCEPT ![a] = state]
    /\ UNCHANGED <<messages, link, missions, posts, inherited, turnVars, notified, up, crashes>>

post_message(mentions) ==
    /\ Request /\ Len(messages) < MaxMessages
    /\ messages' = Append(messages, mentions)
    /\ link' = Append(link, 0)
    /\ UNCHANGED <<participation, missions, posts, inherited, turnVars, notified, up, crashes>>

-----------------------------------------------------------------------------
(* Fan-out: one mission per target.                                        *)

InTextOrder(ids, mentions) ==
    \A i, j \in DOMAIN ids, k, l \in DOMAIN mentions :
        i < j /\ ids[i] = mentions[k] /\ ids[j] = mentions[l] => k < l

\* A mentioned stranger counts as active. Without a mention the participants
\* are taken in the order of their rows, which is any order.
eligible_targets(mentions) ==
    IF mentions # <<>>
    THEN {ids \in SetToSeqs({a \in ToSet(mentions) : participation[a] \notin {"sleeping", "left"}}) :
             InTextOrder(ids, mentions)}
    ELSE SetToSeqs({a \in Agents : participation[a] = "active"})

Capped_Not(ids) == ids
Capped(ids) == SubSeq(ids, 1, IF Len(ids) < MaxTargets THEN Len(ids) ELSE MaxTargets)

dispatch_mission(m, ids) ==
    /\ Request /\ m \in Messages
    /\ turn' = "dispatch" /\ current' = m /\ targets' = Capped(ids)
    /\ UNCHANGED <<room, missions, posts, inherited, todo, notified, up, crashes>>

\* Targets named in the request, or found from the message and the room.
DispatchTo(m) == \E ids \in Requests : dispatch_mission(m, ids)
DispatchMessage(m) == \E ids \in eligible_targets(messages[m]) : dispatch_mission(m, ids)

NewMission(message, agent) ==
    /\ Len(missions) < MaxMissions
    /\ missions' = Append(missions, [message |-> message, agent |-> agent, status |-> "live"])
    /\ posts' = Append(posts, 0) /\ inherited' = Append(inherited, 0)

\* One submission; without any target the planner chooses.
SubmitTarget ==
    /\ up /\ turn = "dispatch"
    /\ NewMission(current, IF targets = <<>> THEN NoAgent ELSE Head(targets))
    /\ targets' = IF targets = <<>> THEN <<>> ELSE Tail(targets)
    /\ turn' = IF Len(targets) <= 1 THEN "link" ELSE "dispatch"
    /\ UNCHANGED <<room, current, todo, notified, up, crashes>>

\* The queue is full or the agent is refused: the missions submitted so far
\* stay, the message is not linked.
SubmitRaises ==
    /\ up /\ turn = "dispatch"
    /\ turn' = "idle" /\ current' = 0 /\ targets' = <<>>
    /\ UNCHANGED <<room, missions, posts, inherited, todo, notified, up, crashes>>

\* The last mission submitted is written to the message.
Link ==
    /\ up /\ turn = "link"
    /\ link' = [link EXCEPT ![current] = Len(missions)]
    /\ turn' = "idle" /\ current' = 0
    /\ UNCHANGED <<participation, messages, missions, posts, inherited, targets, todo, notified, up, crashes>>

-----------------------------------------------------------------------------
(* The engine, seen from the rooms: missions of others, and their ends.    *)

SubmitElsewhere ==
    /\ Request
    /\ NewMission(0, NoAgent)
    /\ UNCHANGED <<room, turnVars, notified, up, crashes>>

MissionEnds(i, status) ==
    /\ Request /\ i \in Missions /\ missions[i].status = "live"
    /\ missions' = [missions EXCEPT ![i].status = status]
    /\ UNCHANGED <<room, posts, inherited, turnVars, notified, up, crashes>>

-----------------------------------------------------------------------------
(* Fan-in: once per tick of the engine.                                    *)

Ended == {i \in Missions : missions[i].status \in Terminal}

\* The scan reads the oldest ScanLimit terminal missions.
Scanned_Strict == {i \in Ended : Cardinality({j \in Ended : j <= i}) < ScanLimit}
Scanned == {i \in Ended : Cardinality({j \in Ended : j <= i}) <= ScanLimit}

\* Missions without a room are only remembered.
notify_room_outcomes ==
    /\ Request
    /\ LET fresh == Scanned \ notified
           ours == {i \in fresh : missions[i].message # 0}
       IN /\ fresh # {}
          /\ notified' = notified \cup (fresh \ ours)
          /\ todo' = ours
          /\ turn' = IF ours = {} THEN "idle" ELSE "notify"
    /\ UNCHANGED <<room, missions, posts, inherited, current, targets, up, crashes>>

First(i) == i \in todo /\ \A j \in todo : i <= j

\* post_result commits the message, then its mission_id. Without the message
\* (post_message refuses the text) the failure is logged.
PostResult(i) ==
    /\ up /\ turn = "notify" /\ First(i)
    /\ posts' = IF missions[i].status = "ended" THEN [posts EXCEPT ![i] = @ + 1] ELSE posts
    /\ turn' = "annotate"
    /\ UNCHANGED <<room, missions, inherited, current, targets, todo, notified, up, crashes>>

Remembered_Not(i) == UNCHANGED notified
Remembered(i) == notified' = notified \cup {i}

\* The message is annotated or the failure logged; either way the mission is
\* not looked at again.
Annotate(i) ==
    /\ up /\ turn = "annotate" /\ First(i)
    /\ Remembered(i)
    /\ todo' = todo \ {i}
    /\ turn' = IF todo = {i} THEN "idle" ELSE "notify"
    /\ UNCHANGED <<room, missions, posts, inherited, current, targets, up, crashes>>

-----------------------------------------------------------------------------
Crash ==
    /\ up /\ crashes < MaxCrashes
    /\ up' = FALSE /\ crashes' = crashes + 1
    /\ turn' = "idle" /\ current' = 0 /\ targets' = <<>> /\ todo' = {}
    /\ notified' = {} /\ inherited' = posts
    /\ UNCHANGED <<room, missions, posts>>

Restart ==
    /\ ~up /\ up' = TRUE
    /\ UNCHANGED <<room, missions, posts, inherited, turnVars, notified, crashes>>

Owner ==
    \/ \E a \in Agents : join_room(a) \/ \E state \in States : set_participation_state(a, state)
    \/ \E mentions \in Mentions : post_message(mentions)
    \/ \E m \in Messages : DispatchTo(m) \/ DispatchMessage(m)

Dispatch == SubmitTarget \/ SubmitRaises \/ Link

FanIn == notify_room_outcomes \/ \E i \in Missions : PostResult(i) \/ Annotate(i)

Next ==
    \/ Owner \/ Dispatch \/ FanIn \/ SubmitElsewhere \/ Crash \/ Restart
    \/ \E i \in Missions, status \in Terminal : MissionEnds(i, status)

Spec == Init /\ [][Next]_vars

\* The engine ticks for ever (strongly: it competes with requests for a first
\* in, first out loop), a turn runs on, the process is restarted.
FairSpec == Spec /\ SF_vars(FanIn) /\ WF_vars(Dispatch) /\ WF_vars(Restart)
-----------------------------------------------------------------------------
\* Rows and turn have their types; a link points to a mission of its message;
\* a scan is in progress exactly while missions are left to post.
TypeOK ==
    /\ participation \in [Agents -> States \cup {"none"}]
    /\ messages \in Seq(Mentions) /\ Len(link) = Len(messages)
    /\ \A m \in Messages : link[m] \in {0} \cup {i \in Missions : missions[i].message = m}
    /\ missions \in Seq([message : 0..Len(messages), agent : Agents \cup {NoAgent},
                         status : {"live"} \cup Terminal])
    /\ posts \in Seq(Nat) /\ Len(posts) = Len(missions)
    /\ inherited \in Seq(Nat) /\ Len(inherited) = Len(missions)
    /\ turn \in {"idle", "dispatch", "link", "notify", "annotate"}
    /\ current \in 0..Len(messages) /\ (current # 0 <=> turn \in {"dispatch", "link"})
    /\ targets \in Seq(Agents) /\ Len(targets) <= MaxTargets
    /\ todo \subseteq Missions /\ (todo # {} <=> turn \in {"notify", "annotate"})
    /\ notified \subseteq Ended
    /\ up \in BOOLEAN /\ crashes \in 0..MaxCrashes

\* One life of the process posts a mission's result at most once, whatever
\* earlier lives have posted.
OncePerLife == \A i \in Missions : posts[i] <= inherited[i] + 1

Due(i) == i \in Missions /\ missions[i].message # 0 /\ missions[i].status = "ended"
Posted(i) == i \in Missions /\ posts[i] > 0

\* As many older missions have ended as the scan reads.
Crowded(i) == Cardinality({j \in Ended : j < i}) >= ScanLimit

\* The result of a mission dispatched from the room, if a message can hold it,
\* arrives in the room through crashes, unless the older missions that have
\* ended fill the scan before it has arrived.
ResultsArrive == \A i \in 1..MaxMissions : Due(i) ~> Posted(i) \/ Crowded(i)

\* The set of notified missions ensures that each mission posts once.
PostsOnce == \A i \in Missions : posts[i] <= 1
=============================================================================
