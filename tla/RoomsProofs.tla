---------------------------- MODULE RoomsProofs -----------------------------
(* Theorems about the chat room: its rows stay consistent through fan-out, *)
(* fan-in and crashes, and one life of the process posts a result once.    *)
EXTENDS Rooms, SequenceTheorems, FiniteSetTheorems, TLAPS

MissionRow(n) == [message : 0..n, agent : Agents \cup {NoAgent}, status : {"live"} \cup Terminal]

\* While a message waits for its link, the newest mission is one of its own.
LinkReady == turn = "link" => Len(missions) > 0 /\ missions[Len(missions)].message = current

\* The missions of a scan have ended and are still to be remembered.
ScanIsFresh == todo \subseteq Ended \ notified

\* The result of a mission may have been posted in this life of the process
\* only if the mission is remembered or about to be.
Handled(i) == i \in notified \/ (turn = "annotate" /\ First(i))
PostsCounted ==
    \A i \in Missions : posts[i] <= inherited[i] \/ (Handled(i) /\ posts[i] <= inherited[i] + 1)

IInv == TypeOK /\ link \in Seq(Nat) /\ LinkReady /\ ScanIsFresh /\ PostsCounted

-----------------------------------------------------------------------------
(* Types.                                                                  *)

\* The parts of the type invariant as facts about functions.
LEMMA Lengths ==
    ASSUME TypeOK, link \in Seq(Nat)
    PROVE  /\ Len(messages) \in Nat /\ Len(missions) \in Nat /\ Len(targets) \in Nat
           /\ Len(link) = Len(messages) /\ Len(posts) = Len(missions)
           /\ Len(inherited) = Len(missions) /\ DOMAIN inherited = Missions
           /\ \A i \in Missions : inherited[i] \in Nat
           /\ DOMAIN link = Messages /\ DOMAIN missions = Missions /\ DOMAIN posts = Missions
           /\ \A i \in Missions : missions[i] \in MissionRow(Len(messages)) /\ posts[i] \in Nat
           /\ \A m \in Messages : messages[m] \in Mentions /\ link[m] \in Nat
  <1>1. /\ messages \in Seq(Mentions) /\ missions \in Seq(MissionRow(Len(messages))) /\ posts \in Seq(Nat)
        /\ targets \in Seq(Agents) /\ Len(link) = Len(messages) /\ Len(posts) = Len(missions)
        /\ inherited \in Seq(Nat) /\ Len(inherited) = Len(missions)
    BY DEF TypeOK, MissionRow
  <1> QED BY <1>1, LenProperties, ElementOfSeq DEF Messages, Missions

\* A row stays a row when the room gets longer.
LEMMA RowsGrow ==
    ASSUME NEW m \in Nat, NEW n \in Nat, m <= n, NEW s \in Seq(MissionRow(m))
    PROVE  s \in Seq(MissionRow(n))
  <1>1. 0..m \subseteq 0..n
    OBVIOUS
  <1>2. MissionRow(m) \subseteq MissionRow(n)
    BY <1>1 DEF MissionRow
  <1> QED BY <1>2, SeqMonotonic

\* Whomever a dispatch reaches is an agent, at most as many as the cap.
LEMMA TargetTypes ==
    ASSUME NEW ids \in Seq(Agents)
    PROVE  Capped(ids) \in Seq(Agents) /\ Len(Capped(ids)) <= MaxTargets
  <1> DEFINE n == IF Len(ids) < MaxTargets THEN Len(ids) ELSE MaxTargets
  <1>1. Len(ids) \in Nat /\ MaxTargets \in Nat \ {0}
    BY RoomsAssumption, LenProperties
  <1>2. n \in Int /\ n >= 0 /\ n <= MaxTargets /\ n <= Len(ids)
    BY <1>1
  <1>3. \A i \in 1..n : ids[i] \in Agents
    BY <1>1, <1>2, ElementOfSeq
  <1> HIDE DEF n
  <1>4. SubSeq(ids, 1, n) \in Seq(Agents) /\ Len(SubSeq(ids, 1, n)) = IF 1 <= n THEN n - 1 + 1 ELSE 0
    BY <1>2, <1>3, SubSeqProperties
  <1>5. Capped(ids) = SubSeq(ids, 1, n)
    BY DEF Capped, n
  <1> QED BY <1>1, <1>2, <1>4, <1>5

\* The agents found from a message are agents of the registry.
LEMMA EligibleTypes ==
    ASSUME TypeOK, link \in Seq(Nat), NEW m \in Messages, NEW ids \in eligible_targets(messages[m])
    PROVE  ids \in Seq(Agents)
  <1>1. ASSUME NEW S \in SUBSET Agents, ids \in SetToSeqs(S) PROVE ids \in Seq(Agents)
    <2>1. Cardinality(S) \in Nat
      BY RoomsAssumption, FS_Subset, FS_CardinalityType
    <2>2. ids \in [1..Cardinality(S) -> S]
      BY <1>1 DEF SetToSeqs
    <2>3. ids \in Seq(S)
      BY <2>1, <2>2
    <2> QED BY <2>3, SeqMonotonic
  <1>2. messages[m] \in Seq(Agents)
    BY Lengths, RoomsAssumption
  <1>3. ToSet(messages[m]) \subseteq Agents
    BY <1>2, LenProperties DEF ToSet
  <1> QED BY <1>1, <1>3 DEF eligible_targets

\* A new mission comes after the others and has not posted anything.
LEMMA NewMissionFacts ==
    ASSUME TypeOK, link \in Seq(Nat), NEW message \in 0..Len(messages), NEW agent \in Agents \cup {NoAgent},
           NewMission(message, agent)
    PROVE  /\ missions' \in Seq(MissionRow(Len(messages))) /\ posts' \in Seq(Nat)
           /\ Len(missions') = Len(missions) + 1 /\ Len(posts') = Len(missions')
           /\ \A i \in Missions : missions'[i] = missions[i] /\ posts'[i] = posts[i]
           /\ missions'[Len(missions')].message = message /\ missions'[Len(missions')].status = "live"
           /\ posts'[Len(missions')] = 0
           /\ inherited' \in Seq(Nat) /\ Len(inherited') = Len(missions') /\ inherited'[Len(missions')] = 0
           /\ \A i \in Missions : inherited'[i] = inherited[i]
  <1> DEFINE row == [message |-> message, agent |-> agent, status |-> "live"]
  <1>1. row \in MissionRow(Len(messages)) /\ row.message = message /\ row.status = "live"
    BY DEF MissionRow
  <1>2. /\ missions \in Seq(MissionRow(Len(messages))) /\ posts \in Seq(Nat) /\ Len(posts) = Len(missions)
        /\ inherited \in Seq(Nat) /\ Len(inherited) = Len(missions)
    BY DEF TypeOK, MissionRow
  <1>3. missions' = Append(missions, row) /\ posts' = Append(posts, 0) /\ inherited' = Append(inherited, 0)
    BY DEF NewMission
  <1> HIDE DEF row
  <1> QED BY <1>1, <1>2, <1>3 DEF Missions

\* The parts of the type invariant that the fan-out and the fan-in disturb.
Links == \A m \in Messages : link[m] \in {0} \cup {i \in Missions : missions[i].message = m}
Rows ==
    /\ messages \in Seq(Mentions) /\ Len(link) = Len(messages) /\ link \in Seq(Nat)
    /\ missions \in Seq(MissionRow(Len(messages)))
    /\ posts \in Seq(Nat) /\ Len(posts) = Len(missions)
    /\ inherited \in Seq(Nat) /\ Len(inherited) = Len(missions)
Turns ==
    /\ turn \in {"idle", "dispatch", "link", "notify", "annotate"}
    /\ current \in 0..Len(messages) /\ (current # 0 <=> turn \in {"dispatch", "link"})
    /\ targets \in Seq(Agents) /\ Len(targets) <= MaxTargets
    /\ todo \subseteq Missions /\ (todo # {} <=> turn \in {"notify", "annotate"})
    /\ notified \subseteq Ended
Rest ==
    /\ participation \in [Agents -> States \cup {"none"}]
    /\ up \in BOOLEAN /\ crashes \in 0..MaxCrashes
Types == Links /\ Rows /\ Turns /\ Rest

\* Together they are the type invariant.
LEMMA TypesAreTypes == (TypeOK /\ link \in Seq(Nat)) <=> Types
  BY DEF TypeOK, Types, Links, Rows, Turns, Rest, MissionRow

\* The types survive a new mission.
LEMMA TypesWithMission ==
    ASSUME Types, NEW message \in 0..Len(messages), NEW agent \in Agents \cup {NoAgent},
           NewMission(message, agent), UNCHANGED <<room, todo, notified>>
    PROVE  /\ Links' /\ Rows'
           /\ todo' \subseteq Missions' /\ notified' \subseteq Ended'
  <1>t. TypeOK /\ link \in Seq(Nat) /\ Len(missions) \in Nat
    BY TypesAreTypes, Lengths
  <1>1. /\ missions' \in Seq(MissionRow(Len(messages))) /\ posts' \in Seq(Nat)
        /\ Len(missions') = Len(missions) + 1 /\ Len(posts') = Len(missions')
        /\ inherited' \in Seq(Nat) /\ Len(inherited') = Len(missions')
        /\ \A i \in Missions : missions'[i] = missions[i] /\ posts'[i] = posts[i]
    BY <1>t, NewMissionFacts
  <1>2. Missions \subseteq Missions'
    BY <1>t, <1>1 DEF Missions
  <1>3. Links'
    BY <1>1, <1>2 DEF Types, Links, Messages, room
  <1>4. Rows'
    BY <1>1 DEF Types, Rows, room
  <1>5. Ended \subseteq Ended'
    BY <1>1, <1>2 DEF Ended
  <1> QED BY <1>2, <1>3, <1>4, <1>5 DEF Types, Turns

\* Every step keeps the types.
LEMMA TypeStep ==
    ASSUME Types, LinkReady, ScanIsFresh, [Next]_vars
    PROVE  Types'
  <1>t. TypeOK /\ link \in Seq(Nat)
    BY TypesAreTypes
  <1>l. /\ Len(messages) \in Nat /\ Len(missions) \in Nat /\ Len(targets) \in Nat
        /\ DOMAIN missions = Missions /\ DOMAIN posts = Missions
        /\ \A i \in Missions : missions[i] \in MissionRow(Len(messages)) /\ posts[i] \in Nat
    BY <1>t, Lengths
  <1>1. ASSUME NEW a \in Agents, NEW state \in States, join_room(a) \/ set_participation_state(a, state) PROVE Types'
    <2>1. participation' \in [Agents -> States \cup {"none"}]
      BY <1>1 DEF Types, Rest, join_room, set_participation_state, States
    <2> QED BY <1>1, <2>1
            DEF Types, Links, Rows, Turns, Rest, join_room, set_participation_state, turnVars, Messages, Missions, Ended
  <1>2. ASSUME NEW mentions \in Mentions, post_message(mentions) PROVE Types'
    <2>1. /\ messages' \in Seq(Mentions) /\ Len(messages') = Len(messages) + 1
          /\ link' \in Seq(Nat) /\ Len(link') = Len(messages') /\ link'[Len(messages')] = 0
          /\ \A m \in Messages : link'[m] = link[m]
      BY <1>2 DEF Types, Rows, post_message, Messages
    <2>2. missions' \in Seq(MissionRow(Len(messages')))
      BY <1>2, <1>l, <2>1, RowsGrow DEF Types, Rows, post_message
    <2>3. Rows'
      BY <1>2, <2>1, <2>2 DEF Types, Rows, post_message
    <2>4. Links'
      BY <1>2, <1>l, <2>1 DEF Types, Links, post_message, Messages, Missions
    <2>5. Turns' /\ Rest'
      BY <1>2, <1>l, <2>1 DEF Types, Turns, Rest, post_message, turnVars, Missions, Ended
    <2> QED BY <2>3, <2>4, <2>5 DEF Types
  <1>3. ASSUME NEW m \in Messages, NEW ids \in Seq(Agents), dispatch_mission(m, ids) PROVE Types'
    <2>1. targets' \in Seq(Agents) /\ Len(targets') <= MaxTargets
      BY <1>3, TargetTypes DEF dispatch_mission
    <2>2. Turns'
      BY <1>3, <1>l, <2>1 DEF Types, Turns, dispatch_mission, Request, room, Messages, Missions, Ended
    <2> QED BY <1>3, <2>2 DEF Types, Links, Rows, Rest, dispatch_mission, room, Messages, Missions
  <1>4. CASE SubmitTarget
    <2> DEFINE agent == IF targets = <<>> THEN NoAgent ELSE Head(targets)
    <2>1. /\ agent \in Agents \cup {NoAgent}
          /\ targets' \in Seq(Agents) /\ Len(targets') <= MaxTargets
      <3>1. CASE targets = <<>>
        BY <1>4, <3>1 DEF SubmitTarget, Types, Turns
      <3>2. CASE targets # <<>>
        BY <1>4, <1>l, <3>2, HeadTailProperties, RoomsAssumption DEF SubmitTarget, Types, Turns
      <3> QED BY <3>1, <3>2
    <2>2. current \in 0..Len(messages)
      BY DEF Types, Turns
    <2>3. Links' /\ Rows' /\ todo' \subseteq Missions' /\ notified' \subseteq Ended'
      BY <1>4, <2>1, <2>2, TypesWithMission DEF SubmitTarget
    <2> HIDE DEF agent
    <2> QED BY <1>4, <2>1, <2>3 DEF SubmitTarget, Types, Turns, Rest, room
  <1>5. CASE SubmitElsewhere
    <2>1. Links' /\ Rows' /\ todo' \subseteq Missions' /\ notified' \subseteq Ended'
      BY <1>5, <1>l, TypesWithMission DEF SubmitElsewhere, turnVars
    <2> QED BY <1>5, <2>1 DEF SubmitElsewhere, Types, Turns, Rest, room, turnVars
  <1>6. CASE SubmitRaises
    BY <1>6, RoomsAssumption DEF SubmitRaises, Types, Links, Rows, Turns, Rest, room, Messages, Missions, Ended
  <1>7. CASE Link
    <2>1. /\ current \in Messages /\ Len(missions) \in Missions /\ missions[Len(missions)].message = current
      BY <1>7, <1>l DEF Link, LinkReady, Types, Turns, Messages, Missions
    <2>2. /\ link' \in Seq(Nat) /\ Len(link') = Len(link)
          /\ \A m \in Messages : link'[m] = IF m = current THEN Len(missions) ELSE link[m]
      BY <1>7, <1>l, <2>1, ExceptSeq DEF Link, Types, Rows, Messages
    <2>3. Links'
      BY <1>7, <2>1, <2>2 DEF Link, Types, Links, Messages, Missions
    <2> QED BY <1>7, <2>2, <2>3 DEF Link, Types, Rows, Turns, Rest, Missions, Ended
  <1>8. ASSUME NEW i \in Missions, NEW status \in Terminal, MissionEnds(i, status) PROVE Types'
    <2>1. /\ missions' = [missions EXCEPT ![i] = [missions[i] EXCEPT !.status = status]]
          /\ [missions[i] EXCEPT !.status = status] \in MissionRow(Len(messages))
          /\ [missions[i] EXCEPT !.status = status].message = missions[i].message
          /\ [missions[i] EXCEPT !.status = status].status = status
      BY <1>8, <1>l DEF MissionEnds, MissionRow
    <2>2. /\ missions' \in Seq(MissionRow(Len(messages))) /\ Len(missions') = Len(missions)
          /\ \A j \in Missions : missions'[j].message = missions[j].message
          /\ \A j \in Missions : missions'[j].status = IF j = i THEN status ELSE missions[j].status
      BY <2>1, ExceptSeq DEF Types, Rows, Missions
    <2>3. Missions' = Missions /\ Ended \subseteq Ended'
      BY <2>2 DEF Missions, Ended
    <2>4. Links'
      BY <1>8, <2>2, <2>3 DEF MissionEnds, Types, Links, room, Messages
    <2> QED BY <1>8, <2>2, <2>3, <2>4 DEF MissionEnds, Types, Rows, Turns, Rest, room, turnVars
  <1>9. CASE notify_room_outcomes
    BY <1>9 DEF notify_room_outcomes, Request, Scanned, Ended, Types, Links, Rows, Turns, Rest, room, Messages, Missions
  <1>10. ASSUME NEW i \in Missions, PostResult(i) PROVE Types'
    <2>1. posts' \in Seq(Nat) /\ Len(posts') = Len(posts)
      <3>1. posts[i] + 1 \in Nat /\ i \in 1..Len(posts) /\ posts \in Seq(Nat)
        BY <1>l DEF Types, Rows, Missions
      <3>2. [posts EXCEPT ![i] = posts[i] + 1] \in Seq(Nat) /\ Len([posts EXCEPT ![i] = posts[i] + 1]) = Len(posts)
        BY <3>1, ExceptSeq
      <3> QED BY <1>10, <3>1, <3>2 DEF PostResult
    <2> QED BY <1>10, <2>1 DEF PostResult, First, Types, Links, Rows, Turns, Rest, room, Messages, Missions, Ended
  <1>11. ASSUME NEW i \in Missions, Annotate(i) PROVE Types'
    <2>1. i \in Ended
      BY <1>11 DEF Annotate, First, ScanIsFresh
    <2> QED BY <1>11, <2>1 DEF Annotate, Remembered, First, Types, Links, Rows, Turns, Rest, room, Messages, Missions, Ended
  <1>12. CASE Crash
    <2>1. crashes' \in 0..MaxCrashes
      BY <1>12, RoomsAssumption DEF Crash, Types, Rest
    <2>2. Turns'
      BY <1>12, <1>l, RoomsAssumption DEF Crash, Types, Turns, room
    <2> QED BY <1>12, <2>1, <2>2 DEF Crash, Types, Links, Rows, Rest, room, Messages, Missions
  <1>13. CASE Restart \/ UNCHANGED vars
    BY <1>13 DEF Restart, vars, turnVars, Types, Links, Rows, Turns, Rest, room, Messages, Missions, Ended
  <1>14. ASSUME NEW m \in Messages, DispatchTo(m) \/ DispatchMessage(m) PROVE Types'
    <2>1. Requests \subseteq Seq(Agents)
      BY RoomsAssumption
    <2> QED BY <1>3, <1>14, <1>t, <2>1, EligibleTypes DEF DispatchTo, DispatchMessage
  <1> QED
    BY <1>1, <1>2, <1>4, <1>5, <1>6, <1>7, <1>8, <1>9, <1>10, <1>11, <1>12, <1>13, <1>14
    DEF Next, Owner, Dispatch, FanIn, States

-----------------------------------------------------------------------------
(* Links, scans and posts.                                                 *)

\* Only the first mission of a scan is in hand.
LEMMA OneFirst ==
    ASSUME Types, NEW i \in Missions, NEW j \in Missions, First(i), First(j)
    PROVE  i = j
  BY TypesAreTypes, Lengths DEF First, Missions

\* Every step keeps the newest mission that of the message to be linked.
LEMMA LinkStep ==
    ASSUME Types, LinkReady, [Next]_vars
    PROVE  LinkReady'
  <1>t. TypeOK /\ link \in Seq(Nat) /\ Len(missions) \in Nat /\ DOMAIN missions = Missions
    BY TypesAreTypes, Lengths
  <1>1. CASE SubmitTarget
    <2> DEFINE agent == IF targets = <<>> THEN NoAgent ELSE Head(targets)
    <2>1. agent \in Agents \cup {NoAgent} /\ current \in 0..Len(messages)
      BY HeadTailProperties DEF Types, Turns
    <2>2. NewMission(current, agent)
      BY <1>1 DEF SubmitTarget
    <2>3. Len(missions') = Len(missions) + 1 /\ missions'[Len(missions')].message = current
      BY <1>t, <2>1, <2>2, NewMissionFacts
    <2> QED BY <1>1, <1>t, <2>3 DEF SubmitTarget, LinkReady
  <1>2. CASE UNCHANGED <<turn, current, missions>>
    BY <1>2 DEF LinkReady
  <1>3. CASE turn' # "link"
    BY <1>3 DEF LinkReady
  <1>4. CASE SubmitElsewhere \/ \E i \in Missions, status \in Terminal : MissionEnds(i, status)
    BY <1>3, <1>4 DEF SubmitElsewhere, MissionEnds, Request, turnVars
  <1> QED
    BY <1>1, <1>2, <1>3, <1>4
    DEF Next, Owner, Dispatch, FanIn, join_room, set_participation_state, post_message, DispatchTo, DispatchMessage,
        dispatch_mission, SubmitRaises, Link, notify_room_outcomes, PostResult, Annotate, Crash, Restart, turnVars, vars

\* Every step keeps the scan fresh and the posts counted.
LEMMA PostStep ==
    ASSUME Types, Types', ScanIsFresh, PostsCounted, [Next]_vars
    PROVE  ScanIsFresh' /\ PostsCounted'
  <1>t. /\ TypeOK /\ link \in Seq(Nat) /\ Len(missions) \in Nat /\ Len(messages) \in Nat
        /\ DOMAIN missions = Missions /\ DOMAIN posts = Missions
        /\ \A i \in Missions : posts[i] \in Nat /\ inherited[i] \in Nat /\ missions[i] \in MissionRow(Len(messages))
    BY TypesAreTypes, Lengths
  <1>n. todo \subseteq Missions /\ notified \subseteq Missions
    BY DEF Types, Turns, Ended
  <1>a. ASSUME NEW message \in 0..Len(messages), NEW agent \in Agents \cup {NoAgent}, NewMission(message, agent),
               UNCHANGED <<todo, notified>>, turn # "annotate", turn' # "annotate"
        PROVE  ScanIsFresh' /\ PostsCounted'
    <2>1. /\ Len(missions') = Len(missions) + 1 /\ posts'[Len(missions')] = 0
          /\ inherited'[Len(missions')] = 0
          /\ \A i \in Missions : missions'[i] = missions[i] /\ posts'[i] = posts[i] /\ inherited'[i] = inherited[i]
      BY <1>a, <1>t, NewMissionFacts
    <2>2. Missions' = Missions \cup {Len(missions')}
      BY <1>t, <2>1 DEF Missions
    <2>3. Ended \subseteq Ended'
      BY <2>1, <2>2 DEF Ended
    <2>4. PostsCounted'
      BY <1>a, <2>1, <2>2 DEF PostsCounted, Handled
    <2> QED BY <1>a, <2>3, <2>4 DEF ScanIsFresh
  <1>1. CASE SubmitTarget
    <2> DEFINE agent == IF targets = <<>> THEN NoAgent ELSE Head(targets)
    <2>1. agent \in Agents \cup {NoAgent} /\ current \in 0..Len(messages)
      BY HeadTailProperties DEF Types, Turns
    <2>2. NewMission(current, agent)
      BY <1>1 DEF SubmitTarget
    <2> HIDE DEF agent
    <2> QED BY <1>1, <1>a, <2>1, <2>2 DEF SubmitTarget
  <1>2. CASE SubmitElsewhere
    BY <1>2, <1>a, <1>t DEF SubmitElsewhere, Request, turnVars
  <1>3. ASSUME NEW i \in Missions, NEW status \in Terminal, MissionEnds(i, status)
        PROVE  ScanIsFresh' /\ PostsCounted'
    <2>1. /\ missions' = [missions EXCEPT ![i] = [missions[i] EXCEPT !.status = status]]
          /\ [missions[i] EXCEPT !.status = status] \in MissionRow(Len(messages))
          /\ [missions[i] EXCEPT !.status = status].status = status
      BY <1>3, <1>t DEF MissionEnds, MissionRow
    <2>2. /\ Len(missions') = Len(missions)
          /\ \A j \in Missions : missions'[j].status = IF j = i THEN status ELSE missions[j].status
      BY <2>1, ExceptSeq DEF Types, Rows, Missions
    <2>3. Missions' = Missions /\ Ended \subseteq Ended'
      BY <2>2 DEF Missions, Ended
    <2> QED BY <1>3, <2>3 DEF MissionEnds, Request, turnVars, ScanIsFresh, PostsCounted, Handled, First
  <1>4. CASE notify_room_outcomes
    BY <1>4 DEF notify_room_outcomes, Request, Scanned, Ended, Missions, ScanIsFresh, PostsCounted, Handled
  <1>5. ASSUME NEW i \in Missions, PostResult(i) PROVE ScanIsFresh' /\ PostsCounted'
    <2>1. posts[i] <= inherited[i]
      BY <1>5 DEF PostResult, First, ScanIsFresh, PostsCounted, Handled
    <2>2. posts'[i] \in {posts[i], posts[i] + 1} /\ \A j \in Missions \ {i} : posts'[j] = posts[j]
      BY <1>5, <1>t DEF PostResult
    <2>3. First(i)' /\ turn' = "annotate" /\ turn # "annotate"
      BY <1>5 DEF PostResult, First
    <2>4. /\ UNCHANGED <<missions, notified, todo, inherited>>
      BY <1>5 DEF PostResult
    <2> QED BY <1>t, <2>1, <2>2, <2>3, <2>4 DEF ScanIsFresh, PostsCounted, Handled, Missions, Ended
  <1>6. ASSUME NEW i \in Missions, Annotate(i) PROVE ScanIsFresh' /\ PostsCounted'
    <2>1. \A j \in Missions : First(j) => j = i
      BY <1>6, OneFirst DEF Annotate
    <2> QED BY <1>6, <2>1 DEF Annotate, Remembered, ScanIsFresh, PostsCounted, Handled, Missions, Ended
  <1>7. CASE Crash
    BY <1>7, <1>t DEF Crash, ScanIsFresh, PostsCounted, Handled, Missions
  <1>8. CASE /\ UNCHANGED <<missions, posts, inherited, todo, notified>>
             /\ turn' = turn \/ (turn # "annotate" /\ turn' # "annotate")
    BY <1>8 DEF ScanIsFresh, PostsCounted, Handled, Missions, Ended, First
  <1> QED
    BY <1>1, <1>2, <1>3, <1>4, <1>5, <1>6, <1>7, <1>8
    DEF Next, Owner, Dispatch, FanIn, join_room, set_participation_state, post_message, DispatchTo, DispatchMessage,
        dispatch_mission, Request, SubmitRaises, Link, Restart, turnVars, vars

\* In every reachable state the invariant holds.
LEMMA Invariance == Spec => []IInv
  <1>1. Init => IInv
    <2> SUFFICES ASSUME Init PROVE IInv
      OBVIOUS
    <2>1. /\ messages = <<>> /\ link = <<>> /\ missions = <<>> /\ posts = <<>> /\ inherited = <<>> /\ targets = <<>>
          /\ Len(messages) = 0 /\ Len(missions) = 0 /\ Messages = {} /\ Missions = {}
      BY DEF Init, Messages, Missions
    <2>2. Links /\ Rows
      BY <2>1, EmptySeq DEF Links, Rows
    <2>3. Turns /\ Rest
      BY <2>1, RoomsAssumption, EmptySeq DEF Init, Turns, Rest, Ended
    <2>4. Types
      BY <2>2, <2>3 DEF Types
    <2> QED BY <2>1, <2>4, TypesAreTypes DEF Init, IInv, LinkReady, ScanIsFresh, PostsCounted, Missions, Ended
  <1>2. IInv /\ [Next]_vars => IInv'
    <2> SUFFICES ASSUME IInv, [Next]_vars PROVE IInv'
      OBVIOUS
    <2>1. Types /\ LinkReady /\ ScanIsFresh /\ PostsCounted
      BY TypesAreTypes DEF IInv
    <2>2. Types'
      BY <2>1, TypeStep
    <2>3. LinkReady' /\ ScanIsFresh' /\ PostsCounted'
      BY <2>1, <2>2, LinkStep, PostStep
    <2>4. TypeOK' /\ link' \in Seq(Nat)
      BY <2>2 DEF TypeOK, Types, Links, Rows, Turns, Rest, MissionRow
    <2> QED BY <2>3, <2>4 DEF IInv
  <1> QED BY <1>1, <1>2, PTL DEF Spec

\* The rows of the room stay consistent: every link leads to a mission of its
\* own message, nothing is remembered that has not ended, and a fan-out never
\* has more targets than the cap, whatever raises or crashes in between.
THEOREM TypeCorrect == Spec => []TypeOK
  <1>1. IInv => TypeOK
    BY DEF IInv
  <1> QED BY <1>1, Invariance, PTL

\* One life of the process posts the result of a mission at most once, however
\* many lives have posted it before.
THEOREM PostedOncePerLife == Spec => []OncePerLife
  <1>1. IInv => OncePerLife
    <2> SUFFICES ASSUME IInv, NEW i \in Missions PROVE posts[i] <= inherited[i] + 1
      BY DEF OncePerLife
    <2>1. posts[i] \in Nat /\ inherited[i] \in Nat
      BY Lengths DEF IInv
    <2> QED BY <2>1 DEF IInv, PostsCounted
  <1> QED BY <1>1, Invariance, PTL
=============================================================================
