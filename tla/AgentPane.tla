----------------------------- MODULE AgentPane -----------------------------
(* The right pane (app.js) with what agents.js and cards.js show in it, the *)
(* dialogs of agents.js that end in it, and the credential dialog           *)
(* (credentials.js). All of the pane's content lives in one container: a    *)
(* handler that comes back from an await finds whatever is shown by then.   *)
EXTENDS Naturals, FiniteSets

CONSTANTS
    Agents,         \* agents of the sidebar
    NewAgent,       \* the agent that "+ Neuer Hufi" creates
    Areas,          \* organisation units of the sidebar
    Pages,          \* what is shown without waiting: system view, resources
    Nothing,        \* no agent, area or page
    MaxRequests,    \* bound: requests of the pane under way
    MaxSecrets,     \* bound: requests of credential cards under way
    MaxPosts        \* bound: credentials sent, numbered as they are

ASSUME SubjectsAssumption ==
    /\ Agents \cap (Areas \cup Pages) = {} /\ Areas \cap Pages = {} /\ NewAgent \notin Agents \cup Areas \cup Pages
    /\ {Nothing, "loading"} \cap (Agents \cup {NewAgent}) = {}
ASSUME BoundsAssumption == MaxRequests \in Nat /\ MaxSecrets \in Nat /\ MaxPosts \in Nat

VARIABLES
    pane,           \* title and content of the right pane
    modal,          \* the open dialog of agents.js
    req,            \* requests whose answers write into the pane
    cred,           \* the credential card, which credential it shows as connected,
                    \* and the one connectionState knows (0: none)
    secret,         \* requests of credential cards under way
    sent,           \* credentials sent so far
    stored          \* those of them the server has accepted

vars == <<pane, modal, req, cred, secret, sent, stored>>

People == Agents \cup {NewAgent}
Subjects == People \cup Areas \cup Pages

NoModal == [kind |-> "none", of |-> Nothing]
Requests == 1..MaxRequests
NoRequest == [kind |-> "none", of |-> Nothing, attached |-> FALSE]
Secrets == 1..MaxSecrets
NoSecret == [kind |-> "none", id |-> 0, card |-> FALSE, form |-> FALSE]

Init ==
    /\ pane = [open |-> FALSE, title |-> Nothing, body |-> Nothing, pill |-> Nothing,
               activity |-> Nothing, routines |-> Nothing]
    /\ modal = NoModal
    /\ req = [s \in Requests |-> NoRequest]
    /\ cred = [view |-> "closed", shown |-> 0, known |-> 0]
    /\ secret = [s \in Secrets |-> NoSecret]
    /\ sent = 0 /\ stored = {}

-----------------------------------------------------------------------------
(* Showing something in the pane.                                          *)

\* An open dialog or credential card covers the page.
Reachable == modal = NoModal /\ cred.view = "closed"
rest == <<cred, secret, sent, stored>>

\* New content: the elements older requests hold are no longer in the page,
\* and a list of routines has nothing else to write to.
Detach(r) ==
    [s \in Requests |-> IF r[s].kind = "routines" THEN NoRequest
                       ELSE [r[s] EXCEPT !.attached = @ /\ r[s].kind # "activity"]]
Free(r) == {s \in Requests : r[s] = NoRequest}
Start(r, kind, of) ==
    [r EXCEPT ![CHOOSE s \in Free(r) : \A u \in Free(r) : s <= u] =
        [kind |-> kind, of |-> of, attached |-> kind \notin {"workspace", "toggle"}]]
Room(r, n) == Cardinality(Free(r)) >= n

\* renderAgentDetail: the profile, and the two lists it asks for.
Profile(a) ==
    [open |-> TRUE, title |-> a, body |-> a, pill |-> a, activity |-> "loading", routines |-> "loading"]
Page(title, body) ==
    [open |-> TRUE, title |-> title, body |-> body, pill |-> Nothing, activity |-> Nothing, routines |-> Nothing]
AskProfile(r, a) == Start(Start(Detach(r), "activity", a), "routines", a)

\* From the sidebar, a card or the canvas; the chat follows.
selectAgent(a) ==
    /\ Reachable /\ Room(Detach(req), 2)
    /\ pane' = Profile(a)
    /\ req' = AskProfile(req, a)
    /\ UNCHANGED <<modal, rest>>

openUnitWorkspace(area) ==
    /\ Reachable /\ Room(Detach(req), 1)
    /\ pane' = Page(area, "loading")
    /\ req' = Start(Detach(req), "workspace", area)
    /\ UNCHANGED <<modal, rest>>

\* The system view, the details of a resource. (The boxes of the system view
\* are looked up by ids no other content has.)
showPage(page) ==
    /\ Reachable
    /\ pane' = Page(page, page)
    /\ req' = Detach(req)
    /\ UNCHANGED <<modal, rest>>

\* The toggle, the cross, the scrim, and every switch of views: the content stays.
togglePane ==
    /\ Reachable
    /\ pane' = [pane EXCEPT !.open = ~@]
    /\ UNCHANGED <<modal, req, rest>>

-----------------------------------------------------------------------------
(* Answers, to the request at place s, in any order.                       *)

Done(s) == [u \in Requests |-> IF u < s THEN req[u] ELSE IF u < MaxRequests THEN req[u + 1] ELSE NoRequest]
HasProfile == pane.body \in People

\* The container is overwritten, with the workspace or with an error.
WorkspaceAnswer(s) ==
    /\ req[s].kind = "workspace"
    /\ pane' = [Page(pane.title, req[s].of) EXCEPT !.open = pane.open]
    /\ req' = Detach(Done(s))
    /\ UNCHANGED <<modal, rest>>

ActivityAnswer_LooksUpLate(s, ok) ==
    /\ req[s].kind = "activity"
    /\ pane' = [pane EXCEPT !.pill = IF ok /\ HasProfile THEN req[s].of ELSE @,
                            !.activity = IF HasProfile THEN (IF ok THEN req[s].of ELSE "error") ELSE @]
    /\ req' = Done(s)
    /\ UNCHANGED <<modal, rest>>

\* The list was looked up before the await, the status pill is looked up now.
ActivityAnswer(s, ok) ==
    /\ req[s].kind = "activity"
    /\ pane' = [pane EXCEPT !.pill = IF ok /\ HasProfile THEN req[s].of ELSE @,
                            !.activity = IF req[s].attached THEN (IF ok THEN req[s].of ELSE "error") ELSE @]
    /\ req' = Done(s)
    /\ UNCHANGED <<modal, rest>>

RoutinesAnswer(s, ok) ==
    /\ req[s].kind = "routines"
    /\ pane' = [pane EXCEPT !.routines = IF ok THEN req[s].of ELSE "error"]
    /\ req' = Done(s)
    /\ UNCHANGED <<modal, rest>>

clickRoutine_TooEarly ==
    /\ Reachable /\ pane.open /\ pane.routines # Nothing /\ Room(req, 1)
    /\ req' = Start(req, "toggle", pane.routines)
    /\ UNCHANGED <<pane, modal, rest>>

\* "Pausieren" or "Fortsetzen" of the list shown; the button stays enabled.
clickRoutine ==
    /\ Reachable /\ pane.open /\ pane.routines \in People /\ Room(req, 1)
    /\ req' = Start(req, "toggle", pane.routines)
    /\ UNCHANGED <<pane, modal, rest>>

\* loadRoutines(container, agent) again, into the profile that is there now.
ReloadRoutines(s) == IF HasProfile THEN Start(Done(s), "routines", req[s].of) ELSE Done(s)

ToggleAnswer(s, ok) ==
    /\ req[s].kind = "toggle"
    /\ req' = IF ok THEN ReloadRoutines(s) ELSE Done(s)
    /\ UNCHANGED <<pane, modal, rest>>

-----------------------------------------------------------------------------
(* The dialogs. Submitting disables nothing, and closing does not cancel.  *)

openRoutineModal ==
    /\ Reachable /\ pane.open /\ pane.routines \in People
    /\ modal' = [kind |-> "routine", of |-> pane.routines]
    /\ UNCHANGED <<pane, req, rest>>

openNewHufiModal ==
    /\ Reachable
    /\ modal' = [kind |-> "hufi", of |-> NewAgent]
    /\ UNCHANGED <<pane, req, rest>>

submitModal ==
    /\ modal # NoModal /\ Room(req, 1)
    /\ req' = Start(req, IF modal.kind = "hufi" THEN "hire" ELSE "create", modal.of)
    /\ UNCHANGED <<pane, modal, rest>>

\* A dialog that is gone: its requests go on, and can close nothing any more.
Orphan(r) ==
    [s \in Requests |-> [r[s] EXCEPT !.attached = @ /\ r[s].kind \in {"activity", "routines"}]]

\* Escape, the scrim, the cross or "Abbrechen".
closeModal ==
    /\ modal # NoModal
    /\ modal' = NoModal
    /\ req' = Orphan(req)
    /\ UNCHANGED <<pane, rest>>

\* POST /routines: the dialog closes and the pane's list is loaded again; a
\* refusal is only written into the dialog.
RoutineCreated(s, ok) ==
    /\ req[s].kind = "create"
    /\ LET after == IF ok THEN ReloadRoutines(s) ELSE Done(s)
       IN  IF ok /\ req[s].attached
           THEN req' = Orphan(after) /\ modal' = NoModal
           ELSE req' = after /\ UNCHANGED modal
    /\ UNCHANGED <<pane, rest>>

\* POST /agents, then the sidebar is loaded, whose failure is only shown there.
HufiCreated(s, ok) ==
    /\ req[s].kind = "hire"
    /\ req' = IF ok THEN [req EXCEPT ![s].kind = "sidebar"] ELSE Done(s)
    /\ UNCHANGED <<pane, modal, rest>>

\* The new agent is selected, whatever the owner has turned to meanwhile.
SidebarAnswer(s) ==
    /\ req[s].kind = "sidebar" /\ Room(Detach(Done(s)), 2)
    /\ pane' = Profile(req[s].of)
    /\ IF req[s].attached
       THEN req' = Orphan(AskProfile(Done(s), req[s].of)) /\ modal' = NoModal
       ELSE req' = AskProfile(Done(s), req[s].of) /\ UNCHANGED modal
    /\ UNCHANGED rest

-----------------------------------------------------------------------------
(* The credential card.                                                    *)

thePane == <<pane, modal, req>>
Ask(kind, id) ==
    \E s \in Secrets :
        /\ secret[s] = NoSecret /\ \A u \in Secrets : u < s => secret[u] # NoSecret
        /\ secret' = [secret EXCEPT ![s] = [kind |-> kind, id |-> id, card |-> TRUE, form |-> kind = "post"]]
FormGone(sec) == [s \in Secrets |-> [sec[s] EXCEPT !.form = FALSE]]
CardGone(sec) == [s \in Secrets |-> [sec[s] EXCEPT !.card = FALSE, !.form = FALSE]]
Answered(s) == [u \in Secrets |-> IF u < s THEN secret[u] ELSE IF u < MaxSecrets THEN secret[u + 1] ELSE NoSecret]
Settled(s) == IF secret[s].card THEN FormGone(Answered(s)) ELSE Answered(s)
Shows(view, id) == [cred EXCEPT !.view = view, !.shown = id]

\* A new card shows what connectionState knows.
openConnectModal ==
    /\ Reachable
    /\ cred' = IF cred.known # 0 THEN Shows("connected", cred.known) ELSE Shows("form", 0)
    /\ UNCHANGED <<thePane, secret, sent, stored>>

closeOverlay ==
    /\ cred.view # "closed"
    /\ cred' = Shows("closed", 0)
    /\ secret' = CardGone(secret)
    /\ UNCHANGED <<thePane, sent, stored>>

\* "Verbinden" is disabled until the answer.
submitSecret ==
    /\ cred.view = "form" /\ sent < MaxPosts
    /\ cred' = Shows("sending", 0)
    /\ sent' = sent + 1
    /\ Ask("post", sent + 1)
    /\ UNCHANGED <<thePane, stored>>

\* POST /credentials creates a handle; its answer is on the way.
register_credential(s) ==
    /\ secret[s].kind = "post" /\ secret[s].id \notin stored
    /\ stored' = stored \cup {secret[s].id}
    /\ UNCHANGED <<thePane, cred, secret, sent>>

\* handleConnected: the connection is remembered, and shown on its own card.
handleConnected(s) ==
    cred' = [known |-> secret[s].id,
             view |-> IF secret[s].card THEN "connected" ELSE cred.view,
             shown |-> IF secret[s].card THEN secret[s].id ELSE cred.shown]

ConnectAccepted(s) ==
    /\ secret[s].kind = "post" /\ secret[s].id \in stored
    /\ handleConnected(s)
    /\ secret' = Settled(s)
    /\ UNCHANGED <<thePane, sent, stored>>

ConnectRefused_Preview(s) ==
    /\ secret[s].kind = "post"
    /\ handleConnected(s)
    /\ secret' = Settled(s)
    /\ UNCHANGED <<thePane, sent, stored>>

\* Refused, or the answer is lost: an error, and the form can be sent again.
ConnectRefused(s) ==
    /\ secret[s].kind = "post"
    /\ cred' = [cred EXCEPT !.view = IF secret[s].form THEN "form" ELSE @]
    /\ secret' = Answered(s)
    /\ UNCHANGED <<thePane, sent, stored>>

replaceToken ==
    /\ cred.view = "connected"
    /\ cred' = Shows("form", 0)
    /\ UNCHANGED <<thePane, secret, sent, stored>>

disconnect ==
    /\ cred.view = "connected"
    /\ Ask("delete", 0)
    /\ UNCHANGED <<thePane, cred, sent, stored>>

\* Answered or failed, the connection is forgotten and the card is a form.
Disconnected(s) ==
    /\ secret[s].kind = "delete"
    /\ cred' = [known |-> 0,
                view |-> IF secret[s].card THEN "form" ELSE cred.view,
                shown |-> IF secret[s].card THEN 0 ELSE cred.shown]
    /\ secret' = Settled(s)
    /\ UNCHANGED <<thePane, sent, stored>>

-----------------------------------------------------------------------------
Showing ==
    \/ \E a \in Agents : selectAgent(a)
    \/ \E area \in Areas : openUnitWorkspace(area)
    \/ \E page \in Pages : showPage(page)
    \/ togglePane \/ clickRoutine

Dialogs == openRoutineModal \/ openNewHufiModal \/ submitModal \/ closeModal

Answers(s) ==
    \/ WorkspaceAnswer(s) \/ SidebarAnswer(s)
    \/ \E ok \in BOOLEAN : \/ ActivityAnswer(s, ok) \/ RoutinesAnswer(s, ok) \/ ToggleAnswer(s, ok)
                           \/ RoutineCreated(s, ok) \/ HufiCreated(s, ok)

Credentials ==
    \/ openConnectModal \/ closeOverlay \/ submitSecret \/ replaceToken \/ disconnect
    \/ \E s \in Secrets : register_credential(s) \/ ConnectAccepted(s) \/ ConnectRefused(s) \/ Disconnected(s)

Next == Showing \/ Dialogs \/ Credentials \/ \E s \in Requests : Answers(s)

Spec == Init /\ [][Next]_vars

-----------------------------------------------------------------------------
Kinds == {"workspace", "activity", "routines", "toggle", "create", "hire", "sidebar"}
Parts == People \cup {Nothing, "loading", "error"}

\* Every variable has the type of the node, closure or request it models.
TypeOK ==
    /\ pane \in [open : BOOLEAN, title : Subjects \cup {Nothing}, body : Subjects \cup {Nothing, "loading"},
                 pill : People \cup {Nothing}, activity : Parts, routines : Parts]
    /\ modal \in [kind : {"none", "routine", "hufi"}, of : People \cup {Nothing}]
    /\ req \in [Requests -> [kind : Kinds \cup {"none"}, of : People \cup Areas \cup {Nothing}, attached : BOOLEAN]]
    /\ cred \in [view : {"closed", "form", "sending", "connected"}, shown : 0..MaxPosts, known : 0..MaxPosts]
    /\ secret \in [Secrets -> [kind : {"none", "post", "delete"}, id : 0..MaxPosts, card : BOOLEAN, form : BOOLEAN]]
    /\ sent \in 0..MaxPosts /\ stored \subseteq 1..sent

\* The live activity in a profile is the activity of that profile's agent,
\* however often the pane was given to others while it was being loaded, and a
\* pane that shows no profile shows no activity.
ActivityIsOwn ==
    IF HasProfile THEN pane.activity \in {pane.body, "loading", "error"} ELSE pane.activity = Nothing

\* A card never says that a connection is prepared, and none is remembered,
\* unless the server has accepted that very credential: not one refused or lost
\* after another was accepted, replaced or removed.
ConnectedIsReal ==
    /\ cred.view = "connected" => cred.shown \in stored
    /\ cred.known # 0 => cred.known \in stored
=============================================================================
