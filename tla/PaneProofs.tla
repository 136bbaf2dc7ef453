----------------------------- MODULE PaneProofs -----------------------------
(* Theorems about the right pane and the credential card: what answers     *)
(* that come back late, in any order, can never write into them.           *)
EXTENDS AgentPane, TLAPS

Request == [kind : Kinds \cup {"none"}, of : People \cup Areas \cup {Nothing}, attached : BOOLEAN]
SecretRow == [kind : {"none", "post", "delete"}, id : 0..MaxPosts, card : BOOLEAN, form : BOOLEAN]

\* A request is about an area if it loads a workspace, else about an agent;
\* the activity list it still holds is in the page with its agent's profile.
Owned(one, body) ==
    /\ one.kind = "workspace" => one.of \in Areas
    /\ one.kind \in Kinds \ {"workspace"} => one.of \in People
    /\ one.kind = "activity" /\ one.attached => one.of = body

Fitting(r, body) == r \in [Requests -> Request] /\ \A s \in Requests : Owned(r[s], body)

ModalFits == modal = NoModal \/ modal.of \in People

\* A request that sends a credential has one of the numbers given so far.
Numbered(sec, n) ==
    sec \in [Secrets -> SecretRow] /\ \A s \in Secrets : sec[s].kind = "post" => sec[s].id \in 1..n

IInv ==
    /\ TypeOK /\ ModalFits /\ Fitting(req, pane.body) /\ Numbered(secret, sent)
    /\ ActivityIsOwn /\ ConnectedIsReal

-----------------------------------------------------------------------------
(* What the helpers make of the requests under way.                        *)

\* An unused place of the requests fits every content.
LEMMA NoRequestFits ==
    NoRequest \in Request /\ \A body : Owned(NoRequest, body)
  BY DEF NoRequest, Request, Owned, Kinds

\* A request that loses its element fits every content.
LEMMA LosesElement ==
    ASSUME NEW one \in Request, NEW body, Owned(one, body), NEW keep \in BOOLEAN, NEW new,
           one.kind = "activity" => ~keep \/ new = body
    PROVE  /\ [one EXCEPT !.attached = @ /\ keep] \in Request
           /\ Owned([one EXCEPT !.attached = @ /\ keep], new)
  <1> DEFINE flag == one.attached /\ keep
             now == [one EXCEPT !.attached = flag]
  <1>1. flag \in BOOLEAN /\ (flag => one.attached /\ keep)
    OBVIOUS
  <1>2. [one EXCEPT !.attached = @ /\ keep] = now
    OBVIOUS
  <1> HIDE DEF flag
  <1>3. now \in Request /\ now.kind = one.kind /\ now.of = one.of /\ now.attached = flag
    BY <1>1 DEF Request
  <1> HIDE DEF now
  <1> QED BY <1>1, <1>2, <1>3 DEF Owned

\* New content of the pane: no older request still holds an element of it.
LEMMA DetachFits ==
    ASSUME NEW r, NEW body, Fitting(r, body), NEW new
    PROVE  Fitting(Detach(r), new)
  <1> SUFFICES ASSUME NEW s \in Requests
               PROVE  Detach(r)[s] \in Request /\ Owned(Detach(r)[s], new)
    BY DEF Fitting, Detach
  <1>1. r[s] \in Request /\ Owned(r[s], body)
    BY DEF Fitting
  <1>2. CASE r[s].kind = "routines"
    BY <1>2, NoRequestFits DEF Detach
  <1>3. CASE r[s].kind # "routines"
    <2> DEFINE keep == r[s].kind # "activity"
    <2>1. Detach(r)[s] = [r[s] EXCEPT !.attached = @ /\ keep]
      BY <1>3 DEF Detach
    <2>2. keep \in BOOLEAN /\ (r[s].kind = "activity" => ~keep)
      OBVIOUS
    <2> HIDE DEF keep
    <2> QED BY <1>1, <2>1, <2>2, LosesElement
  <1> QED BY <1>2, <1>3

\* A dialog that is gone takes no list of the pane with it.
LEMMA OrphanFits ==
    ASSUME NEW r, NEW body, Fitting(r, body)
    PROVE  Fitting(Orphan(r), body)
  <1> SUFFICES ASSUME NEW s \in Requests
               PROVE  Orphan(r)[s] \in Request /\ Owned(Orphan(r)[s], body)
    BY DEF Fitting, Orphan
  <1>1. r[s] \in Request /\ Owned(r[s], body)
    BY DEF Fitting
  <1> DEFINE keep == r[s].kind \in {"activity", "routines"}
  <1>2. Orphan(r)[s] = [r[s] EXCEPT !.attached = @ /\ keep] /\ keep \in BOOLEAN
    BY DEF Orphan
  <1> HIDE DEF keep
  <1> QED BY <1>1, <1>2, LosesElement

\* A new request fits if it is about what it may be about.
LEMMA StartFits ==
    ASSUME NEW r, NEW body, Fitting(r, body), NEW kind \in Kinds, NEW of,
           of \in (IF kind = "workspace" THEN Areas ELSE People), kind = "activity" => of = body
    PROVE  Fitting(Start(r, kind, of), body)
  <1> DEFINE place == CHOOSE s \in Free(r) : \A u \in Free(r) : s <= u
             flag == kind \notin {"workspace", "toggle"}
             one == [kind |-> kind, of |-> of, attached |-> flag]
  <1>1. Start(r, kind, of) = [r EXCEPT ![place] = one]
    BY DEF Start
  <1>2. flag \in BOOLEAN
    OBVIOUS
  <1> HIDE DEF place, flag
  <1>3. one \in Request /\ one.kind = kind /\ one.of = of
    BY <1>2 DEF Request
  <1> HIDE DEF one
  <1>4. Owned(one, body)
    BY <1>3 DEF Owned
  <1>5. [r EXCEPT ![place] = one] \in [Requests -> Request]
    BY <1>3 DEF Fitting
  <1>6. \A s \in Requests : [r EXCEPT ![place] = one][s] \in {r[s], one}
    BY DEF Fitting
  <1> QED BY <1>1, <1>4, <1>5, <1>6 DEF Fitting

\* A request that is answered leaves the others as they are.
LEMMA DoneFits ==
    ASSUME NEW body, Fitting(req, body), NEW s \in Requests
    PROVE  Fitting(Done(s), body)
  <1>1. \A u \in Requests : u < MaxRequests => u + 1 \in Requests
    BY BoundsAssumption DEF Requests
  <1>2. \A u \in Requests : Done(s)[u] \in {req[v] : v \in Requests} \cup {NoRequest}
    BY <1>1 DEF Done
  <1>3. Done(s) = [u \in Requests |-> Done(s)[u]]
    BY DEF Done
  <1> HIDE DEF Done
  <1> QED BY <1>2, <1>3, NoRequestFits DEF Fitting

\* A profile asks for its own lists.
LEMMA AskProfileFits ==
    ASSUME NEW r, NEW body, Fitting(r, body), NEW a \in People
    PROVE  Fitting(AskProfile(r, a), a)
  <1>1. Fitting(Detach(r), a)
    BY DetachFits
  <1>2. Fitting(Start(Detach(r), "activity", a), a)
    BY <1>1, StartFits DEF Kinds
  <1> QED BY <1>2, StartFits DEF AskProfile, Kinds

\* A list that is loaded again is the list of the agent it was loaded for.
LEMMA ReloadFits ==
    ASSUME NEW body, Fitting(req, body), NEW s \in Requests, req[s].of \in People
    PROVE  Fitting(ReloadRoutines(s), body)
  <1>1. Fitting(Done(s), body)
    BY DoneFits
  <1> QED BY <1>1, StartFits DEF ReloadRoutines, Kinds

-----------------------------------------------------------------------------
(* The pane.                                                               *)

Content == [open : BOOLEAN, title : Subjects \cup {Nothing}, body : Subjects \cup {Nothing, "loading"},
            pill : People \cup {Nothing}, activity : Parts, routines : Parts]
Modal == [kind : {"none", "routine", "hufi"}, of : People \cup {Nothing}]

Own(content) ==
    IF content.body \in People THEN content.activity \in {content.body, "loading", "error"}
    ELSE content.activity = Nothing

PanePart ==
    pane \in Content /\ modal \in Modal /\ ModalFits /\ Fitting(req, pane.body) /\ Own(pane)

\* A fresh profile has no activity of anybody yet.
LEMMA ProfileFits ==
    ASSUME NEW a \in People
    PROVE  Profile(a) \in Content /\ Profile(a).body = a /\ Own(Profile(a))
  BY DEF Profile, Content, Own, Parts, Subjects

\* A page that is no profile shows no activity.
LEMMA PageFits ==
    ASSUME NEW title \in Subjects \cup {Nothing}, NEW body \in Areas \cup Pages \cup {"loading"}
    PROVE  Page(title, body) \in Content /\ Page(title, body).body = body /\ Own(Page(title, body))
  <1>1. body \notin People /\ body \in Subjects \cup {Nothing, "loading"}
    BY SubjectsAssumption DEF People, Subjects
  <1> QED BY <1>1 DEF Page, Content, Own, Parts

\* Every step of the pane and of the dialogs keeps its part of the invariant:
\* an activity list still in the page belongs to the profile shown.
LEMMA PaneStep ==
    ASSUME PanePart, Showing \/ Dialogs \/ \E s \in Requests : Answers(s)
    PROVE  PanePart'
  <1> USE DEF PanePart
  <1>n. NoModal \in Modal
    BY DEF NoModal, Modal
  <1>1. ASSUME NEW a \in Agents, selectAgent(a) PROVE PanePart'
    <2>1. a \in People
      BY DEF People
    <2> QED BY <1>1, <2>1, ProfileFits, AskProfileFits DEF selectAgent, ModalFits
  <1>2. ASSUME NEW area \in Areas, openUnitWorkspace(area) PROVE PanePart'
    <2>1. Page(area, "loading") \in Content /\ Page(area, "loading").body = "loading" /\ Own(Page(area, "loading"))
      BY PageFits DEF Subjects
    <2>2. Fitting(Start(Detach(req), "workspace", area), "loading")
      BY DetachFits, StartFits DEF Kinds
    <2> QED BY <1>2, <2>1, <2>2 DEF openUnitWorkspace, ModalFits
  <1>3. ASSUME NEW page \in Pages, showPage(page) PROVE PanePart'
    <2>1. Page(page, page) \in Content /\ Page(page, page).body = page /\ Own(Page(page, page))
      BY PageFits DEF Subjects
    <2> QED BY <1>3, <2>1, DetachFits DEF showPage, ModalFits
  <1>4. CASE togglePane
    <2> DEFINE flag == ~pane.open
               new == [pane EXCEPT !.open = flag]
    <2>1. pane' = new /\ modal' = modal /\ req' = req /\ flag \in BOOLEAN
      BY <1>4 DEF togglePane
    <2> HIDE DEF flag
    <2>2. new \in Content /\ new.body = pane.body /\ new.activity = pane.activity
      BY <2>1 DEF Content
    <2> HIDE DEF new
    <2> QED BY <2>1, <2>2 DEF Own, ModalFits
  <1>5. CASE clickRoutine
    <2>1. Fitting(Start(req, "toggle", pane.routines), pane.body)
      BY <1>5, StartFits DEF clickRoutine, Kinds
    <2> QED BY <1>5, <2>1 DEF clickRoutine, ModalFits
  <1>6. CASE openRoutineModal
    <2>1. modal' \in Modal /\ modal'.of \in People
      BY <1>6 DEF openRoutineModal, Modal
    <2> QED BY <1>6, <2>1 DEF openRoutineModal, ModalFits
  <1>7. CASE openNewHufiModal
    <2>1. modal' \in Modal /\ modal'.of \in People
      BY <1>7 DEF openNewHufiModal, Modal, People
    <2> QED BY <1>7, <2>1 DEF openNewHufiModal, ModalFits
  <1>8. CASE submitModal
    <2> DEFINE kind == IF modal.kind = "hufi" THEN "hire" ELSE "create"
    <2>1. kind \in Kinds /\ kind \notin {"workspace", "activity"} /\ modal.of \in People
      BY <1>8 DEF submitModal, ModalFits, Kinds
    <2>2. req' = Start(req, kind, modal.of) /\ pane' = pane /\ modal' = modal
      BY <1>8 DEF submitModal
    <2> HIDE DEF kind
    <2>3. Fitting(Start(req, kind, modal.of), pane.body)
      BY <2>1, StartFits
    <2> QED BY <2>2, <2>3 DEF ModalFits
  <1>9. CASE closeModal
    BY <1>9, <1>n, OrphanFits DEF closeModal, ModalFits
  <1>10. ASSUME NEW s \in Requests, Answers(s) PROVE PanePart'
    <2>s. req[s] \in Request /\ Owned(req[s], pane.body) /\ Fitting(Done(s), pane.body)
      BY DoneFits DEF Fitting
    <2>1. CASE WorkspaceAnswer(s)
      <3> DEFINE page == Page(pane.title, req[s].of)
                 new == [page EXCEPT !.open = pane.open]
      <3>1. req[s].of \in Areas /\ pane.title \in Subjects \cup {Nothing} /\ pane.open \in BOOLEAN
        BY <2>1, <2>s DEF WorkspaceAnswer, Owned, Content
      <3>2. page \in Content /\ Own(page)
        BY <3>1, PageFits
      <3>3. pane' = new /\ req' = Detach(Done(s)) /\ modal' = modal
        BY <2>1 DEF WorkspaceAnswer
      <3> HIDE DEF page
      <3>4. new \in Content /\ new.body = page.body /\ new.activity = page.activity
        BY <3>1, <3>2 DEF Content
      <3> HIDE DEF new
      <3> QED BY <2>s, <3>2, <3>3, <3>4, DetachFits DEF Own, ModalFits
    <2>2. ASSUME NEW ok \in BOOLEAN, ActivityAnswer(s, ok) PROVE PanePart'
      <3> DEFINE pill == IF ok /\ HasProfile THEN req[s].of ELSE pane.pill
                 activity == IF req[s].attached THEN (IF ok THEN req[s].of ELSE "error") ELSE pane.activity
                 new == [pane EXCEPT !.pill = pill, !.activity = activity]
      <3>1. req[s].of \in People /\ (req[s].attached => req[s].of = pane.body)
        BY <2>2, <2>s DEF ActivityAnswer, Owned, Kinds
      <3>2. pill \in People \cup {Nothing} /\ activity \in Parts
        BY <3>1 DEF Content, Parts
      <3>3. activity \in {pane.activity, "error", pane.body} /\ (activity # pane.activity => pane.body \in People)
        BY <3>1
      <3>4. pane' = new /\ req' = Done(s) /\ modal' = modal
        BY <2>2 DEF ActivityAnswer
      <3> HIDE DEF pill, activity
      <3>5. new \in Content /\ new.body = pane.body /\ new.activity = activity
        BY <3>2 DEF Content
      <3> HIDE DEF new
      <3> QED BY <2>s, <3>3, <3>4, <3>5 DEF Own, ModalFits
    <2>3. ASSUME NEW ok \in BOOLEAN, RoutinesAnswer(s, ok) PROVE PanePart'
      <3> DEFINE routines == IF ok THEN req[s].of ELSE "error"
                 new == [pane EXCEPT !.routines = routines]
      <3>1. routines \in Parts
        BY <2>3, <2>s DEF RoutinesAnswer, Owned, Kinds, Parts
      <3>2. pane' = new /\ req' = Done(s) /\ modal' = modal
        BY <2>3 DEF RoutinesAnswer
      <3> HIDE DEF routines
      <3>3. new \in Content /\ new.body = pane.body /\ new.activity = pane.activity
        BY <3>1 DEF Content
      <3> HIDE DEF new
      <3> QED BY <2>s, <3>2, <3>3 DEF Own, ModalFits
    <2>4. ASSUME NEW ok \in BOOLEAN, ToggleAnswer(s, ok) PROVE PanePart'
      <3>1. req[s].of \in People
        BY <2>4, <2>s DEF ToggleAnswer, Owned, Kinds
      <3>2. Fitting(ReloadRoutines(s), pane.body)
        BY <3>1, ReloadFits
      <3> QED BY <2>4, <2>s, <3>2 DEF ToggleAnswer, ModalFits
    <2>5. ASSUME NEW ok \in BOOLEAN, RoutineCreated(s, ok) PROVE PanePart'
      <3> DEFINE after == IF ok THEN ReloadRoutines(s) ELSE Done(s)
      <3>1. req[s].of \in People
        BY <2>5, <2>s DEF RoutineCreated, Owned, Kinds
      <3>2. Fitting(after, pane.body)
        BY <2>s, <3>1, ReloadFits
      <3>3. pane' = pane /\ ((req' = Orphan(after) /\ modal' = NoModal) \/ (req' = after /\ modal' = modal))
        BY <2>5 DEF RoutineCreated
      <3> HIDE DEF after
      <3> QED BY <1>n, <3>2, <3>3, OrphanFits DEF ModalFits
    <2>6. ASSUME NEW ok \in BOOLEAN, HufiCreated(s, ok) PROVE PanePart'
      <3> DEFINE one == [req[s] EXCEPT !.kind = "sidebar"]
      <3>1. req[s].of \in People
        BY <2>6, <2>s DEF HufiCreated, Owned, Kinds
      <3>2. one \in Request /\ one.kind = "sidebar" /\ one.of = req[s].of
        BY <2>s DEF Request, Kinds
      <3>3. pane' = pane /\ modal' = modal /\ (req' = Done(s) \/ req' = [req EXCEPT ![s] = one])
        BY <2>6 DEF HufiCreated
      <3> HIDE DEF one
      <3>4. Owned(one, pane.body)
        BY <3>1, <3>2 DEF Owned
      <3>5. Fitting([req EXCEPT ![s] = one], pane.body)
        BY <3>2, <3>4 DEF Fitting
      <3> QED BY <2>s, <3>3, <3>5 DEF ModalFits
    <2>7. CASE SidebarAnswer(s)
      <3> DEFINE a == req[s].of
                 r == AskProfile(Done(s), a)
      <3>1. a \in People
        BY <2>7, <2>s DEF SidebarAnswer, Owned, Kinds
      <3>2. Fitting(r, a)
        BY <2>s, <3>1, AskProfileFits
      <3>3. pane' = Profile(a) /\ ((req' = Orphan(r) /\ modal' = NoModal) \/ (req' = r /\ modal' = modal))
        BY <2>7 DEF SidebarAnswer
      <3> HIDE DEF r, a
      <3> QED BY <1>n, <3>1, <3>2, <3>3, ProfileFits, OrphanFits DEF ModalFits
    <2> QED BY <1>10, <2>1, <2>2, <2>3, <2>4, <2>5, <2>6, <2>7 DEF Answers
  <1> QED BY <1>1, <1>2, <1>3, <1>4, <1>5, <1>6, <1>7, <1>8, <1>9, <1>10 DEF Showing, Dialogs

-----------------------------------------------------------------------------
(* The credential card.                                                    *)

View == [view : {"closed", "form", "sending", "connected"}, shown : 0..MaxPosts, known : 0..MaxPosts]
CredPart ==
    /\ cred \in View /\ Numbered(secret, sent) /\ sent \in 0..MaxPosts /\ stored \subseteq 1..sent
    /\ ConnectedIsReal

\* Whatever happens to the cards, the requests under way keep their numbers.
LEMMA FlagsOnly ==
    ASSUME NEW sec, NEW n, Numbered(sec, n), NEW new,
           new = CardGone(sec) \/ new = FormGone(sec)
    PROVE  Numbered(new, n)
  <1>1. ASSUME NEW s \in Secrets
        PROVE  new[s] \in SecretRow /\ new[s].kind = sec[s].kind /\ new[s].id = sec[s].id
    <2>1. sec[s] \in SecretRow
      BY DEF Numbered
    <2>2. /\ [sec[s] EXCEPT !.form = FALSE] \in SecretRow
          /\ [sec[s] EXCEPT !.form = FALSE].kind = sec[s].kind /\ [sec[s] EXCEPT !.form = FALSE].id = sec[s].id
      BY <2>1 DEF SecretRow
    <2>3. /\ [sec[s] EXCEPT !.card = FALSE, !.form = FALSE] \in SecretRow
          /\ [sec[s] EXCEPT !.card = FALSE, !.form = FALSE].kind = sec[s].kind
          /\ [sec[s] EXCEPT !.card = FALSE, !.form = FALSE].id = sec[s].id
      BY <2>1 DEF SecretRow
    <2>4. new[s] = [sec[s] EXCEPT !.form = FALSE] \/ new[s] = [sec[s] EXCEPT !.card = FALSE, !.form = FALSE]
      BY DEF CardGone, FormGone
    <2> QED BY <2>2, <2>3, <2>4
  <1>2. new = [s \in Secrets |-> new[s]]
    BY DEF CardGone, FormGone
  <1>3. new \in [Secrets -> SecretRow]
    BY <1>1, <1>2
  <1> QED BY <1>1, <1>3 DEF Numbered

\* An answered request leaves the others as they are, up to their card.
LEMMA AnsweredNumbered ==
    ASSUME Numbered(secret, sent), NEW s \in Secrets
    PROVE  Numbered(Answered(s), sent) /\ Numbered(Settled(s), sent)
  <1>1. NoSecret \in SecretRow /\ NoSecret.kind = "none"
    BY BoundsAssumption DEF NoSecret, SecretRow
  <1>2. \A u \in Secrets : u < MaxSecrets => u + 1 \in Secrets
    BY BoundsAssumption DEF Secrets
  <1>3. \A u \in Secrets : Answered(s)[u] \in {secret[v] : v \in Secrets} \cup {NoSecret}
    BY <1>2 DEF Answered
  <1>4. Answered(s) = [u \in Secrets |-> Answered(s)[u]]
    BY DEF Answered
  <1> HIDE DEF Answered
  <1>5. Numbered(Answered(s), sent)
    BY <1>1, <1>3, <1>4 DEF Numbered
  <1> QED BY <1>5, FlagsOnly DEF Settled

\* A new request is numbered as the next credential, or sends none.
LEMMA AskNumbered ==
    ASSUME Numbered(secret, sent), sent \in 0..MaxPosts, NEW kind \in {"post", "delete"},
           NEW id \in 0..MaxPosts, NEW n \in 0..MaxPosts, sent <= n, kind = "post" => id \in 1..n, Ask(kind, id)
    PROVE  Numbered(secret', n)
  <1> DEFINE flag == kind = "post"
             one == [kind |-> kind, id |-> id, card |-> TRUE, form |-> flag]
  <1>1. PICK s \in Secrets : secret' = [secret EXCEPT ![s] = one]
    BY DEF Ask
  <1>2. flag \in BOOLEAN
    OBVIOUS
  <1> HIDE DEF flag
  <1>3. one \in SecretRow /\ one.kind = kind /\ one.id = id
    BY <1>2 DEF SecretRow
  <1> HIDE DEF one
  <1>4. 1..sent \subseteq 1..n
    BY BoundsAssumption
  <1>5. secret' \in [Secrets -> SecretRow] /\ \A u \in Secrets : secret'[u] \in {secret[u], one}
    BY <1>1, <1>3 DEF Numbered
  <1> QED BY <1>3, <1>4, <1>5 DEF Numbered

\* What a card shows, and what is remembered, keep their types.
LEMMA ShowsView ==
    ASSUME cred \in View, NEW view \in {"closed", "form", "sending", "connected"}, NEW id \in 0..MaxPosts
    PROVE  Shows(view, id) \in View /\ Shows(view, id).view = view
           /\ Shows(view, id).shown = id /\ Shows(view, id).known = cred.known
  BY DEF Shows, View

\* Every step of the credential card keeps its part of the invariant.
LEMMA CredStep ==
    ASSUME CredPart, Credentials
    PROVE  CredPart'
  <1>t. /\ cred \in View /\ Numbered(secret, sent) /\ sent \in 0..MaxPosts /\ stored \subseteq 1..sent
        /\ cred.known \in 0..MaxPosts /\ cred.shown \in 0..MaxPosts /\ 0 \in 0..MaxPosts
        /\ cred.view \in {"closed", "form", "sending", "connected"}
    BY BoundsAssumption DEF CredPart, View
  <1>r. /\ cred.view = "connected" => cred.shown \in stored
        /\ cred.known # 0 => cred.known \in stored
    BY DEF CredPart, ConnectedIsReal
  <1>1. CASE openConnectModal
    <2>1. UNCHANGED <<secret, sent, stored>>
      BY <1>1 DEF openConnectModal
    <2>2. CASE cred.known # 0
      BY <1>1, <1>t, <1>r, <2>1, <2>2, ShowsView DEF openConnectModal, CredPart, ConnectedIsReal
    <2>3. CASE cred.known = 0
      BY <1>1, <1>t, <1>r, <2>1, <2>3, ShowsView DEF openConnectModal, CredPart, ConnectedIsReal
    <2> QED BY <2>2, <2>3
  <1>2. CASE closeOverlay
    <2>1. Numbered(CardGone(secret), sent)
      BY <1>t, FlagsOnly
    <2> QED BY <1>2, <1>t, <1>r, <2>1, ShowsView DEF closeOverlay, CredPart, ConnectedIsReal
  <1>3. CASE submitSecret
    <2>1. sent + 1 \in 0..MaxPosts /\ sent <= sent + 1 /\ sent + 1 \in 1..(sent + 1) /\ 1..sent \subseteq 1..(sent + 1)
      BY <1>3, <1>t, BoundsAssumption DEF submitSecret
    <2>2. Numbered(secret', sent + 1)
      BY <1>3, <1>t, <2>1, AskNumbered DEF submitSecret
    <2> QED BY <1>3, <1>t, <1>r, <2>1, <2>2, ShowsView DEF submitSecret, CredPart, ConnectedIsReal
  <1>4. CASE replaceToken
    BY <1>4, <1>t, <1>r, ShowsView DEF replaceToken, CredPart, ConnectedIsReal
  <1>5. CASE disconnect
    <2>1. sent <= sent /\ Numbered(secret', sent)
      BY <1>5, <1>t, BoundsAssumption, AskNumbered DEF disconnect
    <2> QED BY <1>5, <1>t, <1>r, <2>1 DEF disconnect, CredPart, ConnectedIsReal
  <1>6. ASSUME NEW s \in Secrets, register_credential(s) PROVE CredPart'
    <2>1. secret[s].id \in 1..sent
      BY <1>6, <1>t DEF register_credential, Numbered
    <2> QED BY <1>6, <1>t, <1>r, <2>1 DEF register_credential, CredPart, ConnectedIsReal
  <1>7. ASSUME NEW s \in Secrets, ConnectAccepted(s) PROVE CredPart'
    <2> DEFINE id == secret[s].id
               view == IF secret[s].card THEN "connected" ELSE cred.view
               shown == IF secret[s].card THEN id ELSE cred.shown
    <2>1. id \in stored /\ id \in 0..MaxPosts
      BY <1>7, <1>t DEF ConnectAccepted, Numbered, SecretRow
    <2>2. view \in {"closed", "form", "sending", "connected"} /\ shown \in 0..MaxPosts
      BY <1>t, <2>1
    <2>3. view = "connected" => shown \in stored
      BY <1>r, <2>1
    <2>4. cred' = [known |-> id, view |-> view, shown |-> shown] /\ UNCHANGED <<sent, stored>> /\ secret' = Settled(s)
      BY <1>7 DEF ConnectAccepted, handleConnected
    <2> HIDE DEF id, view, shown
    <2>5. cred' \in View /\ cred'.view = view /\ cred'.shown = shown /\ cred'.known = id
      BY <2>1, <2>2, <2>4 DEF View
    <2> QED BY <1>t, <2>1, <2>3, <2>4, <2>5, AnsweredNumbered DEF CredPart, ConnectedIsReal
  <1>8. ASSUME NEW s \in Secrets, ConnectRefused(s) PROVE CredPart'
    <2> DEFINE view == IF secret[s].form THEN "form" ELSE cred.view
               new == [cred EXCEPT !.view = view]
    <2>1. cred' = new /\ secret' = Answered(s) /\ UNCHANGED <<sent, stored>>
      BY <1>8 DEF ConnectRefused
    <2>2. view \in {"form", cred.view}
      OBVIOUS
    <2> HIDE DEF view
    <2>3. new \in View /\ new.view = view /\ new.known = cred.known /\ new.shown = cred.shown
      BY <1>t, <2>2 DEF View
    <2> HIDE DEF new
    <2> QED BY <1>t, <1>r, <2>1, <2>2, <2>3, AnsweredNumbered DEF CredPart, ConnectedIsReal
  <1>9. ASSUME NEW s \in Secrets, Disconnected(s) PROVE CredPart'
    <2> DEFINE view == IF secret[s].card THEN "form" ELSE cred.view
               shown == IF secret[s].card THEN 0 ELSE cred.shown
    <2>1. cred' = [known |-> 0, view |-> view, shown |-> shown] /\ secret' = Settled(s) /\ UNCHANGED <<sent, stored>>
      BY <1>9 DEF Disconnected
    <2>2. view \in {"form", cred.view} /\ shown \in 0..MaxPosts
      BY <1>t
    <2>3. view = "connected" => shown \in stored
      BY <1>r
    <2> HIDE DEF view, shown
    <2>4. cred' \in View /\ cred'.view = view /\ cred'.known = 0 /\ cred'.shown = shown
      BY <1>t, <2>1, <2>2 DEF View
    <2> QED BY <1>t, <2>1, <2>3, <2>4, AnsweredNumbered DEF CredPart, ConnectedIsReal
  <1> QED BY <1>1, <1>2, <1>3, <1>4, <1>5, <1>6, <1>7, <1>8, <1>9 DEF Credentials

-----------------------------------------------------------------------------
(* Theorems.                                                               *)

\* The inductive invariant holds of every behaviour.
LEMMA Invariance == Spec => []IInv
  <1>i. IInv <=> PanePart /\ CredPart
    BY DEF IInv, PanePart, CredPart, TypeOK, Content, Modal, Fitting, Request, SecretRow, View, Numbered, Own, ActivityIsOwn, HasProfile
  <1>1. Init => PanePart /\ CredPart
    <2> SUFFICES ASSUME Init PROVE PanePart /\ CredPart
      OBVIOUS
    <2>1. pane \in Content /\ Own(pane)
      <3>1. Nothing \notin People
        BY SubjectsAssumption DEF People
      <3> QED BY <3>1 DEF Init, Content, Own, Parts
    <2>2. modal \in Modal /\ ModalFits
      BY DEF Init, NoModal, Modal, ModalFits
    <2>3. Fitting(req, pane.body)
      BY NoRequestFits DEF Init, Fitting
    <2>4. CredPart
      BY BoundsAssumption DEF Init, CredPart, View, Numbered, SecretRow, NoSecret, ConnectedIsReal
    <2> QED BY <2>1, <2>2, <2>3, <2>4 DEF PanePart
  <1>2. PanePart /\ CredPart /\ [Next]_vars => PanePart' /\ CredPart'
    <2> SUFFICES ASSUME PanePart, CredPart, [Next]_vars PROVE PanePart' /\ CredPart'
      OBVIOUS
    <2>1. ASSUME UNCHANGED <<pane, modal, req>> PROVE PanePart'
      BY <2>1 DEF PanePart, ModalFits, Own
    <2>2. ASSUME UNCHANGED <<cred, secret, sent, stored>> PROVE CredPart'
      BY <2>2 DEF CredPart, ConnectedIsReal
    <2>3. CASE Showing \/ Dialogs \/ \E s \in Requests : Answers(s)
      <3>1. UNCHANGED rest
        BY <2>3 DEF Showing, Dialogs, Answers, selectAgent, openUnitWorkspace, showPage, togglePane, clickRoutine,
               openRoutineModal, openNewHufiModal, submitModal, closeModal, WorkspaceAnswer, SidebarAnswer,
               ActivityAnswer, RoutinesAnswer, ToggleAnswer, RoutineCreated, HufiCreated
      <3> QED BY <2>2, <2>3, <3>1, PaneStep DEF rest
    <2>4. CASE Credentials
      <3>1. UNCHANGED thePane
        BY <2>4 DEF Credentials, openConnectModal, closeOverlay, submitSecret, replaceToken, disconnect,
               register_credential, ConnectAccepted, ConnectRefused, Disconnected
      <3> QED BY <2>1, <2>4, <3>1, CredStep DEF thePane
    <2>5. CASE UNCHANGED vars
      BY <2>1, <2>2, <2>5 DEF vars
    <2> QED BY <2>3, <2>4, <2>5 DEF Next
  <1> QED BY <1>1, <1>2, <1>i, PTL DEF Spec

\* Every variable of the pane and the credential card keeps its type.
THEOREM TypeCorrect == Spec => []TypeOK
  <1>1. IInv => TypeOK
    BY DEF IInv
  <1> QED BY <1>1, Invariance, PTL

\* A profile never shows the activity of another agent, in whatever order the
\* answers arrive and whatever was shown in between.
THEOREM ActivityBelongs == Spec => []ActivityIsOwn
  <1>1. IInv => ActivityIsOwn
    BY DEF IInv
  <1> QED BY <1>1, Invariance, PTL

\* A connection is shown and remembered only if the server accepted that very
\* credential, whatever was refused, lost, replaced or removed around it.
THEOREM ConnectionsAreReal == Spec => []ConnectedIsReal
  <1>1. IInv => ConnectedIsReal
    BY DEF IInv
  <1> QED BY <1>1, Invariance, PTL
=============================================================================
