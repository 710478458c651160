---------------------------- MODULE PanelClient -----------------------------
(***************************************************************************)
(* The web interface (apps/web/src/App.tsx, ControlPanel and               *)
(* ConfigurationTool): which instance is selected, which one's details are *)
(* shown, and the configuration form that these fill in.  Answers arrive   *)
(* in any order, whatever the order of the requests.  The UI socket tells  *)
(* of changes; it is opened again when the selection changes, never else.  *)
(***************************************************************************)
EXTENDS Integers, FiniteSets

CONSTANTS
  Catalog,    \* the instances
  MaxAsked,   \* bound: requests under way for one instance's details
  MaxClicks   \* bound: selections and changes of the instances one may see

ASSUME ClientAssumption == {MaxAsked, MaxClicks} \subseteq Nat /\ "none" \notin Catalog

Nobody == "none"

VARIABLES
  visible,    \* on the server: the instances this user may see
  listsUnderWay,  \* answers to the dashboard's polls
  asked,      \* each instance: answers with its details under way
  selectedId, detail, socket,   \* of the page; socket is none, open or lost
  form,       \* the instance whose details the form was filled with
  confirmed,  \* the box that confirms the form is ticked
  clicks,
  refilled, blindSave   \* history: filled again under a tick; saved like that

page == <<selectedId, detail, socket>>
formVars == <<form, confirmed, refilled, blindSave>>
clientVars == <<visible, listsUnderWay, asked, page, formVars, clicks>>

ClientInit ==
  /\ visible \in SUBSET Catalog /\ listsUnderWay = {}
  /\ asked = [i \in Catalog |-> 0]
  /\ selectedId = Nobody /\ detail = Nobody /\ socket = "none"
  /\ form = Nobody /\ confirmed = FALSE /\ clicks = 0
  /\ refilled = FALSE /\ blindSave = FALSE

-----------------------------------------------------------------------------
AskDetail(i) ==
  IF i = Nobody THEN UNCHANGED asked
  ELSE asked[i] < MaxAsked /\ asked' = [asked EXCEPT ![i] = @ + 1]

\* Mutant: the tick stays.
RefillKeepingTick(i) ==
  form' = i /\ UNCHANGED <<confirmed, blindSave>> /\ refilled' = confirmed'

\* The form's effect on new details.  A tick that is still there was given to what the
\* form held before.
RefillForm(i) ==
  form' = i /\ confirmed' = FALSE /\ UNCHANGED blindSave /\ refilled' = confirmed'

\* The effects of a new selection: ask for its details, open the socket again.  The
\* workspace is a new one, filled with the details at hand.
Select(i) ==
  /\ selectedId' = i
  /\ IF i = selectedId THEN UNCHANGED <<asked, detail, socket, formVars>>
     ELSE /\ AskDetail(i) /\ detail' = (IF i = Nobody THEN Nobody ELSE detail)
          /\ socket' = "open" /\ RefillForm(detail')

Click(i) ==
  /\ i \in visible /\ selectedId # Nobody /\ clicks < MaxClicks /\ clicks' = clicks + 1 /\ Select(i)
  /\ UNCHANGED <<visible, listsUnderWay>>

VisibleChanges(i) ==
  /\ clicks < MaxClicks /\ clicks' = clicks + 1
  /\ visible' = IF i \in visible THEN visible \ {i} ELSE visible \cup {i}
  /\ UNCHANGED <<listsUnderWay, asked, page, formVars>>

\* The effects of the first rendering.
OpenPage ==
  /\ socket = "none" /\ socket' = "open" /\ listsUnderWay' = {visible}
  /\ UNCHANGED <<visible, asked, selectedId, detail, formVars, clicks>>

\* The five-second timer: GET /api/dashboard.
PollDashboard ==
  /\ socket # "none"
  /\ listsUnderWay' = listsUnderWay \cup {visible}
  /\ UNCHANGED <<visible, asked, page, formVars, clicks>>

\* A list without the selected instance selects the first of the list.
ShowDashboard(list) ==
  /\ list \in listsUnderWay /\ listsUnderWay' = listsUnderWay \ {list}
  /\ IF selectedId \in list THEN Select(selectedId)
     ELSE IF list = {} THEN Select(Nobody) ELSE \E first \in list : Select(first)
  /\ UNCHANGED <<visible, clicks>>

\* An answer to GET /api/instances/:id, or an error, which leaves the details alone.
ShowDetail(i) ==
  /\ asked[i] > 0 /\ asked' = [asked EXCEPT ![i] = @ - 1]
  /\ i \in visible /\ detail' = i /\ RefillForm(i)
  /\ UNCHANGED <<visible, listsUnderWay, selectedId, socket, clicks>>

\* Mutant: an error counts as an answer whether or not one is awaited.
DetailFailsUnasked(i) ==
  /\ asked' = [asked EXCEPT ![i] = @ - 1]
  /\ UNCHANGED <<visible, listsUnderWay, page, formVars, clicks>>

DetailFails(i) ==
  /\ asked[i] > 0 /\ asked' = [asked EXCEPT ![i] = @ - 1]
  /\ UNCHANGED <<visible, listsUnderWay, page, formVars, clicks>>

\* Mutant: an event refreshes the dashboard only.
ReceiveEventListOnly ==
  /\ socket = "open" /\ listsUnderWay' = listsUnderWay \cup {visible}
  /\ UNCHANGED <<visible, asked, page, formVars, clicks>>

\* hub.broadcast: a heartbeat, a task, an instance.  The page asks for everything again.
ReceiveEvent ==
  /\ socket = "open" /\ listsUnderWay' = listsUnderWay \cup {visible}
  /\ AskDetail(selectedId)
  /\ UNCHANGED <<visible, page, formVars, clicks>>

LoseSocket ==
  /\ socket = "open" /\ socket' = "lost"
  /\ UNCHANGED <<visible, listsUnderWay, asked, selectedId, detail, formVars, clicks>>

-----------------------------------------------------------------------------
(* The form *)

Confirm ==
  /\ selectedId # Nobody /\ confirmed' = ~confirmed /\ refilled' = FALSE
  /\ UNCHANGED <<visible, listsUnderWay, asked, page, form, blindSave, clicks>>

SaveConfiguration ==
  /\ selectedId # Nobody /\ confirmed
  /\ blindSave' = (blindSave \/ refilled)
  /\ listsUnderWay' = listsUnderWay \cup {visible} /\ AskDetail(selectedId)
  /\ UNCHANGED <<visible, page, form, confirmed, refilled, clicks>>

-----------------------------------------------------------------------------
ClientNext ==
  \/ OpenPage \/ PollDashboard \/ ReceiveEvent \/ LoseSocket \/ Confirm \/ SaveConfiguration
  \/ \E i \in Catalog : Click(i) \/ VisibleChanges(i) \/ ShowDetail(i) \/ DetailFails(i)
  \/ \E list \in SUBSET Catalog : ShowDashboard(list)

ClientSpec == ClientInit /\ [][ClientNext]_clientVars

\* The timer fires, heartbeats arrive as long as the socket is open, a list that is asked
\* for arrives, and the details do not fail for ever.
ClientFairness ==
  /\ WF_clientVars(PollDashboard) /\ WF_clientVars(ReceiveEvent)
  /\ \A list \in SUBSET Catalog : SF_clientVars(ShowDashboard(list))
  /\ \A i \in Catalog : SF_clientVars(ShowDetail(i))

FairClientSpec == ClientSpec /\ ClientFairness

-----------------------------------------------------------------------------
(* Properties *)

\* The variables have their types.
ClientTypeOK ==
  /\ visible \subseteq Catalog /\ listsUnderWay \subseteq SUBSET Catalog
  /\ asked \in [Catalog -> 0..MaxAsked] /\ socket \in {"none", "open", "lost"}
  /\ {selectedId, detail, form} \subseteq Catalog \cup {Nobody}
  /\ {confirmed, refilled, blindSave} \subseteq BOOLEAN /\ clicks \in 0..MaxClicks

\* Details of an instance that was left may arrive after those of the one selected and
\* are then shown, and filled into the form, in its place.  If the page stays on an
\* instance and its socket open, the heartbeats' refreshes repair this in the end
\* (App.tsx:293-309, 314-341).
SelectionIsShown ==
  \A i \in Catalog :
    <>[](selectedId = i /\ socket = "open") => <>[](detail = i)

\* Whatever refreshes come while the user fills the form in, a configuration is only
\* saved with what the user has seen since ticking the box (App.tsx:1910-1917, 1927).
ConfirmedAsSeen == ~blindSave
=============================================================================
