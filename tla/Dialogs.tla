-------------------------------- MODULE Dialogs --------------------------------
(***************************************************************************)
(* The dialogs of the dashboard and the list under them.  A page keeps a   *)
(* section of rows (useSection) and the row a dialog is open for; a dialog *)
(* sends one request, may be closed while it is under way, and either      *)
(* hands the answer to the page at once or shows it until Done; the page   *)
(* then closes it and reads its rows again.  Requests are carried out, and *)
(* answered, in any order; the client never throws (ApiClient.call), so a  *)
(* lost answer is a refusal, of something the server may still do.         *)
(* The pages are rendered without a key: another project or organization   *)
(* (route) leaves their state as it is, and asks for the rows again.       *)
(* Bounds: MaxOpenings openings of the dialog, MaxPresses requests,        *)
(* MaxLoads reads of the rows besides those an answer brings about, two of *)
(* them under way.                                                         *)
(***************************************************************************)
EXTENDS Naturals, Sequences, FiniteSets

CONSTANTS Routes, MaxOpenings, MaxPresses, MaxLoads

ASSUME DialogsAssumption == MaxPresses \in Nat /\ MaxOpenings \in Nat

-----------------------------------------------------------------------------
(* The dialogs, each by what sets it apart: whether its request carries a  *)
(* key drawn when it is mounted; whether it shows the answer, and if Done  *)
(* forgets it; whether Cancel frees its button while the request is under  *)
(* way.                                                                    *)

Plain == [keyed |-> FALSE, shows |-> FALSE, clears |-> FALSE, frees |-> FALSE]
Keyed(dialog) == [dialog EXCEPT !.keyed = TRUE]
Showing(dialog) == [dialog EXCEPT !.shows = TRUE]

NewOrganizationModal == Plain
NewProjectModal == Plain
NewDeploymentModal == Keyed(Showing(Plain))
RedeployDeploymentModal == Keyed(Plain)
RollbackDeploymentModal == Keyed(Plain)
PromoteDeploymentModal == Plain
CancelDeploymentModal == Plain
AddDomainModal == Showing(Plain)
VerifyDomainModal == Showing(Plain)
RemoveDomainModal == Plain
ConnectRepositoryModal == Showing(Plain)
DisconnectRepositoryModal == Plain
EnvVarModal == Showing(Plain)
RemoveEnvVarModal == Plain
\* A protection that is saved and not enforced stays open with a notice, like a refusal.
ProtectionModal == Plain
SavePolicyModal == Plain
DistributePolicyModal == Showing(Plain)
AddSecurityRuleModal == Plain
RemoveSecurityRuleModal == Plain
IncidentActionModal == Plain
AddTrustedSourceModal == Plain
RemoveTrustedSourceModal == Plain
AddRateLimitModal == Plain
RemoveRateLimitModal == Plain
\* Its other button, which removes the cap, is such a dialog of its own.
SetBudgetModal == [Plain EXCEPT !.frees = TRUE]
CreateApiKeyModal == Showing(Plain)
RevokeApiKeyModal == Plain
ProvisionResourceModal == Showing(Plain)
BackupResourceModal == Showing(Plain)
RestoreResourceModal == Showing(Plain)
RotateCredentialsModal == [Showing(Plain) EXCEPT !.clears = TRUE]
ChangeMemberRoleModal == Plain
RemoveMemberModal == Plain

(* The pages, each by its dialogs and what it does with them: whether a    *)
(* dialog is mounted anew for an opening (its React key), and whether the  *)
(* answer closes it and reads the rows again.                              *)

Mounted(dialog, remounts, closes, reloads) ==
  [dialog |-> dialog, remounts |-> remounts, closes |-> closes, reloads |-> reloads]
Kept(dialog) == Mounted(dialog, FALSE, TRUE, TRUE)
PerOpening(dialog) == Mounted(dialog, TRUE, TRUE, TRUE)

\* The answer leads away, to what was created.
OnOrganizations == {Mounted(NewOrganizationModal, FALSE, TRUE, FALSE)}
OnProjects == {Mounted(NewProjectModal, FALSE, TRUE, FALSE)}

OnDeployments ==
  {PerOpening(NewDeploymentModal), PerOpening(RollbackDeploymentModal),
   PerOpening(CancelDeploymentModal), PerOpening(PromoteDeploymentModal),
   PerOpening(RedeployDeploymentModal)}

\* Adding a domain reads the rows again and stays open.
OnDomains ==
  {Mounted(AddDomainModal, FALSE, FALSE, TRUE), Kept(VerifyDomainModal), Kept(RemoveDomainModal)}

OnGit == {PerOpening(ConnectRepositoryModal), Kept(DisconnectRepositoryModal)}
OnEnvVars == {PerOpening(EnvVarModal), Kept(RemoveEnvVarModal)}

OnSecurity ==
  {PerOpening(SavePolicyModal), Kept(DistributePolicyModal), Kept(AddSecurityRuleModal),
   Kept(RemoveSecurityRuleModal), Kept(AddTrustedSourceModal), Kept(RemoveTrustedSourceModal),
   Kept(AddRateLimitModal), Kept(RemoveRateLimitModal), Kept(IncidentActionModal)}

OnSettings == {Kept(ProtectionModal)}
OnBilling == {Kept(SetBudgetModal)}
OnApiKeys == {Kept(CreateApiKeyModal), Kept(RevokeApiKeyModal)}

\* A rotation changes no row the page shows.
OnResources ==
  {Kept(ProvisionResourceModal), Kept(BackupResourceModal), Kept(RestoreResourceModal),
   Mounted(RotateCredentialsModal, FALSE, TRUE, FALSE)}

OnMembers == {Kept(ChangeMemberRoleModal), Kept(RemoveMemberModal)}

DialogsOfPages ==
  UNION {OnOrganizations, OnProjects, OnDeployments, OnDomains, OnGit, OnEnvVars, OnSecurity,
         OnSettings, OnBilling, OnApiKeys, OnResources, OnMembers}

-----------------------------------------------------------------------------
VARIABLES
  wired,       \* the dialog looked at, on its page
  route,       \* the project or organization the page is about
  opening,     \* how often the dialog was opened, and whether it is open
  form,        \* what the mounted instance holds: busy, the answer shown
  calls,       \* requests under way, or given up by the client
  presses,     \* requests sent
  changes,     \* what the server has done, in order
  section,     \* what the page shows
  newest, loads, \* reads of the rows: the newest one, those under way
  heard,       \* history: the changes the page was told of
  unclean      \* history: an opening ended with its answer shown or its request under way

clientVars == <<wired, route, opening, form, section, newest, loads>>
dialogsVars == <<clientVars, calls, presses, changes, heard, unclean>>

\* Instance 0 is the one that lives as long as the page.
Fresh(instance) == [instance |-> instance, busy |-> FALSE, answer |-> 0]
LoadOf(id, r) == [id |-> id, route |-> r, at |-> "asked", seen |-> 0]

DialogsInit ==
  /\ wired \in DialogsOfPages
  /\ route \in Routes
  /\ opening = [n |-> 0, open |-> FALSE]
  /\ form = Fresh(0)
  /\ calls = {} /\ presses = 0 /\ changes = <<>>
  /\ section = [state |-> "loading", route |-> route, seen |-> 0]
  /\ newest = 1 /\ loads = {LoadOf(1, route)}
  /\ heard = {} /\ unclean = FALSE

-----------------------------------------------------------------------------
(* The section. *)

\* A change of route or a reload: what is under way is no longer waited for.
Asks(r) ==
  /\ Cardinality(loads) < 2
  /\ newest' = newest + 1
  /\ loads' = loads \cup {LoadOf(newest + 1, r)}

\* The rows and what was done to them, up to now.
LoadServed(l) ==
  /\ l.at = "asked"
  /\ loads' = (loads \ {l}) \cup {[l EXCEPT !.at = "rows", !.seen = Len(changes)]}
  /\ UNCHANGED <<wired, route, opening, form, section, newest, calls, presses, changes, heard,
                 unclean>>

\* sectionFrom: rows are shown only of an answer that is ok.
SectionFrom(state, l) == [state |-> state, route |-> l.route, seen |-> l.seen]

\* Faulty: an answer is shown whenever it arrives.
EveryOne(l) == l.id <= newest

IsNewest(l) == l.id = newest

LoadEnds(l, state) ==
  /\ loads' = loads \ {l}
  /\ section' = IF IsNewest(l) THEN SectionFrom(state, l) ELSE section
  /\ UNCHANGED <<wired, route, opening, form, newest, calls, presses, changes, heard, unclean>>

LoadArrives(l) == l.at = "rows" /\ LoadEnds(l, "ready")

\* Refused, lost, or of an engine that is not configured.
LoadFails(l) == LoadEnds(l, "error")

\* Retry, Refresh, or the timer of a page with a deployment in flight.
Refresh ==
  /\ newest < MaxLoads /\ Asks(route)
  /\ UNCHANGED <<wired, route, opening, form, section, calls, presses, changes, heard, unclean>>

Navigate ==
  /\ newest < MaxLoads
  /\ \E r \in Routes \ {route} : route' = r /\ Asks(r)
  /\ UNCHANGED <<wired, opening, form, section, calls, presses, changes, heard, unclean>>

-----------------------------------------------------------------------------
(* The dialog. *)

\* The React key changes with every opening and closing, or never does.
Remounted(n, state) == IF wired.remounts THEN Fresh(n) ELSE state

Open ==
  /\ ~ opening.open /\ opening.n < MaxOpenings
  /\ opening' = [n |-> opening.n + 1, open |-> TRUE]
  /\ form' = Remounted(opening.n + 1, form)
  /\ UNCHANGED <<wired, route, section, newest, loads, calls, presses, changes, heard, unclean>>

\* Faulty: closing leaves what was shown.
LeavesIt(state) == state

\* close: what was shown is forgotten; only the budget's Cancel clears busy.
Cleared(state) ==
  [state EXCEPT !.answer = 0, !.busy = @ /\ ~ wired.dialog.frees]

\* Cancel, Escape or a click beside the dialog, at any time.
Close ==
  /\ opening.open
  /\ opening' = [opening EXCEPT !.open = FALSE]
  /\ form' = Remounted(0, Cleared(form))
  /\ unclean' = (unclean \/ form.busy)
  /\ UNCHANGED <<wired, route, section, newest, loads, calls, presses, changes, heard>>

\* Faulty: a key is drawn for every press.
KeyPerPress(press) == <<"press", press>>

\* newRequestId in useState: one key for an instance; a request without one is its own.
KeyOf(press) == IF wired.dialog.keyed THEN <<"instance", form.instance>> ELSE <<"press", press>>

\* submit.
Press ==
  /\ opening.open /\ form.answer = 0 /\ ~ form.busy
  /\ presses < MaxPresses
  /\ presses' = presses + 1
  /\ form' = [form EXCEPT !.busy = TRUE]
  /\ calls' = calls \cup {[press |-> presses', instance |-> form.instance,
                           opening |-> opening.n, key |-> KeyOf(presses'), route |-> route,
                           server |-> "asked", change |-> 0, awaited |-> TRUE]}
  /\ UNCHANGED <<wired, route, opening, section, newest, loads, changes, heard, unclean>>

\* The server does it: a key it has seen is a replay, or, of another project's, a
\* refusal.
CallServed(c) ==
  /\ c.server = "asked"
  /\ LET same == {k \in DOMAIN changes : changes[k].key = c.key}
         does(k) == [c EXCEPT !.server = "did", !.change = k]
         outcome ==
           IF same = {} THEN does(Len(changes) + 1)
           ELSE LET k == CHOOSE k \in same : TRUE
                IN IF changes[k].route = c.route THEN does(k) ELSE [c EXCEPT !.server = "refused"]
     IN /\ calls' = (calls \ {c}) \cup (IF c.awaited THEN {outcome} ELSE {})
        /\ changes' = IF outcome.change > Len(changes)
                      THEN Append(changes, [key |-> c.key, opening |-> c.opening, route |-> c.route])
                      ELSE changes
  /\ UNCHANGED <<clientVars, presses, heard, unclean>>

\* What an answer does to the instance it was sent from, if that is still mounted.
Freed(c) == [form EXCEPT !.busy = @ /\ c.instance # form.instance]

\* The page's callback: it closes the dialog, whichever opening it is, and reloads.
Told(change, state) ==
  /\ heard' = IF wired.reloads THEN heard \cup {change} ELSE heard
  /\ IF wired.closes
     THEN opening' = [opening EXCEPT !.open = FALSE] /\ form' = Remounted(0, state)
     ELSE UNCHANGED opening /\ form' = state
  /\ IF wired.reloads THEN newest <= MaxLoads /\ Asks(route) ELSE UNCHANGED <<newest, loads>>

AnswerArrives(c) ==
  /\ c.awaited /\ c.server = "did"
  /\ calls' = calls \ {c}
  /\ IF wired.dialog.shows
     THEN /\ form' = IF c.instance = form.instance
                     THEN [Freed(c) EXCEPT !.answer = c.change] ELSE form
          /\ UNCHANGED <<opening, newest, loads, heard>>
     ELSE Told(c.change, Freed(c))
  /\ UNCHANGED <<wired, route, section, presses, changes, unclean>>

\* A refusal, for whatever reason, or no answer: the request may be on its way still.
CallFails(c) ==
  /\ c.awaited
  /\ calls' = IF c.server = "asked" THEN (calls \ {c}) \cup {[c EXCEPT !.awaited = FALSE]}
              ELSE calls \ {c}
  /\ form' = Freed(c)
  /\ UNCHANGED <<wired, route, opening, section, newest, loads, presses, changes, heard, unclean>>

\* Done, under an answer that is shown.
Done ==
  /\ opening.open /\ form.answer > 0
  /\ Told(form.answer, IF wired.dialog.clears THEN Cleared(form) ELSE form)
  /\ unclean' = (unclean \/ ~ wired.dialog.clears)
  /\ UNCHANGED <<wired, route, section, calls, presses, changes>>

DialogsNext ==
  \/ \E l \in loads : LoadServed(l) \/ LoadArrives(l) \/ LoadFails(l)
  \/ Refresh \/ Navigate
  \/ Open \/ Press \/ Close \/ Done
  \/ \E c \in calls : CallServed(c) \/ AnswerArrives(c) \/ CallFails(c)

DialogsSpec == DialogsInit /\ [][DialogsNext]_dialogsVars

-----------------------------------------------------------------------------
DialogsType ==
  /\ wired \in DialogsOfPages /\ route \in Routes
  /\ opening \in [n : 0 .. MaxOpenings, open : BOOLEAN]
  /\ form \in [instance : 0 .. MaxOpenings, busy : BOOLEAN, answer : 0 .. Len(changes)]
  /\ Len(changes) <= MaxPresses /\ heard \subseteq DOMAIN changes
  /\ \A c \in calls : c.press <= presses /\ c.change \in 0 .. Len(changes)
  /\ section.state \in {"loading", "ready", "error"}
  /\ \A l \in loads : l.id <= newest

\* Once the reads of a page have been answered, the rows it shows are those of its
\* project and hold every change the page was told of, whatever reads an earlier
\* moment or project left under way (hooks.ts:78-82).
HeardIsShown ==
  section.state = "ready" /\ (\A l \in loads : l.id # newest) =>
    /\ section.route = route
    /\ \A k \in heard : changes[k].route = route => k <= section.seen

\* One opening of a dialog with a key asks for one deployment, however often its
\* button is pressed and whatever answers are lost (pages.tsx:1642-1644), and no
\* opening is answered with the deployment of another.
OpeningAsksOnce ==
  wired.dialog.keyed =>
    \A j, k \in DOMAIN changes : changes[j].opening = changes[k].opening => j = k

\* The answer a dialog shows is to a request of this opening: always, if it is
\* mounted anew for it, and otherwise unless an earlier opening ended by Done or with
\* its request under way.
AnswersOwnOpening ==
  opening.open /\ form.answer > 0 =>
    \/ changes[form.answer].opening = opening.n
    \/ ~ wired.remounts /\ unclean

OpeningsKeepApart == OpeningAsksOnce /\ AnswersOwnOpening
=============================================================================
