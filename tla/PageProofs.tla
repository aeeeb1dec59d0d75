------------------------------ MODULE PageProofs ------------------------------
(***************************************************************************)
(* Proofs about the dialogs of the dashboard and the list under them: for  *)
(* any number of openings, requests and reads, and for every dialog of     *)
(* every page.  Then about the deployments page: for any number of rows,   *)
(* of lines of a log and of reads, and any size of a page.                 *)
(***************************************************************************)
EXTENDS Dialogs, DeploymentsPage, TLAPS, FiniteSetTheorems

-----------------------------------------------------------------------------
(* The newest read knows the project shown and, once it is served, every   *)
(* change the page was told of; a key is of one opening; and a dialog that *)
(* is mounted once has at most one request whose answer it waits for, as   *)
(* long as its openings ended in order.                                    *)

\* A key is drawn per mount only where a dialog is mounted anew for an opening.
Dressed == [keyed : BOOLEAN, shows : BOOLEAN, clears : BOOLEAN, frees : BOOLEAN]
Wirings == [dialog : Dressed, remounts : BOOLEAN, closes : BOOLEAN, reloads : BOOLEAN]
KeyValues == {"instance", "press"} \X Nat
ChangeRecords == [key : KeyValues, opening : Nat, route : Routes]
RequestRecords ==
  [press : Nat, instance : Nat, opening : Nat, key : KeyValues, route : Routes,
   server : {"asked", "did", "refused"}, change : Nat, awaited : BOOLEAN]
LoadRecords == [id : Nat, route : Routes, at : {"asked", "rows"}, seen : Nat]

DialogsShape ==
  /\ wired \in Wirings /\ (wired.dialog.keyed => wired.remounts)
  /\ route \in Routes /\ presses \in Nat /\ newest \in Nat
  /\ opening \in [n : Nat, open : BOOLEAN]
  /\ form \in [instance : Nat, busy : BOOLEAN, answer : Nat]
  /\ changes \in Seq(ChangeRecords) /\ calls \subseteq RequestRecords
  /\ loads \subseteq LoadRecords
  /\ section \in [state : {"loading", "ready", "error"}, route : Routes, seen : Nat]
  /\ heard \subseteq DOMAIN changes /\ unclean \in BOOLEAN

\* The newest read knows the route and, once served, all the page was told of.
NewestKnows ==
  /\ \A l \in loads : l.id <= newest
  /\ \A l, m \in loads : l.id = m.id => l = m
  /\ \A l \in loads : l.id = newest =>
       /\ l.route = route
       /\ l.at = "rows" => \A k \in heard : k <= l.seen
  /\ section.state = "ready" /\ (\A l \in loads : l.id # newest) =>
       section.route = route /\ \A k \in heard : k <= section.seen

\* Which instance is mounted, and which one a call was sent from.
MountedFor ==
  /\ wired.remounts => form.instance = IF opening.open THEN opening.n ELSE 0
  /\ ~ wired.remounts => form.instance = 0
  /\ \A c \in calls : c.instance = IF wired.remounts THEN c.opening ELSE 0
  /\ \A c \in calls : c.opening > 0 /\ c.press <= presses
  /\ opening.open => opening.n > 0

\* A key is of one opening: that of its instance, or of its press.
KeysApart ==
  /\ \A c \in calls :
       c.key = IF wired.dialog.keyed THEN <<"instance", c.opening>> ELSE <<"press", c.press>>
  /\ \A c, d \in calls : c.key = d.key => c.opening = d.opening
  /\ \A k \in DOMAIN changes :
       IF wired.dialog.keyed THEN changes[k].key = <<"instance", changes[k].opening>>
       ELSE \E p \in Nat : p <= presses /\ changes[k].key = <<"press", p>>
  /\ \A k \in DOMAIN changes, c \in calls : changes[k].key = c.key => changes[k].opening = c.opening
  /\ \A j, k \in DOMAIN changes : changes[j].key = changes[k].key => j = k

\* What a call was answered, and what is shown.
AnswersRight ==
  /\ \A c \in calls : c.server = "did" =>
       c.change \in DOMAIN changes /\ changes[c.change].opening = c.opening
  /\ \A c \in calls : c.server = "asked" => c.change = 0
  /\ form.answer > 0 =>
       /\ form.answer \in DOMAIN changes /\ wired.dialog.shows
       /\ wired.remounts /\ opening.open => changes[form.answer].opening = opening.n

\* Mounted once, and every opening ended in order: the one call is this opening's.
InOrder ==
  ~ wired.remounts /\ ~ unclean =>
    /\ \A c \in calls : c.awaited => form.busy /\ opening.open /\ c.opening = opening.n
    /\ \A c, d \in calls : c.awaited /\ d.awaited => c = d
    /\ form.answer > 0 =>
         ~ form.busy /\ opening.open /\ changes[form.answer].opening = opening.n

DialogsInv ==
  DialogsShape /\ NewestKnows /\ MountedFor /\ KeysApart /\ AnswersRight /\ InOrder

LEMMA WiringsKnown == \A w \in DialogsOfPages : w \in Wirings /\ (w.dialog.keyed => w.remounts)
<1> DEFINE Fits(w) == w \in Wirings /\ (w.dialog.keyed => w.remounts)
<1>1. Plain \in Dressed /\ ~ Plain.keyed
  BY DEF Plain, Dressed
<1>2. \A d \in Dressed : /\ Keyed(d) \in Dressed
                         /\ Showing(d) \in Dressed /\ Showing(d).keyed = d.keyed
                         /\ [d EXCEPT !.frees = TRUE] \in Dressed /\ [d EXCEPT !.frees = TRUE].keyed = d.keyed
                         /\ [d EXCEPT !.clears = TRUE] \in Dressed /\ [d EXCEPT !.clears = TRUE].keyed = d.keyed
  BY DEF Keyed, Showing, Dressed
<1>3. \A d \in Dressed : Fits(PerOpening(d))
  BY DEF PerOpening, Mounted, Wirings
<1>4. \A d \in Dressed : ~ d.keyed => /\ Fits(Kept(d))
                                      /\ Fits(Mounted(d, FALSE, FALSE, TRUE))
                                      /\ Fits(Mounted(d, FALSE, TRUE, FALSE))
  BY DEF Kept, Mounted, Wirings
<1>5. /\ Showing(Plain) \in Dressed /\ ~ Showing(Plain).keyed
      /\ Keyed(Plain) \in Dressed /\ Keyed(Showing(Plain)) \in Dressed
      /\ [Plain EXCEPT !.frees = TRUE] \in Dressed /\ ~ [Plain EXCEPT !.frees = TRUE].keyed
      /\ [Showing(Plain) EXCEPT !.clears = TRUE] \in Dressed
      /\ ~ [Showing(Plain) EXCEPT !.clears = TRUE].keyed
  BY <1>1, <1>2
<1> HIDE DEF Fits
<1>6. \A w \in OnDeployments \cup OnDomains \cup OnGit \cup OnEnvVars : Fits(w)
  BY <1>1, <1>3, <1>4, <1>5
     DEF OnDeployments, OnDomains, OnGit, OnEnvVars, NewDeploymentModal, RedeployDeploymentModal,
         RollbackDeploymentModal, PromoteDeploymentModal, CancelDeploymentModal, AddDomainModal,
         VerifyDomainModal, RemoveDomainModal, ConnectRepositoryModal, DisconnectRepositoryModal,
         EnvVarModal, RemoveEnvVarModal
<1>7. \A w \in OnSecurity \cup OnSettings \cup OnBilling : Fits(w)
  BY <1>1, <1>3, <1>4, <1>5
     DEF OnSecurity, OnSettings, OnBilling, ProtectionModal, SavePolicyModal, DistributePolicyModal,
         AddSecurityRuleModal, RemoveSecurityRuleModal, IncidentActionModal, AddTrustedSourceModal,
         RemoveTrustedSourceModal, AddRateLimitModal, RemoveRateLimitModal, SetBudgetModal
<1>8. \A w \in OnOrganizations \cup OnProjects \cup OnApiKeys \cup OnResources \cup OnMembers :
        Fits(w)
  BY <1>1, <1>3, <1>4, <1>5
     DEF OnOrganizations, OnProjects, NewOrganizationModal, NewProjectModal, OnApiKeys,
         OnResources, OnMembers, CreateApiKeyModal, RevokeApiKeyModal, ProvisionResourceModal,
         BackupResourceModal, RestoreResourceModal, RotateCredentialsModal, ChangeMemberRoleModal,
         RemoveMemberModal
<1>9. \A w \in DialogsOfPages : Fits(w)
  BY <1>6, <1>7, <1>8 DEF DialogsOfPages
<1> QED BY <1>9 DEF Fits

LEMMA ChangesTyped ==
  ASSUME DialogsShape
  PROVE  /\ Len(changes) \in Nat /\ DOMAIN changes = 1 .. Len(changes)
         /\ \A k \in DOMAIN changes : changes[k] \in ChangeRecords
BY DEF DialogsShape

-----------------------------------------------------------------------------
(* The section of rows: its reads, and what they leave alone.              *)

\* A step that touches no call and no dialog.
LEMMA DialogRests ==
  ASSUME DialogsInv, UNCHANGED <<wired, opening, form, calls, presses, changes, unclean>>
  PROVE  MountedFor' /\ KeysApart' /\ AnswersRight' /\ InOrder'
<1>1. MountedFor' /\ KeysApart'
  BY DEF DialogsInv, MountedFor, KeysApart
<1>2. AnswersRight' /\ InOrder'
  BY DEF DialogsInv, AnswersRight, InOrder
<1> QED BY <1>1, <1>2

\* A read that is asked for is the newest, knows the route, and has served nothing.
LEMMA AskedKnows ==
  ASSUME DialogsInv, NEW r \in Routes, Asks(r), route' = r, UNCHANGED section
  PROVE  newest' \in Nat /\ loads' \subseteq LoadRecords /\ NewestKnows'
<1> DEFINE load == LoadOf(newest + 1, r)
<1>1. /\ newest \in Nat /\ newest' = newest + 1 /\ loads' = loads \cup {load}
      /\ loads \subseteq LoadRecords
      /\ load.id = newest + 1 /\ load.route = r /\ load.at = "asked" /\ load \in LoadRecords
  BY DEF Asks, LoadOf, DialogsInv, DialogsShape, LoadRecords
<1> HIDE DEF load
<1>2. \A l \in loads : l.id \in Nat /\ l.id <= newest /\ l.id # newest + 1
  BY <1>1 DEF DialogsInv, NewestKnows, LoadRecords
<1>3. \A l \in loads' : l.id <= newest' /\ (l.id = newest' => l = load)
  BY <1>1, <1>2
<1>4. \A l, m \in loads' : l.id = m.id => l = m
  BY <1>1, <1>2 DEF DialogsInv, NewestKnows
<1>5. NewestKnows'
  BY <1>1, <1>3, <1>4 DEF NewestKnows
<1> QED BY <1>1, <1>5

LEMMA LoadServedKeeps == ASSUME DialogsInv, NEW l \in loads, LoadServed(l) PROVE DialogsInv'
<1> DEFINE served == [l EXCEPT !.at = "rows", !.seen = Len(changes)]
<1>1. /\ UNCHANGED <<wired, route, opening, form, section, newest, calls, presses, changes, heard, unclean>>
      /\ loads' = (loads \ {l}) \cup {served}
  BY DEF LoadServed
<1>2. l \in LoadRecords /\ Len(changes) \in Nat /\ \A k \in heard : k <= Len(changes)
  BY ChangesTyped DEF DialogsInv, DialogsShape
<1>3. /\ served \in LoadRecords /\ served.id = l.id /\ served.route = l.route /\ served.at = "rows"
      /\ served.seen = Len(changes)
  BY <1>2 DEF LoadRecords
<1> HIDE DEF served
<1>4. DialogsShape'
  BY <1>1, <1>3 DEF DialogsInv, DialogsShape
<1>5. NewestKnows'
  <2>1. \A k \in loads' : k.id <= newest
    BY <1>1, <1>3 DEF DialogsInv, NewestKnows
  <2>2. \A k, m \in loads' : k.id = m.id => k = m
    BY <1>1, <1>3 DEF DialogsInv, NewestKnows
  <2>3. \A k \in loads' : k.id = newest => k.route = route /\ (k.at = "rows" => \A j \in heard : j <= k.seen)
    BY <1>1, <1>2, <1>3 DEF DialogsInv, NewestKnows
  <2>4. (\A k \in loads' : k.id # newest) => \A k \in loads : k.id # newest
    BY <1>1, <1>3
  <2> QED BY <1>1, <2>1, <2>2, <2>3, <2>4 DEF DialogsInv, NewestKnows
<1> QED BY <1>1, <1>4, <1>5, DialogRests DEF DialogsInv

LEMMA LoadEndsKeeps ==
  ASSUME DialogsInv, NEW l \in loads, NEW state \in {"ready", "error"}, LoadEnds(l, state),
         state = "ready" => l.at = "rows"
  PROVE  DialogsInv'
<1>1. /\ UNCHANGED <<wired, route, opening, form, newest, calls, presses, changes, heard, unclean>>
      /\ loads' = loads \ {l}
      /\ section' = IF l.id = newest THEN SectionFrom(state, l) ELSE section
  BY DEF LoadEnds, IsNewest
<1>2. l \in LoadRecords
  BY DEF DialogsInv, DialogsShape
<1>3. DialogsShape'
  BY <1>1, <1>2 DEF DialogsInv, DialogsShape, SectionFrom, LoadRecords
<1>4. NewestKnows'
  <2>1. CASE l.id = newest
    <3>1. section'.state = state /\ section'.route = l.route /\ section'.seen = l.seen
      BY <1>1, <2>1 DEF SectionFrom
    <3> QED BY <1>1, <2>1, <3>1 DEF DialogsInv, NewestKnows
  <2>2. CASE l.id # newest
    BY <1>1, <2>2 DEF DialogsInv, NewestKnows
  <2> QED BY <2>1, <2>2
<1> QED BY <1>1, <1>3, <1>4, DialogRests DEF DialogsInv

LEMMA RefreshKeeps == ASSUME DialogsInv, Refresh PROVE DialogsInv'
<1>1. UNCHANGED <<wired, route, opening, form, section, calls, presses, changes, heard, unclean>> /\ Asks(route)
  BY DEF Refresh
<1>2. newest' \in Nat /\ loads' \subseteq LoadRecords /\ NewestKnows'
  BY <1>1, AskedKnows DEF DialogsInv, DialogsShape
<1>3. DialogsShape'
  BY <1>1, <1>2 DEF DialogsInv, DialogsShape
<1> QED BY <1>1, <1>2, <1>3, DialogRests DEF DialogsInv

LEMMA NavigateKeeps == ASSUME DialogsInv, Navigate PROVE DialogsInv'
<1>1. PICK r \in Routes : route' = r /\ Asks(r)
  BY DEF Navigate
<1>2. UNCHANGED <<wired, opening, form, section, calls, presses, changes, heard, unclean>>
  BY DEF Navigate
<1>3. newest' \in Nat /\ loads' \subseteq LoadRecords /\ NewestKnows'
  BY <1>1, <1>2, AskedKnows
<1>4. DialogsShape'
  BY <1>1, <1>2, <1>3 DEF DialogsInv, DialogsShape
<1> QED BY <1>2, <1>3, <1>4, DialogRests DEF DialogsInv

-----------------------------------------------------------------------------
(* The dialog: it is opened, sends its request and is closed.              *)

LEMMA OpenKeeps == ASSUME DialogsInv, Open PROVE DialogsInv'
<1>1. /\ UNCHANGED <<wired, route, section, newest, loads, calls, presses, changes, heard, unclean>>
      /\ ~ opening.open /\ opening.n \in Nat
      /\ opening' = [n |-> opening.n + 1, open |-> TRUE]
      /\ form' = IF wired.remounts THEN Fresh(opening.n + 1) ELSE form
  BY DEF Open, Remounted, DialogsInv, DialogsShape
<1>2. opening'.n = opening.n + 1 /\ opening'.open /\ opening' \in [n : Nat, open : BOOLEAN]
  BY <1>1
<1>3. /\ form' \in [instance : Nat, busy : BOOLEAN, answer : Nat]
      /\ wired.remounts => form'.instance = opening.n + 1 /\ form'.answer = 0
      /\ ~ wired.remounts => form' = form
  BY <1>1 DEF Fresh, DialogsInv, DialogsShape
<1>4. DialogsShape' /\ NewestKnows'
  BY <1>1, <1>2, <1>3 DEF DialogsInv, DialogsShape, NewestKnows
<1>5. MountedFor' /\ KeysApart'
  BY <1>1, <1>2, <1>3 DEF DialogsInv, MountedFor, KeysApart
<1>6. AnswersRight'
  BY <1>1, <1>3 DEF DialogsInv, AnswersRight
<1>7. InOrder'
  BY <1>1, <1>3 DEF DialogsInv, InOrder
<1> QED BY <1>4, <1>5, <1>6, <1>7 DEF DialogsInv

LEMMA PressKeeps == ASSUME DialogsInv, Press PROVE DialogsInv'
<1> DEFINE call == [press |-> presses', instance |-> form.instance,
                    opening |-> opening.n, key |-> KeyOf(presses'), route |-> route,
                    server |-> "asked", change |-> 0, awaited |-> TRUE]
<1>1. /\ UNCHANGED <<wired, route, opening, section, newest, loads, changes, heard, unclean>>
      /\ opening.open /\ form.answer = 0 /\ ~ form.busy
      /\ presses' = presses + 1 /\ form' = [form EXCEPT !.busy = TRUE]
      /\ calls' = calls \cup {call}
  BY DEF Press
<1>2. /\ presses \in Nat /\ presses' \in Nat /\ opening.n \in Nat \ {0} /\ form.instance \in Nat /\ route \in Routes
      /\ form' \in [instance : Nat, busy : BOOLEAN, answer : Nat]
      /\ form'.busy /\ form'.instance = form.instance /\ form'.answer = 0
  <2>1. form \in [instance : Nat, busy : BOOLEAN, answer : Nat] /\ opening \in [n : Nat, open : BOOLEAN]
        /\ presses \in Nat /\ route \in Routes
    BY DEF DialogsInv, DialogsShape
  <2>2. opening.n > 0
    BY <1>1 DEF DialogsInv, MountedFor
  <2>3. /\ form' \in [instance : Nat, busy : BOOLEAN, answer : Nat]
        /\ form'.busy /\ form'.instance = form.instance /\ form'.answer = 0
    BY <1>1, <2>1
  <2> QED BY <1>1, <2>1, <2>2, <2>3
<1>3. KeyOf(presses') = (IF wired.dialog.keyed THEN <<"instance", opening.n>> ELSE <<"press", presses + 1>>)
  BY <1>1 DEF KeyOf, DialogsInv, DialogsShape, MountedFor
<1>4. /\ call \in RequestRecords /\ call.press = presses + 1 /\ call.opening = opening.n
      /\ call.instance = form.instance /\ call.server = "asked" /\ call.change = 0 /\ call.awaited
      /\ call.key = IF wired.dialog.keyed THEN <<"instance", call.opening>> ELSE <<"press", call.press>>
  BY <1>1, <1>2, <1>3 DEF RequestRecords, KeyValues
<1> HIDE DEF call
<1>5. DialogsShape' /\ NewestKnows'
  BY <1>1, <1>2, <1>4 DEF DialogsInv, DialogsShape, NewestKnows
<1>6. MountedFor'
  BY <1>1, <1>2, <1>4 DEF DialogsInv, MountedFor, DialogsShape, RequestRecords
<1>7. KeysApart'
  <2>1. \A c \in calls' :
          c.key = IF wired.dialog.keyed THEN <<"instance", c.opening>> ELSE <<"press", c.press>>
    BY <1>1, <1>4 DEF DialogsInv, KeysApart
  <2>2. \A k \in DOMAIN changes :
          IF wired.dialog.keyed THEN changes[k].key = <<"instance", changes[k].opening>>
          ELSE \E p \in Nat : p <= presses + 1 /\ p # presses + 1 /\ changes[k].key = <<"press", p>>
    BY <1>2 DEF DialogsInv, KeysApart
  <2>3. \A c \in calls : call.key = c.key => call.opening = c.opening
    <3>1. CASE wired.dialog.keyed
      BY <1>1, <1>4, <2>1, <3>1
    <3>2. CASE ~ wired.dialog.keyed
      <4>1. \A c \in calls : c.press \in Nat /\ c.press # presses + 1
        BY <1>2 DEF DialogsInv, DialogsShape, RequestRecords, MountedFor
      <4>2. \A c \in calls : c.key = <<"press", c.press>>
        BY <1>1, <2>1, <3>2
      <4>3. call.key = <<"press", presses + 1>>
        BY <1>4, <3>2
      <4> QED BY <4>1, <4>2, <4>3
    <3> QED BY <3>1, <3>2
  <2>4. \A k \in DOMAIN changes : changes[k].key = call.key => changes[k].opening = call.opening
    BY <1>4, <2>2
  <2>5. \A c, d \in calls' : c.key = d.key => c.opening = d.opening
    BY <1>1, <2>3 DEF DialogsInv, KeysApart
  <2>6. \A k \in DOMAIN changes, c \in calls' : changes[k].key = c.key => changes[k].opening = c.opening
    BY <1>1, <2>4 DEF DialogsInv, KeysApart
  <2>7. \A k \in DOMAIN changes :
          IF wired.dialog.keyed THEN changes[k].key = <<"instance", changes[k].opening>>
          ELSE \E p \in Nat : p <= presses' /\ changes[k].key = <<"press", p>>
    BY <1>1, <2>2
  <2>8. \A j, k \in DOMAIN changes : changes[j].key = changes[k].key => j = k
    BY DEF DialogsInv, KeysApart
  <2> QED BY <1>1, <2>1, <2>5, <2>6, <2>7, <2>8 DEF KeysApart
<1>8. AnswersRight'
  BY <1>1, <1>2, <1>4 DEF DialogsInv, AnswersRight
<1>9. InOrder'
  BY <1>1, <1>2, <1>4 DEF DialogsInv, InOrder
<1> QED BY <1>5, <1>6, <1>7, <1>8, <1>9 DEF DialogsInv

LEMMA CloseKeeps == ASSUME DialogsInv, Close PROVE DialogsInv'
<1> DEFINE cleared == Cleared(form)
<1>1. /\ UNCHANGED <<wired, route, section, newest, loads, calls, presses, changes, heard>>
      /\ opening.open /\ opening' = [opening EXCEPT !.open = FALSE]
      /\ form' = IF wired.remounts THEN Fresh(0) ELSE cleared
      /\ unclean' = (unclean \/ form.busy)
  BY DEF Close, Remounted
<1>2. /\ form \in [instance : Nat, busy : BOOLEAN, answer : Nat] /\ unclean \in BOOLEAN
      /\ wired.dialog.frees \in BOOLEAN
      /\ opening' \in [n : Nat, open : BOOLEAN] /\ opening'.n = opening.n /\ ~ opening'.open
  BY <1>1 DEF DialogsInv, DialogsShape, Wirings, Dressed
<1>3. /\ cleared \in [instance : Nat, busy : BOOLEAN, answer : Nat]
      /\ cleared.instance = form.instance /\ cleared.answer = 0
  BY <1>2 DEF Cleared
<1> HIDE DEF cleared
<1>4. /\ form' \in [instance : Nat, busy : BOOLEAN, answer : Nat] /\ form'.answer = 0
      /\ form'.instance = IF wired.remounts THEN 0 ELSE form.instance
  BY <1>1, <1>3 DEF Fresh
<1>5. unclean' \in BOOLEAN /\ (~ unclean' => ~ unclean /\ ~ form.busy)
  BY <1>1, <1>2
<1>6. DialogsShape' /\ NewestKnows'
  BY <1>1, <1>2, <1>4, <1>5 DEF DialogsInv, DialogsShape, NewestKnows
<1>7. MountedFor' /\ KeysApart'
  BY <1>1, <1>2, <1>4 DEF DialogsInv, MountedFor, KeysApart
<1>8. AnswersRight'
  BY <1>1, <1>4 DEF DialogsInv, AnswersRight
<1>9. InOrder'
  BY <1>1, <1>4, <1>5 DEF DialogsInv, InOrder
<1> QED BY <1>6, <1>7, <1>8, <1>9 DEF DialogsInv

-----------------------------------------------------------------------------
(* A request is carried out, fails, or is answered; the page is told.      *)

LEMMA CallServedKeeps == ASSUME DialogsInv, NEW c \in calls, CallServed(c) PROVE DialogsInv'
<1> DEFINE same == {k \in DOMAIN changes : changes[k].key = c.key}
           does(k) == [c EXCEPT !.server = "did", !.change = k]
           new == [key |-> c.key, opening |-> c.opening, route |-> c.route]
           last == Len(changes) + 1
<1>0. /\ UNCHANGED <<wired, route, opening, form, section, newest, loads, presses, heard, unclean>>
      /\ c.server = "asked" /\ c \in RequestRecords
      /\ Len(changes) \in Nat /\ DOMAIN changes = 1 .. Len(changes)
  BY ChangesTyped DEF CallServed, clientVars, DialogsInv, DialogsShape
<1>1. PICK outcome : 
        /\ outcome = IF same = {} THEN does(last)
                     ELSE LET k == CHOOSE k \in same : TRUE
                          IN IF changes[k].route = c.route THEN does(k) ELSE [c EXCEPT !.server = "refused"]
        /\ calls' = (calls \ {c}) \cup (IF c.awaited THEN {outcome} ELSE {})
        /\ changes' = IF outcome.change > Len(changes) THEN Append(changes, new) ELSE changes
  BY DEF CallServed
<1>2. \A k \in Nat : /\ does(k) \in RequestRecords /\ does(k).server = "did" /\ does(k).change = k
                     /\ does(k).press = c.press /\ does(k).instance = c.instance /\ does(k).key = c.key
                     /\ does(k).opening = c.opening /\ does(k).awaited = c.awaited
  BY <1>0 DEF RequestRecords
<1> HIDE DEF does
<1>3. /\ outcome \in RequestRecords /\ outcome.press = c.press /\ outcome.instance = c.instance
      /\ outcome.key = c.key /\ outcome.opening = c.opening /\ outcome.awaited = c.awaited
      /\ outcome.server # "asked"
  <2>1. CASE same = {}
    BY <1>0, <1>1, <1>2, <2>1
  <2>2. CASE same # {}
    BY <1>0, <1>1, <1>2, <2>2 DEF RequestRecords
  <2> QED BY <2>1, <2>2
<1>4. /\ changes' \in Seq(ChangeRecords)
      /\ \/ changes' = changes
         \/ /\ same = {} /\ DOMAIN changes' = DOMAIN changes \cup {last} /\ last \notin DOMAIN changes
            /\ changes'[last].key = c.key /\ changes'[last].opening = c.opening
            /\ \A k \in DOMAIN changes : changes'[k] = changes[k]
      /\ outcome.server = "did" =>
           outcome.change \in DOMAIN changes' /\ changes'[outcome.change].opening = c.opening
  <2>1. new \in ChangeRecords /\ changes \in Seq(ChangeRecords) /\ new.key = c.key /\ new.opening = c.opening
    BY <1>0 DEF RequestRecords, ChangeRecords, DialogsInv, DialogsShape
  <2> HIDE DEF new
  <2>2. CASE same = {}
    <3>0. outcome = does(last) /\ last \in Nat /\ last > Len(changes)
      BY <1>0, <1>1, <2>2
    <3>1. outcome.change = last /\ changes' = Append(changes, new)
      BY <1>1, <1>2, <3>0
    <3>2. /\ Append(changes, new) \in Seq(ChangeRecords) /\ Append(changes, new)[last] = new
          /\ DOMAIN Append(changes, new) = 1 .. last
          /\ \A k \in 1 .. Len(changes) : Append(changes, new)[k] = changes[k]
      BY <1>0, <2>1
    <3>3. 1 .. last = 1 .. Len(changes) \cup {last} /\ last \notin 1 .. Len(changes) /\ last \in 1 .. last
      BY <1>0
    <3> QED BY <1>0, <2>1, <2>2, <3>1, <3>2, <3>3
  <2>3. CASE same # {}
    <3>1. PICK k \in same : outcome = IF changes[k].route = c.route THEN does(k) ELSE [c EXCEPT !.server = "refused"]
      BY <1>1, <2>3
    <3>2. k \in DOMAIN changes /\ k \in Nat /\ changes[k].opening = c.opening /\ ~ (k > Len(changes))
      BY <1>0, <3>1 DEF DialogsInv, KeysApart
    <3>3. CASE changes[k].route = c.route
      BY <1>1, <1>2, <2>1, <3>1, <3>2, <3>3
    <3>4. CASE changes[k].route # c.route
      <4>1. outcome.server = "refused" /\ outcome.change = c.change
        BY <1>0, <3>1, <3>4 DEF RequestRecords
      <4>2. c.change = 0
        BY <1>0 DEF DialogsInv, AnswersRight
      <4>3. outcome.change = 0 /\ ~ (0 > Len(changes))
        BY <1>0, <4>1, <4>2
      <4>4. changes' = changes
        BY <1>1, <4>3
      <4> QED BY <2>1, <4>1, <4>4
    <3> QED BY <3>3, <3>4
  <2> QED BY <2>2, <2>3
<1>5. \A d \in calls' : \E e \in calls :
        /\ d.press = e.press /\ d.instance = e.instance /\ d.key = e.key /\ d.opening = e.opening
        /\ d.awaited = e.awaited /\ (d = e \/ (d = outcome /\ e = c))
  BY <1>1, <1>3
<1> HIDE DEF same, new, last
<1>6. DialogsShape'
  <2>1. calls' \subseteq RequestRecords
    BY <1>1, <1>3 DEF DialogsInv, DialogsShape
  <2>2. DOMAIN changes \subseteq DOMAIN changes'
    BY <1>4
  <2> QED BY <1>0, <1>4, <2>1, <2>2 DEF DialogsInv, DialogsShape
<1>7. NewestKnows'
  BY <1>0 DEF DialogsInv, NewestKnows
<1>8. MountedFor'
  BY <1>0, <1>5 DEF DialogsInv, MountedFor
<1>9. KeysApart'
  <2>1. \A k \in DOMAIN changes' : (k \in DOMAIN changes /\ changes'[k] = changes[k])
                                  \/ (same = {} /\ changes'[k].key = c.key /\ changes'[k].opening = c.opening)
    BY <1>4
  <2>2. \A j, k \in DOMAIN changes' : changes'[j].key = changes'[k].key => j = k
    BY <1>4 DEF DialogsInv, KeysApart, same
  <2>3. \A d \in calls' :
          d.key = IF wired.dialog.keyed THEN <<"instance", d.opening>> ELSE <<"press", d.press>>
    <3> SUFFICES ASSUME NEW d \in calls'
                 PROVE  d.key = IF wired.dialog.keyed THEN <<"instance", d.opening>> ELSE <<"press", d.press>>
      OBVIOUS
    <3>1. PICK e \in calls : d.press = e.press /\ d.key = e.key /\ d.opening = e.opening
      BY <1>5
    <3>2. e.key = IF wired.dialog.keyed THEN <<"instance", e.opening>> ELSE <<"press", e.press>>
      BY DEF DialogsInv, KeysApart
    <3> QED BY <3>1, <3>2
  <2>4. \A d, e \in calls' : d.key = e.key => d.opening = e.opening
    BY <1>5 DEF DialogsInv, KeysApart
  <2>5. \A k \in DOMAIN changes', d \in calls' : changes'[k].key = d.key => changes'[k].opening = d.opening
    BY <1>5, <2>1 DEF DialogsInv, KeysApart
  <2>6. ASSUME NEW k \in DOMAIN changes'
        PROVE  IF wired.dialog.keyed THEN changes'[k].key = <<"instance", changes'[k].opening>>
               ELSE \E p \in Nat : p <= presses /\ changes'[k].key = <<"press", p>>
    <3>1. /\ c.key = IF wired.dialog.keyed THEN <<"instance", c.opening>> ELSE <<"press", c.press>>
          /\ c.press \in Nat /\ c.press <= presses
      BY <1>0 DEF DialogsInv, KeysApart, MountedFor, RequestRecords
    <3>2. CASE k \in DOMAIN changes /\ changes'[k] = changes[k]
      BY <3>2 DEF DialogsInv, KeysApart
    <3>3. CASE changes'[k].key = c.key /\ changes'[k].opening = c.opening
      BY <3>1, <3>3
    <3> QED BY <2>1, <3>2, <3>3
  <2> QED BY <1>0, <2>2, <2>3, <2>4, <2>5, <2>6 DEF KeysApart
<1>10. AnswersRight'
  <2>1. \A d \in calls' : d.server = "did" =>
          d.change \in DOMAIN changes' /\ changes'[d.change].opening = d.opening
    BY <1>3, <1>4, <1>5 DEF DialogsInv, AnswersRight
  <2>2. form.answer > 0 => form.answer \in DOMAIN changes' /\ changes'[form.answer] = changes[form.answer]
    BY <1>4 DEF DialogsInv, AnswersRight
  <2>3. \A d \in calls' : d.server = "asked" => d.change = 0
    BY <1>3, <1>5 DEF DialogsInv, AnswersRight
  <2> QED BY <1>0, <2>1, <2>2, <2>3 DEF DialogsInv, AnswersRight
<1>11. InOrder'
  <2>1. form.answer > 0 => changes'[form.answer] = changes[form.answer]
    BY <1>4 DEF DialogsInv, AnswersRight
  <2>2. ASSUME ~ wired.remounts, ~ unclean
        PROVE  /\ \A d \in calls' : d.awaited => form.busy /\ opening.open /\ d.opening = opening.n
               /\ \A d, e \in calls' : d.awaited /\ e.awaited => d = e
    <3>1. \A d, e \in calls : d.awaited /\ e.awaited => d = e
      BY <2>2 DEF DialogsInv, InOrder
    <3>2. \A d \in calls' : d.awaited => (d = outcome /\ c.awaited) \/ d \in calls \ {c}
      BY <1>1, <1>3
    <3>3. \A d, e \in calls' : d.awaited /\ e.awaited => d = e
      BY <3>1, <3>2
    <3> QED BY <1>5, <2>2, <3>3 DEF DialogsInv, InOrder
  <2> QED BY <1>0, <2>1, <2>2 DEF DialogsInv, InOrder
<1> QED BY <1>6, <1>7, <1>8, <1>9, <1>10, <1>11 DEF DialogsInv

LEMMA FreedTyped ==
  ASSUME DialogsShape, NEW c \in calls
  PROVE  /\ Freed(c) \in [instance : Nat, busy : BOOLEAN, answer : Nat]
         /\ Freed(c).instance = form.instance /\ Freed(c).answer = form.answer
         /\ c.instance = form.instance => ~ Freed(c).busy
BY DEF DialogsShape, RequestRecords, Freed

LEMMA CallFailsKeeps == ASSUME DialogsInv, NEW c \in calls, CallFails(c) PROVE DialogsInv'
<1> DEFINE lost == [c EXCEPT !.awaited = FALSE]
<1>1. /\ UNCHANGED <<wired, route, opening, section, newest, loads, presses, changes, heard, unclean>>
      /\ c.awaited /\ form' = Freed(c)
      /\ calls' = IF c.server = "asked" THEN (calls \ {c}) \cup {lost} ELSE calls \ {c}
  BY DEF CallFails
<1>2. /\ lost \in RequestRecords /\ lost.press = c.press /\ lost.instance = c.instance /\ lost.key = c.key
      /\ lost.opening = c.opening /\ ~ lost.awaited /\ lost.server = c.server
      /\ lost.change = c.change
  BY ZenonT(60) DEF DialogsInv, DialogsShape, RequestRecords
<1> HIDE DEF lost
<1>3. /\ form' \in [instance : Nat, busy : BOOLEAN, answer : Nat]
      /\ form'.instance = form.instance /\ form'.answer = form.answer
  BY <1>1, FreedTyped DEF DialogsInv
<1>4. \A d \in calls' : d \in calls \ {c} \/ (d = lost /\ c.server = "asked")
  BY <1>1
<1>5. DialogsShape' /\ NewestKnows'
  BY <1>1, <1>2, <1>3, <1>4 DEF DialogsInv, DialogsShape, NewestKnows
<1>6. MountedFor'
  BY <1>1, <1>2, <1>3, <1>4 DEF DialogsInv, MountedFor
<1>7. KeysApart'
  BY <1>1, <1>2, <1>4 DEF DialogsInv, KeysApart
<1>8. AnswersRight'
  BY <1>1, <1>2, <1>3, <1>4 DEF DialogsInv, AnswersRight
<1>9. InOrder'
  <2>1. ASSUME ~ wired.remounts, ~ unclean, NEW d \in calls', d.awaited PROVE FALSE
    <3>1. d \in calls \ {c}
      BY <1>2, <1>4, <2>1
    <3>2. d = c
      BY <1>1, <2>1, <3>1 DEF DialogsInv, InOrder
    <3> QED BY <3>1, <3>2
  <2>2. ~ wired.remounts => c.instance = form.instance /\ ~ form'.busy
    BY <1>1, FreedTyped DEF DialogsInv, MountedFor
  <2> QED BY <1>1, <1>3, <2>1, <2>2 DEF DialogsInv, InOrder
<1> QED BY <1>5, <1>6, <1>7, <1>8, <1>9 DEF DialogsInv

\* The page is told of a change: it closes the dialog and reads its rows, or neither.
LEMMA ToldShape ==
  ASSUME DialogsInv, NEW change \in DOMAIN changes,
         NEW state \in [instance : Nat, busy : BOOLEAN, answer : Nat], state.instance = form.instance,
         Told(change, state), UNCHANGED <<wired, route, section, presses, changes>>
  PROVE  /\ heard' \subseteq DOMAIN changes /\ newest' \in Nat /\ loads' \subseteq LoadRecords
         /\ NewestKnows'
         /\ opening' \in [n : Nat, open : BOOLEAN] /\ opening'.n = opening.n
         /\ form' \in [instance : Nat, busy : BOOLEAN, answer : Nat]
         /\ wired.closes => ~ opening'.open /\ form' = (IF wired.remounts THEN Fresh(0) ELSE state)
         /\ ~ wired.closes => opening' = opening /\ form' = state
<1>1. /\ route \in Routes /\ opening \in [n : Nat, open : BOOLEAN] /\ heard \subseteq DOMAIN changes
      /\ newest \in Nat /\ loads \subseteq LoadRecords
  BY DEF DialogsInv, DialogsShape
<1>2. newest' \in Nat /\ loads' \subseteq LoadRecords /\ NewestKnows'
  <2>1. CASE wired.reloads
    BY <1>1, <2>1, AskedKnows DEF Told
  <2>2. CASE ~ wired.reloads
    BY <1>1, <2>2 DEF Told, DialogsInv, NewestKnows
  <2> QED BY <2>1, <2>2
<1>3. heard' \subseteq DOMAIN changes
  BY <1>1 DEF Told
<1>4. /\ wired.closes => opening' = [opening EXCEPT !.open = FALSE] /\ form' = (IF wired.remounts THEN Fresh(0) ELSE state)
      /\ ~ wired.closes => opening' = opening /\ form' = state
  BY DEF Told, Remounted
<1>5. /\ Fresh(0) \in [instance : Nat, busy : BOOLEAN, answer : Nat]
      /\ [opening EXCEPT !.open = FALSE] \in [n : Nat, open : BOOLEAN]
      /\ [opening EXCEPT !.open = FALSE].n = opening.n /\ ~ [opening EXCEPT !.open = FALSE].open
  BY <1>1 DEF Fresh
<1>6. CASE wired.closes
  BY <1>2, <1>3, <1>4, <1>5, <1>6
<1>7. CASE ~ wired.closes
  BY <1>1, <1>2, <1>3, <1>4, <1>7
<1> QED BY <1>6, <1>7

LEMMA AnswerArrivesKeeps == ASSUME DialogsInv, NEW c \in calls, AnswerArrives(c) PROVE DialogsInv'
<1>1. /\ UNCHANGED <<wired, route, section, presses, changes, unclean>>
      /\ c.awaited /\ c.server = "did" /\ calls' = calls \ {c}
      /\ c.change \in DOMAIN changes /\ changes[c.change].opening = c.opening /\ c.change \in Nat
      /\ wired.remounts => c.instance = c.opening /\ c.opening > 0 /\ form.instance = IF opening.open THEN opening.n ELSE 0
      /\ ~ wired.remounts => c.instance = 0 /\ form.instance = 0
      /\ c.opening \in Nat
  BY DEF AnswerArrives, DialogsInv, AnswersRight, MountedFor, DialogsShape, RequestRecords
<1>2. /\ Freed(c) \in [instance : Nat, busy : BOOLEAN, answer : Nat]
      /\ Freed(c).instance = form.instance /\ Freed(c).answer = form.answer
      /\ c.instance = form.instance => ~ Freed(c).busy
  BY FreedTyped DEF DialogsInv
<1>3. ~ wired.remounts /\ ~ unclean => \A d \in calls' : ~ d.awaited
  BY <1>1 DEF DialogsInv, InOrder
<1>4. KeysApart'
  BY <1>1 DEF DialogsInv, KeysApart
<1>5. CASE wired.dialog.shows
  <2> DEFINE shown == [Freed(c) EXCEPT !.answer = c.change]
  <2>1. /\ form' = IF c.instance = form.instance THEN shown ELSE form
        /\ UNCHANGED <<opening, newest, loads, heard>>
    BY <1>5 DEF AnswerArrives
  <2>2. /\ shown \in [instance : Nat, busy : BOOLEAN, answer : Nat] /\ shown.instance = form.instance
        /\ shown.answer = c.change /\ shown.busy = Freed(c).busy
    BY <1>1, <1>2
  <2> HIDE DEF shown
  <2>3. form' \in [instance : Nat, busy : BOOLEAN, answer : Nat] /\ form'.instance = form.instance
    BY <2>1, <2>2 DEF DialogsInv, DialogsShape
  <2>4. DialogsShape' /\ NewestKnows'
    BY <1>1, <2>1, <2>3 DEF DialogsInv, DialogsShape, NewestKnows
  <2>5. MountedFor'
    BY <1>1, <2>1, <2>3 DEF DialogsInv, MountedFor
  <2>6. AnswersRight'
    BY <1>1, <1>5, <2>1, <2>2 DEF DialogsInv, AnswersRight
  <2>7. InOrder'
    <3> SUFFICES ASSUME ~ wired.remounts, ~ unclean PROVE InOrder'
      BY <1>1 DEF InOrder
    <3>1. form' = shown /\ ~ form'.busy /\ opening.open /\ c.opening = opening.n
      BY <1>1, <1>2, <2>1, <2>2 DEF DialogsInv, InOrder
    <3> QED BY <1>1, <1>3, <2>1, <2>2, <3>1 DEF InOrder
  <2> QED BY <1>4, <2>4, <2>5, <2>6, <2>7 DEF DialogsInv
<1>6. CASE ~ wired.dialog.shows
  <2>1. Told(c.change, Freed(c))
    BY <1>6 DEF AnswerArrives
  <2>2. /\ heard' \subseteq DOMAIN changes /\ newest' \in Nat /\ loads' \subseteq LoadRecords
        /\ NewestKnows'
        /\ opening' \in [n : Nat, open : BOOLEAN] /\ opening'.n = opening.n
        /\ form' \in [instance : Nat, busy : BOOLEAN, answer : Nat]
        /\ wired.closes => ~ opening'.open /\ form' = (IF wired.remounts THEN Fresh(0) ELSE Freed(c))
        /\ ~ wired.closes => opening' = opening /\ form' = Freed(c)
    BY <1>1, <1>2, <2>1, ToldShape
  <2>3. form'.answer = 0
    BY <1>2, <1>6, <2>2 DEF DialogsInv, AnswersRight, DialogsShape, Fresh
  <2>4. DialogsShape'
    BY <1>1, <2>2 DEF DialogsInv, DialogsShape
  <2>5. MountedFor'
    BY <1>1, <1>2, <2>2 DEF DialogsInv, MountedFor, Fresh
  <2>6. AnswersRight'
    BY <1>1, <2>3 DEF DialogsInv, AnswersRight
  <2>7. InOrder'
    BY <1>1, <1>3, <2>3 DEF InOrder
  <2> QED BY <1>4, <2>2, <2>4, <2>5, <2>6, <2>7 DEF DialogsInv
<1> QED BY <1>5, <1>6

LEMMA DoneKeeps == ASSUME DialogsInv, Done PROVE DialogsInv'
<1> DEFINE state == IF wired.dialog.clears THEN Cleared(form) ELSE form
<1>1. /\ UNCHANGED <<wired, route, section, calls, presses, changes>>
      /\ opening.open /\ form.answer > 0 /\ Told(form.answer, state)
      /\ unclean' = (unclean \/ ~ wired.dialog.clears)
      /\ form.answer \in DOMAIN changes
  BY DEF Done, DialogsInv, AnswersRight
<1>2. /\ form \in [instance : Nat, busy : BOOLEAN, answer : Nat] /\ unclean \in BOOLEAN
      /\ wired.dialog.frees \in BOOLEAN /\ wired.dialog.clears \in BOOLEAN
  BY DEF DialogsInv, DialogsShape, Wirings, Dressed
<1>3. /\ state \in [instance : Nat, busy : BOOLEAN, answer : Nat] /\ state.instance = form.instance
      /\ wired.dialog.clears => state.answer = 0
      /\ ~ wired.dialog.clears => state = form
  BY <1>2 DEF Cleared
<1> HIDE DEF state
<1>4. /\ heard' \subseteq DOMAIN changes /\ newest' \in Nat /\ loads' \subseteq LoadRecords
      /\ NewestKnows'
      /\ opening' \in [n : Nat, open : BOOLEAN] /\ opening'.n = opening.n
      /\ form' \in [instance : Nat, busy : BOOLEAN, answer : Nat]
      /\ wired.closes => ~ opening'.open /\ form' = (IF wired.remounts THEN Fresh(0) ELSE state)
      /\ ~ wired.closes => opening' = opening /\ form' = state
  BY <1>1, <1>3, ToldShape
<1>5. unclean' \in BOOLEAN /\ (~ unclean' => ~ unclean /\ wired.dialog.clears)
  BY <1>1, <1>2
<1>6. DialogsShape'
  BY <1>1, <1>4, <1>5 DEF DialogsInv, DialogsShape
<1>7. MountedFor' /\ KeysApart'
  BY <1>1, <1>3, <1>4 DEF DialogsInv, MountedFor, KeysApart, Fresh
<1>8. AnswersRight'
  BY <1>1, <1>3, <1>4 DEF DialogsInv, AnswersRight, Fresh
<1>9. InOrder'
  <2> SUFFICES ASSUME ~ wired.remounts, ~ unclean' PROVE InOrder'
    BY <1>1 DEF InOrder
  <2>1. ~ form.busy /\ \A c \in calls : ~ c.awaited
    BY <1>1, <1>5 DEF DialogsInv, InOrder
  <2>2. form'.answer = 0
    BY <1>3, <1>4, <1>5
  <2> QED BY <1>1, <2>1, <2>2 DEF InOrder
<1> QED BY <1>4, <1>6, <1>7, <1>8, <1>9 DEF DialogsInv

-----------------------------------------------------------------------------
(* The invariant, and what follows from it.                                *)

LEMMA DialogsInvInit == DialogsInit => DialogsInv
<1> SUFFICES ASSUME DialogsInit PROVE DialogsInv
  OBVIOUS
<1>1. /\ wired \in Wirings /\ (wired.dialog.keyed => wired.remounts)
      /\ calls = {} /\ changes = <<>> /\ DOMAIN changes = {} /\ changes \in Seq(ChangeRecords)
      /\ presses = 0 /\ newest = 1 /\ heard = {} /\ unclean = FALSE /\ route \in Routes
      /\ form.instance = 0 /\ form.answer = 0 /\ form \in [instance : Nat, busy : BOOLEAN, answer : Nat]
      /\ opening.open = FALSE /\ opening \in [n : Nat, open : BOOLEAN]
      /\ loads = {LoadOf(1, route)} /\ LoadOf(1, route) \in LoadRecords
      /\ LoadOf(1, route).id = 1 /\ LoadOf(1, route).route = route /\ LoadOf(1, route).at = "asked"
      /\ section.state = "loading" /\ section \in [state : {"loading", "ready", "error"}, route : Routes, seen : Nat]
  BY WiringsKnown DEF DialogsInit, Fresh, LoadOf, LoadRecords
<1>2. DialogsShape
  BY <1>1 DEF DialogsShape
<1>a. NewestKnows
  <2> DEFINE load == LoadOf(1, route)
  <2>1. loads = {load} /\ load.id = 1 /\ load.route = route /\ load.at = "asked" /\ newest = 1
        /\ section.state = "loading"
    BY <1>1
  <2> HIDE DEF load
  <2> QED BY <2>1 DEF NewestKnows
<1>3. MountedFor /\ KeysApart /\ AnswersRight /\ InOrder
  BY <1>1 DEF MountedFor, KeysApart, AnswersRight, InOrder
<1> QED BY <1>2, <1>3, <1>a DEF DialogsInv

LEMMA DialogsInvStep == DialogsInv /\ [DialogsNext]_dialogsVars => DialogsInv'
<1> SUFFICES ASSUME DialogsInv, [DialogsNext]_dialogsVars PROVE DialogsInv'
  OBVIOUS
<1>1. ASSUME NEW l \in loads, LoadServed(l) \/ LoadArrives(l) \/ LoadFails(l) PROVE DialogsInv'
  BY <1>1, LoadServedKeeps, LoadEndsKeeps DEF LoadArrives, LoadFails
<1>2. CASE Refresh \/ Navigate
  BY <1>2, RefreshKeeps, NavigateKeeps
<1>3. CASE Open \/ Press \/ Close \/ Done
  BY <1>3, OpenKeeps, PressKeeps, CloseKeeps, DoneKeeps
<1>4. ASSUME NEW c \in calls, CallServed(c) \/ AnswerArrives(c) \/ CallFails(c) PROVE DialogsInv'
  BY <1>4, CallServedKeeps, AnswerArrivesKeeps, CallFailsKeeps
<1>5. CASE UNCHANGED dialogsVars
  <2>1. UNCHANGED <<wired, route, opening, form, section, newest, loads, calls, presses, changes, heard, unclean>>
    BY <1>5 DEF dialogsVars, clientVars
  <2>2. DialogsShape' /\ NewestKnows'
    BY <2>1 DEF DialogsInv, DialogsShape, NewestKnows
  <2> QED BY <2>1, <2>2, DialogRests DEF DialogsInv
<1> QED BY <1>1, <1>2, <1>3, <1>4, <1>5 DEF DialogsNext

LEMMA DialogsAlways == DialogsSpec => []DialogsInv
BY DialogsInvInit, DialogsInvStep, PTL DEF DialogsSpec

\* Once the newest read of a page has been answered, the rows are those of its
\* project and hold every change the page was told of (hooks.ts:78-82).
THEOREM HeardIsShownAlways == DialogsSpec => []HeardIsShown
<1>1. DialogsInv => HeardIsShown
  BY DEF DialogsInv, NewestKnows, HeardIsShown
<1> QED BY <1>1, DialogsAlways, PTL

\* One opening of a dialog with a key asks for one deployment; a dialog that is
\* mounted anew for an opening shows only an answer to a request of that opening,
\* and so does one that is not, unless an earlier opening ended with its answer
\* shown or its request under way (pages.tsx:1642-1644).
THEOREM OpeningsKeepApartAlways == DialogsSpec => []OpeningsKeepApart
<1>1. ASSUME DialogsInv PROVE OpeningsKeepApart
  <2>1. OpeningAsksOnce
    BY <1>1 DEF DialogsInv, KeysApart, OpeningAsksOnce
  <2>2. AnswersOwnOpening
    BY <1>1 DEF DialogsInv, AnswersRight, InOrder, AnswersOwnOpening
  <2> QED BY <2>1, <2>2 DEF OpeningsKeepApart
<1> QED BY <1>1, DialogsAlways, PTL

-----------------------------------------------------------------------------
(* The type of the dialogs.  A request changes the server at most once, so *)
(* the changes and the requests not served yet are no more than those sent.*)

Waiting(requests) == {c \in requests : c.server = "asked"}

DialogsBounds ==
  /\ wired \in DialogsOfPages
  /\ opening.n <= MaxOpenings
  /\ \A c \in calls : c.server = "refused" => c.change = 0
  /\ IsFiniteSet(calls)
  /\ presses <= MaxPresses
  /\ Len(changes) + Cardinality(Waiting(calls)) <= presses

\* How many requests wait when one is put in the place of another.
LEMMA WaitingCount ==
  ASSUME NEW requests, IsFiniteSet(requests), NEW d, NEW c
  PROVE  /\ Cardinality(Waiting(requests)) \in Nat
         /\ IsFiniteSet(requests \ {c}) /\ IsFiniteSet((requests \ {c}) \cup {d})
         /\ Cardinality(Waiting(requests \ {c})) <= Cardinality(Waiting(requests))
         /\ Cardinality(Waiting(requests \cup {d})) <= Cardinality(Waiting(requests)) + 1
         /\ c \in Waiting(requests) =>
              /\ Cardinality(Waiting(requests \ {c})) = Cardinality(Waiting(requests)) - 1
              /\ Cardinality(Waiting((requests \ {c}) \cup {d})) <= Cardinality(Waiting(requests))
              /\ d.server # "asked" =>
                   Cardinality(Waiting((requests \ {c}) \cup {d})) = Cardinality(Waiting(requests)) - 1
<1> DEFINE W == Waiting(requests)
<1>1. IsFiniteSet(W) /\ Cardinality(W) \in Nat
  <2>1. W \subseteq requests
    BY DEF Waiting
  <2> QED BY <2>1, FS_Subset, FS_CardinalityType
<1>2. IsFiniteSet(requests \ {c}) /\ IsFiniteSet((requests \ {c}) \cup {d})
  BY FS_RemoveElement, FS_AddElement
<1>3. Waiting(requests \ {c}) = W \ {c}
  BY DEF Waiting
<1>4. Waiting(requests \cup {d}) = (IF d.server = "asked" THEN W \cup {d} ELSE W)
  BY DEF Waiting
<1>5. Waiting((requests \ {c}) \cup {d}) = (IF d.server = "asked" THEN (W \ {c}) \cup {d} ELSE W \ {c})
  BY DEF Waiting
<1> HIDE DEF W
<1>6. /\ IsFiniteSet(W \ {c})
      /\ Cardinality(W \ {c}) = IF c \in W THEN Cardinality(W) - 1 ELSE Cardinality(W)
  BY <1>1, FS_RemoveElement
<1>7. ASSUME NEW S, IsFiniteSet(S)
      PROVE  Cardinality(S) \in Nat /\ Cardinality(S \cup {d}) <= Cardinality(S) + 1
  <2>1. Cardinality(S) \in Nat
    BY <1>7, FS_CardinalityType
  <2>2. Cardinality(S \cup {d}) = IF d \in S THEN Cardinality(S) ELSE Cardinality(S) + 1
    BY <1>7, FS_AddElement
  <2> QED BY <2>1, <2>2
<1>8. /\ Cardinality(W \cup {d}) <= Cardinality(W) + 1
      /\ Cardinality((W \ {c}) \cup {d}) <= Cardinality(W \ {c}) + 1
      /\ Cardinality(W \ {c}) \in Nat /\ Cardinality(W \ {c}) <= Cardinality(W)
      /\ c \in W => Cardinality(W \ {c}) = Cardinality(W) - 1
  BY <1>1, <1>6, <1>7
<1>9. Cardinality(Waiting(requests \cup {d})) <= Cardinality(W) + 1
  BY <1>1, <1>4, <1>8
<1>10. ASSUME c \in W PROVE Cardinality(Waiting((requests \ {c}) \cup {d})) <= Cardinality(W)
  <2>1. CASE d.server = "asked"
    <3>1. Waiting((requests \ {c}) \cup {d}) = (W \ {c}) \cup {d}
      BY <1>5, <2>1
    <3>2. PICK n \in Nat : n = Cardinality((W \ {c}) \cup {d})
      <4>1. Cardinality((W \ {c}) \cup {d}) \in Nat
        BY <1>6, FS_AddElement, FS_CardinalityType
      <4> QED BY <4>1
    <3>3. PICK w \in Nat : w = Cardinality(W)
      BY <1>1
    <3>4. PICK v \in Nat : v = Cardinality(W \ {c})
      BY <1>8
    <3>5. n <= v + 1
      BY <1>8, <3>2, <3>4, Zenon
    <3>6. v = w - 1
      BY <1>8, <1>10, <3>3, <3>4, Zenon
    <3>7. n <= w
      BY <3>5, <3>6
    <3> QED BY <3>1, <3>2, <3>3, <3>7
  <2>2. CASE d.server # "asked"
    BY <1>1, <1>5, <1>8, <1>10, <2>2
  <2> QED BY <2>1, <2>2
<1>11. c \in W /\ d.server # "asked" =>
         Cardinality(Waiting((requests \ {c}) \cup {d})) = Cardinality(W) - 1
  BY <1>5, <1>8
<1> QED BY <1>1, <1>2, <1>3, <1>8, <1>9, <1>10, <1>11 DEF W

\* What a served request leaves.
LEMMA ServedOnce ==
  ASSUME DialogsInv, DialogsBounds, NEW c \in calls, CallServed(c)
  PROVE  /\ UNCHANGED <<wired, opening, presses>>
         /\ \A d \in calls' : d.server = "refused" => d.change = 0
         /\ IsFiniteSet(calls')
         /\ Cardinality(Waiting(calls')) = Cardinality(Waiting(calls)) - 1
         /\ Len(changes') <= Len(changes) + 1 /\ Len(changes') \in Nat
<1> DEFINE same == {k \in DOMAIN changes : changes[k].key = c.key}
           does(k) == [c EXCEPT !.server = "did", !.change = k]
<1>0. /\ UNCHANGED <<wired, opening, presses>> /\ c.server = "asked" /\ c \in RequestRecords
      /\ Len(changes) \in Nat /\ changes \in Seq(ChangeRecords)
  BY ChangesTyped DEF CallServed, clientVars, DialogsInv, DialogsShape
<1>1. PICK outcome :
        /\ outcome = IF same = {} THEN does(Len(changes) + 1)
                     ELSE LET k == CHOOSE k \in same : TRUE
                          IN IF changes[k].route = c.route THEN does(k) ELSE [c EXCEPT !.server = "refused"]
        /\ calls' = (calls \ {c}) \cup (IF c.awaited THEN {outcome} ELSE {})
        /\ changes' = IF outcome.change > Len(changes)
                      THEN Append(changes, [key |-> c.key, opening |-> c.opening, route |-> c.route])
                      ELSE changes
  BY DEF CallServed
<1>2. \A k : does(k).server = "did"
  BY <1>0 DEF RequestRecords
<1>3. PICK no : no = [c EXCEPT !.server = "refused"] /\ no.server = "refused" /\ no.change = 0
  <2>1. c.change = 0
    BY <1>0 DEF DialogsInv, AnswersRight
  <2>2. [c EXCEPT !.server = "refused"].server = "refused" /\ [c EXCEPT !.server = "refused"].change = 0
    BY <1>0, <2>1 DEF RequestRecords
  <2> QED BY <2>2
<1> HIDE DEF does
<1>4. outcome.server = "did" \/ outcome = no
  BY <1>1, <1>2, <1>3
<1>5. outcome.server # "asked" /\ (outcome.server = "refused" => outcome.change = 0)
  BY <1>3, <1>4
<1>6. \A d \in calls' : d.server = "refused" => d.change = 0
  <2>1. \A d \in calls' : d = outcome \/ d \in calls
    BY <1>1
  <2> QED BY <1>5, <2>1 DEF DialogsBounds
<1>7. IsFiniteSet(calls') /\ Cardinality(Waiting(calls')) = Cardinality(Waiting(calls)) - 1
  <2>1. IsFiniteSet(calls) /\ c \in Waiting(calls)
    BY <1>0 DEF DialogsBounds, Waiting
  <2>2. CASE c.awaited
    <3>1. calls' = (calls \ {c}) \cup {outcome}
      BY <1>1, <2>2
    <3>2. /\ IsFiniteSet((calls \ {c}) \cup {outcome})
          /\ Cardinality(Waiting((calls \ {c}) \cup {outcome})) = Cardinality(Waiting(calls)) - 1
      BY <1>5, <2>1, WaitingCount
    <3> QED BY <3>1, <3>2
  <2>3. CASE ~ c.awaited
    <3>1. calls' = calls \ {c}
      BY <1>1, <2>3
    <3>2. /\ IsFiniteSet(calls \ {c})
          /\ Cardinality(Waiting(calls \ {c})) = Cardinality(Waiting(calls)) - 1
      BY <2>1, WaitingCount
    <3> QED BY <3>1, <3>2
  <2> QED BY <2>2, <2>3
<1>8. Len(changes') <= Len(changes) + 1 /\ Len(changes') \in Nat
  <2>1. PICK new : new = [key |-> c.key, opening |-> c.opening, route |-> c.route]
    OBVIOUS
  <2>2. Len(Append(changes, new)) = Len(changes) + 1
    BY <1>0
  <2>3. changes' = Append(changes, new) \/ changes' = changes
    BY <1>1, <2>1
  <2> QED BY <1>0, <2>2, <2>3
<1> QED BY <1>0, <1>6, <1>7, <1>8

\* A request that is answered or given up is no longer waited for.
LEMMA CallEndsBounded ==
  ASSUME DialogsInv, DialogsBounds, NEW c \in calls, AnswerArrives(c) \/ CallFails(c)
  PROVE  /\ UNCHANGED <<wired, presses, changes>>
         /\ opening'.n = opening.n
         /\ \A d \in calls' : d.server = "refused" => d.change = 0
         /\ IsFiniteSet(calls')
         /\ Cardinality(Waiting(calls')) <= Cardinality(Waiting(calls))
<1>1. UNCHANGED <<wired, presses, changes>> /\ c \in RequestRecords /\ IsFiniteSet(calls)
  BY DEF AnswerArrives, CallFails, DialogsInv, DialogsShape, DialogsBounds
<1>2. opening'.n = opening.n
  <2>1. opening' \in {opening, [opening EXCEPT !.open = FALSE]}
    BY DEF AnswerArrives, CallFails, Told
  <2> QED BY <2>1 DEF DialogsInv, DialogsShape
<1>3. PICK lost : lost = [c EXCEPT !.awaited = FALSE] /\ lost.server = c.server /\ lost.change = c.change
  <2>1. [c EXCEPT !.awaited = FALSE].server = c.server /\ [c EXCEPT !.awaited = FALSE].change = c.change
    BY <1>1 DEF RequestRecords
  <2> QED BY <2>1
<1>4. \/ calls' = calls \ {c}
      \/ c.server = "asked" /\ calls' = (calls \ {c}) \cup {lost}
  BY <1>3 DEF AnswerArrives, CallFails
<1>5. \A d \in calls' : d.server = "refused" => d.change = 0
  BY <1>3, <1>4 DEF DialogsBounds
<1>6. IsFiniteSet(calls') /\ Cardinality(Waiting(calls')) <= Cardinality(Waiting(calls))
  <2>1. CASE calls' = calls \ {c}
    <3>1. IsFiniteSet(calls \ {c}) /\ Cardinality(Waiting(calls \ {c})) <= Cardinality(Waiting(calls))
      BY <1>1, WaitingCount
    <3> QED BY <2>1, <3>1
  <2>2. CASE c.server = "asked" /\ calls' = (calls \ {c}) \cup {lost}
    <3>1. c \in Waiting(calls)
      BY <2>2 DEF Waiting
    <3>2. /\ IsFiniteSet((calls \ {c}) \cup {lost})
          /\ Cardinality(Waiting((calls \ {c}) \cup {lost})) <= Cardinality(Waiting(calls))
      BY <1>1, <3>1, WaitingCount
    <3> QED BY <2>2, <3>2
  <2> QED BY <1>4, <2>1, <2>2
<1> QED BY <1>1, <1>2, <1>5, <1>6

LEMMA DialogsBoundsStep == DialogsInv /\ DialogsBounds /\ [DialogsNext]_dialogsVars => DialogsBounds'
<1> SUFFICES ASSUME DialogsInv, DialogsBounds, [DialogsNext]_dialogsVars PROVE DialogsBounds'
  OBVIOUS
<1>1. /\ opening \in [n : Nat, open : BOOLEAN] /\ opening.n \in Nat /\ presses \in Nat /\ Len(changes) \in Nat
      /\ IsFiniteSet(calls) /\ Cardinality(Waiting(calls)) \in Nat
      /\ Len(changes) + Cardinality(Waiting(calls)) <= presses /\ presses <= MaxPresses
      /\ MaxPresses \in Nat /\ MaxOpenings \in Nat
  BY ChangesTyped, WaitingCount, DialogsAssumption
     DEF DialogsInv, DialogsShape, DialogsBounds, DialogsAssumption
<1>2. CASE UNCHANGED <<wired, presses, changes, calls>> /\ (opening'.n = opening.n \/ opening'.n <= MaxOpenings)
  BY <1>2 DEF DialogsBounds
<1>3. CASE Press
  <2>1. PICK call :
          /\ calls' = calls \cup {call} /\ call.server = "asked"
          /\ presses' = presses + 1 /\ presses < MaxPresses /\ UNCHANGED <<wired, opening, changes>>
    BY <1>3 DEF Press
  <2>2. IsFiniteSet(calls') /\ Cardinality(Waiting(calls')) \in Nat
    <3>1. IsFiniteSet(calls')
      BY <1>1, <2>1, FS_AddElement
    <3> QED BY <3>1, WaitingCount
  <2>3. Cardinality(Waiting(calls')) <= Cardinality(Waiting(calls)) + 1
    BY <1>1, <2>1, WaitingCount
  <2>4. Len(changes) + Cardinality(Waiting(calls')) <= presses + 1 /\ presses + 1 <= MaxPresses
    BY <1>1, <2>1, <2>2, <2>3
  <2> QED BY <2>1, <2>2, <2>4 DEF DialogsBounds
<1>4. ASSUME NEW c \in calls, CallServed(c) PROVE DialogsBounds'
  <2>1. /\ UNCHANGED <<wired, opening, presses>>
        /\ \A d \in calls' : d.server = "refused" => d.change = 0
        /\ IsFiniteSet(calls')
        /\ Cardinality(Waiting(calls')) = Cardinality(Waiting(calls)) - 1
        /\ Len(changes') <= Len(changes) + 1 /\ Len(changes') \in Nat
    BY <1>4, ServedOnce
  <2>2. Len(changes') + Cardinality(Waiting(calls')) <= presses
    BY <1>1, <2>1
  <2> QED BY <2>1, <2>2 DEF DialogsBounds
<1>5. ASSUME NEW c \in calls, AnswerArrives(c) \/ CallFails(c) PROVE DialogsBounds'
  <2>1. /\ UNCHANGED <<wired, presses, changes>> /\ opening'.n = opening.n
        /\ \A d \in calls' : d.server = "refused" => d.change = 0
        /\ IsFiniteSet(calls')
        /\ Cardinality(Waiting(calls')) <= Cardinality(Waiting(calls))
    BY <1>5, CallEndsBounded
  <2>2. Cardinality(Waiting(calls')) \in Nat
    BY <2>1, WaitingCount
  <2>3. Len(changes) + Cardinality(Waiting(calls')) <= presses
    BY <1>1, <2>1, <2>2
  <2> QED BY <2>1, <2>3 DEF DialogsBounds
<1>6. CASE Open
  <2>1. opening'.n = opening.n + 1 /\ opening.n < MaxOpenings /\ UNCHANGED <<wired, presses, changes, calls>>
    BY <1>6 DEF Open
  <2> QED BY <1>1, <1>2, <2>1
<1>7. CASE Close \/ Done
  <2>1. opening' \in {opening, [opening EXCEPT !.open = FALSE]} /\ UNCHANGED <<wired, presses, changes, calls>>
    BY <1>7 DEF Close, Done, Told
  <2>2. opening'.n = opening.n
    BY <1>1, <2>1
  <2> QED BY <1>2, <2>1, <2>2
<1>8. CASE Refresh \/ Navigate \/ \E l \in loads : LoadServed(l) \/ LoadArrives(l) \/ LoadFails(l)
  BY <1>2, <1>8 DEF Refresh, Navigate, LoadServed, LoadArrives, LoadFails, LoadEnds
<1>9. CASE UNCHANGED dialogsVars
  BY <1>2, <1>9 DEF dialogsVars, clientVars
<1> QED BY <1>3, <1>4, <1>5, <1>6, <1>7, <1>8, <1>9 DEF DialogsNext

LEMMA DialogsBoundsInit == DialogsInit => DialogsBounds
<1> SUFFICES ASSUME DialogsInit PROVE DialogsBounds
  OBVIOUS
<1>1. wired \in DialogsOfPages /\ opening.n = 0 /\ calls = {} /\ presses = 0 /\ Len(changes) = 0
  BY DEF DialogsInit
<1>2. Waiting({}) = {} /\ IsFiniteSet({}) /\ Cardinality({}) = 0
  BY FS_EmptySet DEF Waiting
<1>3. 0 <= MaxOpenings /\ 0 <= MaxPresses
  BY DialogsAssumption DEF DialogsAssumption
<1> QED BY <1>1, <1>2, <1>3 DEF DialogsBounds

LEMMA DialogsTyped == DialogsInv /\ DialogsBounds => DialogsType
<1> SUFFICES ASSUME DialogsInv, DialogsBounds PROVE DialogsType
  OBVIOUS
<1>1. Len(changes) \in Nat /\ DOMAIN changes = 1 .. Len(changes)
  BY ChangesTyped DEF DialogsInv
<1>2. /\ opening \in [n : Nat, open : BOOLEAN] /\ opening.n \in 0 .. MaxOpenings
      /\ form \in [instance : Nat, busy : BOOLEAN, answer : Nat]
  BY DialogsAssumption DEF DialogsInv, DialogsShape, DialogsBounds, DialogsAssumption
<1>3. opening \in [n : 0 .. MaxOpenings, open : BOOLEAN]
  BY <1>2
<1>4. form.instance \in 0 .. MaxOpenings
  <2>1. form.instance = 0 \/ form.instance = opening.n
    BY DEF DialogsInv, MountedFor
  <2> QED BY <1>2, <2>1, DialogsAssumption DEF DialogsAssumption
<1>5. form.answer \in 0 .. Len(changes)
  BY <1>1, <1>2 DEF DialogsInv, AnswersRight
<1>6. form \in [instance : 0 .. MaxOpenings, busy : BOOLEAN, answer : 0 .. Len(changes)]
  BY <1>2, <1>4, <1>5
<1>7. \A c \in calls : c.press <= presses /\ c.change \in 0 .. Len(changes)
  <2>1. ASSUME NEW c \in calls PROVE c.change \in 0 .. Len(changes)
    <3>1. c.server \in {"asked", "did", "refused"}
      BY DEF DialogsInv, DialogsShape, RequestRecords
    <3>2. c.server # "did" => c.change = 0
      BY <3>1 DEF DialogsInv, AnswersRight, DialogsBounds
    <3>3. c.server = "did" => c.change \in 1 .. Len(changes)
      BY <1>1 DEF DialogsInv, AnswersRight
    <3> QED BY <1>1, <3>2, <3>3
  <2> QED BY <2>1 DEF DialogsInv, MountedFor
<1>8. Len(changes) <= MaxPresses
  <2>1. /\ Cardinality(Waiting(calls)) \in Nat /\ presses \in Nat /\ presses <= MaxPresses
        /\ Len(changes) + Cardinality(Waiting(calls)) <= presses /\ MaxPresses \in Nat
    BY WaitingCount, DialogsAssumption DEF DialogsInv, DialogsShape, DialogsBounds, DialogsAssumption
  <2> QED BY <1>1, <2>1
<1>9. /\ route \in Routes /\ heard \subseteq DOMAIN changes
      /\ section.state \in {"loading", "ready", "error"} /\ \A l \in loads : l.id <= newest
  BY DEF DialogsInv, DialogsShape, NewestKnows
<1> QED BY <1>3, <1>6, <1>7, <1>8, <1>9 DEF DialogsType, DialogsBounds

\* A page, its dialog, the requests under way and the changes they made fit each
\* other, and a request changes the server at most once, however often an answer is
\* lost (pages.tsx:1642-1644, hooks.ts:78-118).
THEOREM DialogsTypeAlways == DialogsSpec => []DialogsType
<1>1. DialogsInit => DialogsInv /\ DialogsBounds
  BY DialogsInvInit, DialogsBoundsInit
<1>2. DialogsInv /\ DialogsBounds /\ [DialogsNext]_dialogsVars => DialogsInv' /\ DialogsBounds'
  BY DialogsInvStep, DialogsBoundsStep
<1> QED BY <1>1, <1>2, DialogsTyped, PTL DEF DialogsSpec

-----------------------------------------------------------------------------
(* The list of deployments.  A page is a stretch of the history from its   *)
(* newest row down, and a short one reaches the oldest row.  What is in    *)
(* memory is a stretch, an older page that is waited for continues it, and *)
(* nothing is in memory while the newest page is read.                     *)

\* n rows from row top down.
Down(top, n) == [k \in 1..n |-> top + 1 - k]

Stretch(s) == \E top, n \in Nat : n <= top /\ s = Down(top, n)

\* A page that follows row before, or the newest one.
FromRow(before, page) ==
  /\ Stretch(page)
  /\ Len(page) < PageSize /\ page # <<>> => Last(page) = 1
  /\ before > 0 => IF page = <<>> THEN before = 1 ELSE page[1] = before - 1

FirstReads ==
  /\ first.at \in {"none", "asked", "answered", "failed"}
  /\ first.at = "asked" => first = AskedFor(0)
  /\ first.at = "answered" => FromRow(0, first.page)
  /\ first.at = "failed" => first.page = <<>>

MoreReads ==
  /\ more.at \in {"none", "asked", "answered", "failed"}
  /\ more.at = "asked" => more = AskedFor(more.before)
  /\ more.at # "none" => more.before \in Nat \ {0}
  /\ more.at = "answered" => FromRow(more.before, more.page)
  /\ more.at = "failed" => more.page = <<>>

MoreContinues ==
  more.at # "none" /\ ~ list.stale =>
    first.at = "none" /\ list.items # <<>> /\ more.before = Last(list.items)

ListShape ==
  /\ made \in Nat /\ missed \in BOOLEAN
  /\ list \in [state : {"loading", "ready", "error"}, shown : Seq(Nat), items : Seq(Nat),
               more : BOOLEAN, stale : BOOLEAN]
  /\ Stretch(list.shown) /\ Stretch(list.items)
  /\ IF first.at = "none" THEN list.shown = list.items
     ELSE list.items = <<>> /\ ~ list.more

ListInv == ListShape /\ FirstReads /\ MoreReads /\ MoreContinues /\ EndIsTheEnd

LEMMA DownShape ==
  ASSUME NEW top \in Nat, NEW n \in Nat, n <= top
  PROVE  /\ Down(top, n) \in Seq(Nat) /\ Len(Down(top, n)) = n
         /\ \A k \in 1..n : Down(top, n)[k] = top + 1 - k
         /\ (Down(top, n) = <<>>) <=> n = 0
BY DEF Down

\* What a concatenation holds.
LEMMA ConcatShape ==
  ASSUME NEW S, NEW s \in Seq(S), NEW t \in Seq(S)
  PROVE  /\ s \o t \in Seq(S) /\ Len(s \o t) = Len(s) + Len(t)
         /\ \A k \in 1..Len(s) : (s \o t)[k] = s[k]
         /\ \A k \in 1..Len(t) : (s \o t)[Len(s) + k] = t[k]
OBVIOUS

\* Two stretches of which one continues the other are one.
LEMMA DownConcat ==
  ASSUME NEW top \in Nat, NEW n \in Nat, NEW m \in Nat, n + m <= top
  PROVE  Down(top, n) \o Down(top - n, m) = Down(top, n + m)
<1> DEFINE s == Down(top, n)
           t == Down(top - n, m)
<1>1. /\ s \in Seq(Nat) /\ Len(s) = n /\ \A k \in 1..n : s[k] = top + 1 - k
      /\ t \in Seq(Nat) /\ Len(t) = m /\ \A k \in 1..m : t[k] = top - n + 1 - k
  BY DownShape, SMTT(40)
<1> HIDE DEF s, t
<1>2. s \o t \in Seq(Nat) /\ Len(s \o t) = n + m
  BY <1>1, ConcatShape
<1>3. \A k \in 1..(n + m) : (s \o t)[k] = top + 1 - k
  <2>1. ASSUME NEW k \in 1..n PROVE (s \o t)[k] = top + 1 - k
    BY <1>1, ConcatShape
  <2>2. ASSUME NEW k \in 1..m PROVE (s \o t)[n + k] = top + 1 - (n + k)
    <3>1. (s \o t)[n + k] = t[k]
      <4>1. s \in Seq(Nat) /\ t \in Seq(Nat) /\ n = Len(s) /\ k \in 1..Len(t)
        BY <1>1
      <4> QED BY <4>1, ConcatShape
    <3>2. t[k] = top - n + 1 - k
      BY <1>1
    <3>3. top - n + 1 - k = top + 1 - (n + k)
      OBVIOUS
    <3> QED BY <3>1, <3>2, <3>3
  <2>3. ASSUME NEW k \in 1..(n + m), k > n PROVE (s \o t)[k] = top + 1 - k
    <3>1. k - n \in 1..m /\ n + (k - n) = k
      BY <2>3
    <3> QED BY <2>2, <3>1
  <2>4. \A k \in 1..(n + m) : k \in 1..n \/ k > n
    OBVIOUS
  <2> QED BY <2>1, <2>3, <2>4
<1>4. s \o t = [k \in 1..(n + m) |-> top + 1 - k]
  <2>1. ASSUME NEW u \in Seq(Nat), NEW l \in Nat, Len(u) = l
        PROVE  u = [k \in 1..l |-> u[k]]
    BY <2>1
  <2>2. n + m \in Nat
    OBVIOUS
  <2>3. s \o t = [k \in 1..(n + m) |-> (s \o t)[k]]
    BY <1>2, <2>1, <2>2
  <2> QED BY <1>3, <2>3
<1> QED BY <1>4 DEF Down, s, t

LEMMA EmptyStretch == Stretch(<<>>)
<1>1. Down(0, 0) = <<>>
  BY DEF Down
<1> QED BY <1>1 DEF Stretch

LEMMA StretchShape ==
  ASSUME NEW s, Stretch(s)
  PROVE  /\ s \in Seq(Nat)
         /\ \A k \in 1..Len(s) - 1 : s[k + 1] = s[k] - 1
         /\ s # <<>> => /\ Last(s) \in Nat \ {0}
                        /\ \A k \in 1..Len(s) : s[k] >= Last(s)
<1>1. PICK top, n \in Nat : n <= top /\ s = Down(top, n)
  BY DEF Stretch
<1>2. s \in Seq(Nat) /\ Len(s) = n /\ \A k \in 1..n : s[k] = top + 1 - k
  BY <1>1, DownShape
<1>3. s # <<>> => n \in 1..top
  BY <1>1, DownShape
<1> QED BY <1>2, <1>3 DEF Last

\* What the server reads for a page.
LEMMA PageFromRow ==
  ASSUME made \in Nat, NEW before \in Nat
  PROVE  FromRow(before, PageBefore(before))
<1> DEFINE last == IF before = 0 THEN made ELSE before - 1
           size == IF last < PageSize THEN last ELSE PageSize
<1>1. last \in Nat /\ size \in Nat /\ size <= last /\ PageSize \in Nat \ {0}
  BY PageAssumption DEF PageAssumption
<1>2. PageBefore(before) = Down(last, size)
  BY DEF PageBefore, Down
<1> HIDE DEF last, size
<1>3. PICK p : p = PageBefore(before)
  OBVIOUS
<1>4. p \in Seq(Nat) /\ Len(p) = size /\ \A k \in 1..size : p[k] = last + 1 - k
  BY <1>1, <1>2, <1>3, DownShape, ZenonT(60)
<1>5. Stretch(p)
  BY <1>1, <1>2, <1>3 DEF Stretch
<1>6. Len(p) < PageSize /\ p # <<>> => Last(p) = 1
  BY <1>1, <1>4 DEF Last, size
<1>7. before > 0 => IF p = <<>> THEN before = 1 ELSE p[1] = before - 1
  BY <1>1, <1>4 DEF last, size
<1> QED BY <1>3, <1>5, <1>6, <1>7 DEF FromRow

\* A page none of whose rows is in memory is appended whole.
LEMMA UnseenWhole ==
  ASSUME NEW page \in Seq(Nat), \A k \in 1..Len(page) : ~ Contains(list.items, page[k])
  PROVE  Unseen(page) = page
<1> DEFINE new == {k \in DOMAIN page : ~ Contains(list.items, page[k])}
           Nth(n) == CHOOSE k \in new : Cardinality({i \in new : i < k}) = n - 1
<1>1. new = 1..Len(page) /\ Len(page) \in Nat
  OBVIOUS
<1> HIDE DEF new
<1>2. Cardinality(new) = Len(page)
  <2>1. Cardinality(1..Len(page)) = Len(page)
    BY <1>1, FS_Interval
  <2> QED BY <1>1, <2>1
<1>3. ASSUME NEW n \in 1..Len(page) PROVE Nth(n) = n
  <2>1. ASSUME NEW k \in 1..Len(page) PROVE Cardinality({i \in new : i < k}) = k - 1
    <3>1. {i \in new : i < k} = 1..(k - 1)
      BY <1>1
    <3>2. Cardinality(1..(k - 1)) = k - 1
      BY <1>1, FS_Interval
    <3> QED BY <3>1, <3>2
  <2> QED BY <1>1, <2>1
<1>4. Unseen(page) = [n \in 1..Len(page) |-> page[Nth(n)]]
  BY <1>2 DEF Unseen, new
<1> HIDE DEF Nth
<1> QED BY <1>3, <1>4

\* An older page continues what is in memory, and nothing of it is there yet.
LEMMA OlderContinues ==
  ASSUME NEW s, Stretch(s), s # <<>>, s = list.items, NEW page, FromRow(Last(s), page)
  PROVE  /\ Unseen(page) = page /\ Stretch(s \o page) /\ s \o page # <<>>
         /\ Last(s \o page) = IF page = <<>> THEN 1 ELSE Last(page)
<1>1. PICK top, n \in Nat : n <= top /\ s = Down(top, n)
  BY DEF Stretch
<1>2. s \in Seq(Nat) /\ Len(s) = n /\ n # 0 /\ \A k \in 1..n : s[k] = top + 1 - k
  BY <1>1, DownShape, ZenonT(60)
<1>3. Last(s) = top + 1 - n
  BY <1>2 DEF Last
<1>4. PICK low, m \in Nat : m <= low /\ page = Down(low, m)
  BY DEF Stretch, FromRow
<1>5. /\ page \in Seq(Nat) /\ Len(page) = m /\ \A k \in 1..m : page[k] = low + 1 - k
      /\ page = <<>> <=> m = 0
  BY <1>4, DownShape
<1>6. IF m = 0 THEN top = n ELSE low = top - n
  <2>1. IF page = <<>> THEN Last(s) = 1 ELSE page[1] = Last(s) - 1
    BY <1>1, <1>3 DEF FromRow
  <2> QED BY <1>1, <1>3, <1>4, <1>5, <2>1
<1>7. Unseen(page) = page
  <2>1. ASSUME NEW k \in 1..m, NEW i \in 1..n PROVE s[i] # page[k]
    <3>1. s[i] = top + 1 - i /\ page[k] = low + 1 - k /\ low = top - n
      BY <1>2, <1>5, <1>6
    <3> QED BY <1>1, <1>4, <3>1
  <2> QED BY <1>2, <1>5, <2>1, UnseenWhole DEF Contains
<1>8. s \o page = Down(top, n + m) /\ n + m \in Nat /\ n + m <= top
  <2>1. CASE m = 0
    <3>1. page = <<>> /\ s \o page = s
      BY <1>2, <1>5, <2>1
    <3> QED BY <1>1, <2>1, <3>1
  <2>2. CASE m # 0
    <3>1. low = top - n /\ n + m <= top
      BY <1>1, <1>4, <1>6, <2>2
    <3>2. Down(top, n) \o Down(top - n, m) = Down(top, n + m)
      BY <1>1, <1>4, <3>1, DownConcat
    <3>3. s = Down(top, n) /\ page = Down(top - n, m)
      BY <1>1, <1>4, <3>1
    <3> QED BY <1>1, <1>4, <3>1, <3>2, <3>3
  <2> QED BY <2>1, <2>2
<1>9. Last(s \o page) = IF page = <<>> THEN 1 ELSE Last(page)
  BY <1>2, <1>3, <1>5, <1>6 DEF Last
<1> QED BY <1>2, <1>5, <1>7, <1>8, <1>9 DEF Stretch

\* The parts of the list's invariant, as a step leaves them.
LEMMA ListPut ==
  ASSUME ListShape, NEW l, list' = l,
         l \in [state : {"loading", "ready", "error"}, shown : Seq(Nat), items : Seq(Nat),
                more : BOOLEAN, stale : BOOLEAN],
         Stretch(l.shown), Stretch(l.items), made' \in Nat, missed' \in BOOLEAN,
         IF first'.at = "none" THEN l.shown = l.items ELSE l.items = <<>> /\ ~ l.more
  PROVE  ListShape'
BY DEF ListShape

LEMMA ListServedKeeps ==
  ASSUME ListInv, ListServed
  PROVE  ListInv'
<1>1. first = AskedFor(0) /\ made \in Nat
  BY DEF ListInv, ListShape, FirstReads, ListServed
<1>2. FromRow(0, PageBefore(0))
  BY <1>1, PageFromRow
<1>3. \/ first'.at = "answered" /\ first'.page = PageBefore(0)
      \/ first'.at = "failed" /\ first'.page = <<>>
  BY <1>1 DEF ListServed, AskedFor
<1>4. FirstReads'
  BY <1>2, <1>3 DEF FirstReads
<1>5. UNCHANGED <<made, list, more, missed>> /\ first.at # "none" /\ first'.at # "none"
  BY <1>3 DEF ListServed
<1> QED BY <1>4, <1>5 DEF ListInv, ListShape, MoreReads, MoreContinues, EndIsTheEnd

LEMMA OlderServedKeeps ==
  ASSUME ListInv, OlderServed
  PROVE  ListInv'
<1>1. more = AskedFor(more.before) /\ more.before \in Nat \ {0} /\ made \in Nat
  BY DEF ListInv, ListShape, MoreReads, OlderServed
<1>2. FromRow(more.before, PageBefore(more.before))
  BY <1>1, PageFromRow
<1>3. /\ \/ more'.at = "answered" /\ more'.page = PageBefore(more.before)
         \/ more'.at = "failed" /\ more'.page = <<>>
      /\ more'.before = more.before
  <2>1. PICK b : more = [at |-> "asked", before |-> b, page |-> <<>>]
    BY <1>1 DEF AskedFor
  <2> QED BY <2>1 DEF OlderServed
<1>4. MoreReads'
  BY <1>1, <1>2, <1>3 DEF MoreReads
<1>5. UNCHANGED <<made, list, first, missed>> /\ more.at # "none"
  BY DEF OlderServed
<1> QED BY <1>3, <1>4, <1>5 DEF ListInv, ListShape, FirstReads, MoreContinues, EndIsTheEnd

LEMMA ReloadKeeps ==
  ASSUME ListInv, Reload
  PROVE  ListInv'
<1> PICK waits \in BOOLEAN : waits = (more.at # "none")
  OBVIOUS
<1>1. PICK l : l = [list EXCEPT !.items = <<>>, !.more = FALSE, !.stale = waits]
  OBVIOUS
<1> DEFINE Lists == [state : {"loading", "ready", "error"}, shown : Seq(Nat), items : Seq(Nat),
                     more : BOOLEAN, stale : BOOLEAN]
<1>2. /\ list' = l /\ first' = AskedFor(0) /\ more' = more /\ made' = made /\ missed' = FALSE
      /\ first'.at = "asked"
  BY <1>1 DEF Reload, AskedFor
<1>3. /\ l.state = list.state /\ l.shown = list.shown /\ l.items = <<>> /\ l.more = FALSE
      /\ l.stale = waits /\ l \in Lists
  <2>1. list \in Lists
    BY DEF ListInv, ListShape
  <2>2. PICK empty \in Seq(Nat) : empty = <<>>
    <3>1. <<>> \in Seq(Nat)
      OBVIOUS
    <3> QED BY <3>1, Zenon
  <2>3. l = [list EXCEPT !.items = empty, !.more = FALSE, !.stale = waits]
    BY <1>1, <2>2
  <2>4. l \in Lists /\ l.items = empty /\ l.more = FALSE /\ l.stale = waits
    BY <2>1, <2>3
  <2>5. l.state = list.state /\ l.shown = list.shown
    BY <2>1, <2>3
  <2> QED BY <2>2, <2>4, <2>5
<1>4. ListShape'
  BY <1>2, <1>3, EmptyStretch, ListPut DEF ListInv, ListShape
<1>5. FirstReads' /\ MoreReads' /\ EndIsTheEnd'
  BY <1>2 DEF ListInv, FirstReads, MoreReads, EndIsTheEnd
<1>6. MoreContinues'
  BY <1>2, <1>3 DEF MoreContinues
<1> QED BY <1>4, <1>5, <1>6 DEF ListInv

LEMMA ListArrivesKeeps ==
  ASSUME ListInv, ListArrives
  PROVE  ListInv'
<1>1. Stretch(first.page)
  BY EmptyStretch DEF ListInv, FirstReads, ListArrives, FromRow
<1>2. first.page \in Seq(Nat) /\ Len(first.page) \in Nat
  BY <1>1, StretchShape
<1>3. PICK l : l = [list EXCEPT !.state = IF first.at = "failed" THEN "error" ELSE "ready",
                                !.shown = first.page, !.items = first.page,
                                !.more = first.at = "answered" /\ Offers(first.page)]
  OBVIOUS
<1>4. /\ list' = l /\ first' = Nothing /\ first'.at = "none"
      /\ UNCHANGED <<more, made, missed>>
  BY <1>3 DEF ListArrives, Nothing
<1>5. /\ l.state = (IF first.at = "failed" THEN "error" ELSE "ready")
      /\ l.shown = first.page /\ l.items = first.page /\ l.stale = list.stale
      /\ l.more = (first.at = "answered" /\ Offers(first.page))
      /\ l \in [state : {"loading", "ready", "error"}, shown : Seq(Nat), items : Seq(Nat),
                more : BOOLEAN, stale : BOOLEAN]
  BY <1>2, <1>3 DEF ListInv, ListShape
<1>6. ListShape'
  BY <1>1, <1>4, <1>5, ListPut DEF ListInv, ListShape
<1>7. FirstReads' /\ MoreReads'
  BY <1>4 DEF ListInv, FirstReads, MoreReads
<1>8. MoreContinues'
  <2>1. more.at = "none" \/ list.stale
    BY DEF ListInv, MoreContinues, ListArrives
  <2> QED BY <1>4, <1>5, <2>1 DEF MoreContinues
<1>9. EndIsTheEnd'
  <2>1. l.state = "ready" /\ ~ l.more /\ l.shown # <<>> => Last(l.shown) = 1
    <3> SUFFICES ASSUME l.state = "ready", ~ l.more, l.shown # <<>> PROVE Last(l.shown) = 1
      OBVIOUS
    <3>1. first.at = "answered" /\ ~ Offers(first.page)
      BY <1>5 DEF ListArrives
    <3>2. Len(first.page) < PageSize
      BY <1>2, <3>1, PageAssumption DEF Offers, PageAssumption
    <3> QED BY <1>5, <3>1, <3>2 DEF ListInv, FirstReads, FromRow
  <2> QED BY <1>4, <2>1 DEF EndIsTheEnd
<1> QED BY <1>6, <1>7, <1>8, <1>9 DEF ListInv

LEMMA LoadMoreKeeps ==
  ASSUME ListInv, LoadMore
  PROVE  ListInv'
<1>1. Last(list.items) \in Nat \ {0} /\ first.at = "none"
  BY StretchShape DEF ListInv, ListShape, LoadMore
<1>2. /\ more' = AskedFor(Last(list.items)) /\ UNCHANGED <<made, list, first, missed>>
      /\ more'.at = "asked" /\ more'.before = Last(list.items) /\ list.items # <<>>
  BY DEF LoadMore, AskedFor
<1>3. MoreReads' /\ MoreContinues'
  BY <1>1, <1>2 DEF MoreReads, MoreContinues
<1> QED BY <1>2, <1>3 DEF ListInv, ListShape, FirstReads, EndIsTheEnd

LEMMA OlderArrivesKeeps ==
  ASSUME ListInv, OlderArrives
  PROVE  ListInv'
<1>1. more' = Nothing /\ more'.at = "none" /\ UNCHANGED <<made, first>> /\ more.at \in {"answered", "failed"}
  BY DEF OlderArrives, Nothing
<1>2. FirstReads' /\ MoreReads' /\ MoreContinues'
  BY <1>1 DEF ListInv, FirstReads, MoreReads, MoreContinues
<1>3. CASE list.stale
  <2>1. PICK l : l = [list EXCEPT !.stale = FALSE]
    OBVIOUS
  <2>2. list' = l /\ missed' = missed
    BY <1>3, <2>1 DEF OlderArrives
  <2>3. /\ l.state = list.state /\ l.shown = list.shown /\ l.items = list.items /\ l.more = list.more
        /\ l \in [state : {"loading", "ready", "error"}, shown : Seq(Nat), items : Seq(Nat),
                  more : BOOLEAN, stale : BOOLEAN]
    BY <2>1 DEF ListInv, ListShape
  <2>4. ListShape'
    BY <1>1, <2>2, <2>3, ListPut DEF ListInv, ListShape
  <2>5. EndIsTheEnd'
    BY <1>1, <2>2, <2>3 DEF ListInv, EndIsTheEnd
  <2> QED BY <1>2, <2>4, <2>5 DEF ListInv
<1>4. CASE ~ list.stale
  <2>1. PICK items : items = list.items \o Unseen(more.page)
    OBVIOUS
  <2>2. /\ first.at = "none" /\ list.items # <<>> /\ Stretch(list.items)
        /\ more.before = Last(list.items)
        /\ Last(list.items) \in Nat \ {0}
    BY <1>1, <1>4, StretchShape DEF ListInv, ListShape, MoreContinues
  <2>3. /\ Stretch(items) /\ items # <<>>
        /\ more.at = "answered" /\ ~ Offers(more.page) => Last(items) = 1
    <3>1. CASE more.at = "failed"
      <4>1. more.page = <<>> /\ Unseen(more.page) = <<>>
        <5>1. more.page = <<>>
          BY <3>1 DEF ListInv, MoreReads
        <5>2. more.page \in Seq(Nat) /\ Len(more.page) = 0
          BY <5>1
        <5>3. PICK p \in Seq(Nat) : p = more.page /\ p = <<>>
          BY <5>1, <5>2
        <5>4. \A k \in 1..Len(p) : ~ Contains(list.items, p[k])
          BY <5>3
        <5>5. Unseen(p) = p
          BY <5>4, UnseenWhole
        <5> QED BY <5>3, <5>5
      <4>2. list.items \in Seq(Nat)
        BY DEF ListInv, ListShape
      <4>3. items = list.items
        BY <2>1, <4>1, <4>2
      <4> QED BY <2>2, <3>1, <4>3
    <3>2. CASE more.at = "answered"
      <4>1. FromRow(Last(list.items), more.page)
        BY <2>2, <3>2 DEF ListInv, MoreReads
      <4>2. /\ items = list.items \o more.page /\ Stretch(items) /\ items # <<>>
            /\ Last(items) = IF more.page = <<>> THEN 1 ELSE Last(more.page)
        BY <2>1, <2>2, <4>1, OlderContinues, ZenonT(60)
      <4>3. ~ Offers(more.page) => Len(more.page) < PageSize
        <5>1. Len(more.page) \in Nat
          BY <4>1, StretchShape DEF FromRow
        <5> QED BY <5>1, PageAssumption DEF Offers, PageAssumption
      <4> QED BY <4>1, <4>2, <4>3 DEF FromRow
    <3> QED BY <1>1, <3>1, <3>2
  <2>4. PICK l : l = [list EXCEPT !.items = items, !.shown = items, !.state = "ready",
                                  !.more = Offers(more.page)]
    OBVIOUS
  <2>5. list' = l /\ missed' = (missed \/ more.at = "failed")
    BY <1>4, <2>1, <2>4 DEF OlderArrives
  <2>6. /\ l.state = "ready" /\ l.shown = items /\ l.items = items /\ l.more = Offers(more.page)
        /\ l \in [state : {"loading", "ready", "error"}, shown : Seq(Nat), items : Seq(Nat),
                  more : BOOLEAN, stale : BOOLEAN]
    <3>1. items \in Seq(Nat) /\ Offers(more.page) \in BOOLEAN
      BY <2>3, StretchShape DEF Offers
    <3> QED BY <2>4, <3>1 DEF ListInv, ListShape
  <2>7. ListShape'
    BY <1>1, <2>2, <2>3, <2>5, <2>6, ListPut DEF ListInv, ListShape
  <2>8. EndIsTheEnd'
    BY <1>1, <2>3, <2>5, <2>6 DEF EndIsTheEnd
  <2> QED BY <1>2, <2>7, <2>8 DEF ListInv
<1> QED BY <1>3, <1>4

\* Every step of the page keeps the list's invariant.
LEMMA ListStep == ListInv /\ [PageNext]_pageVars => ListInv'
<1> SUFFICES ASSUME ListInv, [PageNext]_pageVars PROVE ListInv'
  OBVIOUS
<1>1. CASE UNCHANGED listVars
  BY <1>1 DEF listVars, ListInv, ListShape, FirstReads, MoreReads, MoreContinues, EndIsTheEnd
<1>2. CASE RowAdded
  <2>1. made' \in Nat /\ UNCHANGED <<list, first, more, missed>>
    BY <1>2 DEF RowAdded, ListInv, ListShape
  <2> QED BY <2>1 DEF ListInv, ListShape, FirstReads, MoreReads, MoreContinues, EndIsTheEnd
<1>3. CASE DrawerNext
  BY <1>1, <1>3 DEF DrawerNext, LineWritten, HandleRecorded, Poll, LogServed, LogArrives
<1> QED BY <1>1, <1>2, <1>3, ListServedKeeps, OlderServedKeeps, ReloadKeeps, ListArrivesKeeps,
       LoadMoreKeeps, OlderArrivesKeeps DEF PageNext, ListNext, pageVars

LEMMA ListInit == PageInit => ListInv
<1> SUFFICES ASSUME PageInit PROVE ListInv
  OBVIOUS
<1>1. /\ made \in Nat /\ missed = FALSE
      /\ list = [state |-> "loading", shown |-> <<>>, items |-> <<>>, more |-> FALSE, stale |-> FALSE]
      /\ first = AskedFor(0) /\ first.at = "asked" /\ more.at = "none"
  BY PageAssumption DEF PageInit, PageAssumption, AskedFor, Nothing
<1>2. /\ list.state = "loading" /\ list.shown = <<>> /\ list.items = <<>>
      /\ list.more = FALSE /\ list.stale = FALSE
      /\ list \in [state : {"loading", "ready", "error"}, shown : Seq(Nat), items : Seq(Nat),
                   more : BOOLEAN, stale : BOOLEAN]
  BY <1>1
<1>3. ListShape
  BY <1>1, <1>2, EmptyStretch DEF ListShape
<1> QED BY <1>1, <1>2, <1>3 DEF ListInv, FirstReads, MoreReads, MoreContinues, EndIsTheEnd

-----------------------------------------------------------------------------
(* The log drawer.  Without cursors every answer is the beginning of one   *)
(* log.  With them, and as long as the polls were kept apart and the log   *)
(* stayed the same, at most one read is under way, it follows the cursor,  *)
(* and the drawer shows the log up to the cursor.                          *)

\* The lines of a log after line from, up to line upto.
Piece(log, from, upto) == [k \in 1..(upto - from) |-> <<log, from + k>>]

IsBeginning(s) == \E log \in Logs, n \in Nat : s = Piece(log, 0, n)

LogLines == Logs \X Nat
PollRecords ==
  [from : Nat, at : {"asked", "answered", "failed"}, shown : Seq(LogLines), cursor : Nat]

DrawerShape ==
  /\ lines \in [Logs -> Nat] /\ handled \in BOOLEAN /\ numbered \in BOOLEAN /\ jumbled \in BOOLEAN
  /\ drawer \in [state : {"loading", "degraded", "success"}, shown : Seq(LogLines), cursor : Nat]
  /\ polls \in Seq(PollRecords)

WholeLogs ==
  ~ numbered => /\ IsBeginning(drawer.shown)
                /\ \A k \in DOMAIN polls : IsBeginning(polls[k].shown)

\* What a read under way holds, once it is answered and before.
Continues(p) ==
  /\ p.from = drawer.cursor
  /\ IF p.at = "answered"
     THEN p.cursor \in p.from..lines[Source] /\ p.shown = Piece(Source, p.from, p.cursor)
     ELSE p.cursor = 0 /\ p.shown = <<>>

Follows ==
  numbered /\ ~ jumbled =>
    /\ Len(polls) <= 1
    /\ drawer.cursor <= lines[Source] /\ drawer.shown = Piece(Source, 0, drawer.cursor)
    /\ drawer.state = "loading" => drawer.cursor = 0
    /\ \A k \in DOMAIN polls : Continues(polls[k])

DrawerInv == DrawerShape /\ WholeLogs /\ Follows

LEMMA SourceIsLog == Source \in Logs
BY DEF Source, Logs

LEMMA PieceShape ==
  ASSUME NEW log \in Logs, NEW from \in Nat, NEW upto \in Nat, from <= upto
  PROVE  /\ Piece(log, from, upto) \in Seq(LogLines) /\ Len(Piece(log, from, upto)) = upto - from
         /\ \A k \in 1..(upto - from) : Piece(log, from, upto)[k] = <<log, from + k>>
<1>1. upto - from \in Nat
  OBVIOUS
<1>2. \A k \in 1..(upto - from) : <<log, from + k>> \in LogLines
  BY DEF LogLines
<1> QED BY <1>1, <1>2 DEF Piece

LEMMA EmptyPiece ==
  ASSUME NEW log, NEW n \in Nat
  PROVE  Piece(log, n, n) = <<>>
<1>1. 1..(n - n) = {}
  OBVIOUS
<1> QED BY <1>1 DEF Piece

\* What follows the cursor is appended to what is shown up to it.
LEMMA PieceConcat ==
  ASSUME NEW log \in Logs, NEW c \in Nat, NEW d \in Nat, c <= d
  PROVE  Piece(log, 0, c) \o Piece(log, c, d) = Piece(log, 0, d)
<1> DEFINE s == Piece(log, 0, c)
           t == Piece(log, c, d)
<1>1. /\ s \in Seq(LogLines) /\ Len(s) = c /\ \A k \in 1..c : s[k] = <<log, k>>
      /\ t \in Seq(LogLines) /\ Len(t) = d - c /\ \A k \in 1..(d - c) : t[k] = <<log, c + k>>
  <2>1. \A k \in 1..c : <<log, 0 + k>> = <<log, k>>
    <3>1. \A k \in 1..c : 0 + k = k
      OBVIOUS
    <3> QED BY <3>1
  <2>2. c - 0 = c /\ 0 <= c
    OBVIOUS
  <2>3. s \in Seq(LogLines) /\ Len(s) = c /\ \A k \in 1..c : s[k] = <<log, 0 + k>>
    BY <2>2, PieceShape
  <2>4. t \in Seq(LogLines) /\ Len(t) = d - c /\ \A k \in 1..(d - c) : t[k] = <<log, c + k>>
    BY PieceShape
  <2> HIDE DEF s, t
  <2> QED BY <2>1, <2>3, <2>4
<1> HIDE DEF s, t
<1>2. s \o t \in Seq(LogLines) /\ Len(s \o t) = d
  <2>1. s \o t \in Seq(LogLines) /\ Len(s \o t) = Len(s) + Len(t)
    BY <1>1, ConcatShape
  <2> QED BY <1>1, <2>1
<1>3. \A k \in 1..d : (s \o t)[k] = <<log, 0 + k>>
  <2>1. ASSUME NEW k \in 1..c PROVE (s \o t)[k] = <<log, k>>
    BY <1>1, ConcatShape
  <2>2. ASSUME NEW k \in 1..d, k > c PROVE (s \o t)[k] = <<log, k>>
    <3>1. PICK j \in 1..(d - c) : c + j = k
      <4>1. k - c \in 1..(d - c) /\ c + (k - c) = k
        BY <2>2
      <4> QED BY <4>1
    <3>2. (s \o t)[Len(s) + j] = t[j]
      BY <1>1, ConcatShape
    <3>3. t[j] = <<log, c + j>>
      BY <1>1
    <3> QED BY <1>1, <3>1, <3>2, <3>3
  <2>3. \A k \in 1..d : (k \in 1..c \/ k > c) /\ 0 + k = k
    OBVIOUS
  <2> QED BY <2>1, <2>2, <2>3
<1>4. s \o t = [k \in 1..d |-> (s \o t)[k]]
  <2>1. ASSUME NEW u \in Seq(LogLines), NEW l \in Nat, Len(u) = l
        PROVE  u = [k \in 1..l |-> u[k]]
    BY <2>1
  <2> QED BY <1>2, <2>1
<1>5. Piece(log, 0, d) = [k \in 1..d |-> <<log, 0 + k>>]
  <2>1. d - 0 = d
    OBVIOUS
  <2> QED BY <2>1 DEF Piece
<1> QED BY <1>3, <1>4, <1>5 DEF s, t

\* A beginning shows each line of one log once.
LEMMA BeginningShown ==
  ASSUME NEW s, IsBeginning(s)
  PROVE  \E log \in Logs : s = [k \in 1..Len(s) |-> <<log, k>>]
<1>1. PICK log \in Logs, n \in Nat : s = Piece(log, 0, n)
  BY DEF IsBeginning
<1>2. Len(s) = n /\ s = [k \in 1..n |-> <<log, 0 + k>>]
  <2>1. n - 0 = n /\ 0 <= n
    OBVIOUS
  <2> QED BY <1>1, <2>1, PieceShape DEF Piece
<1>3. [k \in 1..n |-> <<log, 0 + k>>] = [k \in 1..n |-> <<log, k>>]
  <2>1. \A k \in 1..n : 0 + k = k
    OBVIOUS
  <2> QED BY <2>1
<1> QED BY <1>2, <1>3

\* A poll that ended is gone and the others stay.
LEMMA RemoveShape ==
  ASSUME NEW S, NEW s \in Seq(S), NEW i \in 1..Len(s)
  PROVE  /\ RemoveAt(s, i) \in Seq(S) /\ Len(RemoveAt(s, i)) = Len(s) - 1
         /\ \A j \in DOMAIN RemoveAt(s, i) : \E k \in DOMAIN s : RemoveAt(s, i)[j] = s[k]
<1>1. PICK a : a = SubSeq(s, 1, i - 1)
  OBVIOUS
<1>2. PICK b : b = SubSeq(s, i + 1, Len(s))
  OBVIOUS
<1>3. a \in Seq(S) /\ Len(a) = i - 1 /\ \A j \in 1..(i - 1) : a[j] = s[j]
  BY <1>1
<1>4. b \in Seq(S) /\ Len(b) = Len(s) - i /\ \A j \in 1..(Len(s) - i) : b[j] = s[i + j]
  BY <1>2
<1>5. PICK r : r = a \o b /\ r = RemoveAt(s, i)
  BY <1>1, <1>2 DEF RemoveAt
<1>6. /\ r \in Seq(S) /\ Len(r) = Len(a) + Len(b)
      /\ \A j \in 1..Len(a) : r[j] = a[j]
      /\ \A j \in 1..Len(b) : r[Len(a) + j] = b[j]
  <2>1. a \in Seq(S) /\ b \in Seq(S)
    BY <1>3, <1>4
  <2>2. /\ a \o b \in Seq(S) /\ Len(a \o b) = Len(a) + Len(b)
        /\ \A j \in 1..Len(a) : (a \o b)[j] = a[j]
        /\ \A j \in 1..Len(b) : (a \o b)[Len(a) + j] = b[j]
    <3>1. a \o b \in Seq(S) /\ Len(a \o b) = Len(a) + Len(b)
      BY <2>1
    <3>2. \A j \in 1..Len(a) : (a \o b)[j] = a[j]
      BY <2>1
    <3>3. \A j \in 1..Len(b) : (a \o b)[Len(a) + j] = b[j]
      BY <2>1
    <3> QED BY <3>1, <3>2, <3>3
  <2> QED BY <1>5, <2>2, Zenon
<1>7. Len(r) = Len(s) - 1
  BY <1>3, <1>4, <1>6
<1>8. ASSUME NEW j \in DOMAIN r PROVE \E k \in DOMAIN s : r[j] = s[k]
  <2>1. CASE j \in 1..(i - 1)
    <3>1. r[j] = a[j] /\ a[j] = s[j] /\ j \in DOMAIN s
      BY <1>3, <1>6, <2>1
    <3> QED BY <3>1
  <2>2. CASE j >= i
    <3>1. PICK m \in 1..(Len(s) - i) : j = i - 1 + m
      <4>1. j - (i - 1) \in 1..(Len(s) - i) /\ j = i - 1 + (j - (i - 1))
        BY <1>6, <1>7, <2>2
      <4> QED BY <4>1
    <3>2. m \in 1..Len(b) /\ j = Len(a) + m /\ i + m \in DOMAIN s
      BY <1>3, <1>4, <3>1
    <3>3. r[j] = b[m] /\ b[m] = s[i + m]
      BY <1>4, <1>6, <3>2
    <3> QED BY <3>2, <3>3
  <2>3. j \in 1..(i - 1) \/ j >= i
    BY <1>6
  <2> QED BY <2>1, <2>2, <2>3
<1> QED BY <1>5, <1>6, <1>7, <1>8

\* The shape of a read under way and of one that is answered.
LEMMA DrawerFields ==
  ASSUME DrawerShape
  PROVE  /\ drawer.state \in {"loading", "degraded", "success"} /\ drawer.cursor \in Nat
         /\ drawer.shown \in Seq(LogLines)
         /\ Len(polls) \in Nat /\ DOMAIN polls = 1..Len(polls)
         /\ \A log \in Logs : lines[log] \in Nat
         /\ \A k \in DOMAIN polls : /\ polls[k] \in PollRecords /\ polls[k].from \in Nat
                                    /\ polls[k].cursor \in Nat /\ polls[k].shown \in Seq(LogLines)
<1>1. \A p \in PollRecords : p.from \in Nat /\ p.cursor \in Nat /\ p.shown \in Seq(LogLines)
  BY DEF PollRecords
<1>2. /\ polls \in Seq(PollRecords) /\ lines \in [Logs -> Nat]
      /\ drawer \in [state : {"loading", "degraded", "success"}, shown : Seq(LogLines), cursor : Nat]
  BY DEF DrawerShape
<1>3. \A k \in DOMAIN polls : polls[k] \in PollRecords
  BY <1>2
<1> QED BY <1>1, <1>2, <1>3

LEMMA DrawerInit == PageInit => DrawerInv
<1> SUFFICES ASSUME PageInit PROVE DrawerInv
  OBVIOUS
<1>1. /\ lines \in [Logs -> 0..1] /\ handled \in BOOLEAN /\ numbered \in BOOLEAN /\ jumbled = FALSE
      /\ drawer = [state |-> "loading", shown |-> <<>>, cursor |-> 0]
      /\ polls = <<Reading(0)>>
  BY DEF PageInit
<1>2. <<>> \in Seq(LogLines)
  OBVIOUS
<1>3. /\ drawer.state = "loading" /\ drawer.shown = <<>> /\ drawer.cursor = 0
      /\ drawer \in [state : {"loading", "degraded", "success"}, shown : Seq(LogLines), cursor : Nat]
  BY <1>1, <1>2
<1>4. PICK p \in PollRecords : /\ p = Reading(0) /\ p.from = 0 /\ p.at = "asked"
                               /\ p.shown = <<>> /\ p.cursor = 0
  <2>1. Reading(0) \in PollRecords
    BY <1>2 DEF Reading, PollRecords
  <2> QED BY <2>1 DEF Reading
<1>5. polls = <<p>> /\ polls \in Seq(PollRecords) /\ Len(polls) = 1 /\ polls[1] = p /\ DOMAIN polls = {1}
  BY <1>1, <1>4
<1>6. lines \in [Logs -> Nat] /\ lines[Source] \in Nat
  BY <1>1, SourceIsLog
<1>7. DrawerShape
  BY <1>1, <1>3, <1>5, <1>6 DEF DrawerShape
<1>8. Piece(Source, 0, 0) = <<>>
  BY EmptyPiece
<1>9. IsBeginning(<<>>)
  BY <1>8, SourceIsLog DEF IsBeginning
<1>10. WholeLogs
  BY <1>3, <1>4, <1>5, <1>9 DEF WholeLogs
<1>11. Follows
  BY <1>3, <1>4, <1>5, <1>6, <1>8 DEF Follows, Continues
<1> QED BY <1>7, <1>10, <1>11 DEF DrawerInv

LEMMA LineWrittenKeeps ==
  ASSUME DrawerInv, NEW log \in Logs, LineWritten(log)
  PROVE  DrawerInv'
<1>1. UNCHANGED <<handled, numbered, drawer, polls, jumbled>> /\ lines' = [lines EXCEPT ![log] = @ + 1]
  BY DEF LineWritten
<1>2. lines \in [Logs -> Nat]
  BY DEF DrawerInv, DrawerShape
<1>3. lines' \in [Logs -> Nat]
  BY <1>1, <1>2
<1>4. PICK at \in Logs : at = Source /\ at = Source'
  BY <1>1, SourceIsLog DEF Source
<1>5. lines[at] <= lines'[at] /\ lines[at] \in Nat /\ lines'[at] \in Nat
  BY <1>1, <1>2
<1>6. DrawerShape' /\ WholeLogs'
  BY <1>1, <1>3 DEF DrawerInv, DrawerShape, WholeLogs
<1>7. ASSUME NEW p \in PollRecords, Continues(p) PROVE Continues(p)'
  <2>1. p.from \in Nat /\ p.cursor \in Nat
    BY DEF PollRecords
  <2>2. p.cursor \in p.from..lines[at] => p.cursor \in p.from..lines'[at]
    BY <1>5, <2>1
  <2> QED BY <1>1, <1>4, <1>7, <2>2 DEF Continues
<1>8. Follows'
  <2> SUFFICES ASSUME numbered, ~ jumbled
               PROVE  /\ Len(polls) <= 1
                      /\ drawer.cursor <= lines'[at] /\ drawer.shown = Piece(at, 0, drawer.cursor)
                      /\ drawer.state = "loading" => drawer.cursor = 0
                      /\ \A k \in DOMAIN polls : Continues(polls[k])'
    BY <1>1, <1>4 DEF Follows
  <2>1. /\ Len(polls) <= 1
        /\ drawer.cursor <= lines[at] /\ drawer.shown = Piece(at, 0, drawer.cursor)
        /\ drawer.state = "loading" => drawer.cursor = 0
        /\ \A k \in DOMAIN polls : Continues(polls[k])
    BY <1>4 DEF DrawerInv, Follows
  <2>2. drawer.cursor <= lines'[at]
    BY <1>5, <2>1, DrawerFields DEF DrawerInv
  <2>3. \A k \in DOMAIN polls : polls[k] \in PollRecords
    BY DrawerFields DEF DrawerInv
  <2>4. ASSUME NEW k \in DOMAIN polls PROVE Continues(polls[k])'
    <3>1. PICK p \in PollRecords : p = polls[k]
      BY <2>3
    <3>2. Continues(p)'
      BY <1>7, <2>1, <3>1
    <3> QED BY <1>1, <3>1, <3>2 DEF Continues
  <2> QED BY <2>1, <2>2, <2>4
<1> QED BY <1>6, <1>8 DEF DrawerInv

LEMMA HandleRecordedKeeps ==
  ASSUME DrawerInv, HandleRecorded
  PROVE  DrawerInv'
<1>1. UNCHANGED <<lines, numbered, drawer, polls>> /\ handled' = TRUE
  BY DEF HandleRecorded
<1>2. jumbled' \in BOOLEAN
  BY DEF HandleRecorded
<1>3. DrawerShape' /\ WholeLogs'
  BY <1>1, <1>2 DEF DrawerInv, DrawerShape, WholeLogs
<1>4. Follows'
  <2> SUFFICES ASSUME numbered, ~ jumbled'
               PROVE  /\ Len(polls) <= 1
                      /\ drawer.cursor <= lines[Source'] /\ drawer.shown = Piece(Source', 0, drawer.cursor)
                      /\ drawer.state = "loading" => drawer.cursor = 0
                      /\ \A k \in DOMAIN polls : Continues(polls[k])'
    BY <1>1 DEF Follows
  <2>1. ~ jumbled /\ ~ (drawer.cursor > 0) /\ \A k \in DOMAIN polls : ~ (polls[k].cursor > 0)
    BY DEF HandleRecorded
  <2>2. drawer.cursor = 0 /\ \A k \in DOMAIN polls : polls[k].cursor = 0
    BY <2>1, DrawerFields DEF DrawerInv
  <2>3. PICK was \in Logs : was = Source
    BY SourceIsLog
  <2>4. PICK is \in Logs : is = Source'
    BY DEF Source, Logs
  <2>5. Piece(was, 0, 0) = <<>> /\ Piece(is, 0, 0) = <<>> /\ lines[is] \in Nat
    BY EmptyPiece, DrawerFields DEF DrawerInv
  <2>6. Len(polls) <= 1 /\ drawer.shown = <<>> /\ \A k \in DOMAIN polls : Continues(polls[k])
    BY <2>1, <2>2, <2>3, <2>5 DEF DrawerInv, Follows
  <2>7. ASSUME NEW k \in DOMAIN polls PROVE Continues(polls[k])'
    <3>1. polls[k].cursor = 0 /\ polls[k].from = 0 /\ polls[k].shown = <<>>
      BY <2>2, <2>3, <2>5, <2>6 DEF Continues
    <3>2. 0 \in 0..lines[is]
      BY <2>5
    <3> QED BY <1>1, <2>2, <2>4, <2>5, <3>1, <3>2 DEF Continues
  <2> QED BY <2>2, <2>4, <2>5, <2>6, <2>7
<1> QED BY <1>3, <1>4 DEF DrawerInv

LEMMA PollKeeps ==
  ASSUME DrawerInv, Poll
  PROVE  DrawerInv'
<1>1. UNCHANGED <<lines, handled, numbered, drawer>> /\ polls \in Seq(PollRecords)
  BY DEF Poll, DrawerInv, DrawerShape
<1>2. PICK p \in PollRecords : /\ p = Reading(drawer.cursor) /\ p.from = drawer.cursor
                               /\ p.at = "asked" /\ p.shown = <<>> /\ p.cursor = 0
  <2>1. <<>> \in Seq(LogLines) /\ drawer.cursor \in Nat
    BY DrawerFields DEF DrawerInv
  <2>2. Reading(drawer.cursor) \in PollRecords
    BY <2>1 DEF Reading, PollRecords
  <2> QED BY <2>2 DEF Reading
<1>3. polls' = Append(polls, p) /\ jumbled' = (jumbled \/ (numbered /\ polls # <<>>))
  BY <1>2 DEF Poll
<1>4. /\ polls' \in Seq(PollRecords)
      /\ \A k \in DOMAIN polls' : polls'[k] = p \/ (k \in DOMAIN polls /\ polls'[k] = polls[k])
  <2>1. ASSUME NEW s \in Seq(PollRecords), NEW t, t = Append(s, p)
        PROVE  /\ t \in Seq(PollRecords)
               /\ \A k \in DOMAIN t : t[k] = p \/ (k \in DOMAIN s /\ t[k] = s[k])
    <3>1. /\ t \in Seq(PollRecords) /\ Len(t) = Len(s) + 1 /\ t[Len(s) + 1] = p
          /\ \A k \in 1..Len(s) : t[k] = s[k]
      BY <2>1
    <3> QED BY <3>1
  <2> QED BY <1>1, <1>3, <2>1
<1>5. jumbled' \in BOOLEAN
  BY <1>3 DEF DrawerInv, DrawerShape
<1>6. DrawerShape'
  BY <1>1, <1>4, <1>5 DEF DrawerInv, DrawerShape
<1>7. IsBeginning(<<>>)
  <2>1. Piece(Source, 0, 0) = <<>>
    BY EmptyPiece
  <2> QED BY <2>1, SourceIsLog DEF IsBeginning
<1>8. WholeLogs'
  BY <1>1, <1>2, <1>4, <1>7 DEF DrawerInv, WholeLogs
<1>9. ASSUME numbered, ~ jumbled' PROVE polls' = <<p>> /\ ~ jumbled
  <2>1. polls = <<>> /\ ~ jumbled
    BY <1>3, <1>9, Zenon
  <2> QED BY <1>3, <2>1
<1>10. Follows'
  <2> SUFFICES ASSUME numbered, ~ jumbled'
               PROVE  /\ Len(polls') <= 1
                      /\ drawer.cursor <= lines[Source] /\ drawer.shown = Piece(Source, 0, drawer.cursor)
                      /\ drawer.state = "loading" => drawer.cursor = 0
                      /\ \A k \in DOMAIN polls' : Continues(polls[k])'
    BY <1>1 DEF Follows, Source
  <2>1. polls' = <<p>> /\ ~ jumbled
    BY <1>9
  <2>2. Continues(p)'
    BY <1>1, <1>2 DEF Continues
  <2>3. DOMAIN polls' = {1} /\ polls'[1] = p /\ Len(polls') = 1
    BY <2>1
  <2>4. \A k \in DOMAIN polls' : Continues(polls[k])'
    BY <2>2, <2>3 DEF Continues
  <2> QED BY <2>1, <2>3, <2>4 DEF DrawerInv, Follows
<1> QED BY <1>6, <1>8, <1>10 DEF DrawerInv

\* A read that is answered or fails takes the place of what it was.
LEMMA PollPut ==
  ASSUME NEW s \in Seq(PollRecords), NEW k \in DOMAIN s, NEW q \in PollRecords,
         NEW t, t = [s EXCEPT ![k] = q]
  PROVE  /\ t \in Seq(PollRecords) /\ Len(t) = Len(s) /\ DOMAIN t = DOMAIN s
         /\ t[k] = q /\ \A j \in DOMAIN s : j # k => t[j] = s[j]
OBVIOUS

\* What an engine answers: the whole log, or what follows the cursor.
LEMMA ListAnswers ==
  ASSUME NEW log \in Logs, NEW m \in Nat, NEW from \in Nat,
         NEW s, s = [n \in 1..m |-> <<log, n>>]
  PROVE  /\ s = Piece(log, 0, m) /\ s \in Seq(LogLines) /\ Len(s) = m
         /\ SubSeq(s, from + 1, m) \in Seq(LogLines)
<1>1. \A n \in 1..m : <<log, n>> \in LogLines
  BY DEF LogLines
<1>2. s \in Seq(LogLines) /\ Len(s) = m /\ \A n \in 1..m : s[n] = <<log, n>>
  BY <1>1
<1>3. s = Piece(log, 0, m)
  <2>1. m - 0 = m /\ \A n \in 1..m : 0 + n = n
    OBVIOUS
  <2> QED BY <2>1 DEF Piece
<1>4. PICK r : r = SubSeq(s, from + 1, m)
  OBVIOUS
<1>5. r \in Seq(LogLines)
  <2>1. \A i \in (from + 1)..m : s[i] \in LogLines
    BY <1>2
  <2> QED BY <1>2, <1>4, <2>1
<1> QED BY <1>2, <1>3, <1>4, <1>5

LEMMA AnswersRest ==
  ASSUME NEW log \in Logs, NEW m \in Nat, NEW from \in Nat,
         NEW s, s = [n \in 1..m |-> <<log, n>>], from <= m
  PROVE  SubSeq(s, from + 1, m) = Piece(log, from, m)
<1>1. PICK r : r = SubSeq(s, from + 1, m)
  OBVIOUS
<1>2. r \in Seq(LogLines) /\ s \in Seq(LogLines) /\ Len(s) = m /\ \A n \in 1..m : s[n] = <<log, n>>
  <2>1. s \in Seq(LogLines) /\ Len(s) = m /\ SubSeq(s, from + 1, m) \in Seq(LogLines)
    BY ListAnswers
  <2> QED BY <1>1, <2>1
<1>3. /\ Len(r) = m - from /\ m - from \in Nat
      /\ \A n \in 1..(m - from) : r[n] = s[from + n] /\ from + n \in 1..m
  BY <1>1, <1>2
<1>4. \A n \in 1..(m - from) : r[n] = <<log, from + n>>
  BY <1>2, <1>3
<1>5. r = [n \in 1..(m - from) |-> r[n]]
  <2>1. ASSUME NEW u \in Seq(LogLines), NEW l \in Nat, Len(u) = l
        PROVE  u = [n \in 1..l |-> u[n]]
    BY <2>1
  <2> QED BY <1>2, <1>3, <2>1
<1> QED BY <1>1, <1>4, <1>5 DEF Piece

LEMMA LogServedKeeps ==
  ASSUME DrawerInv, NEW k \in DOMAIN polls, LogServed(k)
  PROVE  DrawerInv'
<1>1. /\ UNCHANGED <<lines, handled, numbered, drawer, jumbled>> /\ Source' = Source
      /\ polls \in Seq(PollRecords) /\ polls[k].at = "asked"
  BY DEF LogServed, DrawerInv, DrawerShape, Source
<1>2. PICK at \in Logs, m \in Nat, p \in PollRecords :
        at = Source /\ m = lines[at] /\ p = polls[k]
  BY SourceIsLog, DrawerFields DEF DrawerInv
<1>3. p.from \in Nat /\ p.cursor \in Nat /\ p.at = "asked" /\ p.shown \in Seq(LogLines)
  BY <1>1, <1>2 DEF PollRecords
<1>4. PICK log : log = [n \in 1..m |-> <<at, n>>]
  OBVIOUS
<1>5. /\ log = Piece(at, 0, m) /\ log \in Seq(LogLines) /\ Len(log) = m
      /\ SubSeq(log, p.from + 1, m) \in Seq(LogLines)
      /\ p.from <= m => SubSeq(log, p.from + 1, m) = Piece(at, p.from, m)
  <2>1. PICK from \in Nat : from = p.from
    BY <1>3
  <2>2. /\ log = Piece(at, 0, m) /\ log \in Seq(LogLines) /\ Len(log) = m
        /\ SubSeq(log, from + 1, m) \in Seq(LogLines)
        /\ from <= m => SubSeq(log, from + 1, m) = Piece(at, from, m)
    <3>1. log = Piece(at, 0, m) /\ log \in Seq(LogLines) /\ Len(log) = m
      BY <1>4, ListAnswers
    <3>2. SubSeq(log, from + 1, m) \in Seq(LogLines)
      BY <1>4, ListAnswers
    <3>3. ASSUME from <= m PROVE SubSeq(log, from + 1, m) = Piece(at, from, m)
      BY <1>4, <3>3, AnswersRest
    <3> QED BY <3>1, <3>2, <3>3
  <2> QED BY <2>1, <2>2, Zenon
<1>6. PICK page \in Seq(LogLines), cursor \in Nat :
        /\ page = IF numbered THEN SubSeq(log, p.from + 1, m) ELSE log
        /\ cursor = IF numbered THEN m ELSE 0
  BY <1>5
<1>7. \/ polls' = [polls EXCEPT ![k].at = "answered", ![k].shown = page, ![k].cursor = cursor]
      \/ polls' = [polls EXCEPT ![k].at = "failed"]
  <2>1. log = [n \in 1..lines[Source] |-> <<Source, n>>] /\ Len(log) = m /\ polls[k].from = p.from
    BY <1>2, <1>4, <1>5, Zenon
  <2>2. \E pg, cu :
          /\ pg = IF numbered THEN SubSeq(log, polls[k].from + 1, Len(log)) ELSE log
          /\ cu = IF numbered THEN Len(log) ELSE 0
          /\ polls' \in {[polls EXCEPT ![k].at = "answered", ![k].shown = pg, ![k].cursor = cu],
                        [polls EXCEPT ![k].at = "failed"]}
    BY <2>1, Zenon DEF LogServed
  <2>3. polls' \in {[polls EXCEPT ![k].at = "answered", ![k].shown = page, ![k].cursor = cursor],
                   [polls EXCEPT ![k].at = "failed"]}
    BY <1>6, <2>1, <2>2, Zenon
  <2> QED BY <2>3, Zenon
<1>8. PICK q \in PollRecords :
        /\ polls' = [polls EXCEPT ![k] = q] /\ q.from = p.from
        /\ \/ q.at = "answered" /\ q.shown = page /\ q.cursor = cursor
           \/ q.at = "failed" /\ q.shown = p.shown /\ q.cursor = p.cursor
  <2>1. CASE polls' = [polls EXCEPT ![k].at = "answered", ![k].shown = page, ![k].cursor = cursor]
    <3>1. PICK q : q = [p EXCEPT !.at = "answered", !.shown = page, !.cursor = cursor]
      OBVIOUS
    <3>2. q \in PollRecords /\ q.from = p.from /\ q.at = "answered" /\ q.shown = page /\ q.cursor = cursor
      BY <1>3, <3>1 DEF PollRecords
    <3>3. polls' = [polls EXCEPT ![k] = q]
      BY <1>1, <1>2, <2>1, <3>1
    <3> QED BY <3>2, <3>3
  <2>2. CASE polls' = [polls EXCEPT ![k].at = "failed"]
    <3>1. PICK q : q = [p EXCEPT !.at = "failed"]
      OBVIOUS
    <3>2. q \in PollRecords /\ q.from = p.from /\ q.at = "failed" /\ q.shown = p.shown /\ q.cursor = p.cursor
      BY <1>3, <3>1 DEF PollRecords
    <3>3. polls' = [polls EXCEPT ![k] = q]
      BY <1>1, <1>2, <2>2, <3>1
    <3> QED BY <3>2, <3>3
  <2> QED BY <1>7, <2>1, <2>2
<1>9. /\ polls' \in Seq(PollRecords) /\ Len(polls') = Len(polls) /\ DOMAIN polls' = DOMAIN polls
      /\ polls'[k] = q /\ \A j \in DOMAIN polls : j # k => polls'[j] = polls[j]
  BY <1>1, <1>8, PollPut
<1>10. DrawerShape'
  BY <1>1, <1>9 DEF DrawerInv, DrawerShape
<1>11. ASSUME ~ numbered, NEW j \in DOMAIN polls PROVE IsBeginning(polls'[j].shown)
  <2>1. IsBeginning(p.shown) /\ IsBeginning(polls[j].shown)
    BY <1>2, <1>11 DEF DrawerInv, WholeLogs
  <2>2. IsBeginning(log)
    BY <1>5 DEF IsBeginning
  <2>3. j = k => IsBeginning(q.shown)
    BY <1>6, <1>8, <1>11, <2>1, <2>2
  <2> QED BY <1>9, <2>1, <2>3
<1>12. WholeLogs'
  BY <1>1, <1>9, <1>11 DEF DrawerInv, WholeLogs
<1>13. Follows'
  <2> SUFFICES ASSUME numbered, ~ jumbled
               PROVE  /\ Len(polls') <= 1
                      /\ drawer.cursor <= m /\ drawer.shown = Piece(at, 0, drawer.cursor)
                      /\ drawer.state = "loading" => drawer.cursor = 0
                      /\ \A j \in DOMAIN polls' : Continues(polls[j])'
    BY <1>1, <1>2 DEF Follows
  <2>1. /\ Len(polls) <= 1
        /\ drawer.cursor <= m /\ drawer.shown = Piece(at, 0, drawer.cursor)
        /\ drawer.state = "loading" => drawer.cursor = 0
        /\ Continues(p)
    BY <1>2 DEF DrawerInv, Follows
  <2>2. p.from = drawer.cursor /\ p.cursor = 0 /\ p.shown = <<>> /\ p.from <= m
    BY <1>3, <2>1 DEF Continues
  <2>3. \A j \in DOMAIN polls' : j = k
    BY <1>1, <1>9, <2>1
  <2>4. /\ q.from = drawer.cursor
        /\ IF q.at = "answered" THEN q.cursor \in q.from..m /\ q.shown = Piece(at, q.from, q.cursor)
           ELSE q.cursor = 0 /\ q.shown = <<>>
    <3>1. CASE q.at = "answered"
      <4>1. q.cursor = m /\ q.shown = Piece(at, q.from, m)
        BY <1>5, <1>6, <1>8, <2>2, <3>1
      <4>2. m \in q.from..m
        BY <1>3, <1>8, <2>2
      <4> QED BY <1>8, <2>2, <3>1, <4>1, <4>2
    <3>2. CASE q.at # "answered"
      BY <1>8, <2>2, <3>2
    <3> QED BY <3>1, <3>2
  <2>5. Continues(polls[k])'
    BY <1>1, <1>2, <1>9, <2>4 DEF Continues
  <2> QED BY <1>9, <2>1, <2>3, <2>5
<1> QED BY <1>10, <1>12, <1>13 DEF DrawerInv

LEMMA LogArrivesKeeps ==
  ASSUME DrawerInv, NEW k \in DOMAIN polls, LogArrives(k)
  PROVE  DrawerInv'
<1>1. /\ UNCHANGED <<lines, handled, numbered, jumbled>> /\ Source' = Source
      /\ polls \in Seq(PollRecords) /\ polls[k].at \in {"answered", "failed"}
      /\ polls' = RemoveAt(polls, k)
  BY DEF LogArrives, DrawerInv, DrawerShape, Source
<1>2. PICK at \in Logs, m \in Nat, p \in PollRecords :
        at = Source /\ m = lines[at] /\ p = polls[k]
  BY SourceIsLog, DrawerFields DEF DrawerInv
<1>3. p.from \in Nat /\ p.cursor \in Nat /\ p.at \in {"answered", "failed"} /\ p.shown \in Seq(LogLines)
  BY <1>1, <1>2 DEF PollRecords
<1>4. /\ polls' \in Seq(PollRecords) /\ Len(polls') = Len(polls) - 1
      /\ \A j \in DOMAIN polls' : \E i \in DOMAIN polls : polls'[j] = polls[i]
  <2>1. k \in 1..Len(polls)
    BY <1>1
  <2> QED BY <1>1, <2>1, RemoveShape
<1>5. PICK d : d = drawer'
  OBVIOUS
<1>6. /\ d \in [state : {"loading", "degraded", "success"}, shown : Seq(LogLines), cursor : Nat]
      /\ d.state # "loading"
      /\ \/ drawer.state = "loading" /\ d.shown = p.shown /\ d.cursor = p.cursor
         \/ drawer.state # "loading" /\ p.at = "failed" /\ d.shown = drawer.shown /\ d.cursor = drawer.cursor
         \/ /\ drawer.state # "loading" /\ p.at = "answered" /\ d.cursor = p.cursor
            /\ d.shown = IF numbered THEN drawer.shown \o p.shown ELSE p.shown
  <2>1. drawer \in [state : {"loading", "degraded", "success"}, shown : Seq(LogLines), cursor : Nat]
    BY DEF DrawerInv, DrawerShape
  <2>2. d = IF drawer.state = "loading" THEN Filled(p)
            ELSE IF p.at = "failed" THEN drawer ELSE Appended(p)
    BY <1>2, <1>5 DEF LogArrives
  <2>3. CASE drawer.state = "loading"
    BY <1>3, <2>2, <2>3 DEF Filled
  <2>4. CASE drawer.state # "loading" /\ p.at = "failed"
    BY <2>1, <2>2, <2>4
  <2>5. CASE drawer.state # "loading" /\ p.at = "answered"
    <3>1. PICK shown \in Seq(LogLines) : shown = IF numbered THEN drawer.shown \o p.shown ELSE p.shown
      <4>1. drawer.shown \in Seq(LogLines)
        BY <2>1
      <4>2. drawer.shown \o p.shown \in Seq(LogLines)
        BY <1>3, <4>1, ConcatShape
      <4> QED BY <1>3, <4>2
    <3>2. d = [drawer EXCEPT !.cursor = p.cursor, !.shown = shown]
      BY <2>2, <2>5, <3>1 DEF Appended
    <3> QED BY <1>3, <2>1, <2>5, <3>1, <3>2
  <2> QED BY <1>3, <2>3, <2>4, <2>5
<1>7. DrawerShape'
  BY <1>1, <1>4, <1>5, <1>6 DEF DrawerInv, DrawerShape
<1>8. WholeLogs'
  <2> SUFFICES ASSUME ~ numbered
               PROVE  IsBeginning(d.shown) /\ \A j \in DOMAIN polls' : IsBeginning(polls'[j].shown)
    BY <1>1, <1>5 DEF WholeLogs
  <2>1. IsBeginning(drawer.shown) /\ \A j \in DOMAIN polls : IsBeginning(polls[j].shown)
    BY DEF DrawerInv, WholeLogs
  <2> QED BY <1>2, <1>4, <1>6, <2>1
<1>9. Follows'
  <2> SUFFICES ASSUME numbered, ~ jumbled
               PROVE  Len(polls') <= 1 /\ d.cursor <= m /\ d.shown = Piece(at, 0, d.cursor) /\ DOMAIN polls' = {}
    BY <1>1, <1>2, <1>5, <1>6 DEF Follows
  <2>1. /\ Len(polls) <= 1
        /\ drawer.cursor <= m /\ drawer.shown = Piece(at, 0, drawer.cursor)
        /\ drawer.state = "loading" => drawer.cursor = 0
        /\ Continues(p)
    BY <1>2 DEF DrawerInv, Follows
  <2>2. drawer.cursor \in Nat
    BY DrawerFields DEF DrawerInv
  <2>3. Len(polls') <= 1 /\ DOMAIN polls' = {}
    <3>1. Len(polls) = 1
      <4>1. DOMAIN polls = 1..Len(polls) /\ Len(polls) \in Nat
        BY DrawerFields DEF DrawerInv
      <4> QED BY <2>1, <4>1
    <3>2. Len(polls') = 0
      BY <1>4, <3>1
    <3> QED BY <1>4, <3>2
  <2>4. /\ p.from = drawer.cursor
        /\ IF p.at = "answered" THEN p.cursor \in p.from..m /\ p.shown = Piece(at, p.from, p.cursor)
           ELSE p.cursor = 0 /\ p.shown = <<>>
    BY <1>2, <2>1 DEF Continues
  <2>5. CASE drawer.state = "loading"
    <3>1. d.shown = p.shown /\ d.cursor = p.cursor /\ p.from = 0
      BY <1>6, <2>1, <2>4, <2>5
    <3>2. CASE p.at = "answered"
      BY <2>3, <2>4, <3>1, <3>2
    <3>3. CASE p.at # "answered"
      <4>1. Piece(at, 0, 0) = <<>>
        BY EmptyPiece
      <4> QED BY <2>3, <2>4, <3>1, <3>3, <4>1
    <3> QED BY <3>2, <3>3
  <2>6. CASE drawer.state # "loading" /\ p.at = "failed"
    BY <1>6, <2>1, <2>3, <2>6
  <2>7. CASE drawer.state # "loading" /\ p.at = "answered"
    <3>1. d.cursor = p.cursor /\ d.shown = drawer.shown \o p.shown
      BY <1>6, <2>7
    <3>2. PICK c \in Nat, e \in Nat : c = drawer.cursor /\ e = p.cursor /\ c <= e /\ e <= m
      BY <1>3, <2>2, <2>4, <2>7
    <3>3. drawer.shown = Piece(at, 0, c) /\ p.shown = Piece(at, c, e)
      BY <2>1, <2>4, <2>7, <3>2
    <3>4. Piece(at, 0, c) \o Piece(at, c, e) = Piece(at, 0, e)
      BY <3>2, PieceConcat
    <3> QED BY <2>3, <3>1, <3>2, <3>3, <3>4
  <2> QED BY <1>3, <2>5, <2>6, <2>7
<1> QED BY <1>7, <1>8, <1>9 DEF DrawerInv

\* Every step of the page keeps the drawer's invariant.
LEMMA DrawerStep == DrawerInv /\ [PageNext]_pageVars => DrawerInv'
<1> SUFFICES ASSUME DrawerInv, [PageNext]_pageVars PROVE DrawerInv'
  OBVIOUS
<1>1. CASE UNCHANGED drawerVars
  BY <1>1 DEF drawerVars, DrawerInv, DrawerShape, WholeLogs, Follows, Continues, Source
<1>2. CASE ListNext
  BY <1>1, <1>2 DEF ListNext, RowAdded, ListServed, OlderServed, Reload, ListArrives, LoadMore, OlderArrives
<1>3. CASE DrawerNext
  BY <1>3, LineWrittenKeeps, HandleRecordedKeeps, PollKeeps, LogServedKeeps, LogArrivesKeeps
     DEF DrawerNext
<1> QED BY <1>1, <1>2, <1>3 DEF PageNext, pageVars

\* What the page shows is the history: the rows of the list are a stretch of it, a
\* list at rest that offers no more reaches the oldest row unless a read of an older
\* page failed, and the drawer shows the beginning of one log, each line once, as
\* long as its polls do not overlap and the log stays the same (hooks.ts:153-207,
\* pages.tsx:1473-1517).
THEOREM ShowsHistoryAlways == PageSpec => []ShowsHistory
<1>1. ASSUME ListInv, DrawerInv PROVE ShowsHistory
  <2>1. ShownIsContiguous /\ EndIsTheEnd
    BY <1>1, StretchShape DEF ListInv, ListShape, ShownIsContiguous
  <2>2. FollowedOnce
    <3> SUFFICES ASSUME ~ jumbled PROVE \E log \in Logs : drawer.shown = [k \in 1..Len(drawer.shown) |-> <<log, k>>]
      BY DEF FollowedOnce
    <3>1. IsBeginning(drawer.shown)
      <4>1. CASE numbered
        BY <1>1, <4>1, SourceIsLog, DrawerFields DEF DrawerInv, Follows, IsBeginning
      <4> QED BY <1>1, <4>1 DEF DrawerInv, WholeLogs
    <3> QED BY <3>1, BeginningShown
  <2> QED BY <2>1, <2>2 DEF ShowsHistory
<1>2. PageInit => ListInv /\ DrawerInv
  BY ListInit, DrawerInit
<1>3. ListInv /\ DrawerInv /\ [PageNext]_pageVars => ListInv' /\ DrawerInv'
  BY ListStep, DrawerStep
<1> QED BY <1>1, <1>2, <1>3, PTL DEF PageSpec

-----------------------------------------------------------------------------
(* The type of the page.  The rows it holds, shows or has been sent are    *)
(* rows there are, and a page is asked for before one of them; cursors are *)
(* lengths a log had.                                                      *)

UpTo(s, n) == \A k \in DOMAIN s : s[k] \in 1..n

ListBounds ==
  /\ made <= MaxRows
  /\ UpTo(list.shown, made) /\ UpTo(list.items, made)
  /\ UpTo(first.page, made) /\ UpTo(more.page, made)
  /\ more.at = "asked" => more.before <= made

LEMMA EmptyUpTo == ASSUME NEW n PROVE UpTo(<<>>, n)
BY DEF UpTo

\* A page read before a row there is, or before none, holds rows there are.
LEMMA PageUpTo ==
  ASSUME made \in Nat, NEW before \in Nat, before <= made
  PROVE  UpTo(PageBefore(before), made)
<1> DEFINE last == IF before = 0 THEN made ELSE before - 1
           size == IF last < PageSize THEN last ELSE PageSize
<1>1. last \in Nat /\ size \in Nat /\ last <= made /\ size <= last
  BY PageAssumption DEF PageAssumption
<1>2. PageBefore(before) = [k \in 1..size |-> last + 1 - k]
  BY DEF PageBefore
<1> HIDE DEF last, size
<1>3. \A k \in 1..size : last + 1 - k \in 1..made
  BY <1>1
<1> QED BY <1>2, <1>3 DEF UpTo

\* Two stretches appended hold what they held.
LEMMA AppendUpTo ==
  ASSUME NEW s \in Seq(Nat), NEW t \in Seq(Nat), NEW n, UpTo(s, n), UpTo(t, n)
  PROVE  UpTo(s \o t, n)
<1>1. /\ s \o t \in Seq(Nat) /\ Len(s \o t) = Len(s) + Len(t)
      /\ \A k \in 1..Len(s) : (s \o t)[k] = s[k]
      /\ \A k \in 1..Len(t) : (s \o t)[Len(s) + k] = t[k]
  BY ConcatShape
<1>2. ASSUME NEW k \in 1..(Len(s) + Len(t)) PROVE (s \o t)[k] \in 1..n
  <2>1. CASE k \in 1..Len(s)
    BY <1>1, <2>1 DEF UpTo
  <2>2. CASE k > Len(s)
    <3>1. PICK j \in 1..Len(t) : k = Len(s) + j
      <4>1. k - Len(s) \in 1..Len(t) /\ k = Len(s) + (k - Len(s))
        BY <2>2
      <4> QED BY <4>1
    <3>2. (s \o t)[k] = t[j] /\ j \in DOMAIN t
      BY <1>1, <3>1
    <3> QED BY <3>2 DEF UpTo
  <2>3. k \in 1..Len(s) \/ k > Len(s)
    OBVIOUS
  <2> QED BY <2>1, <2>2, <2>3
<1>3. DOMAIN (s \o t) = 1..(Len(s) + Len(t))
  BY <1>1
<1> QED BY <1>2, <1>3 DEF UpTo

\* What an older page adds to the list.
LEMMA OlderAdds ==
  ASSUME ListInv, more.at \in {"answered", "failed"}, ~ list.stale
  PROVE  /\ list.items \in Seq(Nat) /\ more.page \in Seq(Nat)
         /\ Unseen(more.page) = more.page
<1>1. /\ first.at = "none" /\ list.items # <<>> /\ Stretch(list.items)
      /\ more.before = Last(list.items) /\ list.items \in Seq(Nat)
  BY DEF ListInv, ListShape, MoreContinues
<1>2. CASE more.at = "answered"
  <2>1. FromRow(Last(list.items), more.page)
    BY <1>1, <1>2 DEF ListInv, MoreReads
  <2>2. Unseen(more.page) = more.page
    BY <1>1, <2>1, OlderContinues, ZenonT(60)
  <2> QED BY <1>1, <2>1, <2>2, StretchShape DEF FromRow
<1>3. CASE more.at = "failed"
  <2>1. more.page = <<>>
    BY <1>3 DEF ListInv, MoreReads
  <2>2. PICK p \in Seq(Nat) : p = more.page /\ p = <<>>
    <3>1. <<>> \in Seq(Nat)
      OBVIOUS
    <3> QED BY <2>1, <3>1
  <2>3. \A k \in 1..Len(p) : ~ Contains(list.items, p[k])
    BY <2>2
  <2>4. Unseen(p) = p
    BY <2>3, UnseenWhole
  <2> QED BY <1>1, <2>2, <2>4
<1> QED BY <1>2, <1>3

\* Every step keeps what the list holds to the rows there are.
LEMMA ListBoundsStep ==
  ASSUME ListInv, ListBounds, ListNext
  PROVE  ListBounds'
<1>1. made \in Nat /\ list.items \in Seq(Nat) /\ \A n : UpTo(<<>>, n)
  BY EmptyUpTo DEF ListInv, ListShape
<1>2. CASE RowAdded
  <2>1. made' = made + 1 /\ made' <= MaxRows /\ UNCHANGED <<list, first, more>>
    BY <1>1, <1>2, PageAssumption DEF RowAdded, PageAssumption
  <2>2. ASSUME NEW s, UpTo(s, made) PROVE UpTo(s, made')
    BY <1>1, <2>1, <2>2 DEF UpTo
  <2>3. more.at = "asked" => more.before \in Nat
    BY DEF ListInv, MoreReads
  <2>4. more.at = "asked" => more.before <= made'
    BY <1>1, <2>1, <2>3 DEF ListBounds
  <2> QED BY <2>1, <2>2, <2>4 DEF ListBounds
<1>3. CASE ListServed
  <2>1. first = AskedFor(0) /\ UNCHANGED <<made, list, more>>
    BY <1>3 DEF ListServed, ListInv, FirstReads
  <2>2. first'.page = PageBefore(0) \/ first'.page = <<>>
    BY <1>3, <2>1 DEF ListServed, AskedFor
  <2>3. UpTo(first'.page, made)
    BY <1>1, <2>2, PageUpTo
  <2> QED BY <2>1, <2>3 DEF ListBounds
<1>4. CASE OlderServed
  <2>1. PICK b \in Nat : b <= made /\ more = AskedFor(b)
    BY <1>4 DEF OlderServed, ListBounds, ListInv, MoreReads
  <2>2. (more'.page = PageBefore(b) \/ more'.page = <<>>) /\ more'.at # "asked"
    BY <1>4, <2>1 DEF OlderServed, AskedFor
  <2>3. UpTo(more'.page, made)
    BY <1>1, <2>1, <2>2, PageUpTo
  <2>4. UNCHANGED <<made, list, first>>
    BY <1>4 DEF OlderServed
  <2> QED BY <2>2, <2>3, <2>4 DEF ListBounds
<1>5. CASE Reload
  <2>1. first'.page = <<>> /\ UNCHANGED <<made, more>>
    BY <1>5 DEF Reload, AskedFor
  <2>2. list'.items = <<>> /\ list'.shown = list.shown
    BY <1>5 DEF Reload, ListInv, ListShape
  <2> QED BY <1>1, <2>1, <2>2 DEF ListBounds
<1>6. CASE ListArrives
  <2>1. first'.page = <<>> /\ UNCHANGED <<made, more>>
    BY <1>6 DEF ListArrives, Nothing
  <2>2. list'.items = first.page /\ list'.shown = first.page
    BY <1>6 DEF ListArrives, ListInv, ListShape
  <2> QED BY <1>1, <2>1, <2>2 DEF ListBounds
<1>7. CASE LoadMore
  <2>1. list.items # <<>> /\ UNCHANGED <<made, list, first>>
    BY <1>7 DEF LoadMore
  <2>2. more'.page = <<>> /\ more'.before = Last(list.items)
    BY <1>7 DEF LoadMore, AskedFor
  <2>3. Last(list.items) \in 1..made
    BY <1>1, <2>1 DEF ListBounds, UpTo, Last
  <2>4. UpTo(more'.page, made) /\ more'.before <= made
    BY <1>1, <2>2, <2>3
  <2> QED BY <2>1, <2>4 DEF ListBounds
<1>8. CASE OlderArrives
  <2>1. more'.page = <<>> /\ more'.at # "asked" /\ UNCHANGED <<made, first>>
    BY <1>8 DEF OlderArrives, Nothing
  <2>2. CASE list.stale
    <3>1. list'.items = list.items /\ list'.shown = list.shown
      BY <1>8, <2>2 DEF OlderArrives, ListInv, ListShape
    <3> QED BY <1>1, <2>1, <3>1 DEF ListBounds
  <2>3. CASE ~ list.stale
    <3>1. PICK items : items = list.items \o Unseen(more.page)
      OBVIOUS
    <3>2. list'.items = items /\ list'.shown = items
      BY <1>8, <2>3, <3>1 DEF OlderArrives, ListInv, ListShape
    <3>3. more.page \in Seq(Nat) /\ Unseen(more.page) = more.page
      BY <1>8, <2>3, OlderAdds DEF OlderArrives
    <3>4. PICK page \in Seq(Nat) : page = more.page
      BY <3>3
    <3>5. UpTo(list.items \o page, made)
      BY <1>1, <3>4, AppendUpTo DEF ListBounds
    <3>6. UpTo(items, made)
      BY <3>1, <3>3, <3>4, <3>5
    <3> QED BY <1>1, <2>1, <3>2, <3>6 DEF ListBounds
  <2> QED BY <2>2, <2>3
<1> QED BY <1>2, <1>3, <1>4, <1>5, <1>6, <1>7, <1>8 DEF ListNext

LEMMA ListBoundsInit == PageInit => ListBounds
<1> SUFFICES ASSUME PageInit PROVE ListBounds
  OBVIOUS
<1>1. made \in 0..MaxRows /\ list.shown = <<>> /\ list.items = <<>> /\ more = Nothing /\ first = AskedFor(0)
  BY DEF PageInit
<1>2. first.page = <<>> /\ more.page = <<>> /\ more.at = "none"
  BY <1>1 DEF AskedFor, Nothing
<1>3. made <= MaxRows
  BY <1>1, PageAssumption DEF PageAssumption
<1> QED BY <1>1, <1>2, <1>3, EmptyUpTo DEF ListBounds

-----------------------------------------------------------------------------
\* No cursor is beyond the longest log.
DrawerBounds ==
  /\ \A log \in Logs : lines[log] <= MaxLines
  /\ drawer.cursor <= MaxLines
  /\ \A k \in DOMAIN polls : polls[k].from <= MaxLines /\ polls[k].cursor <= MaxLines

\* The reads of a log after one of them was answered.
LEMMA ServedCursors ==
  ASSUME DrawerInv, DrawerBounds, NEW k \in DOMAIN polls, LogServed(k)
  PROVE  /\ UNCHANGED <<lines, drawer>>
         /\ \A j \in DOMAIN polls' : polls'[j].from <= MaxLines /\ polls'[j].cursor <= MaxLines
<1>1. UNCHANGED <<lines, drawer>>
  BY DEF LogServed
<1>2. PICK m \in Nat : m = lines[Source] /\ m <= MaxLines
  BY SourceIsLog, DrawerFields DEF DrawerInv, DrawerBounds
<1>3. PICK log : log = [n \in 1..lines[Source] |-> <<Source, n>>] /\ Len(log) = m
  <2>1. PICK at \in Logs : at = Source
    BY SourceIsLog
  <2>2. PICK log : log = [n \in 1..m |-> <<at, n>>]
    OBVIOUS
  <2>3. Len(log) = m
    BY <2>2, ListAnswers
  <2> QED BY <1>2, <2>1, <2>2, <2>3
<1>4. PICK page, cursor :
        /\ cursor \in Nat /\ cursor <= MaxLines
        /\ polls' \in {[polls EXCEPT ![k].at = "answered", ![k].shown = page, ![k].cursor = cursor],
                       [polls EXCEPT ![k].at = "failed"]}
  <2>1. \A c \in {m, 0} : c \in Nat /\ c <= MaxLines
    BY <1>2, PageAssumption DEF PageAssumption
  <2>2. \E page : \E cursor \in {m, 0} :
          polls' \in {[polls EXCEPT ![k].at = "answered", ![k].shown = page, ![k].cursor = cursor],
                      [polls EXCEPT ![k].at = "failed"]}
    <3>1. \E page, cursor :
            /\ cursor = IF numbered THEN Len(log) ELSE 0
            /\ polls' \in {[polls EXCEPT ![k].at = "answered", ![k].shown = page, ![k].cursor = cursor],
                           [polls EXCEPT ![k].at = "failed"]}
      BY <1>3, Zenon DEF LogServed
    <3> QED BY <1>3, <3>1, Zenon
  <2> QED BY <2>1, <2>2, Zenon
<1>5. PICK p \in PollRecords : p = polls[k] /\ p.from <= MaxLines /\ p.cursor <= MaxLines
  BY DrawerFields DEF DrawerInv, DrawerBounds
<1>6. PICK q : /\ polls' = [polls EXCEPT ![k] = q]
               /\ q.from <= MaxLines /\ q.cursor <= MaxLines
  <2>1. CASE polls' = [polls EXCEPT ![k].at = "answered", ![k].shown = page, ![k].cursor = cursor]
    <3>1. PICK q : q = [p EXCEPT !.at = "answered", !.shown = page, !.cursor = cursor]
      OBVIOUS
    <3>2. q.from = p.from /\ q.cursor = cursor
      BY <3>1 DEF PollRecords
    <3>3. polls' = [polls EXCEPT ![k] = q]
      BY <1>5, <2>1, <3>1 DEF DrawerInv, DrawerShape
    <3> QED BY <1>4, <1>5, <3>2, <3>3
  <2>2. CASE polls' = [polls EXCEPT ![k].at = "failed"]
    <3>1. PICK q : q = [p EXCEPT !.at = "failed"]
      OBVIOUS
    <3>2. q.from = p.from /\ q.cursor = p.cursor
      BY <3>1 DEF PollRecords
    <3>3. polls' = [polls EXCEPT ![k] = q]
      BY <1>5, <2>2, <3>1 DEF DrawerInv, DrawerShape
    <3> QED BY <1>5, <3>2, <3>3
  <2> QED BY <1>4, <2>1, <2>2
<1>7. DOMAIN polls' = DOMAIN polls /\ \A j \in DOMAIN polls : polls'[j] = q \/ polls'[j] = polls[j]
  BY <1>6 DEF DrawerInv, DrawerShape
<1> QED BY <1>1, <1>6, <1>7 DEF DrawerBounds

\* Every step keeps the cursors within the logs.
LEMMA DrawerBoundsStep ==
  ASSUME DrawerInv, DrawerBounds, DrawerNext
  PROVE  DrawerBounds'
<1>1. ASSUME NEW log \in Logs, LineWritten(log) PROVE DrawerBounds'
  <2>1. lines[log] < MaxLines /\ lines' = [lines EXCEPT ![log] = @ + 1] /\ UNCHANGED <<drawer, polls>>
    BY <1>1 DEF LineWritten
  <2>2. lines \in [Logs -> Nat]
    BY DEF DrawerInv, DrawerShape
  <2>3. \A l \in Logs : lines'[l] <= MaxLines
    BY <1>1, <2>1, <2>2, PageAssumption DEF DrawerBounds, PageAssumption
  <2> QED BY <2>1, <2>3 DEF DrawerBounds
<1>2. CASE HandleRecorded
  BY <1>2 DEF HandleRecorded, DrawerBounds
<1>3. CASE Poll
  <2>1. PICK s \in Seq(PollRecords), p \in PollRecords :
          /\ s = polls /\ p = Reading(drawer.cursor) /\ p.from = drawer.cursor /\ p.cursor = 0
    <3>1. <<>> \in Seq(LogLines) /\ drawer.cursor \in Nat /\ polls \in Seq(PollRecords)
      BY DrawerFields DEF DrawerInv, DrawerShape
    <3>2. Reading(drawer.cursor) \in PollRecords
      BY <3>1 DEF Reading, PollRecords
    <3> QED BY <3>1, <3>2 DEF Reading
  <2>2. polls' = Append(s, p) /\ UNCHANGED <<lines, drawer>>
    BY <1>3, <2>1 DEF Poll
  <2>3. \A k \in DOMAIN polls' : polls'[k] = p \/ (k \in DOMAIN s /\ polls'[k] = s[k])
    <3>1. PICK t : t = Append(s, p)
      OBVIOUS
    <3>2. Len(t) = Len(s) + 1 /\ t[Len(s) + 1] = p /\ \A k \in 1..Len(s) : t[k] = s[k]
      BY <3>1
    <3>3. DOMAIN t = 1..(Len(s) + 1)
      BY <3>1
    <3> QED BY <2>2, <3>1, <3>2, <3>3
  <2>4. 0 <= MaxLines
    BY PageAssumption DEF PageAssumption
  <2> QED BY <2>1, <2>2, <2>3, <2>4 DEF DrawerBounds
<1>4. ASSUME NEW k \in DOMAIN polls, LogServed(k) PROVE DrawerBounds'
  BY <1>4, ServedCursors DEF DrawerBounds
<1>5. ASSUME NEW k \in DOMAIN polls, LogArrives(k) PROVE DrawerBounds'
  <2>1. PICK s \in Seq(PollRecords) : s = polls /\ k \in 1..Len(s)
    BY <1>5 DEF DrawerInv, DrawerShape
  <2>2. UNCHANGED lines /\ polls' = RemoveAt(s, k)
    BY <1>5, <2>1 DEF LogArrives
  <2>3. \A j \in DOMAIN polls' : \E i \in DOMAIN polls : polls'[j] = polls[i]
    BY <2>1, <2>2, RemoveShape
  <2>4. drawer'.cursor = polls[k].cursor \/ drawer'.cursor = drawer.cursor
    <3>1. drawer \in [state : {"loading", "degraded", "success"}, shown : Seq(LogLines), cursor : Nat]
      BY DEF DrawerInv, DrawerShape
    <3>2. drawer' \in {Filled(polls[k]), drawer, Appended(polls[k])}
      BY <1>5 DEF LogArrives
    <3>3. Filled(polls[k]).cursor = polls[k].cursor
      BY DEF Filled
    <3>4. Appended(polls[k]).cursor = polls[k].cursor
      BY <3>1 DEF Appended
    <3> QED BY <3>2, <3>3, <3>4
  <2> QED BY <1>5, <2>2, <2>3, <2>4 DEF DrawerBounds
<1> QED BY <1>1, <1>2, <1>3, <1>4, <1>5 DEF DrawerNext

LEMMA DrawerBoundsInit == PageInit => DrawerBounds
<1> SUFFICES ASSUME PageInit PROVE DrawerBounds
  OBVIOUS
<1>1. lines \in [Logs -> 0..1] /\ drawer.cursor = 0 /\ polls = <<Reading(0)>>
  BY DEF PageInit
<1>2. MaxLines >= 1
  BY PageAssumption DEF PageAssumption
<1>3. \A log \in Logs : lines[log] <= MaxLines
  BY <1>1, <1>2, PageAssumption DEF PageAssumption
<1>4. DOMAIN polls = {1} /\ polls[1].from = 0 /\ polls[1].cursor = 0
  BY <1>1 DEF Reading
<1>5. 0 <= MaxLines
  BY PageAssumption DEF PageAssumption
<1> QED BY <1>1, <1>3, <1>4, <1>5 DEF DrawerBounds

\* The deployments page shows rows there are and cursors a log had
\* (hooks.ts:153-207, pages.tsx:1473-1517).
THEOREM PageTypeAlways == PageSpec => []PageType
<1> DEFINE Inv == ListInv /\ DrawerInv /\ ListBounds /\ DrawerBounds
<1>1. PageInit => Inv
  BY ListInit, DrawerInit, ListBoundsInit, DrawerBoundsInit
<1>2. Inv /\ [PageNext]_pageVars => Inv'
  <2> SUFFICES ASSUME Inv, [PageNext]_pageVars PROVE Inv'
    OBVIOUS
  <2>1. ListInv' /\ DrawerInv'
    BY ListStep, DrawerStep
  <2>2. CASE ListNext
    <3>1. UNCHANGED drawerVars
      BY <2>2 DEF ListNext, RowAdded, ListServed, OlderServed, Reload, ListArrives, LoadMore, OlderArrives
    <3> QED BY <2>1, <2>2, <3>1, ListBoundsStep DEF drawerVars, DrawerBounds
  <2>3. CASE DrawerNext
    <3>1. UNCHANGED listVars
      BY <2>3 DEF DrawerNext, LineWritten, HandleRecorded, Poll, LogServed, LogArrives
    <3> QED BY <2>1, <2>3, <3>1, DrawerBoundsStep DEF listVars, ListBounds
  <2>4. CASE UNCHANGED pageVars
    BY <2>1, <2>4 DEF pageVars, listVars, drawerVars, ListBounds, DrawerBounds
  <2> QED BY <2>2, <2>3, <2>4 DEF PageNext
<1>3. Inv => PageType
  <2> SUFFICES ASSUME Inv PROVE PageType
    OBVIOUS
  <2>1. Range(list.shown) \cup Range(list.items) \subseteq 1..made
    BY DEF ListBounds, UpTo, Range
  <2>2. /\ list.state \in {"loading", "ready", "error"}
        /\ {first.at, more.at} \subseteq {"none", "asked", "answered", "failed"}
    BY DEF ListInv, ListShape, FirstReads, MoreReads
  <2>3. drawer.state \in {"loading", "degraded", "success"}
    BY DrawerFields DEF DrawerInv
  <2> QED BY <2>1, <2>2, <2>3 DEF PageType, ListBounds, DrawerBounds
<1> HIDE DEF Inv
<1> QED BY <1>1, <1>2, <1>3, PTL DEF PageSpec

=============================================================================
