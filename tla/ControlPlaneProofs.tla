-------------------------- MODULE ControlPlaneProofs --------------------------
(***************************************************************************)
(* Proofs about the parts of the control plane, for any number of rows,    *)
(* users, variables, deliveries, keys, editors, saves of the policy and    *)
(* concurrent requests.                                                    *)
(***************************************************************************)
EXTENDS SecurityIncidents, Members, GitDeliveries, EnvVars, HostedDomains, ApiAccess, Projects,
        EdgePolicy, TLAPS

-----------------------------------------------------------------------------
(* Incidents.  A request in flight is about an incident that exists: rows  *)
(* are never deleted, so what the request read of that stays true.         *)

TriagedExist ==
  \A t \in Triagers : triage[t] # NoTriage => incident[triage[t].incident] # "absent"

IncidentInv == IncidentType /\ TriagedExist

\* A write leaves every incident as it is, or moves one the trigger lets pass.
LEMMA WriteMoves ==
  ASSUME IncidentInv, NEW t \in Triagers, TransitionWrites(t)
  PROVE  /\ triage[t] \in [incident : Incidents, to : Asked]
         /\ incident' \in [Incidents -> {"absent", "open"} \cup Asked]
         /\ \A i \in Incidents :
              \/ incident'[i] = incident[i]
              \/ /\ i = triage[t].incident /\ incident'[i] = triage[t].to
                 /\ GuardAccepts(incident[i], incident'[i])
BY NoIncidentAssumption
   DEF IncidentInv, IncidentType, TransitionWrites, NoTriage, Asked, Closed

\* The type of the incidents and the requests is inductive.
LEMMA IncidentInductive == IncidentInv /\ [IncidentNext]_incidentVars => IncidentInv'
<1> SUFFICES ASSUME IncidentInv, [IncidentNext]_incidentVars PROVE IncidentInv'
  OBVIOUS
<1> USE NoIncidentAssumption
<1>1. ASSUME NEW i \in Incidents, OpenIncident(i) PROVE IncidentInv'
  <2>1. IncidentType'
    BY <1>1 DEF IncidentInv, IncidentType, OpenIncident
  <2>2. TriagedExist'
    BY <1>1 DEF IncidentInv, IncidentType, TriagedExist, OpenIncident, NoTriage
  <2> QED BY <2>1, <2>2 DEF IncidentInv
<1>2. ASSUME NEW t \in Triagers, NEW i \in Incidents, NEW to \in Asked, TransitionReads(t, i, to)
      PROVE  IncidentInv'
  BY <1>2 DEF IncidentInv, IncidentType, TriagedExist, TransitionReads, NoTriage
<1>3. ASSUME NEW t \in Triagers, TransitionWrites(t) PROVE IncidentInv'
  <2>1. IncidentType'
    BY <1>3, WriteMoves DEF IncidentInv, IncidentType, TransitionWrites
  <2>2. TriagedExist'
    BY <1>3, WriteMoves DEF IncidentInv, IncidentType, TriagedExist, TransitionWrites, NoTriage,
                            Asked, Closed
  <2> QED BY <2>1, <2>2 DEF IncidentInv
<1>4. ASSUME NEW t \in Triagers, TriageDies(t) PROVE IncidentInv'
  BY <1>4 DEF IncidentInv, IncidentType, TriagedExist, TriageDies, NoTriage
<1>5. CASE UNCHANGED incidentVars
  BY <1>5 DEF IncidentInv, IncidentType, TriagedExist, incidentVars
<1> QED BY <1>1, <1>2, <1>3, <1>4, <1>5 DEF IncidentNext

LEMMA IncidentInvariant == IncidentSpec => []IncidentInv
<1>1. IncidentInit => IncidentInv
  BY NoIncidentAssumption
     DEF IncidentInit, IncidentInv, IncidentType, TriagedExist, NoTriage
<1> QED BY <1>1, IncidentInductive, PTL DEF IncidentSpec

\* An incident is closed only from triage and never reopened, whatever requests
\* decided on a state that others changed since (transitionSecurityIncident and
\* the trigger of migration 0019).
THEOREM IncidentsForward == IncidentSpec => IncidentsMoveForward
<1> DEFINE Forward ==
      \A i \in Incidents :
        /\ incident[i] \in Closed => incident'[i] = incident[i]
        /\ incident'[i] \in Closed => incident[i] \in {"triaged", incident'[i]}
<1>1. IncidentInv /\ [IncidentNext]_incidentVars => [Forward]_incidentVars
  <2> SUFFICES ASSUME IncidentInv, IncidentNext PROVE Forward
    BY DEF IncidentNext
  <2>1. ASSUME NEW i \in Incidents, OpenIncident(i) PROVE Forward
    BY <2>1 DEF IncidentInv, IncidentType, OpenIncident, Closed
  <2>2. ASSUME NEW t \in Triagers, TransitionWrites(t) PROVE Forward
    <3> SUFFICES ASSUME NEW i \in Incidents, incident'[i] # incident[i]
                 PROVE  /\ incident[i] \notin Closed
                        /\ incident'[i] \in Closed => incident[i] = "triaged"
      BY DEF Closed
    <3>1. i = triage[t].incident /\ GuardAccepts(incident[i], incident'[i])
      BY <2>2, WriteMoves
    <3>2. incident[i] # "absent"
      BY <3>1, <2>2 DEF IncidentInv, TriagedExist, TransitionWrites
    <3> QED BY <3>1, <3>2 DEF GuardAccepts, IncidentInv, IncidentType, Asked, Closed
  <2>3. ASSUME NEW t \in Triagers, NEW i \in Incidents, NEW to \in Asked,
               TransitionReads(t, i, to) \/ TriageDies(t)
        PROVE  Forward
    BY <2>3 DEF TransitionReads, TriageDies
  <2> QED BY <2>1, <2>2, <2>3 DEF IncidentNext, TriageDies
<1> QED BY <1>1, IncidentInvariant, PTL DEF IncidentSpec, IncidentsMoveForward

-----------------------------------------------------------------------------
(* Members.  Unless two requests decided on owners at the same time, some  *)
(* owner is out of danger: no request is about to demote or remove it.     *)

Spared(o) ==
  \A r \in MemberRequests : call[r].at = "write" /\ call[r].on = o => call[r].to = "owner"

\* Before the founder joins there is nobody who could ask for anything.
Unmanned == /\ \A u \in Users : role[u] = "none"
            /\ \A r \in MemberRequests : call[r] = NoCall

Manned == together \/ \E o \in Owners : Spared(o)

MemberInv == /\ MemberType
             /\ founder.joined => Manned
             /\ ~founder.joined => Unmanned
             /\ founder.user = NoUser \/ ~founder.joined

\* A decision against an owner is taken with another owner on the list; either
\* nobody decided on that one, or the decisions were taken together.
LEMMA DecisionSpares ==
  ASSUME MemberInv, founder.joined, NEW r \in MemberRequests, Decides(r)
  PROVE  Manned'
<1> DEFINE c == call[r]
<1>1. /\ c.at = "decide" /\ role' = role
      /\ call' = [call EXCEPT ![r].at = "write"]
      /\ \A s \in MemberRequests :
           s # r => call'[s] = call[s]
      /\ call'[r].on = c.on /\ call'[r].to = c.to
  BY DEF Decides, MemberInv, MemberType
<1>2. SUFFICES ASSUME ~together' PROVE \E o \in Owners : Spared(o)'
  BY <1>1 DEF Manned, Owners
<1>3. PICK o \in Owners : Spared(o)
  BY <1>2 DEF MemberInv, Manned, Decides
<1>4. CASE c.on # o \/ c.to = "owner"
  <2>1. Spared(o)'
    BY <1>1, <1>3, <1>4 DEF Spared
  <2> QED BY <2>1
<1>5. CASE c.on = o /\ c.to # "owner"
  <2>1. PICK p \in Owners : p # o
    BY <1>3, <1>5 DEF Decides, OtherOwnersLeft, Owners
  <2>2. \A s \in MemberRequests : ~(call[s].at = "write" /\ role[call[s].on] = "owner")
    BY <1>2, <1>3, <1>5 DEF Decides, Owners
  <2>3. Spared(p)'
    BY <1>1, <1>5, <2>1, <2>2 DEF Spared, Owners
  <2> QED BY <2>1, <2>3
<1> QED BY <1>4, <1>5

\* A write spares the owner that is out of danger.
LEMMA WriteSpares ==
  ASSUME MemberInv, founder.joined, NEW r \in MemberRequests, Writes(r)
  PROVE  Manned'
<1>1. CASE together
  BY <1>1 DEF Writes, Manned
<1>2. CASE ~together
  <2>1. PICK o \in Owners : Spared(o)
    BY <1>2 DEF MemberInv, Manned
  <2>2. /\ call' = [call EXCEPT ![r] = NoCall]
        /\ \A u \in Users : u # call[r].on => role'[u] = role[u]
        /\ role'[o] \in {role[o], call[r].to}
        /\ call[r].at = "write"
    BY <2>1 DEF Writes, MemberInv, MemberType, Owners
  <2>3. role'[o] = "owner"
    BY <2>1, <2>2 DEF Spared, Owners
  <2>4. Spared(o)'
    BY <2>1, <2>2 DEF Spared, NoCall, MemberInv, MemberType
  <2> QED BY <2>1, <2>3, <2>4 DEF Manned, Owners
<1> QED BY <1>1, <1>2

LEMMA MemberInductive == MemberInv /\ [MemberNext]_memberVars => MemberInv'
<1> SUFFICES ASSUME MemberInv, [MemberNext]_memberVars PROVE MemberInv'
  OBVIOUS
<1> USE NoUserAssumption
<1>1. ASSUME NEW u \in Users, CreateOrganization(u) PROVE MemberInv'
  <2>1. /\ ~founder.joined /\ founder'.user = u /\ ~founder'.joined
        /\ UNCHANGED <<role, call, together>>
    BY <1>1 DEF CreateOrganization, MemberInv, MemberType
  <2>2. MemberType'
    BY <1>1 DEF CreateOrganization, MemberInv, MemberType
  <2> QED BY <2>1, <2>2 DEF MemberInv, Unmanned
<1>2. CASE CreateMembership
  <2>1. /\ founder.user \in Users /\ ~founder.joined
        /\ founder'.user = NoUser /\ founder'.joined
    BY <1>2 DEF CreateMembership, MemberInv, MemberType
  <2>2. MemberType'
    BY <1>2, <2>1 DEF CreateMembership, MemberInv, MemberType, Roles
  <2>3. PICK u \in Users : u = founder.user
    BY <2>1
  <2>4. role'[u] = "owner" /\ Spared(u)'
    BY <1>2, <2>1, <2>3 DEF CreateMembership, MemberInv, MemberType, Unmanned, Spared, NoCall
  <2> QED BY <2>1, <2>2, <2>4 DEF MemberInv, Manned, Owners
<1>3. ASSUME NEW by \in Users, NEW u \in Users, NEW to \in Roles, AddMember(by, u, to)
      PROVE  MemberInv'
  <2>1. /\ role[u] = "none" /\ role' = [role EXCEPT ![u] = to]
        /\ UNCHANGED <<call, founder, together>> /\ founder.joined
    BY <1>3 DEF AddMember, MemberInv, Unmanned
  <2>2. MemberType'
    BY <2>1 DEF MemberInv, MemberType
  <2>3. Manned'
    BY <2>1 DEF MemberInv, MemberType, Manned, Owners, Spared
  <2> QED BY <2>1, <2>2, <2>3 DEF MemberInv
<1>4. ASSUME NEW r \in MemberRequests, NEW by \in Users, NEW on \in Users,
             NEW to \in Roles \cup {"none"}, Authenticate(r, by, on, to)
      PROVE  MemberInv'
  <2>1. /\ call' = [call EXCEPT ![r] = [at |-> "decide", by |-> by, as |-> role[by],
                                        on |-> on, to |-> to]]
        /\ UNCHANGED <<role, founder, together>> /\ founder.joined
    BY <1>4 DEF Authenticate, MemberInv, Unmanned
  <2>2. MemberType'
    BY <2>1 DEF MemberInv, MemberType
  <2>3. Manned'
    BY <2>1 DEF MemberInv, MemberType, Manned, Owners, Spared
  <2> QED BY <2>1, <2>2, <2>3 DEF MemberInv
<1>5. ASSUME NEW r \in MemberRequests, Decides(r) \/ Writes(r) PROVE MemberInv'
  <2>1. founder.joined /\ founder' = founder
    BY <1>5 DEF Decides, Writes, MemberInv, Unmanned, NoCall
  <2>2. MemberType'
    <3>1. CASE Decides(r)
      BY <3>1 DEF Decides, MemberInv, MemberType
    <3>2. CASE Writes(r)
      BY <3>2 DEF Writes, MemberInv, MemberType, NoCall
    <3> QED BY <1>5, <3>1, <3>2
  <2> QED BY <1>5, <2>1, <2>2, DecisionSpares, WriteSpares DEF MemberInv
<1>6. ASSUME NEW r \in MemberRequests, EndsUnwritten(r) PROVE MemberInv'
  <2>1. /\ call' = [call EXCEPT ![r] = NoCall]
        /\ UNCHANGED <<role, founder, together>> /\ founder.joined
    BY <1>6 DEF EndsUnwritten, MemberInv, Unmanned
  <2>2. MemberType'
    BY <2>1 DEF MemberInv, MemberType, NoCall
  <2>3. Manned'
    BY <2>1 DEF MemberInv, MemberType, Manned, Owners, Spared, NoCall
  <2> QED BY <2>1, <2>2, <2>3 DEF MemberInv
<1>7. CASE UNCHANGED memberVars
  BY <1>7 DEF MemberInv, MemberType, Manned, Unmanned, Owners, Spared, memberVars
<1> QED BY <1>1, <1>2, <1>3, <1>4, <1>5, <1>6, <1>7 DEF MemberNext

LEMMA MemberAlways == MemberSpec => []MemberInv
<1>1. MemberInit => MemberInv
  <2> SUFFICES ASSUME MemberInit PROVE MemberInv
    OBVIOUS
  <2>1. MemberType
    BY DEF MemberInit, MemberType, Roles, NoCall
  <2>2. Unmanned /\ ~founder.joined
    BY DEF MemberInit, Unmanned
  <2> QED BY <2>1, <2>2 DEF MemberInv
<1> QED BY <1>1, MemberInductive, PTL DEF MemberSpec

\* An organization whose founder has joined has an owner, however many requests
\* demote and remove its members, unless two of them decided on owners at the
\* same time (updateOrganizationMemberRole, removeOrganizationMember).
THEOREM AnOwnerRemains == MemberSpec => []OwnerRemains
<1>1. MemberInv => OwnerRemains
  BY DEF MemberInv, Manned, OwnerRemains
<1> QED BY <1>1, MemberAlways, PTL

-----------------------------------------------------------------------------
(* Git deliveries.  Every row on record either has its job, or was cut     *)
(* short, or a delivery of it is on its way to enqueue one; and only a     *)
(* push with a row is ever answered.                                       *)

OnTheWay(p) == \E h \in Hooks : hook[h].push = p /\ hook[h].at \in {"target", "enqueue"}

RowsAccountedFor == \A p \in deployment : p \in queued \/ OnTheWay(p) \/ p \in cut

DeliveryInv == /\ DeliveryType
               /\ accepted \subseteq deployment
               /\ RowsAccountedFor
               /\ \A h \in Hooks : hook[h].at # "idle" => hook[h].push \in Pushes
               /\ \A h \in Hooks : hook[h].at \in {"target", "enqueue"} => hook[h].push \in deployment

\* A delivery that goes on, ends elsewhere than at its job, or is another one's
\* leaves the rows accounted for.
LEMMA OthersStay ==
  ASSUME DeliveryInv, NEW h \in Hooks,
         \A g \in Hooks : g # h => hook'[g] = hook[g],
         deployment' = deployment, queued \subseteq queued', cut \subseteq cut',
         hook[h].at \in {"target", "enqueue"} =>
           \/ hook'[h].at \in {"target", "enqueue"} /\ hook'[h].push = hook[h].push
           \/ hook[h].push \in queued' \cup cut'
  PROVE  RowsAccountedFor'
BY DEF DeliveryInv, RowsAccountedFor, OnTheWay

LEMMA DeliveryInductive == DeliveryInv /\ [DeliveryNext]_deliveryVars => DeliveryInv'
<1> SUFFICES ASSUME DeliveryInv, [DeliveryNext]_deliveryVars PROVE DeliveryInv'
  OBVIOUS
<1> USE PushAssumption
<1>1. ASSUME NEW previews \in Linked, ConnectGitLink(previews) \/ DisconnectGitLink
      PROVE  DeliveryInv'
  BY <1>1 DEF ConnectGitLink, DisconnectGitLink, DeliveryInv, DeliveryType, RowsAccountedFor,
              OnTheWay, Linked
<1>2. ASSUME NEW h \in Hooks, NEW p \in Pushes, Delivered(h, p) PROVE DeliveryInv'
  <2>1. RowsAccountedFor'
    BY <1>2, OthersStay DEF Delivered, NoHook, DeliveryInv, DeliveryType
  <2> QED BY <1>2, <2>1 DEF Delivered, DeliveryInv, DeliveryType
<1>3. ASSUME NEW h \in Hooks, FindDeployment(h) PROVE DeliveryInv'
  <2>1. RowsAccountedFor'
    BY <1>3, OthersStay DEF FindDeployment, Accepts, HookGoes, HookEnds, DeliveryInv, DeliveryType
  <2> QED BY <1>3, <2>1 DEF FindDeployment, Accepts, HookGoes, HookEnds, NoHook, DeliveryInv,
                            DeliveryType
<1>4. ASSUME NEW h \in Hooks, CreateDeployment(h) PROVE DeliveryInv'
  <2> DEFINE p == hook[h].push
  <2>1. /\ deployment' = deployment \cup {p}
        /\ UNCHANGED <<link, target, queued, accepted, cut>>
        /\ \A g \in Hooks : g # h => hook'[g] = hook[g]
        /\ hook[h].at = "create" /\ p \in Pushes
    BY <1>4 DEF CreateDeployment, HookGoes, HookEnds, DeliveryInv, DeliveryType
  <2>2. \/ p \in deployment /\ hook'[h] = NoHook
        \/ hook'[h].at \in {"target", "enqueue"} /\ hook'[h].push = p
    BY <1>4 DEF CreateDeployment, HookGoes, HookEnds, DeliveryInv, DeliveryType
  <2>3. RowsAccountedFor'
    BY <2>1, <2>2 DEF RowsAccountedFor, OnTheWay, DeliveryInv
  <2>4. DeliveryType'
    BY <1>4, <2>1 DEF CreateDeployment, HookGoes, HookEnds, NoHook, DeliveryInv, DeliveryType
  <2> QED BY <2>1, <2>2, <2>3, <2>4 DEF DeliveryInv, NoHook
<1>5. ASSUME NEW h \in Hooks, EnsurePreviewTarget(h) PROVE DeliveryInv'
  <2>1. RowsAccountedFor'
    BY <1>5, OthersStay DEF EnsurePreviewTarget, HookGoes, DeliveryInv, DeliveryType
  <2> QED BY <1>5, <2>1 DEF EnsurePreviewTarget, HookGoes, DeliveryInv, DeliveryType
<1>6. ASSUME NEW h \in Hooks, EnqueueJob(h) PROVE DeliveryInv'
  <2>1. RowsAccountedFor'
    BY <1>6, OthersStay DEF EnqueueJob, Accepts, HookEnds, DeliveryInv, DeliveryType
  <2> QED BY <1>6, <2>1 DEF EnqueueJob, Accepts, HookEnds, NoHook, DeliveryInv, DeliveryType
<1>7. ASSUME NEW h \in Hooks, HookStops(h) PROVE DeliveryInv'
  <2>1. RowsAccountedFor'
    BY <1>7, OthersStay DEF HookStops, HookEnds, DeliveryInv, DeliveryType
  <2> QED BY <1>7, <2>1 DEF HookStops, HookEnds, NoHook, DeliveryInv, DeliveryType
<1>8. CASE UNCHANGED deliveryVars
  BY <1>8 DEF DeliveryInv, DeliveryType, RowsAccountedFor, OnTheWay, deliveryVars
<1> QED BY <1>1, <1>2, <1>3, <1>4, <1>5, <1>6, <1>7, <1>8 DEF DeliveryNext, Linked

LEMMA DeliveryAlways == DeliverySpec => []DeliveryInv
<1>1. DeliveryInit => DeliveryInv
  <2> SUFFICES ASSUME DeliveryInit PROVE DeliveryInv
    OBVIOUS
  <2>1. DeliveryType
    BY DEF DeliveryInit, DeliveryType, Linked, NoHook
  <2>2. accepted = {} /\ deployment = {} /\ \A h \in Hooks : hook[h].at = "idle"
    BY DEF DeliveryInit, NoHook
  <2> QED BY <2>1, <2>2 DEF DeliveryInv, RowsAccountedFor
<1> QED BY <1>1, DeliveryInductive, PTL DEF DeliverySpec

\* A push answered as deployed has its job, or is about to get it, unless a
\* request stopped between the row and the job (deployFromDelivery).
THEOREM AcceptedPushesAreQueued == DeliverySpec => []AcceptedIsQueued
<1>1. DeliveryInv => AcceptedIsQueued
  BY DEF DeliveryInv, RowsAccountedFor, OnTheWay, AcceptedIsQueued
<1> QED BY <1>1, DeliveryAlways, PTL

-----------------------------------------------------------------------------
(* Environment variables.  As long as nobody edits and nothing is refused, *)
(* the listed rows are the stored ones, and what is no longer left to send *)
(* is on the engine with its stored value.                                 *)

NobodyEdits == \A r \in VarRequests : editor[r] = NoEdit

FedBut(left) == \A k \in VarKeys : stored[k] # Unset /\ k \notin left => engineEnv[k] = stored[k]

EnvInv == /\ EnvType
          /\ quiet \/ synced => NobodyEdits
          /\ synced => sync = NoSync /\ FedBut({})
          /\ quiet /\ sync # NoSync => sync.rows = stored /\ FedBut(sync.left)

\* A request that has begun goes on, in steps that no sync met quietly.
LEMMA EditsAreHeard ==
  ASSUME EnvInv, NEW r \in VarRequests, editor[r] # NoEdit, EnvType',
         UNCHANGED syncHistory
  PROVE  EnvInv'
BY DEF EnvInv, NobodyEdits, syncHistory

Edits == [at : {"idle", "target", "create", "handle", "held", "erase", "delete"},
          key : VarKeys \cup {NoVar}, value : Values]
Syncs == [at : {"idle", "list", "send"}, rows : [VarKeys -> Values], left : SUBSET VarKeys]

\* What both kinds of request start and end with.
LEMMA AtRestTyped == NoEdit \in Edits /\ NoSync \in Syncs /\ Unset \in Values
<1>1. Unset \in Values
  BY VarAssumption DEF Values, Unset
<1>2. NoEdit \in Edits
  BY <1>1 DEF NoEdit, Edits
<1>3. NoSync \in Syncs
  <2>1. NoSync.rows \in [VarKeys -> Values] /\ NoSync.left \in SUBSET VarKeys /\ NoSync.at = "idle"
    BY <1>1 DEF NoSync
  <2> QED BY <2>1 DEF NoSync, Syncs
<1> QED BY <1>1, <1>2, <1>3

LEMMA EditorTyped ==
  ASSUME EnvType, NEW r \in VarRequests,
         \/ EditEnds(r)
         \/ \E place \in {"create", "handle", "erase", "delete"} : EditGoes(r, place)
  PROVE  editor' \in [VarRequests -> Edits]
<1>1. editor \in [VarRequests -> Edits]
  BY DEF EnvType, Edits
<1>2. CASE EditEnds(r)
  BY <1>1, <1>2, AtRestTyped DEF EditEnds
<1>3. ASSUME NEW place \in {"create", "handle", "erase", "delete"}, EditGoes(r, place)
      PROVE  editor' \in [VarRequests -> Edits]
  BY <1>1, <1>3 DEF EditGoes, Edits
<1> QED BY <1>2, <1>3

LEMMA EditorSteps ==
  ASSUME EnvInv, NEW r \in VarRequests,
         \/ SetTarget(r) \/ CreateEnvVar(r) \/ SetEngineRef(r) \/ GetEngineRef(r)
         \/ EraseEnvVar(r) \/ DeleteEnvVar(r) \/ EditStops(r)
  PROVE  EnvInv'
<1>1. editor[r] # NoEdit /\ UNCHANGED syncHistory
  BY DEF SetTarget, CreateEnvVar, SetEngineRef, GetEngineRef, EraseEnvVar, DeleteEnvVar, EditStops,
         NoEdit
<1>2. editor' \in [VarRequests -> Edits]
  <2>1. \/ EditEnds(r)
        \/ \E place \in {"create", "handle", "erase", "delete"} : EditGoes(r, place)
    BY DEF SetTarget, CreateEnvVar, SetEngineRef, GetEngineRef, EraseEnvVar, DeleteEnvVar, EditStops
  <2> QED BY <2>1, EditorTyped DEF EnvInv
<1>3. UNCHANGED <<sets, envApp, sync>>
  BY DEF SetTarget, CreateEnvVar, SetEngineRef, GetEngineRef, EraseEnvVar, DeleteEnvVar, EditStops
<1>4. stored' \in [VarKeys -> Values]
  BY AtRestTyped
     DEF SetTarget, CreateEnvVar, SetEngineRef, GetEngineRef, EraseEnvVar, DeleteEnvVar, EditStops,
         EnvInv, EnvType
<1>5. handle' \in [VarKeys -> BOOLEAN]
  BY DEF SetTarget, CreateEnvVar, SetEngineRef, GetEngineRef, EraseEnvVar, DeleteEnvVar, EditStops,
         NoteHandle, EnvInv, EnvType
<1>6. engineEnv' \in [VarKeys -> Values]
  BY DEF SetTarget, CreateEnvVar, SetEngineRef, GetEngineRef, EraseEnvVar, DeleteEnvVar, EditStops,
         EnvInv, EnvType
<1>7. EnvType'
  BY <1>1, <1>2, <1>3, <1>4, <1>5, <1>6 DEF EnvInv, EnvType, Edits, syncHistory
<1> QED BY <1>1, <1>7, EditsAreHeard

\* An edit that begins ends the quiet.
LEMMA EditBegins ==
  ASSUME EnvInv, NEW r \in VarRequests, NEW k \in VarKeys, SaveEnvVar(r, k) \/ FindEnvVar(r, k)
  PROVE  EnvInv'
<1>1. quiet' = FALSE /\ synced' = FALSE
  BY DEF SaveEnvVar, FindEnvVar, StartsEdit
<1>2. sets' \in Values
  BY VarAssumption DEF SaveEnvVar, FindEnvVar, EnvInv, EnvType, Values
<1>3. editor' \in [VarRequests -> Edits]
  <2>1. \E place \in {"target", "held"}, value \in Values : StartsEdit(r, place, k, value)
    BY <1>2, AtRestTyped DEF SaveEnvVar, FindEnvVar
  <2> QED BY <2>1 DEF StartsEdit, EnvInv, EnvType, Edits
<1>4. stored' \in [VarKeys -> Values]
  BY <1>2 DEF SaveEnvVar, FindEnvVar, EnvInv, EnvType
<1>5. UNCHANGED <<handle, envApp, engineEnv, sync>>
  BY DEF SaveEnvVar, FindEnvVar
<1>6. EnvType'
  BY <1>1, <1>2, <1>3, <1>4, <1>5 DEF EnvInv, EnvType, Edits
<1> QED BY <1>1, <1>6 DEF EnvInv

LEMMA SyncBegins == ASSUME EnvInv, SyncLists PROVE EnvInv'
<1> DEFINE rows == {k \in VarKeys : stored[k] # Unset}
<1>1. /\ quiet' = NobodyEdits /\ synced' = (rows = {} /\ quiet')
      /\ sync' = IF rows = {} THEN NoSync ELSE [at |-> "list", rows |-> stored, left |-> rows]
      /\ envApp' = TRUE /\ UNCHANGED <<stored, handle, sets, engineEnv, editor>>
  BY DEF SyncLists, NobodyEdits
<1>2. EnvType'
  <2>1. sync' \in Syncs
    <3>1. CASE rows = {}
      BY <1>1, <3>1, AtRestTyped
    <3>2. CASE rows # {}
      BY <1>1, <3>2 DEF EnvInv, EnvType, Syncs
    <3> QED BY <3>1, <3>2
  <2>2. quiet' \in BOOLEAN /\ synced' \in BOOLEAN
    BY <1>1 DEF NobodyEdits
  <2> QED BY <1>1, <2>1, <2>2 DEF EnvInv, EnvType, Syncs
<1>3. quiet' \/ synced' => NobodyEdits'
  BY <1>1 DEF NobodyEdits
<1>4. synced' => sync' = NoSync /\ FedBut({})'
  BY <1>1 DEF FedBut
<1>5. quiet' /\ sync' # NoSync => sync'.rows = stored' /\ FedBut(sync.left)'
  BY <1>1 DEF FedBut
<1> QED BY <1>2, <1>3, <1>4, <1>5 DEF EnvInv

LEMMA SyncGoesOn ==
  ASSUME EnvInv, SyncSeesEngine \/ SyncEnds \/ SyncDies \/ \E k \in VarKeys : SyncSends(k)
  PROVE  EnvInv'
<1>1. ~synced
  BY DEF EnvInv, SyncSeesEngine, SyncEnds, SyncDies, SyncSends, NoSync
<1>2. sync \in Syncs
  BY DEF EnvInv, EnvType, Syncs
<1>3. CASE SyncSeesEngine
  <2>1. sync # NoSync
    BY <1>3 DEF SyncSeesEngine, NoSync
  <2>2. /\ \/ quiet' = FALSE /\ sync' = NoSync
           \/ quiet' = quiet /\ sync' = [sync EXCEPT !.at = "send"]
        /\ UNCHANGED <<stored, handle, sets, envApp, engineEnv, editor, synced>>
    BY <1>3 DEF SyncSeesEngine
  <2>3. sync' \in Syncs
    BY <1>2, <2>2, AtRestTyped DEF Syncs
  <2>4. EnvType'
    BY <2>2, <2>3 DEF EnvInv, EnvType, Syncs
  <2>5. quiet' => sync'.rows = stored' /\ FedBut(sync.left)'
    BY <1>2, <2>1, <2>2 DEF EnvInv, FedBut, Syncs
  <2>6. quiet' => NobodyEdits'
    BY <2>2 DEF EnvInv, NobodyEdits
  <2> QED BY <1>1, <2>2, <2>4, <2>5, <2>6 DEF EnvInv
<1>4. CASE SyncEnds
  <2>1. sync # NoSync
    BY <1>4 DEF SyncEnds, NoSync
  <2>2. /\ sync.left = {} /\ sync' = NoSync /\ synced' = quiet /\ quiet' = FALSE
        /\ UNCHANGED <<stored, handle, sets, envApp, engineEnv, editor>>
    BY <1>4 DEF SyncEnds
  <2>3. EnvType'
    BY <2>2, AtRestTyped DEF EnvInv, EnvType, Syncs
  <2>4. synced' => FedBut({})' /\ NobodyEdits'
    BY <2>1, <2>2 DEF EnvInv, FedBut, NobodyEdits
  <2> QED BY <2>2, <2>3, <2>4 DEF EnvInv
<1>5. CASE SyncDies
  <2>1. EnvType'
    BY <1>5, AtRestTyped DEF SyncDies, EnvInv, EnvType, Syncs
  <2> QED BY <1>1, <1>5, <2>1 DEF SyncDies, EnvInv
<1>6. ASSUME NEW k \in VarKeys, SyncSends(k) PROVE EnvInv'
  <2>1. /\ engineEnv' = engineEnv \/ engineEnv' = [engineEnv EXCEPT ![k] = sync.rows[k]]
        /\ quiet' => quiet /\ engineEnv' = [engineEnv EXCEPT ![k] = sync.rows[k]]
        /\ sync' = [sync EXCEPT !.left = @ \ {k}] /\ sync.at = "send"
        /\ UNCHANGED <<stored, sets, envApp, editor, synced>>
    BY <1>6 DEF SyncSends
  <2>2. EnvType'
    <3>1. handle' \in [VarKeys -> BOOLEAN] /\ quiet' \in BOOLEAN
      BY <1>6 DEF SyncSends, NoteHandle, EnvInv, EnvType
    <3> QED BY <2>1, <3>1 DEF EnvInv, EnvType
  <2>3. quiet' => sync'.rows = stored' /\ FedBut(sync.left)'
    BY <2>1 DEF EnvInv, EnvType, FedBut, NoSync
  <2> QED BY <1>1, <2>1, <2>2, <2>3 DEF EnvInv, NobodyEdits
<1> QED BY <1>3, <1>4, <1>5, <1>6

LEMMA EnvAlways == EnvSpec => []EnvInv
<1>1. EnvInit => EnvInv
  <2> SUFFICES ASSUME EnvInit PROVE EnvInv
    OBVIOUS
  <2>1. EnvType
    BY AtRestTyped DEF EnvInit, EnvType, Edits, Syncs, Unset
  <2> QED BY <2>1 DEF EnvInit, EnvInv
<1>2. EnvInv /\ [EnvNext]_envVars => EnvInv'
  <2> SUFFICES ASSUME EnvInv, [EnvNext]_envVars PROVE EnvInv'
    OBVIOUS
  <2>1. CASE UNCHANGED envVars
    BY <2>1 DEF EnvInv, EnvType, NobodyEdits, FedBut, NoSync, NoEdit, envVars, syncHistory
  <2>2. CASE EnvNext
    BY <2>2, EditBegins, EditorSteps, SyncBegins, SyncGoesOn DEF EnvNext
  <2> QED BY <2>1, <2>2
<1> QED BY <1>1, <1>2, PTL DEF EnvSpec

\* A deployment builds with every stored value when its sync met no refusal and
\* no edit, whatever earlier ones had missed (buildEnvVarSync).
THEOREM BuildsUseStored == EnvSpec => []BuildsWithStored
<1>1. EnvInv => BuildsWithStored
  BY DEF EnvInv, FedBut, BuildsWithStored
<1> QED BY <1>1, EnvAlways, PTL

-----------------------------------------------------------------------------
(* Hostnames.  What is on its way to the edge is confirmed, whatever has   *)
(* become of the row meanwhile; and as long as requests did not overlap,   *)
(* the one under way holds what the table still says.                      *)

Places == {"idle", "create", "verify", "record", "load", "compile", "publish", "target",
           "set", "delete", "withdraw", "remaining", "post"}
Askings == [at : Places, domain : Domains \cup {NoDomain}, answer : BOOLEAN, hosts : SUBSET Hostnames]

\* What every request carries, and what of it is confirmed.
Carries(r) ==
  /\ asked[r].at = "idle" => asked[r] = Idle
  /\ asked[r].at = "post" => asked[r].domain = NoDomain
  /\ asked[r].at \notin {"idle", "post"} => asked[r].domain \in Domains
  /\ asked[r].at = "compile" => HostnameOf[asked[r].domain] \in confirmed
  /\ asked[r].at \in {"publish", "post"} => asked[r].hosts \subseteq confirmed
  /\ asked[r].at = "set" => hasApp

RouteInv ==
  /\ DomainType
  /\ edgeRoutes \subseteq confirmed
  /\ Routable \subseteq confirmed
  /\ \A r \in DomainRequests : Carries(r)
  /\ ~hasApp => engineHosts = {}

\* What a request that runs alone knows.
Knows(r) ==
  LET d == asked[r].domain IN
  /\ asked[r].at = "create" => row[d] = "absent"
  /\ asked[r].at \in {"verify", "record", "load", "compile", "publish", "target", "delete"} =>
       d \in Listed
  /\ asked[r].at \in {"withdraw", "remaining"} => row[d] = "removed"
  /\ asked[r].at = "set" => d \in Listed \/ row[d] = "removed"
  /\ asked[r].at \in {"publish", "post", "set"} => \A h \in asked[r].hosts : ~Released(h)
  /\ asked[r].at \in {"remaining", "set"} /\ row[d] = "removed" =>
       HostnameOf[d] \in unheard \/ HostnameOf[d] \notin edgeRoutes

AloneInv ==
  /\ ~crossed => \A r, s \in DomainRequests : asked[r] # Idle /\ asked[s] # Idle => r = s
  /\ ~crossed => \A r \in DomainRequests : Knows(r)
  /\ ReleasedIsWithdrawn

\* A step of a request that keeps its own part of the invariant keeps the rest.
LEMMA RouteStep ==
  ASSUME RouteInv, NEW r \in DomainRequests,
         \A s \in DomainRequests : s # r => asked'[s] = asked[s],
         DomainType', confirmed \subseteq confirmed', hasApp' = hasApp,
         edgeRoutes' \subseteq confirmed', Routable' \subseteq confirmed', Carries(r)',
         engineHosts' = engineHosts \/ hasApp
  PROVE  RouteInv'
BY DEF RouteInv, Carries

LEMMA AloneStep ==
  ASSUME RouteInv, AloneInv, NEW r \in DomainRequests, asked[r] # Idle, crossed' = crossed,
         \A s \in DomainRequests : s # r => asked'[s] = asked[s],
         ~crossed => Knows(r)' /\ ReleasedIsWithdrawn'
  PROVE  AloneInv'
<1>1. CASE crossed
  BY <1>1 DEF AloneInv, ReleasedIsWithdrawn
<1>2. CASE ~crossed
  <2>1. \A s \in DomainRequests : s # r => asked'[s] = Idle
    BY <1>2 DEF AloneInv
  <2>2. \A s \in DomainRequests : s # r => Knows(s)'
    BY <2>1 DEF Knows, Idle
  <2> QED BY <1>2, <2>1, <2>2 DEF AloneInv
<1> QED BY <1>1, <1>2

LEMMA IdleTyped == Idle \in Askings
BY DEF Idle, Askings, Places

LEMMA AskedTyped ==
  ASSUME RouteInv, NEW r \in DomainRequests
  PROVE  /\ asked \in [DomainRequests -> Askings]
         /\ asked[r] \in Askings
         /\ \A place \in Places : Goto(r, place) => asked' \in [DomainRequests -> Askings]
         /\ Finish(r) => asked' \in [DomainRequests -> Askings]
<1>1. asked \in [DomainRequests -> Askings]
  BY DEF RouteInv, DomainType, Askings, Places
<1>2. ASSUME NEW place \in Places, Goto(r, place) PROVE asked' \in [DomainRequests -> Askings]
  BY <1>1, <1>2 DEF Goto, Askings
<1>3. ASSUME Finish(r) PROVE asked' \in [DomainRequests -> Askings]
  BY <1>1, <1>3, IdleTyped DEF Finish
<1> QED BY <1>1, <1>2, <1>3

\* A request that begins alone knows what it read.
LEMMA BeginKeeps ==
  ASSUME RouteInv, AloneInv, NEW r \in DomainRequests, NEW d, NEW place \in Places \ {"idle"},
         NEW hosts, Begin(r, d, place, hosts),
         \/ /\ place = "create" /\ d \in Domains /\ row[d] = "absent" /\ hosts = {}
         \/ /\ place \in {"verify", "delete"} /\ d \in Listed /\ hosts = {}
         \/ /\ place = "post" /\ d = NoDomain /\ hosts = Routable
  PROVE  RouteInv' /\ AloneInv'
<1>1. /\ asked[r] = Idle
      /\ asked' = [asked EXCEPT ![r] = [Idle EXCEPT !.at = place, !.domain = d, !.hosts = hosts]]
      /\ crossed' = (crossed \/ \E s \in DomainRequests : asked[s] # Idle)
      /\ answered' \in {{}, answered}
      /\ UNCHANGED <<row, hasApp, edgeRoutes, engineHosts, confirmed, unheard>>
  BY DEF Begin
<1>2. d \in Domains \cup {NoDomain} /\ hosts \in SUBSET Hostnames
  BY DEF Listed, Routable, Hostnames
<1>3. /\ asked'[r] = [at |-> place, domain |-> d, answer |-> FALSE, hosts |-> hosts]
      /\ \A s \in DomainRequests : s # r => asked'[s] = asked[s]
  BY <1>1, AskedTyped DEF Idle
<1>4. asked' \in [DomainRequests -> Askings]
  BY <1>1, <1>2, AskedTyped DEF Idle, Askings, Places
<1>5. DomainType'
  BY <1>1, <1>4 DEF RouteInv, DomainType, Askings, Places, Hostnames
<1>6. Carries(r)'
  BY <1>1, <1>3 DEF Carries, RouteInv, Listed, Idle
<1>7. RouteInv'
  BY <1>1, <1>3, <1>5, <1>6, RouteStep DEF RouteInv, Routable
<1>8. Listed' = Listed /\ Routable' = Routable /\ \A h : Released(h)' <=> Released(h)
  BY <1>1 DEF Listed, Routable, Released
<1>9. ASSUME ~crossed' PROVE Knows(r)' /\ \A s \in DomainRequests : s # r => asked'[s] = Idle
  <2>1. \A s \in DomainRequests : s # r => asked'[s] = Idle
    BY <1>1, <1>3, <1>9
  <2>2. \A h \in Routable : ~Released(h)
    BY DEF Routable, Released, Listed
  <2>3. Knows(r)'
    BY <1>1, <1>3, <1>8, <2>2 DEF Knows
  <2> QED BY <2>1, <2>3
<1>10. ~crossed' => \A s \in DomainRequests : Knows(s)'
  BY <1>9 DEF Knows, Idle
<1>11. ReleasedIsWithdrawn'
  <2> SUFFICES ASSUME ~crossed', NEW h \in Hostnames, Released(h), h \notin unheard
               PROVE  h \notin edgeRoutes \cup engineHosts
    BY <1>1, <1>8 DEF ReleasedIsWithdrawn, Hostnames
  <2>1. \A s \in DomainRequests : asked[s] = Idle
    BY <1>1
  <2>2. \A s \in DomainRequests : ~Withdrawing(s)
    BY <2>1, HostnameAssumption DEF Withdrawing, Idle
  <2> QED BY <1>1, <2>2 DEF AloneInv, ReleasedIsWithdrawn
<1> QED BY <1>7, <1>9, <1>10, <1>11 DEF AloneInv

\* Where a request stands, as far as the table and the two parties go.
RowsStay == UNCHANGED <<row, hasApp, edgeRoutes, engineHosts, confirmed, answered, unheard, crossed>>
Others(r) == \A s \in DomainRequests : s # r => asked'[s] = asked[s]

\* A request that only reads moves on, or ends, without a change to anything
\* else.
LEMMA ReadKeeps ==
  ASSUME RouteInv, AloneInv, NEW r \in DomainRequests, asked[r] # Idle, RowsStay, Others(r),
         asked' \in [DomainRequests -> Askings], Carries(r)', ~crossed => Knows(r)',
         \/ asked'[r].domain = asked[r].domain
         \/ ~crossed /\ Withdrawing(r) =>
              HostnameOf[asked[r].domain] \in unheard \cup (Hostnames \ (edgeRoutes \cup engineHosts))
  PROVE  RouteInv' /\ AloneInv'
<1>1. DomainType'
  BY DEF RowsStay, RouteInv, DomainType, Askings, Places, Hostnames
<1>2. RouteInv'
  BY <1>1, RouteStep DEF RowsStay, Others, RouteInv, Routable
<1>3. ASSUME ~crossed PROVE ReleasedIsWithdrawn'
  <2> SUFFICES ASSUME NEW h \in Hostnames, Released(h), h \notin unheard,
                      h \in edgeRoutes \cup engineHosts
               PROVE  \E s \in DomainRequests : Withdrawing(s)' /\ h = HostnameOf[asked'[s].domain]
    BY DEF ReleasedIsWithdrawn, RowsStay, Released, Listed, Hostnames
  <2>1. PICK s \in DomainRequests : Withdrawing(s) /\ h = HostnameOf[asked[s].domain]
    BY <1>3 DEF AloneInv, ReleasedIsWithdrawn
  <2>2. asked'[s].domain = asked[s].domain
    BY <1>3, <2>1 DEF Others
  <2> QED BY <2>1, <2>2 DEF Withdrawing, RowsStay
<1> QED BY <1>2, <1>3, AloneStep DEF RowsStay, Others

LEMMA Reads ==
  ASSUME RouteInv, AloneInv, NEW r \in DomainRequests,
         \/ VerifierRefuses(r) \/ VerifierAnswers(r) \/ LoadRoute(r) \/ CompileRoute(r)
         \/ VerifyTarget(r) \/ ListRemaining(r)
  PROVE  RouteInv' /\ AloneInv'
<1> DEFINE d == asked[r].domain
<1>1. /\ RowsStay /\ asked[r] # Idle /\ Others(r)
      /\ d \in Domains
      /\ asked[r] \in Askings /\ asked \in [DomainRequests -> Askings]
  <2>1. RowsStay /\ asked[r].at \in {"verify", "load", "compile", "target", "remaining"}
    BY DEF VerifierRefuses, VerifierAnswers, LoadRoute, CompileRoute, VerifyTarget, ListRemaining,
           RowsStay, outside, history
  <2>2. asked[r] # Idle /\ d \in Domains
    BY <2>1 DEF RouteInv, Carries, Idle
  <2>3. asked \in [DomainRequests -> Askings] /\ asked[r] \in Askings
    BY AskedTyped
  <2>4. Others(r)
    BY <2>3
       DEF VerifierRefuses, VerifierAnswers, LoadRoute, CompileRoute, VerifyTarget, ListRemaining,
           Others, Goto, Finish
  <2> QED BY <2>1, <2>2, <2>3, <2>4
<1>2. Listed' = Listed /\ Routable' = Routable /\ \A h : Released(h)' <=> Released(h)
  BY <1>1 DEF RowsStay, Listed, Routable, Released
<1>3. HostnameOf[d] \in Hostnames /\ Routable \subseteq Hostnames /\ Routable \subseteq confirmed
      /\ (\A h \in Routable : ~Released(h)) /\ (d \in Listed => ~Released(HostnameOf[d]))
  BY <1>1 DEF Routable, Hostnames, Listed, Released, RouteInv
<1>4. CASE VerifierRefuses(r)
  <2>1. asked'[r] = Idle /\ asked' \in [DomainRequests -> Askings]
    BY <1>1, <1>4, AskedTyped DEF VerifierRefuses, Finish
  <2>2. Carries(r)' /\ Knows(r)'
    BY <2>1 DEF Carries, Knows, Idle
  <2>3. ~crossed => ~Withdrawing(r)
    BY <1>4 DEF VerifierRefuses, AloneInv, Knows, Withdrawing, Listed
  <2> QED BY <1>1, <2>1, <2>2, <2>3, ReadKeeps
<1>5. CASE VerifierAnswers(r)
  <2>1. PICK answer \in BOOLEAN :
          asked' = [asked EXCEPT ![r].at = "record", ![r].answer = answer]
    BY <1>5 DEF VerifierAnswers
  <2>2. /\ asked' \in [DomainRequests -> Askings]
        /\ asked'[r].at = "record" /\ asked'[r].domain = d
    BY <1>1, <2>1 DEF Askings, Places
  <2>3. Carries(r)' /\ (~crossed => Knows(r)')
    BY <1>1, <1>2, <1>5, <2>2 DEF Carries, Knows, AloneInv, VerifierAnswers
  <2> QED BY <1>1, <2>2, <2>3, ReadKeeps
<1>6. CASE LoadRoute(r)
  <2>1. /\ asked' \in [DomainRequests -> Askings]
        /\ asked'[r].at \in {"compile", "target"} /\ asked'[r].domain = d
        /\ asked'[r].at = "compile" => HostnameOf[d] \in Routable
    BY <1>1, <1>6 DEF LoadRoute, Goto, Askings, Places
  <2>2. Carries(r)' /\ (~crossed => Knows(r)')
    BY <1>1, <1>2, <1>3, <1>6, <2>1 DEF Carries, Knows, AloneInv, LoadRoute, RowsStay
  <2> QED BY <1>1, <2>1, <2>2, ReadKeeps
<1>7. CASE CompileRoute(r)
  <2>1. PICK hosts \in {{HostnameOf[d]}, {HostnameOf[d]} \cup Routable} :
          asked' = [asked EXCEPT ![r].at = "publish", ![r].hosts = hosts]
    BY <1>7 DEF CompileRoute
  <2>2. /\ asked' \in [DomainRequests -> Askings]
        /\ asked'[r].at = "publish" /\ asked'[r].domain = d /\ asked'[r].hosts = hosts
    BY <1>1, <1>3, <2>1 DEF Askings, Places
  <2>3. hosts \subseteq confirmed
    BY <1>3, <1>7, <2>1 DEF CompileRoute, RouteInv, Carries
  <2>4. ~crossed => d \in Listed /\ \A h \in hosts : ~Released(h)
    BY <1>3, <1>7, <2>1 DEF CompileRoute, AloneInv, Knows
  <2>5. Carries(r)' /\ (~crossed => Knows(r)')
    BY <1>1, <1>2, <2>2, <2>3, <2>4 DEF Carries, Knows, RowsStay
  <2> QED BY <1>1, <2>2, <2>5, ReadKeeps
<1>8. CASE VerifyTarget(r) /\ hasApp
  <2>1. /\ asked' \in [DomainRequests -> Askings]
        /\ asked'[r].at = "set" /\ asked'[r].domain = d /\ asked'[r].hosts = {HostnameOf[d]}
    BY <1>1, <1>3, <1>8 DEF VerifyTarget, Askings, Places
  <2>2. ~crossed => d \in Listed
    BY <1>8 DEF VerifyTarget, AloneInv, Knows
  <2>3. Carries(r)' /\ (~crossed => Knows(r)')
    BY <1>1, <1>2, <1>3, <1>8, <2>1, <2>2 DEF Carries, Knows, RowsStay, Listed
  <2> QED BY <1>1, <2>1, <2>3, ReadKeeps
<1>9. CASE VerifyTarget(r) /\ ~hasApp
  <2>1. asked'[r] = Idle /\ asked' \in [DomainRequests -> Askings]
    BY <1>1, <1>9, AskedTyped DEF VerifyTarget, Finish
  <2>2. Carries(r)' /\ Knows(r)'
    BY <2>1 DEF Carries, Knows, Idle
  <2>3. ~crossed => ~Withdrawing(r)
    BY <1>9 DEF VerifyTarget, AloneInv, Knows, Withdrawing, Listed
  <2> QED BY <1>1, <2>1, <2>2, <2>3, ReadKeeps
<1>10. CASE ListRemaining(r) /\ hasApp
  <2>1. /\ asked' \in [DomainRequests -> Askings]
        /\ asked'[r].at = "set" /\ asked'[r].domain = d /\ asked'[r].hosts = Routable
    BY <1>1, <1>3, <1>10 DEF ListRemaining, Askings, Places
  <2>2. ~crossed => row[d] = "removed" /\ (HostnameOf[d] \in unheard \/ HostnameOf[d] \notin edgeRoutes)
    BY <1>10 DEF ListRemaining, AloneInv, Knows
  <2>3. Carries(r)' /\ (~crossed => Knows(r)')
    BY <1>1, <1>2, <1>3, <1>10, <2>1, <2>2 DEF Carries, Knows, RowsStay
  <2> QED BY <1>1, <2>1, <2>3, ReadKeeps
<1>11. CASE ListRemaining(r) /\ ~hasApp
  <2>1. asked'[r] = Idle /\ asked' \in [DomainRequests -> Askings]
    BY <1>1, <1>11, AskedTyped DEF ListRemaining, Finish
  <2>2. Carries(r)' /\ Knows(r)'
    BY <2>1 DEF Carries, Knows, Idle
  <2>3. ~crossed => HostnameOf[d] \in unheard \cup (Hostnames \ (edgeRoutes \cup engineHosts))
    BY <1>3, <1>11 DEF ListRemaining, AloneInv, Knows, RouteInv
  <2> QED BY <1>1, <2>1, <2>2, <2>3, ReadKeeps
<1> QED BY <1>4, <1>5, <1>6, <1>7, <1>8, <1>9, <1>10, <1>11

\* What a request in progress is, and how it goes on.
LEMMA InProgress ==
  ASSUME RouteInv, NEW r \in DomainRequests, asked[r].at # "idle"
  PROVE  /\ asked[r] # Idle
         /\ asked[r].at # "post" => /\ asked[r].domain \in Domains
                                    /\ HostnameOf[asked[r].domain] \in Hostnames
BY DEF Idle, RouteInv, Carries, Hostnames

LEMMA HostnameGoes ==
  ASSUME RouteInv, NEW r \in DomainRequests, NEW place \in Places, Goto(r, place)
  PROVE  /\ Others(r)
         /\ asked' \in [DomainRequests -> Askings]
         /\ asked'[r].at = place
         /\ asked'[r].domain = asked[r].domain
         /\ asked'[r].hosts = asked[r].hosts
BY AskedTyped DEF Goto, Others, Askings

LEMMA RequestEndsThere ==
  ASSUME RouteInv, NEW r \in DomainRequests, Finish(r)
  PROVE  /\ Others(r)
         /\ asked' \in [DomainRequests -> Askings]
         /\ asked'[r] = Idle
         /\ Carries(r)' /\ Knows(r)' /\ ~Withdrawing(r)'
<1>1. /\ Others(r) /\ asked' \in [DomainRequests -> Askings] /\ asked'[r] = Idle
  BY AskedTyped DEF Finish, Others
<1> QED BY <1>1, HostnameAssumption DEF Carries, Knows, Withdrawing, Idle

\* While requests do not overlap, a released hostname is served only if the
\* request in progress is withdrawing it.
LEMMA ServedAlone ==
  ASSUME RouteInv, AloneInv, ~crossed, NEW r \in DomainRequests, asked[r].at # "idle",
         NEW h \in Hostnames, Released(h), h \notin unheard, h \in edgeRoutes \cup engineHosts
  PROVE  Withdrawing(r) /\ h = HostnameOf[asked[r].domain]
<1>1. PICK s \in DomainRequests : Withdrawing(s) /\ h = HostnameOf[asked[s].domain]
  BY DEF AloneInv, ReleasedIsWithdrawn
<1>2. asked[s] # Idle
  BY <1>1, HostnameAssumption DEF Withdrawing, Idle
<1> QED BY <1>1, <1>2, InProgress DEF AloneInv

\* The table keeps one row per hostname.
LEMMA Creates ==
  ASSUME RouteInv, AloneInv, NEW r \in DomainRequests, CreateDomain(r)
  PROVE  RouteInv' /\ AloneInv'
<1> DEFINE d == asked[r].domain
<1>1. /\ asked[r].at = "create" /\ Finish(r) /\ UNCHANGED <<outside, history>>
      /\ row' = row \/ (row[d] = "absent" /\ row' = [row EXCEPT ![d] = "unverified"])
      /\ asked[r] # Idle /\ d \in Domains
  BY InProgress DEF CreateDomain
<1>2. row' \in [Domains -> {"absent", "unverified", "verified", "removed"}]
  BY <1>1 DEF RouteInv, DomainType
<1>3. /\ Routable' \subseteq Routable
      /\ \A h : Released(h)' => Released(h)
  BY <1>1 DEF Routable, Released, Listed, RouteInv, DomainType
<1>4. DomainType'
  BY <1>1, <1>2, RequestEndsThere DEF RouteInv, DomainType, outside, history, Askings, Places, Hostnames
<1>5. RouteInv'
  BY <1>1, <1>3, <1>4, RequestEndsThere, RouteStep DEF RouteInv, Others, outside, history
<1>6. ~crossed => ~Withdrawing(r)
  BY <1>1 DEF AloneInv, Knows, Withdrawing
<1>7. ~crossed => ReleasedIsWithdrawn'
  BY <1>1, <1>3, <1>6, ServedAlone DEF ReleasedIsWithdrawn, outside, history, Hostnames
<1> QED BY <1>1, <1>5, <1>7, RequestEndsThere, AloneStep DEF Others, history

\* The verifier's answer is recorded on a row that is still there.
LEMMA Records ==
  ASSUME RouteInv, AloneInv, NEW r \in DomainRequests, SetDomainVerification(r)
  PROVE  RouteInv' /\ AloneInv'
<1> DEFINE d == asked[r].domain
<1>1. /\ asked[r].at = "record" /\ asked[r] # Idle /\ d \in Domains /\ HostnameOf[d] \in Hostnames
      /\ Goto(r, "load") \/ Finish(r)
      /\ UNCHANGED <<outside, answered, unheard, crossed>>
  BY InProgress DEF SetDomainVerification
<1>2. /\ row' = row \/ (d \in Listed /\ row' = [row EXCEPT ![d] = "unverified"])
           \/ (d \in Listed /\ row' = [row EXCEPT ![d] = "verified"] /\ HostnameOf[d] \in confirmed')
      /\ confirmed' \in {confirmed, confirmed \cup {HostnameOf[d]}}
  BY DEF SetDomainVerification
<1>3. /\ row' \in [Domains -> {"absent", "unverified", "verified", "removed"}]
      /\ confirmed' \subseteq Hostnames /\ confirmed \subseteq confirmed'
  BY <1>1, <1>2 DEF RouteInv, DomainType
<1>4. /\ Listed' = Listed
      /\ Routable' \subseteq confirmed'
      /\ \A h : Released(h)' <=> Released(h)
      /\ \A e \in Domains : row'[e] = "removed" <=> row[e] = "removed"
  BY <1>1, <1>2, <1>3 DEF Routable, Released, Listed, RouteInv, DomainType
<1>5. /\ asked' \in [DomainRequests -> Askings] /\ Others(r)
      /\ asked'[r] = Idle \/ (asked'[r].at = "load" /\ asked'[r].domain = d)
  BY <1>1, HostnameGoes, RequestEndsThere DEF Places
<1>6. DomainType'
  BY <1>1, <1>3, <1>5 DEF RouteInv, DomainType, outside, Askings, Places, Hostnames
<1>7. Carries(r)'
  BY <1>1, <1>5 DEF Carries, Idle
<1>8. RouteInv'
  BY <1>1, <1>3, <1>4, <1>5, <1>6, <1>7, RouteStep DEF RouteInv, Others, outside
<1>9. ~crossed => d \in Listed /\ ~Withdrawing(r)
  BY <1>1 DEF AloneInv, Knows, Withdrawing, Listed
<1>10. ~crossed => Knows(r)'
  BY <1>4, <1>5, <1>9 DEF Knows, Idle
<1>11. ~crossed => ReleasedIsWithdrawn'
  BY <1>1, <1>4, <1>9, ServedAlone DEF ReleasedIsWithdrawn, outside, Hostnames
<1> QED BY <1>1, <1>5, <1>8, <1>10, <1>11, AloneStep DEF Others

\* The edge is sent hostnames that were confirmed when they were read.
LEMMA Publishes ==
  ASSUME RouteInv, AloneInv, NEW r \in DomainRequests, PublishRoute(r) \/ PostPolicy(r)
  PROVE  RouteInv' /\ AloneInv'
<1>1. /\ asked[r].at \in {"publish", "post"} /\ asked[r] # Idle
      /\ edgeRoutes' \in {edgeRoutes, edgeRoutes \cup asked[r].hosts}
      /\ UNCHANGED <<row, hasApp, engineHosts, history>>
  BY InProgress DEF PublishRoute, PostPolicy
<1>2. /\ Others(r) /\ asked' \in [DomainRequests -> Askings]
      /\ \/ asked'[r] = Idle /\ asked[r].at = "post"
         \/ /\ asked'[r].at = "target" /\ asked'[r].domain = asked[r].domain
            /\ asked[r].at = "publish"
  <2>1. CASE PublishRoute(r)
    BY <2>1, AskedTyped, ZenonT(60) DEF PublishRoute, Others, Askings, Places
  <2>2. CASE PostPolicy(r)
    BY <2>2, RequestEndsThere DEF PostPolicy
  <2> QED BY <2>1, <2>2
<1>3. asked[r].hosts \subseteq confirmed /\ asked[r].hosts \subseteq Hostnames
  BY <1>1, AskedTyped DEF RouteInv, Carries, Askings
<1>4. Listed' = Listed /\ Routable' = Routable /\ \A h : Released(h)' <=> Released(h)
  BY <1>1 DEF Listed, Routable, Released
<1>5. DomainType'
  BY <1>1, <1>2, <1>3 DEF RouteInv, DomainType, history, Askings, Places, Hostnames
<1>6. Carries(r)'
  BY <1>1, <1>2, InProgress DEF Carries, Idle
<1>7. RouteInv'
  BY <1>1, <1>2, <1>3, <1>4, <1>5, <1>6, RouteStep DEF RouteInv, Others, history
<1>8. ~crossed => /\ \A h \in asked[r].hosts : ~Released(h)
                  /\ asked[r].at = "publish" => asked[r].domain \in Listed
                  /\ ~Withdrawing(r)
  BY <1>1, HostnameAssumption DEF AloneInv, Knows, Withdrawing, Listed, RouteInv, Carries
<1>9. ~crossed => Knows(r)'
  BY <1>2, <1>4, <1>8 DEF Knows, Idle
<1>10. ~crossed => ReleasedIsWithdrawn'
  BY <1>1, <1>3, <1>4, <1>8, ServedAlone DEF ReleasedIsWithdrawn, history, Hostnames
<1> QED BY <1>1, <1>2, <1>7, <1>9, <1>10, AloneStep DEF Others, history

\* The engine's list is replaced by one whose names had rows when it was read.
LEMMA Sets ==
  ASSUME RouteInv, AloneInv, NEW r \in DomainRequests, SetDomains(r) \/ SetDomainsFails(r)
  PROVE  RouteInv' /\ AloneInv'
<1> DEFINE d == asked[r].domain
<1>1. /\ asked[r].at = "set" /\ asked[r] # Idle /\ Finish(r)
      /\ d \in Domains /\ HostnameOf[d] \in Hostnames
      /\ UNCHANGED <<row, hasApp, edgeRoutes, confirmed, crossed>>
  BY InProgress DEF SetDomains, SetDomainsFails, outside
<1>2. \/ engineHosts' = asked[r].hosts /\ unheard' = unheard
      \/ engineHosts' = engineHosts /\ NoteUnheard(r)
  BY DEF SetDomains, SetDomainsFails, outside
<1>3. asked[r].hosts \subseteq Hostnames
  BY AskedTyped DEF Askings
<1>4. answered' \subseteq Hostnames
  BY <1>3 DEF SetDomains, SetDomainsFails, RouteInv, DomainType
<1>5. /\ unheard \subseteq unheard' /\ unheard' \subseteq Hostnames
      /\ engineHosts' = engineHosts /\ Withdrawing(r) => HostnameOf[d] \in unheard'
         \/ engineHosts' = asked[r].hosts
  BY <1>1, <1>2 DEF NoteUnheard, RouteInv, DomainType
<1>6. Listed' = Listed /\ Routable' = Routable /\ \A h : Released(h)' <=> Released(h)
  BY <1>1 DEF Listed, Routable, Released
<1>7. DomainType'
  BY <1>1, <1>2, <1>3, <1>4, <1>5, RequestEndsThere DEF RouteInv, DomainType, Askings, Places, Hostnames
<1>8. hasApp
  BY <1>1 DEF RouteInv, Carries
<1>9. RouteInv'
  BY <1>1, <1>6, <1>7, <1>8, RequestEndsThere, RouteStep DEF RouteInv, Others
<1>10. ASSUME ~crossed PROVE ReleasedIsWithdrawn'
  <2> SUFFICES ASSUME NEW h \in Hostnames, Released(h), h \notin unheard'
               PROVE  h \notin edgeRoutes \cup engineHosts'
    BY <1>1, <1>6 DEF ReleasedIsWithdrawn, Hostnames
  <2>1. Knows(r)
    BY <1>10 DEF AloneInv
  <2>2. h \notin edgeRoutes
    BY <1>1, <1>5, <1>10, <2>1, ServedAlone DEF Knows, Withdrawing
  <2>3. CASE engineHosts' = asked[r].hosts
    BY <1>1, <2>1, <2>2, <2>3 DEF Knows
  <2>4. CASE engineHosts' = engineHosts /\ NoteUnheard(r)
    <3>1. Withdrawing(r) => HostnameOf[d] \in unheard'
      BY <2>4 DEF NoteUnheard
    <3>2. SUFFICES ASSUME h \in engineHosts PROVE FALSE
      BY <2>2, <2>4
    <3>3. h \notin unheard /\ asked[r].at # "idle"
      BY <1>1, <1>5
    <3>4. Withdrawing(r) /\ h = HostnameOf[asked[r].domain]
      BY <1>10, <3>2, <3>3, ServedAlone
    <3> QED BY <3>1, <3>4
  <2> QED BY <1>2, <2>2, <2>3, <2>4
<1> QED BY <1>1, <1>9, <1>10, RequestEndsThere, AloneStep DEF Others

LEMMA Deletes ==
  ASSUME RouteInv, AloneInv, NEW r \in DomainRequests, DeleteDomain(r)
  PROVE  RouteInv' /\ AloneInv'
<1> DEFINE d == asked[r].domain
<1>1. /\ asked[r].at = "delete" /\ asked[r] # Idle
      /\ d \in Domains /\ HostnameOf[d] \in Hostnames
      /\ UNCHANGED <<outside, confirmed, unheard, crossed>>
  BY InProgress DEF DeleteDomain
<1>2. \/ d \in Listed /\ row' = [row EXCEPT ![d] = "removed"] /\ Goto(r, "withdraw")
      \/ d \notin Listed /\ row' = row /\ Finish(r)
  BY DEF DeleteDomain
<1>3. /\ row' \in [Domains -> {"absent", "unverified", "verified", "removed"}]
      /\ answered' \subseteq Hostnames
  BY <1>2 DEF DeleteDomain, RouteInv, DomainType
<1>4. /\ Others(r) /\ asked' \in [DomainRequests -> Askings]
      /\ \/ asked'[r].at = "withdraw" /\ asked'[r].domain = d /\ row'[d] = "removed"
         \/ d \notin Listed /\ asked'[r] = Idle
  BY <1>1, <1>2, HostnameGoes, RequestEndsThere DEF Places, RouteInv, DomainType
<1>5. DomainType'
  BY <1>1, <1>3, <1>4 DEF RouteInv, DomainType, outside, Askings, Places, Hostnames
<1>6. /\ Routable' \subseteq Routable
      /\ \A h : Released(h)' => Released(h) \/ (h = HostnameOf[d] /\ asked'[r].at = "withdraw")
  BY <1>1, <1>2, HostnameGoes DEF Routable, Released, Listed, RouteInv, DomainType, Places
<1>7. Carries(r)'
  BY <1>1, <1>4 DEF Carries, Idle
<1>8. RouteInv'
  BY <1>1, <1>4, <1>5, <1>6, <1>7, RouteStep DEF RouteInv, Others, outside
<1>9. ASSUME ~crossed PROVE Knows(r)' /\ ReleasedIsWithdrawn'
  <2>1. d \in Listed /\ ~Withdrawing(r)
    BY <1>1, <1>9 DEF AloneInv, Knows, Withdrawing, Listed
  <2>2. asked'[r].at = "withdraw" /\ asked'[r].domain = d /\ row'[d] = "removed"
    BY <1>4, <2>1
  <2>3. Withdrawing(r)'
    BY <1>1, <2>2 DEF Withdrawing
  <2>4. ReleasedIsWithdrawn'
    BY <1>1, <1>6, <1>9, <2>1, <2>2, <2>3, ServedAlone DEF ReleasedIsWithdrawn, outside, Hostnames
  <2> QED BY <2>2, <2>4 DEF Knows
<1> QED BY <1>1, <1>4, <1>8, <1>9, AloneStep DEF Others

LEMMA Withdraws ==
  ASSUME RouteInv, AloneInv, NEW r \in DomainRequests, RemoveRoute(r)
  PROVE  RouteInv' /\ AloneInv'
<1> DEFINE d == asked[r].domain
<1>1. /\ asked[r].at = "withdraw" /\ asked[r] # Idle
      /\ d \in Domains /\ HostnameOf[d] \in Hostnames /\ Goto(r, "remaining")
      /\ UNCHANGED <<row, hasApp, engineHosts, confirmed, answered, crossed>>
  BY InProgress DEF RemoveRoute
<1>2. /\ edgeRoutes' \subseteq edgeRoutes /\ unheard \subseteq unheard' /\ unheard' \subseteq Hostnames
      /\ \/ HostnameOf[d] \notin edgeRoutes'
         \/ Withdrawing(r) => HostnameOf[d] \in unheard'
  BY <1>1 DEF RemoveRoute, NoteUnheard, RouteInv, DomainType
<1>3. /\ Others(r) /\ asked' \in [DomainRequests -> Askings]
      /\ asked'[r].at = "remaining" /\ asked'[r].domain = d
  BY <1>1, HostnameGoes DEF Places
<1>4. Listed' = Listed /\ Routable' = Routable /\ \A h : Released(h)' <=> Released(h)
  BY <1>1 DEF Listed, Routable, Released
<1>5. DomainType'
  BY <1>1, <1>2, <1>3 DEF RouteInv, DomainType, Askings, Places, Hostnames
<1>6. Carries(r)'
  BY <1>1, <1>3 DEF Carries
<1>7. RouteInv'
  BY <1>1, <1>2, <1>3, <1>4, <1>5, <1>6, RouteStep DEF RouteInv, Others
<1>8. ASSUME ~crossed PROVE Knows(r)' /\ ReleasedIsWithdrawn'
  <2>1. Withdrawing(r) /\ Withdrawing(r)' /\ row'[d] = "removed"
    BY <1>1, <1>3, <1>8 DEF AloneInv, Knows, Withdrawing
  <2>2. Knows(r)'
    BY <1>2, <1>3, <2>1 DEF Knows
  <2>3. ReleasedIsWithdrawn'
    BY <1>1, <1>2, <1>3, <1>4, <1>8, <2>1, ServedAlone DEF ReleasedIsWithdrawn, Hostnames
  <2> QED BY <2>2, <2>3
<1> QED BY <1>1, <1>3, <1>7, <1>8, AloneStep DEF Others

LEMMA Dies ==
  ASSUME RouteInv, AloneInv, NEW r \in DomainRequests, RequestDies(r)
  PROVE  RouteInv' /\ AloneInv'
<1> DEFINE d == asked[r].domain
<1>1. /\ asked[r] # Idle /\ Finish(r) /\ NoteUnheard(r)
      /\ UNCHANGED <<row, outside, confirmed, answered, crossed>>
  BY DEF RequestDies
<1>2. /\ unheard \subseteq unheard' /\ unheard' \subseteq Hostnames
      /\ Withdrawing(r) => HostnameOf[d] \in unheard'
  BY <1>1 DEF NoteUnheard, RouteInv, DomainType, Withdrawing, Hostnames
<1>3. Listed' = Listed /\ Routable' = Routable /\ \A h : Released(h)' <=> Released(h)
  BY <1>1 DEF Listed, Routable, Released
<1>4. DomainType'
  BY <1>1, <1>2, RequestEndsThere DEF RouteInv, DomainType, outside, Askings, Places, Hostnames
<1>5. RouteInv'
  BY <1>1, <1>3, <1>4, RequestEndsThere, RouteStep DEF RouteInv, Others, outside
<1>6. asked[r].at # "idle"
  BY <1>1 DEF RouteInv, Carries
<1>7. ~crossed => ReleasedIsWithdrawn'
  BY <1>1, <1>2, <1>3, <1>6, ServedAlone DEF ReleasedIsWithdrawn, outside, Hostnames
<1> QED BY <1>1, <1>5, <1>7, RequestEndsThere, AloneStep DEF Others

LEMMA DomainInductive ==
  RouteInv /\ AloneInv /\ [DomainNext]_domainVars => RouteInv' /\ AloneInv'
<1> SUFFICES ASSUME RouteInv, AloneInv, [DomainNext]_domainVars
             PROVE  RouteInv' /\ AloneInv'
  OBVIOUS
<1>1. CASE UNCHANGED domainVars
  <2>0. UNCHANGED <<row, hasApp, edgeRoutes, engineHosts, asked, confirmed, answered, unheard, crossed>>
    BY <1>1 DEF domainVars
  <2>1. Listed' = Listed /\ Routable' = Routable
    BY <2>0 DEF Listed, Routable
  <2>2. /\ \A h \in Hostnames : Released(h)' <=> Released(h)
        /\ \A r \in DomainRequests : Withdrawing(r)' <=> Withdrawing(r)
    BY <2>0, <2>1 DEF Released, Withdrawing
  <2>3. DomainType'
    BY <2>0 DEF RouteInv, DomainType, Hostnames
  <2>4. RouteInv'
    BY <2>0, <2>1, <2>3 DEF RouteInv, Carries
  <2>5. ASSUME NEW r \in DomainRequests, Knows(r) PROVE Knows(r)'
    BY <2>0, <2>1, <2>5 DEF Knows, Released
  <2>6. ReleasedIsWithdrawn'
    BY <2>0, <2>2 DEF AloneInv, ReleasedIsWithdrawn, Hostnames
  <2> QED BY <2>0, <2>4, <2>5, <2>6 DEF AloneInv
<1>2. CASE FirstDeploy
  BY <1>2 DEF FirstDeploy, history, RouteInv, AloneInv, DomainType, Carries, Knows,
              ReleasedIsWithdrawn, Listed, Routable, Released, Withdrawing, Hostnames
<1>3. ASSUME NEW r \in DomainRequests, NEW d \in Domains,
             AddDomain(r, d) \/ VerifyDomain(r, d) \/ RemoveDomain(r, d)
      PROVE  RouteInv' /\ AloneInv'
  <2>1. CASE AddDomain(r, d)
    BY <2>1, BeginKeeps DEF AddDomain, Places
  <2>2. CASE VerifyDomain(r, d)
    BY <2>2, BeginKeeps DEF VerifyDomain, Places
  <2>3. CASE RemoveDomain(r, d)
    BY <2>3, BeginKeeps DEF RemoveDomain, Places
  <2> QED BY <1>3, <2>1, <2>2, <2>3
<1>4. ASSUME NEW r \in DomainRequests, DistributePolicy(r) PROVE RouteInv' /\ AloneInv'
  <2>1. PICK hosts : hosts = Routable
    OBVIOUS
  <2>2. Begin(r, NoDomain, "post", hosts)
    BY <1>4, <2>1 DEF DistributePolicy
  <2> QED BY <2>1, <2>2, BeginKeeps DEF Places
<1> QED BY <1>1, <1>2, <1>3, <1>4, Reads, Creates, Records, Publishes, Sets, Deletes, Withdraws, Dies
        DEF DomainNext

LEMMA DomainAlways == DomainSpec => [](RouteInv /\ AloneInv)
<1>1. DomainInit => RouteInv /\ AloneInv
  <2> SUFFICES ASSUME DomainInit PROVE RouteInv /\ AloneInv
    OBVIOUS
  <2>1. DomainType
    BY IdleTyped DEF DomainInit, DomainType, Askings, Places
  <2>2. Routable = {}
    BY DEF DomainInit, Routable
  <2>3. \A r \in DomainRequests : Carries(r) /\ Knows(r)
    BY DEF DomainInit, Carries, Knows, Idle
  <2> QED BY <2>1, <2>2, <2>3 DEF DomainInit, RouteInv, AloneInv, ReleasedIsWithdrawn
<1> QED BY <1>1, DomainInductive, PTL DEF DomainSpec

\* The edge serves only hostnames some row recorded as verified; and one whose
\* rows are gone is served by nobody, unless its withdrawal is under way, failed
\* or died, or requests overlapped (verifyDomain, removeDomain, loadRoute).
THEOREM ServedHostnamesAgree == DomainSpec => []HostnamesAgree
<1>1. RouteInv /\ AloneInv => HostnamesAgree
  BY DEF RouteInv, AloneInv, HostnamesAgree, EdgeServesConfirmed
<1> QED BY <1>1, DomainAlways, PTL

-----------------------------------------------------------------------------
(* Access.  A request learns in steps: its key, then the memberships, then *)
(* what it may do.  What it has learnt its principal had while it was      *)
(* served, and the key it presented stays what it was issued as.           *)

GrantedRoles == DOMAIN RoleCapabilities

\* The places a request can be at, with what it knows there.
KeysOrNone == Keys \cup {NoKey}
Listening == [at : {"lookup", "members"}, key : KeysOrNone, person : Persons]
Calling == [at : {"called"}, key : KeysOrNone, person : Persons,
            seen : [Organizations -> GrantedRoles], scopes : SUBSET Capabilities]
Writing == [at : {"writing"}, key : KeysOrNone, person : Persons, procedure : ProceduresCalled,
            org : Organizations, needs : Capabilities, issues : SUBSET Capabilities,
            target : KeysOrNone]
KeyRows == [state : {"active", "revoked"}, owner : Persons, org : Organizations,
            scopes : SUBSET Capabilities]

AccessShape ==
  /\ roleIn \in [Organizations -> [Persons -> GrantedRoles]]
  /\ apiKeys \in [Keys -> KeyRows \cup {Absent}]
  /\ asking \in [AccessRequests -> Listening \cup Calling \cup Writing \cup {NoAsking}]
  /\ during \in [AccessRequests -> SUBSET (Organizations \X GrantedRoles)]
  /\ outdated \subseteq AccessRequests

\* A key that was presented is stored, and stays what it was issued as.
Presented(r) ==
  LET a == asking[r] IN
    /\ a.at # "idle" /\ a.key # NoKey => apiKeys[a.key].state # "absent"
    /\ a.at = "called" /\ a.key # NoKey => a.scopes \subseteq apiKeys[a.key].scopes
    /\ a.at = "lookup" => a.key # NoKey
    /\ r \in outdated => a.at = "lookup" /\ apiKeys[a.key].state = "revoked"

\* Every membership a request may come to read, or has read, its principal had
\* since it began.
Witnessed(r) ==
  LET a == asking[r] IN
    /\ a.at \in {"lookup", "members"} => \A o \in Organizations : <<o, roleIn[o][a.person]>> \in during[r]
    /\ a.at = "called" => \A o \in Organizations : <<o, a.seen[o]>> \in during[r]

\* A write of a key names one.
Targeted(r) ==
  asking[r].at = "writing" /\ asking[r].procedure \in {"apiKeys.create", "apiKeys.revoke"} =>
    asking[r].target \in Keys

AccessInv ==
  /\ AccessShape
  /\ \A r \in AccessRequests : Presented(r) /\ Witnessed(r) /\ Targeted(r)

LEMMA RolesNamed == GrantedRoles = {"owner", "admin", "member", "viewer", "none"} /\ RolesGiven \subseteq GrantedRoles
BY AccessAssumption DEF GrantedRoles, RoleCapabilities

LEMMA RolesGrantCapabilities == \A given \in GrantedRoles : RoleCapabilities[given] \in SUBSET Capabilities
<1>1. ViewerCapabilities \subseteq Capabilities
  BY DEF ViewerCapabilities, Capabilities
<1>2. {"project:create", "project:update", "deployment:create", "deployment:cancel", "apikey:read"}
        \subseteq Capabilities
  BY DEF Capabilities
<1> QED BY <1>1, <1>2, RolesNamed DEF RoleCapabilities

LEMMA PlacesDiffer ==
  \A a \in Listening \cup Calling \cup Writing \cup {NoAsking} :
    /\ a.at \in {"idle", "lookup", "members", "called", "writing"}
    /\ a.at = "idle" => a = NoAsking
    /\ a.at \in {"lookup", "members"} => a \in Listening
    /\ a.at = "called" => a \in Calling
    /\ a.at = "writing" => a \in Writing
BY DEF Listening, Calling, Writing, NoAsking

LEMMA RolesOfTyped ==
  ASSUME AccessShape, NEW person \in Persons
  PROVE  /\ RolesOf(person) \in SUBSET (Organizations \X GrantedRoles)
         /\ \A o \in Organizations : <<o, roleIn[o][person]>> \in RolesOf(person)
BY DEF AccessShape, RolesOf

LEMMA MembershipChangesKeeps == ASSUME AccessInv, NEW o \in Organizations, NEW person \in Persons, NEW given \in RolesGiven, MembershipChanges(o, person, given) PROVE AccessInv'
<1> USE AccessAssumption, PlacesDiffer, RolesGrantCapabilities DEF AccessInv, AccessShape, MembershipChanges
<1>1. AccessShape'
  <2>1. given \in GrantedRoles
    BY RolesNamed
  <2>2. roleIn' \in [Organizations -> [Persons -> GrantedRoles]]
    BY <2>1
  <2>3. during' \in [AccessRequests -> SUBSET (Organizations \X GrantedRoles)]
    BY <2>1
  <2> QED BY <2>2, <2>3
<1>2. \A s \in AccessRequests : Presented(s)'
  BY DEF Presented, NoAsking, Listening, Calling, Writing, KeysOrNone, KeyRows, Absent
<1>3. \A s \in AccessRequests : Witnessed(s)'
  BY DEF Witnessed, NoAsking, Listening, Calling, Writing
<1>4. \A s \in AccessRequests : Targeted(s)'
  BY DEF Targeted, NoAsking, Listening, Calling, Writing
<1> QED BY <1>1, <1>2, <1>3, <1>4

LEMMA SessionVerifiedKeeps == ASSUME AccessInv, NEW r \in AccessRequests, NEW person \in Persons, SessionVerified(r, person) PROVE AccessInv'
<1> USE AccessAssumption, PlacesDiffer, RolesGrantCapabilities DEF AccessInv, AccessShape, SessionVerified, Begins, Moves, NotAsking
<1>1. AccessShape' /\ during'[r] = RolesOf(person)
  <2>1. RolesOf(person) \in SUBSET (Organizations \X GrantedRoles)
    BY RolesOfTyped
  <2>2. during' \in [AccessRequests -> SUBSET (Organizations \X GrantedRoles)] /\ during'[r] = RolesOf(person)
    BY <2>1
  <2>3. [at |-> "members", key |-> NoKey, person |-> person] \in Listening
    BY DEF Listening, KeysOrNone
  <2>4. asking' \in [AccessRequests -> Listening \cup Calling \cup Writing \cup {NoAsking}]
    BY <2>3
  <2> QED BY <2>2, <2>4
<1>2. \A s \in AccessRequests : Presented(s)'
  BY DEF Presented, NoAsking, Listening, Calling, Writing, KeysOrNone, KeyRows, Absent
<1>3. \A s \in AccessRequests : Witnessed(s)'
  <2>1. \A o \in Organizations : <<o, roleIn[o][person]>> \in during'[r]
    BY <1>1, RolesOfTyped DEF KeyRows, Absent
  <2> QED BY <1>1, <2>1 DEF Witnessed
<1>4. \A s \in AccessRequests : Targeted(s)'
  BY DEF Targeted, NoAsking, Listening, Calling, Writing
<1> QED BY <1>1, <1>2, <1>3, <1>4

LEMMA KeyPresentedKeeps == ASSUME AccessInv, NEW r \in AccessRequests, NEW k \in Keys, KeyPresented(r, k) PROVE AccessInv'
<1> USE AccessAssumption, PlacesDiffer, RolesGrantCapabilities DEF AccessInv, AccessShape, KeyPresented, Begins, Moves, NotAsking
<1>1. AccessShape' /\ during'[r] = RolesOf(apiKeys[k].owner)
  <2>0. apiKeys[k].owner \in Persons
    BY DEF KeyRows, Absent
  <2>1. RolesOf(apiKeys[k].owner) \in SUBSET (Organizations \X GrantedRoles)
    BY <2>0, RolesOfTyped
  <2>2. during' \in [AccessRequests -> SUBSET (Organizations \X GrantedRoles)] /\ during'[r] = RolesOf(apiKeys[k].owner)
    BY <2>1
  <2>3. [at |-> "lookup", key |-> k, person |-> apiKeys[k].owner] \in Listening
    BY <2>0 DEF Listening, KeysOrNone
  <2>4. asking' \in [AccessRequests -> Listening \cup Calling \cup Writing \cup {NoAsking}]
    BY <2>3
  <2> QED BY <2>2, <2>4
<1>2. \A s \in AccessRequests : Presented(s)'
  BY DEF Presented, NoAsking, Listening, Calling, Writing, KeysOrNone, KeyRows, Absent
<1>3. \A s \in AccessRequests : Witnessed(s)'
  <2>1. \A o \in Organizations : <<o, roleIn[o][apiKeys[k].owner]>> \in during'[r]
    BY <1>1, RolesOfTyped DEF KeyRows, Absent
  <2> QED BY <1>1, <2>1 DEF Witnessed
<1>4. \A s \in AccessRequests : Targeted(s)'
  BY DEF Targeted, NoAsking, Listening, Calling, Writing
<1> QED BY <1>1, <1>2, <1>3, <1>4

LEMMA KeyFoundKeeps == ASSUME AccessInv, NEW r \in AccessRequests, KeyFound(r) PROVE AccessInv'
<1> USE AccessAssumption, PlacesDiffer, RolesGrantCapabilities DEF AccessInv, AccessShape, KeyFound, Moves, ActiveKey
<1>1. AccessShape'
  BY DEF Listening, Calling, Writing, NoAsking, KeyRows, Absent, KeysOrNone
<1>2. \A s \in AccessRequests : Presented(s)'
  BY DEF Presented, NoAsking, Listening, Calling, Writing, KeysOrNone, KeyRows, Absent
<1>3. \A s \in AccessRequests : Witnessed(s)'
  BY DEF Witnessed, NoAsking, Listening, Calling, Writing
<1>4. \A s \in AccessRequests : Targeted(s)'
  BY DEF Targeted, NoAsking, Listening, Calling, Writing
<1> QED BY <1>1, <1>2, <1>3, <1>4

\* What a request may do with a key, and what it knows once it read the memberships.
LEMMA ScopesTyped ==
  ASSUME apiKeys \in [Keys -> KeyRows \cup {Absent}], NEW k \in Keys, NEW seen
  PROVE  EffectiveScopes(k, seen) \in SUBSET Capabilities
<1>1. apiKeys[k].scopes \in SUBSET Capabilities
  BY DEF KeyRows, Absent
<1> QED BY <1>1 DEF EffectiveScopes

LEMMA SeenTyped ==
  ASSUME roleIn \in [Organizations -> [Persons -> GrantedRoles]], NEW person \in Persons
  PROVE  [o \in Organizations |-> roleIn[o][person]] \in [Organizations -> GrantedRoles]
OBVIOUS

LEMMA CallingTyped ==
  ASSUME NEW k \in KeysOrNone, NEW person \in Persons,
         NEW seen \in [Organizations -> GrantedRoles], NEW scopes \in SUBSET Capabilities
  PROVE  [at |-> "called", key |-> k, person |-> person, seen |-> seen, scopes |-> scopes] \in Calling
BY DEF Calling

LEMMA MembershipsReadKeeps == ASSUME AccessInv, NEW r \in AccessRequests, MembershipsRead(r) PROVE AccessInv'
<1> USE AccessAssumption, PlacesDiffer, RolesGrantCapabilities DEF AccessInv, AccessShape, MembershipsRead, Moves, EffectiveScopes, RoleForKey
<1>1. AccessShape'
  <2> DEFINE a == asking[r]
             seen == [o \in Organizations |-> roleIn[o][a.person]]
             scopes == IF a.key = NoKey THEN {} ELSE EffectiveScopes(a.key, seen)
  <2>1. a \in Listening
    OBVIOUS
  <2>0. a.key \in KeysOrNone /\ a.person \in Persons
    BY <2>1 DEF Listening
  <2>2. seen \in [Organizations -> GrantedRoles]
    BY <2>0, SeenTyped
  <2>3. scopes \in SUBSET Capabilities
    <3>1. CASE a.key = NoKey
      BY <3>1
    <3>2. CASE a.key # NoKey
      BY <2>0, <3>2, ScopesTyped DEF KeysOrNone
    <3> QED BY <3>1, <3>2
  <2>4. [at |-> "called", key |-> a.key, person |-> a.person, seen |-> seen, scopes |-> scopes] \in Calling
    BY <2>0, <2>2, <2>3, CallingTyped
  <2> QED BY <2>4
<1>2. \A s \in AccessRequests : Presented(s)'
  BY DEF Presented, NoAsking, Listening, Calling, Writing, KeysOrNone, KeyRows, Absent
<1>3. \A s \in AccessRequests : Witnessed(s)'
  BY DEF Witnessed, NoAsking, Listening, Calling, Writing
<1>4. \A s \in AccessRequests : Targeted(s)'
  BY DEF Targeted, NoAsking, Listening, Calling, Writing
<1> QED BY <1>1, <1>2, <1>3, <1>4

LEMMA RejectedKeeps == ASSUME AccessInv, NEW r \in AccessRequests, Rejected(r) PROVE AccessInv'
<1> USE AccessAssumption, PlacesDiffer, RolesGrantCapabilities DEF AccessInv, AccessShape, Rejected, Moves, Ends
<1>1. AccessShape'
  BY DEF Listening, Calling, Writing, NoAsking, KeyRows, Absent, KeysOrNone
<1>2. \A s \in AccessRequests : Presented(s)'
  BY DEF Presented, NoAsking, Listening, Calling, Writing, KeysOrNone, KeyRows, Absent
<1>3. \A s \in AccessRequests : Witnessed(s)'
  BY DEF Witnessed, NoAsking, Listening, Calling, Writing
<1>4. \A s \in AccessRequests : Targeted(s)'
  BY DEF Targeted, NoAsking, Listening, Calling, Writing
<1> QED BY <1>1, <1>2, <1>3, <1>4

LEMMA HandledKeeps == ASSUME AccessInv, NEW r \in AccessRequests, NEW p \in ProceduresCalled, NEW o \in Organizations, Handled(r, p, o) PROVE AccessInv'
<1> USE AccessAssumption, PlacesDiffer, RolesGrantCapabilities DEF AccessInv, AccessShape, Handled, Moves, Allowed, BoundedScopes
<1>1. AccessShape'
  BY DEF Listening, Calling, Writing, NoAsking, KeyRows, Absent, KeysOrNone
<1>2. \A s \in AccessRequests : Presented(s)'
  BY DEF Presented, NoAsking, Listening, Calling, Writing, KeysOrNone, KeyRows, Absent
<1>3. \A s \in AccessRequests : Witnessed(s)'
  BY DEF Witnessed, NoAsking, Listening, Calling, Writing
<1>4. \A s \in AccessRequests : Targeted(s)'
  BY DEF Targeted, NoAsking, Listening, Calling, Writing
<1> QED BY <1>1, <1>2, <1>3, <1>4

LEMMA CreateApiKeyKeeps == ASSUME AccessInv, NEW r \in AccessRequests, CreateApiKey(r) PROVE AccessInv'
<1> USE AccessAssumption, PlacesDiffer, RolesGrantCapabilities DEF AccessInv, AccessShape, CreateApiKey, Moves, Ends
<1>1. AccessShape'
  <2> DEFINE a == asking[r]
  <2>1. a \in Writing
    OBVIOUS
  <2>2. [state |-> "active", owner |-> a.person, org |-> a.org, scopes |-> a.issues] \in KeyRows
    BY <2>1 DEF Writing, KeyRows
  <2> QED BY <2>2
<1>2. \A s \in AccessRequests : Presented(s)'
  BY DEF Presented, NoAsking, Listening, Calling, Writing, KeysOrNone, KeyRows, Absent
<1>3. \A s \in AccessRequests : Witnessed(s)'
  BY DEF Witnessed, NoAsking, Listening, Calling, Writing
<1>4. \A s \in AccessRequests : Targeted(s)'
  BY DEF Targeted, NoAsking, Listening, Calling, Writing
<1> QED BY <1>1, <1>2, <1>3, <1>4

\* A revoked key is a key.
LEMMA RevokedTyped ==
  ASSUME NEW held \in KeyRows PROVE [held EXCEPT !.state = "revoked"] \in KeyRows
BY DEF KeyRows

LEMMA RevokeApiKeyKeeps == ASSUME AccessInv, NEW r \in AccessRequests, RevokeApiKey(r) PROVE AccessInv'
<1> USE AccessAssumption, PlacesDiffer, RolesGrantCapabilities DEF AccessInv, AccessShape, RevokeApiKey, Moves, Ends
<1>1. AccessShape'
  <2> DEFINE a == asking[r]
             held == apiKeys[a.target]
  <2>1. a \in Writing /\ a.target \in Keys
    BY DEF Targeted
  <2>2. ASSUME held.org = a.org
        PROVE  [held EXCEPT !.state = "revoked"] \in KeyRows
    <3>1. held # Absent
      BY <2>1, <2>2 DEF Writing, Absent
    <3>2. held \in KeyRows
      BY <2>1, <3>1
    <3> QED BY <3>2, RevokedTyped
  <2> QED BY <2>1, <2>2
<1>2. \A s \in AccessRequests : Presented(s)'
  BY DEF Presented, NoAsking, Listening, Calling, Writing, KeysOrNone, KeyRows, Absent
<1>3. \A s \in AccessRequests : Witnessed(s)'
  BY DEF Witnessed, NoAsking, Listening, Calling, Writing
<1>4. \A s \in AccessRequests : Targeted(s)'
  BY DEF Targeted, NoAsking, Listening, Calling, Writing
<1> QED BY <1>1, <1>2, <1>3, <1>4

LEMMA CompletedKeeps == ASSUME AccessInv, NEW r \in AccessRequests, Completed(r) PROVE AccessInv'
<1> USE AccessAssumption, PlacesDiffer, RolesGrantCapabilities DEF AccessInv, AccessShape, Completed, Moves, Ends
<1>1. AccessShape'
  BY DEF Listening, Calling, Writing, NoAsking, KeyRows, Absent, KeysOrNone
<1>2. \A s \in AccessRequests : Presented(s)'
  BY DEF Presented, NoAsking, Listening, Calling, Writing, KeysOrNone, KeyRows, Absent
<1>3. \A s \in AccessRequests : Witnessed(s)'
  BY DEF Witnessed, NoAsking, Listening, Calling, Writing
<1>4. \A s \in AccessRequests : Targeted(s)'
  BY DEF Targeted, NoAsking, Listening, Calling, Writing
<1> QED BY <1>1, <1>2, <1>3, <1>4

LEMMA AccessBegins == AccessInit => AccessInv
<1> SUFFICES ASSUME AccessInit PROVE AccessInv
  OBVIOUS
<1>1. AccessShape
  <2>1. roleIn \in [Organizations -> [Persons -> GrantedRoles]]
    BY RolesNamed DEF AccessInit
  <2> QED BY <2>1 DEF AccessInit, AccessShape
<1> QED BY <1>1 DEF AccessInit, AccessInv, Presented, Witnessed, Targeted, NoAsking

LEMMA AccessGoesOn == AccessInv /\ [AccessNext]_accessVars => AccessInv'
<1> SUFFICES ASSUME AccessInv, [AccessNext]_accessVars PROVE AccessInv'
  OBVIOUS
<1>1. CASE \E o \in Organizations, person \in Persons, given \in RolesGiven :
             MembershipChanges(o, person, given)
  BY <1>1, MembershipChangesKeeps
<1>2. ASSUME NEW r \in AccessRequests,
             \/ \E person \in Persons : SessionVerified(r, person)
             \/ \E k \in Keys : KeyPresented(r, k)
             \/ KeyFound(r) \/ MembershipsRead(r) \/ Rejected(r)
      PROVE  AccessInv'
  BY <1>2, SessionVerifiedKeeps, KeyPresentedKeeps, KeyFoundKeeps, MembershipsReadKeeps, RejectedKeeps
<1>3. ASSUME NEW r \in AccessRequests,
             \/ \E p \in ProceduresCalled, o \in Organizations : Handled(r, p, o)
             \/ CreateApiKey(r) \/ RevokeApiKey(r) \/ Completed(r)
      PROVE  AccessInv'
  BY <1>3, HandledKeeps, CreateApiKeyKeeps, RevokeApiKeyKeeps, CompletedKeeps
<1>4. CASE UNCHANGED accessVars
  BY <1>4 DEF accessVars, AccessInv, AccessShape, Presented, Witnessed, Targeted
<1> QED BY <1>1, <1>2, <1>3, <1>4 DEF AccessNext

LEMMA AccessAlways == AccessSpec => []AccessInv
BY AccessBegins, AccessGoesOn, PTL DEF AccessSpec

\* Only the guard lets a request write.
LEMMA GuardedOnly ==
  ASSUME AccessInv, AccessNext, NEW r \in AccessRequests,
         asking'[r].at = "writing", asking[r].at # "writing"
  PROVE  \E p \in ProceduresCalled, o \in Organizations : Handled(r, p, o)
<1> USE DEF AccessInv, AccessShape
<1>1. ASSUME NEW s \in AccessRequests, NEW new, Moves(s, new), new.at # "writing"
      PROVE  FALSE
  BY <1>1 DEF Moves
<1>2. NoAsking.at = "idle"
  BY DEF NoAsking
<1>3. ASSUME NEW o \in Organizations, NEW person \in Persons, NEW given \in RolesGiven,
             MembershipChanges(o, person, given)
      PROVE  FALSE
  BY <1>3 DEF MembershipChanges
<1>4. ASSUME NEW s \in AccessRequests,
             \/ \E person \in Persons : SessionVerified(s, person)
             \/ \E k \in Keys : KeyPresented(s, k)
      PROVE  FALSE
  BY <1>1, <1>4 DEF SessionVerified, KeyPresented, Begins
<1>5. ASSUME NEW s \in AccessRequests, KeyFound(s) \/ MembershipsRead(s)
      PROVE  FALSE
  <2>1. asking[s].at \in {"lookup", "members"} => asking[s] \in Listening
    BY PlacesDiffer
  <2> QED BY <1>1, <1>5, <2>1 DEF KeyFound, MembershipsRead, Listening
<1>6. ASSUME NEW s \in AccessRequests,
             Rejected(s) \/ CreateApiKey(s) \/ RevokeApiKey(s) \/ Completed(s)
      PROVE  FALSE
  BY <1>1, <1>2, <1>6 DEF Rejected, CreateApiKey, RevokeApiKey, Completed, Ends
<1>7. ASSUME NEW s \in AccessRequests, NEW p \in ProceduresCalled, NEW o \in Organizations,
             Handled(s, p, o)
      PROVE  s = r
  BY <1>7 DEF Handled, Moves
<1> QED BY <1>3, <1>4, <1>5, <1>6, <1>7 DEF AccessNext

\* What the guard lets through was granted to whom it is acted for.
LEMMA HandledIsGranted ==
  ASSUME AccessInv, NEW r \in AccessRequests, NEW p \in ProceduresCalled, NEW o \in Organizations,
         Handled(r, p, o)
  PROVE  Granted(r) /\ WithinKey(r)
<1> DEFINE a == asking[r]
<1>1. a \in Calling /\ a.at = "called"
  BY PlacesDiffer DEF AccessInv, AccessShape, Handled
<1>2. /\ <<o, a.seen[o]>> \in during[r] /\ a.seen[o] \in GrantedRoles
      /\ r \notin outdated /\ (a.key # NoKey => a.scopes \subseteq apiKeys[a.key].scopes)
  BY <1>1 DEF AccessInv, Witnessed, Presented, Calling
<1>3. /\ asking'[r].org = o /\ asking'[r].key = a.key
      /\ Allowed(a, o, asking'[r].needs)
      /\ asking'[r].issues \subseteq RoleCapabilities[a.seen[o]]
  BY <1>1 DEF Handled, Moves, AccessInv, AccessShape, BoundedScopes
<1>4. Granted(r)
  BY <1>2, <1>3 DEF Granted, Allowed, GrantedRoles
<1>5. WithinKey(r)
  BY <1>2, <1>3 DEF WithinKey, Allowed, KeysOrg
<1> QED BY <1>4, <1>5

\* Roles are roles, keys and what they hold are known, and so is what requests ask for.
THEOREM AccessTypeAlways == AccessSpec => []AccessType
<1>1. AccessInv => AccessType
  BY PlacesDiffer
     DEF AccessInv, AccessShape, AccessType, GrantedRoles, KeyRows, Absent, Calling, Writing
<1> QED BY <1>1, AccessAlways, PTL

\* What a request does was granted to its principal between its beginning and
\* its reading the memberships, and with a key it stays within that key, its
\* organization and its revocation (context.ts:14-17, guard.ts).
THEOREM ActsAsGrantedAlways == AccessSpec => ActsAsGranted
<1> DEFINE Acts == \A r \in AccessRequests :
                     asking'[r].at = "writing" /\ asking[r].at # "writing" =>
                       Granted(r) /\ WithinKey(r)
<1>1. AccessInv /\ [AccessNext]_accessVars => [Acts]_accessVars
  BY GuardedOnly, HandledIsGranted
<1> QED BY <1>1, AccessAlways, PTL DEF AccessSpec, ActsAsGranted

-----------------------------------------------------------------------------
(* Projects.  What is under way carries what the project says, as long as  *)
(* no change was raced, and an editor that has seen an application does    *)
(* not change what it was made from.                                       *)

\* The shapes of the records of an editor and of the worker.
Editing == [at : {"write"}, change : Changes, app : TargetsMade \cup {NoTarget}]
Starting == [at : {"start"}, job : Orders]
Carrying == [at : {"create", "deploy"}, job : Orders, root : Directories,
             model : {"container", "serverless"}]
Recording == [at : {"record"}, job : Orders, app : TargetsMade]
Recorded == [at : {"deploy"}, job : Orders]

ProjectShape ==
  /\ project \in [slug : Slugs, root : Directories, model : {"container", "serverless"},
                  app : TargetsMade \cup {NoTarget}]
  /\ editing \in [Editors -> Editing \cup {NoEditing}]
  /\ order \in [Orders -> [at : {"none", "asking", "queued", "carried", "ended"}, slug : Slugs,
                           root : Directories, own : BOOLEAN, tries : 0 .. CarryAttempts]]
  /\ carrier \in Starting \cup Carrying \cup Recording \cup Recorded \cup {Unoccupied}
  /\ raced \in BOOLEAN

\* The worker has a job it took, and a job was taken within its attempts.
CarrierHolds ==
  /\ carrier.at # "idle" => order[carrier.job].at = "carried"
  /\ \A d \in Orders :
       /\ order[d].at = "queued" => order[d].tries < CarryAttempts
       /\ order[d].at \in {"none", "asking"} => order[d].tries = 0

\* The application a is what the project as it is now would be made into.
Fits(a) == a.name = project.slug /\ (a.own \/ a.dir = project.root)

\* While no change was raced, what is under way carries what the project says.
CarriesProject ==
  ~ raced =>
    /\ \A d \in Orders : Unfinished(d) =>
         order[d].slug = project.slug /\ (order[d].own \/ order[d].root = project.root)
    /\ carrier.at = "create" => carrier.root = project.root
    /\ carrier.at = "record" => Fits(carrier.app)

\* An editor that has seen an application does not change what it is made from.
EditsKeep ==
  ~ raced =>
    \A r \in Editors : editing[r].at = "write" /\ editing[r].app # NoTarget =>
      project.app # NoTarget /\ ~ Retargets(editing[r].change)

ProjectInv == ProjectShape /\ CarrierHolds /\ CarriesProject /\ EditsKeep /\ MadeAsProject

LEMMA CarrierPlaces ==
  \A a \in Starting \cup Carrying \cup Recording \cup Recorded \cup {Unoccupied} :
    /\ a.at \in {"idle", "start", "create", "record", "deploy"}
    /\ a.at = "idle" <=> a = Unoccupied
    /\ a.at = "start" => a \in Starting
    /\ a.at = "create" => a \in Carrying
    /\ a.at = "record" => a \in Recording
    /\ a.at # "idle" => a.job \in Orders
BY DEF Starting, Carrying, Recording, Recorded, Unoccupied

LEMMA EditingPlaces ==
  \A a \in Editing \cup {NoEditing} :
    /\ a.at \in {"idle", "write"}
    /\ a.at = "write" => a \in Editing
BY DEF Editing, NoEditing

LEMMA BecomesTyped ==
  /\ \A old \in Slugs, new \in Slugs \cup {Same} : Becomes(old, new) \in Slugs
  /\ \A old \in Directories, new \in Directories \cup {Same} : Becomes(old, new) \in Directories
  /\ \A old \in {"container", "serverless"}, new \in {"container", "serverless", Same} :
       Becomes(old, new) \in {"container", "serverless"}
  /\ 1 \in Slugs /\ 0 \in Directories
BY DEF Becomes, Slugs, Directories

LEMMA LeavesTyped ==
  ASSUME ProjectShape, NEW place \in {"queued", "ended"}, Leaves(place), carrier.job \in Orders
  PROVE  ProjectShape'
<1> DEFINE OrderPlaces == [at : {"none", "asking", "queued", "carried", "ended"}, slug : Slugs,
                      root : Directories, own : BOOLEAN, tries : 0 .. CarryAttempts]
           d == carrier.job
<1>1. [NotOrdered EXCEPT !.at = place] \in OrderPlaces
  <2>1. NotOrdered \in OrderPlaces
    BY ProjectAssumption DEF NotOrdered, Slugs, Directories
  <2> QED BY <2>1
<1>2. [order[d] EXCEPT !.at = place] \in OrderPlaces
  BY DEF ProjectShape
<1>3. order' \in [Orders -> OrderPlaces]
  BY <1>1, <1>2 DEF ProjectShape, Leaves
<1> QED BY <1>3 DEF ProjectShape, Leaves

LEMMA UpdateReadsKeeps == ASSUME ProjectInv, NEW r \in Editors, NEW c \in Changes, UpdateReads(r, c) PROVE ProjectInv'
<1> USE ProjectAssumption, CarrierPlaces, EditingPlaces, BecomesTyped DEF ProjectInv, ProjectShape, UpdateReads, MayChange
<1>1. ProjectShape'
  BY DEF Editing, Starting, Carrying, Recording, Recorded, Unoccupied, NoEditing, NotOrdered, TargetsMade, CarrierHolds
<1>2. CarrierHolds'
  BY DEF CarrierHolds, Starting, Carrying, Recording, Recorded, Unoccupied, NotOrdered
<1>3. CarriesProject'
  BY DEF CarriesProject, Unfinished, Fits, Carrying, Recording, NotOrdered, CarrierHolds, Retargets, Becomes, Unoccupied
<1>4. EditsKeep'
  BY DEF EditsKeep, Retargets, Editing, NoEditing, Recording, Becomes
<1>5. MadeAsProject'
  BY DEF MadeAsProject, EditsKeep, CarriesProject, Fits, Retargets, Editing
<1> QED BY <1>1, <1>2, <1>3, <1>4, <1>5

LEMMA UpdateWritesKeeps == ASSUME ProjectInv, NEW r \in Editors, UpdateWrites(r) PROVE ProjectInv'
<1> DEFINE c == editing[r].change
<1> USE ProjectAssumption, CarrierPlaces, EditingPlaces, BecomesTyped DEF ProjectInv, ProjectShape, UpdateWrites
<1>1. ProjectShape'
  <2>1. editing[r] \in Editing /\ c \in Changes
    BY DEF Editing
  <2>2. /\ Becomes(project.slug, c.slug) \in Slugs
        /\ Becomes(project.root, c.root) \in Directories
        /\ Becomes(project.model, c.model) \in {"container", "serverless"}
    BY <2>1
  <2>3. project' \in [slug : Slugs, root : Directories, model : {"container", "serverless"},
                      app : TargetsMade \cup {NoTarget}]
    BY <2>2
  <2> QED BY <2>3
<1>2. CarrierHolds'
  BY DEF CarrierHolds, Starting, Carrying, Recording, Recorded, Unoccupied, NotOrdered
<1>3. CarriesProject'
  BY DEF CarriesProject, Unfinished, Fits, Carrying, Recording, NotOrdered, CarrierHolds, Retargets, Becomes, Unoccupied
<1>4. EditsKeep'
  BY DEF EditsKeep, Retargets, Editing, NoEditing, Recording, Becomes
<1>5. MadeAsProject'
  BY DEF MadeAsProject, EditsKeep, CarriesProject, Fits, Retargets, Editing
<1> QED BY <1>1, <1>2, <1>3, <1>4, <1>5

LEMMA UpdateStopsKeeps == ASSUME ProjectInv, NEW r \in Editors, UpdateStops(r) PROVE ProjectInv'
<1> USE ProjectAssumption, CarrierPlaces, EditingPlaces, BecomesTyped DEF ProjectInv, ProjectShape, UpdateStops
<1>1. ProjectShape'
  BY DEF Editing, Starting, Carrying, Recording, Recorded, Unoccupied, NoEditing, NotOrdered, TargetsMade, CarrierHolds
<1>2. CarrierHolds'
  BY DEF CarrierHolds, Starting, Carrying, Recording, Recorded, Unoccupied, NotOrdered
<1>3. CarriesProject'
  BY DEF CarriesProject, Unfinished, Fits, Carrying, Recording, NotOrdered, CarrierHolds, Retargets, Becomes, Unoccupied
<1>4. EditsKeep'
  BY DEF EditsKeep, Retargets, Editing, NoEditing, Recording, Becomes
<1>5. MadeAsProject'
  BY DEF MadeAsProject, EditsKeep, CarriesProject, Fits, Retargets, Editing
<1> QED BY <1>1, <1>2, <1>3, <1>4, <1>5

LEMMA OrderReadsKeeps == ASSUME ProjectInv, NEW d \in Orders, NEW wanted \in OwnDirectories, OrderReads(d, wanted) PROVE ProjectInv'
<1> USE ProjectAssumption, CarrierPlaces, EditingPlaces, BecomesTyped DEF ProjectInv, ProjectShape, OrderReads
<1>1. /\ ProjectShape'
      /\ order'[d].slug = project.slug /\ order'[d].own = (wanted # Same)
      /\ order'[d].root = Becomes(project.root, wanted)
  <2> DEFINE own == wanted # Same
             root == Becomes(project.root, wanted)
             new == [order[d] EXCEPT !.at = "asking", !.slug = project.slug,
                                     !.root = root, !.own = own]
             OrderPlaces == [at : {"none", "asking", "queued", "carried", "ended"}, slug : Slugs,
                        root : Directories, own : BOOLEAN, tries : 0 .. CarryAttempts]
  <2>1. root \in Directories /\ own \in BOOLEAN
    OBVIOUS
  <2>2. order' = [order EXCEPT ![d] = new] /\ order[d] \in OrderPlaces /\ project.slug \in Slugs
    OBVIOUS
  <2> HIDE DEF own, root
  <2>3. new \in OrderPlaces /\ new.slug = project.slug /\ new.own = own /\ new.root = root
    BY <2>1, <2>2
  <2>4. order' \in [Orders -> OrderPlaces] /\ order'[d] = new
    BY <2>2, <2>3
  <2> QED BY <2>3, <2>4 DEF own, root
<1>2. CarrierHolds'
  BY DEF CarrierHolds, Starting, Carrying, Recording, Recorded, Unoccupied, NotOrdered
<1>3. CarriesProject'
  <2>1. order'[d].own \/ order'[d].root = project.root
    BY <1>1 DEF Becomes
  <2> QED BY <1>1, <2>1 DEF CarriesProject, Unfinished, Fits
<1>4. EditsKeep'
  BY DEF EditsKeep, Retargets, Editing, NoEditing, Recording, Becomes
<1>5. MadeAsProject'
  BY DEF MadeAsProject, EditsKeep, CarriesProject, Fits, Retargets, Editing
<1> QED BY <1>1, <1>2, <1>3, <1>4, <1>5

LEMMA OrderEnqueuedKeeps == ASSUME ProjectInv, NEW d \in Orders, OrderEnqueued(d) PROVE ProjectInv'
<1> USE ProjectAssumption, CarrierPlaces, EditingPlaces, BecomesTyped DEF ProjectInv, ProjectShape, OrderEnqueued
<1>1. ProjectShape'
  BY DEF Editing, Starting, Carrying, Recording, Recorded, Unoccupied, NoEditing, NotOrdered, TargetsMade, CarrierHolds
<1>2. CarrierHolds'
  BY DEF CarrierHolds, Starting, Carrying, Recording, Recorded, Unoccupied, NotOrdered
<1>3. CarriesProject'
  BY DEF CarriesProject, Unfinished, Fits, Carrying, Recording, NotOrdered, CarrierHolds, Retargets, Becomes, Unoccupied
<1>4. EditsKeep'
  BY DEF EditsKeep, Retargets, Editing, NoEditing, Recording, Becomes
<1>5. MadeAsProject'
  BY DEF MadeAsProject, EditsKeep, CarriesProject, Fits, Retargets, Editing
<1> QED BY <1>1, <1>2, <1>3, <1>4, <1>5

LEMMA OrderStopsKeeps == ASSUME ProjectInv, NEW d \in Orders, OrderStops(d) PROVE ProjectInv'
<1> USE ProjectAssumption, CarrierPlaces, EditingPlaces, BecomesTyped DEF ProjectInv, ProjectShape, OrderStops
<1>1. ProjectShape'
  BY DEF Editing, Starting, Carrying, Recording, Recorded, Unoccupied, NoEditing, NotOrdered, TargetsMade, CarrierHolds
<1>2. CarrierHolds'
  BY DEF CarrierHolds, Starting, Carrying, Recording, Recorded, Unoccupied, NotOrdered
<1>3. CarriesProject'
  BY DEF CarriesProject, Unfinished, Fits, Carrying, Recording, NotOrdered, CarrierHolds, Retargets, Becomes, Unoccupied
<1>4. EditsKeep'
  BY DEF EditsKeep, Retargets, Editing, NoEditing, Recording, Becomes
<1>5. MadeAsProject'
  BY DEF MadeAsProject, EditsKeep, CarriesProject, Fits, Retargets, Editing
<1> QED BY <1>1, <1>2, <1>3, <1>4, <1>5

LEMMA OrderTakenKeeps == ASSUME ProjectInv, NEW d \in Orders, OrderTaken(d) PROVE ProjectInv'
<1> USE ProjectAssumption, CarrierPlaces, EditingPlaces, BecomesTyped DEF ProjectInv, ProjectShape, OrderTaken
<1>1. ProjectShape'
  BY DEF Editing, Starting, Carrying, Recording, Recorded, Unoccupied, NoEditing, NotOrdered, TargetsMade, CarrierHolds
<1>2. CarrierHolds'
  BY DEF CarrierHolds, Starting, Carrying, Recording, Recorded, Unoccupied, NotOrdered
<1>3. CarriesProject'
  BY DEF CarriesProject, Unfinished, Fits, Carrying, Recording, NotOrdered, CarrierHolds, Retargets, Becomes, Unoccupied
<1>4. EditsKeep'
  BY DEF EditsKeep, Retargets, Editing, NoEditing, Recording, Becomes
<1>5. MadeAsProject'
  BY DEF MadeAsProject, EditsKeep, CarriesProject, Fits, Retargets, Editing
<1> QED BY <1>1, <1>2, <1>3, <1>4, <1>5

LEMMA TargetReadKeeps == ASSUME ProjectInv, TargetRead PROVE ProjectInv'
<1> USE ProjectAssumption, CarrierPlaces, EditingPlaces, BecomesTyped DEF ProjectInv, ProjectShape, TargetRead
<1>1. ProjectShape'
  BY DEF Editing, Starting, Carrying, Recording, Recorded, Unoccupied, NoEditing, NotOrdered, TargetsMade, CarrierHolds
<1>2. CarrierHolds'
  BY DEF CarrierHolds, Starting, Carrying, Recording, Recorded, Unoccupied, NotOrdered
<1>3. CarriesProject'
  BY DEF CarriesProject, Unfinished, Fits, Carrying, Recording, NotOrdered, CarrierHolds, Retargets, Becomes, Unoccupied
<1>4. EditsKeep'
  BY DEF EditsKeep, Retargets, Editing, NoEditing, Recording, Becomes
<1>5. MadeAsProject'
  BY DEF MadeAsProject, EditsKeep, CarriesProject, Fits, Retargets, Editing
<1> QED BY <1>1, <1>2, <1>3, <1>4, <1>5

LEMMA ApplicationCreatedKeeps == ASSUME ProjectInv, ApplicationCreated PROVE ProjectInv'
<1> USE ProjectAssumption, CarrierPlaces, EditingPlaces, BecomesTyped DEF ProjectInv, ProjectShape, ApplicationCreated, NewApplicationFor
<1>1. ProjectShape'
  BY DEF Editing, Starting, Carrying, Recording, Recorded, Unoccupied, NoEditing, NotOrdered, TargetsMade, CarrierHolds
<1>2. CarrierHolds'
  BY DEF CarrierHolds, Starting, Carrying, Recording, Recorded, Unoccupied, NotOrdered
<1>3. CarriesProject'
  BY DEF CarriesProject, Unfinished, Fits, Carrying, Recording, NotOrdered, CarrierHolds, Retargets, Becomes, Unoccupied
<1>4. EditsKeep'
  BY DEF EditsKeep, Retargets, Editing, NoEditing, Recording, Becomes
<1>5. MadeAsProject'
  BY DEF MadeAsProject, EditsKeep, CarriesProject, Fits, Retargets, Editing
<1> QED BY <1>1, <1>2, <1>3, <1>4, <1>5

LEMMA ApplicationRecordedKeeps == ASSUME ProjectInv, ApplicationRecorded PROVE ProjectInv'
<1> USE ProjectAssumption, CarrierPlaces, EditingPlaces, BecomesTyped DEF ProjectInv, ProjectShape, ApplicationRecorded
<1>1. ProjectShape'
  BY DEF Editing, Starting, Carrying, Recording, Recorded, Unoccupied, NoEditing, NotOrdered, TargetsMade, CarrierHolds
<1>2. CarrierHolds'
  BY DEF CarrierHolds, Starting, Carrying, Recording, Recorded, Unoccupied, NotOrdered
<1>3. CarriesProject'
  BY DEF CarriesProject, Unfinished, Fits, Carrying, Recording, NotOrdered, CarrierHolds, Retargets, Becomes, Unoccupied
<1>4. EditsKeep'
  BY DEF EditsKeep, Retargets, Editing, NoEditing, Recording, Becomes
<1>5. MadeAsProject'
  BY DEF MadeAsProject, EditsKeep, CarriesProject, Fits, Retargets, Editing
<1> QED BY <1>1, <1>2, <1>3, <1>4, <1>5

LEMMA ApplicationNotCreatedKeeps == ASSUME ProjectInv, ApplicationNotCreated PROVE ProjectInv'
<1> USE ProjectAssumption, CarrierPlaces, EditingPlaces, BecomesTyped DEF ProjectInv, ProjectShape, ApplicationNotCreated, Leaves
<1>1. ProjectShape'
  BY LeavesTyped
<1>2. CarrierHolds'
  BY DEF CarrierHolds, Starting, Carrying, Recording, Recorded, Unoccupied, NotOrdered
<1>3. CarriesProject'
  BY DEF CarriesProject, Unfinished, Fits, Carrying, Recording, NotOrdered, CarrierHolds, Retargets, Becomes, Unoccupied
<1>4. EditsKeep'
  BY DEF EditsKeep, Retargets, Editing, NoEditing, Recording, Becomes
<1>5. MadeAsProject'
  BY DEF MadeAsProject, EditsKeep, CarriesProject, Fits, Retargets, Editing
<1> QED BY <1>1, <1>2, <1>3, <1>4, <1>5

LEMMA OrderEndsKeeps == ASSUME ProjectInv, OrderEnds PROVE ProjectInv'
<1> USE ProjectAssumption, CarrierPlaces, EditingPlaces, BecomesTyped DEF ProjectInv, ProjectShape, OrderEnds, Leaves
<1>1. ProjectShape'
  BY LeavesTyped
<1>2. CarrierHolds'
  BY DEF CarrierHolds, Starting, Carrying, Recording, Recorded, Unoccupied, NotOrdered
<1>3. CarriesProject'
  BY DEF CarriesProject, Unfinished, Fits, Carrying, Recording, NotOrdered, CarrierHolds, Retargets, Becomes, Unoccupied
<1>4. EditsKeep'
  BY DEF EditsKeep, Retargets, Editing, NoEditing, Recording, Becomes
<1>5. MadeAsProject'
  BY DEF MadeAsProject, EditsKeep, CarriesProject, Fits, Retargets, Editing
<1> QED BY <1>1, <1>2, <1>3, <1>4, <1>5

LEMMA CarrierDiesKeeps == ASSUME ProjectInv, CarrierDies PROVE ProjectInv'
<1> USE ProjectAssumption, CarrierPlaces, EditingPlaces, BecomesTyped DEF ProjectInv, ProjectShape, CarrierDies, Leaves
<1>1. ProjectShape'
  BY LeavesTyped
<1>2. CarrierHolds'
  BY DEF CarrierHolds, Starting, Carrying, Recording, Recorded, Unoccupied, NotOrdered
<1>3. CarriesProject'
  BY DEF CarriesProject, Unfinished, Fits, Carrying, Recording, NotOrdered, CarrierHolds, Retargets, Becomes, Unoccupied
<1>4. EditsKeep'
  BY DEF EditsKeep, Retargets, Editing, NoEditing, Recording, Becomes
<1>5. MadeAsProject'
  BY DEF MadeAsProject, EditsKeep, CarriesProject, Fits, Retargets, Editing
<1> QED BY <1>1, <1>2, <1>3, <1>4, <1>5

LEMMA ProjectBegins == ProjectInit => ProjectInv
<1> SUFFICES ASSUME ProjectInit PROVE ProjectInv
  OBVIOUS
<1> USE ProjectAssumption DEF ProjectInit
<1>1. ProjectShape
  <2>1. order \in [Orders -> [at : {"none", "asking", "queued", "carried", "ended"}, slug : Slugs,
                              root : Directories, own : BOOLEAN, tries : 0 .. CarryAttempts]]
    BY DEF NotOrdered, Slugs, Directories
  <2>2. project \in [slug : Slugs, root : Directories, model : {"container", "serverless"},
                     app : TargetsMade \cup {NoTarget}]
    BY BecomesTyped
  <2> QED BY <2>1, <2>2 DEF ProjectShape
<1>2. CarrierHolds /\ CarriesProject
  BY DEF CarrierHolds, CarriesProject, Unfinished, NotOrdered, Unoccupied
<1>3. EditsKeep /\ MadeAsProject
  BY DEF EditsKeep, MadeAsProject, NoEditing
<1> QED BY <1>1, <1>2, <1>3 DEF ProjectInv

LEMMA ProjectGoesOn == ProjectInv /\ [ProjectNext]_projectVars => ProjectInv'
<1> SUFFICES ASSUME ProjectInv, [ProjectNext]_projectVars PROVE ProjectInv'
  OBVIOUS
<1>1. CASE \E r \in Editors : (\E c \in Changes : UpdateReads(r, c)) \/ UpdateWrites(r) \/ UpdateStops(r)
  BY <1>1, UpdateReadsKeeps, UpdateWritesKeeps, UpdateStopsKeeps
<1>2. CASE \E d \in Orders :
             \/ \E wanted \in OwnDirectories : OrderReads(d, wanted)
             \/ OrderEnqueued(d) \/ OrderStops(d) \/ OrderTaken(d)
  BY <1>2, OrderReadsKeeps, OrderEnqueuedKeeps, OrderStopsKeeps, OrderTakenKeeps
<1>3. CASE TargetRead \/ ApplicationCreated \/ ApplicationRecorded
  BY <1>3, TargetReadKeeps, ApplicationCreatedKeeps, ApplicationRecordedKeeps
<1>4. CASE ApplicationNotCreated \/ OrderEnds \/ CarrierDies
  BY <1>4, ApplicationNotCreatedKeeps, OrderEndsKeeps, CarrierDiesKeeps
<1>5. CASE UNCHANGED projectVars
  BY <1>5 DEF projectVars, ProjectInv, ProjectShape, CarrierHolds, CarriesProject, EditsKeep,
       MadeAsProject, Fits, Unfinished, Retargets, Becomes
<1> QED BY <1>1, <1>2, <1>3, <1>4, <1>5 DEF ProjectNext

LEMMA ProjectAlways == ProjectSpec => []ProjectInv
BY ProjectBegins, ProjectGoesOn, PTL DEF ProjectSpec

\* The project row, the requests and what the worker holds always are of their types.
THEOREM ProjectTypeAlways == ProjectSpec => []ProjectType
<1>1. ProjectInv => ProjectType
  BY CarrierPlaces, EditingPlaces DEF ProjectInv, ProjectShape, ProjectType
<1> QED BY <1>1, ProjectAlways, PTL

\* The recorded application is named by the project's slug and builds from its
\* directory, unless a change met a deployment under way or an application it
\* had not seen (organizations.ts:389-416).
THEOREM MadeAsProjectAlways == ProjectSpec => []MadeAsProject
<1>1. ProjectInv => MadeAsProject
  BY DEF ProjectInv
<1> QED BY <1>1, ProjectAlways, PTL

-----------------------------------------------------------------------------
(* The policy.  Nobody but the worker activates it, and what the worker    *)
(* holds is the stored policy unless that was saved while it was at work;  *)
(* what was saved then is a draft.                                         *)

\* Versions are bounded by the saves that were begun.
VersionsCounted ==
  /\ policy.version <= saves + 1
  /\ agent.read <= saves + 1 /\ agent.load.version <= saves + 1
  /\ \A r \in PolicyRequests :
       /\ client[r].at = "save" => client[r].version \in 1 .. saves
       /\ client[r].at = "enqueue" => client[r].version \in Versions

AgentOK ==
  /\ agent.at = "idle" => agent = AtRest
  /\ agent.at # "idle" => agent.job \in Versions
  /\ agent.at \in {"load", "send"} => agent.result = "none"
  /\ agent.at \in {"settle", "apply", "write"} => agent.result # "none"
  /\ agent.at \in {"load", "send"} \/ agent.result = "succeeded" => agent.read \in Versions

\* The worker's place and the queue's.
QueueOK ==
  /\ phase \in [Versions -> {"absent", "waiting", "taken", "succeeded", "failed"}]
  /\ holder \in [Versions -> {Worker1, NoHolder}]
  /\ spent \in [Versions -> Nat]
  /\ said \subseteq Versions
  /\ \A v \in Versions :
       /\ holder[v] = Worker1 => agent.job = v /\ agent.at \in {"load", "send", "settle"}
       /\ phase[v] = "taken" /\ holder[v] = NoHolder => v \in reported
       /\ phase[v] = "succeeded" => v \in said
  /\ agent.at \in {"load", "send", "settle"} => phase[agent.job] = "taken" /\ holder[agent.job] = Worker1
  /\ agent.at \in {"apply", "write"} /\ agent.result = "succeeded" => phase[agent.job] = "succeeded"

\* As long as the stored version never went down, it is at least that of every job.
Ahead ==
  ~ rewound =>
    /\ \A r \in PolicyRequests : client[r].at = "enqueue" => client[r].version <= policy.version
    /\ \A v \in Versions : phase[v] # "absent" => v <= policy.version
    /\ \A v \in said : v <= edge.version
    /\ agent.at = "send" => agent.job <= agent.load.version

\* What the worker holds is what is stored, unless it was saved meanwhile.
StoredPolicy == [version |-> policy.version, text |-> policy.text]

InHand ==
  /\ moved => policy.state = "draft" /\ agent.at # "idle"
  /\ ~ moved =>
       /\ agent.at \in {"load", "send"} => agent.read = policy.version
       /\ agent.at = "send" => agent.load = StoredPolicy
       /\ agent.at \in {"settle", "apply", "write"} /\ agent.result = "succeeded" =>
            agent.read = policy.version /\ agent.load = StoredPolicy /\ edge = StoredPolicy
       /\ agent.at = "write" /\ agent.result = "succeeded" => agent.text = policy.text

PolicyInv == PolicyType /\ VersionsCounted /\ AgentOK /\ QueueOK /\ Ahead /\ InHand /\ PolicyIsTrue

Agents ==
  [at : {"idle", "load", "send", "settle", "apply", "write"},
   job : Versions \cup {0}, read : Versions \cup {0}, load : Sent, text : 0 .. MaxSaves,
   result : {"none", "succeeded", "degraded", "failed"}]

PolicyClients ==
  [at : {"idle", "save", "enqueue"}, version : Versions \cup {0}, text : 0 .. MaxSaves]

LEMMA RestsTyped == AtRest \in Agents /\ NoClient \in PolicyClients
<1>1. [version |-> 0, text |-> 0] \in Sent
  BY SavesAssumption DEF Sent
<1> QED BY <1>1, SavesAssumption DEF AtRest, Agents, NoClient, PolicyClients

LEMMA AgentTyped == PolicyType => agent \in Agents /\ client \in [PolicyRequests -> PolicyClients]
BY DEF PolicyType, Agents, PolicyClients

\* The stored version goes down, and that is noted, or it does not.
LEMMA StoreNotes ==
  ASSUME PolicyType, NEW kept \in Row, StorePolicy(kept)
  PROVE  /\ policy' = kept /\ rewound' \in BOOLEAN
         /\ ~ rewound' => ~ rewound /\ policy.version <= kept.version
<1>1. policy' = kept /\ rewound' = (rewound \/ kept.version < policy.version)
  BY DEF StorePolicy
<1>2. rewound' \in BOOLEAN
  BY <1>1
<1>3. ASSUME ~ rewound'
      PROVE  ~ rewound /\ ~ (kept.version < policy.version)
  <2>1. CASE rewound \/ kept.version < policy.version
    <3>1. rewound'
      BY <1>1, <2>1
    <3> QED BY <1>3, <3>1
  <2> QED BY <2>1
<1>4. kept.version \in Nat /\ policy.version \in Nat
  BY SavesAssumption DEF PolicyType, Row, Versions
<1> QED BY <1>1, <1>2, <1>3, <1>4

\* What becomes of a request is its own, and a refusal is of the job alone.
LEMMA Returned ==
  ASSUME PolicyInv, agent.at = "send",
         NEW result \in {"succeeded", "degraded", "failed"}, HandlerReturns(result)
  PROVE  /\ agent' \in Agents
         /\ agent'.at = "settle" /\ agent'.job = agent.job /\ agent'.result = result
         /\ result = "succeeded" => agent'.read = agent.read /\ agent'.load = agent.load
         /\ result # "succeeded" => agent'.read = 0 /\ agent'.load.version = 0
<1>1. agent \in Agents /\ AtRest \in Agents
  BY AgentTyped, RestsTyped DEF PolicyInv
<1>2. CASE result = "succeeded"
  BY <1>1, <1>2 DEF HandlerReturns, Agents
<1>3. CASE result # "succeeded"
  <2>1. AtRest.read = 0 /\ AtRest.load.version = 0
    BY DEF AtRest
  <2>2. agent' = [AtRest EXCEPT !.job = agent.job, !.at = "settle", !.result = result]
    BY <1>1, <1>3 DEF HandlerReturns, Agents
  <2> QED BY <1>1, <1>3, <2>1, <2>2 DEF Agents
<1> QED BY <1>2, <1>3

\* A charged job waits again or has failed, and nobody holds it.
LEMMA Charged ==
  ASSUME PolicyInv, NEW S \in SUBSET Versions, Queue!Charge(S)
  PROVE  /\ phase' \in [Versions -> {"absent", "waiting", "taken", "succeeded", "failed"}]
         /\ holder' \in [Versions -> {Worker1, NoHolder}]
         /\ spent' \in [Versions -> Nat] /\ said' = said
         /\ \A v \in S : phase'[v] \in {"waiting", "failed"} /\ holder'[v] = NoHolder
         /\ \A v \in Versions \ S : phase'[v] = phase[v] /\ holder'[v] = holder[v]
BY DEF PolicyInv, QueueOK, Queue!Charge, Queue!LastTry

\* The version the edge acknowledged is none that was not stored.
LEMMA AcknowledgedKnown ==
  ASSUME PolicyInv, agent.at = "write", agent.result = "succeeded"
  PROVE  /\ Acknowledged \in Versions /\ Acknowledged <= saves + 1
         /\ Acknowledged >= agent.read
BY SavesAssumption
   DEF PolicyInv, PolicyType, AgentOK, VersionsCounted, Acknowledged, Versions, Sent

LEMMA SaveReadsKeeps == ASSUME PolicyInv, NEW r \in PolicyRequests, SaveReads(r) PROVE PolicyInv'
<1> USE SavesAssumption DEF PolicyInv, SaveReads, Ask, NoClient
<1>1. PolicyType'
  BY DEF PolicyType, queueVars, historyVars
<1>2. VersionsCounted'
  BY DEF VersionsCounted, queueVars, historyVars, PolicyType, Row, Sent, Versions
<1>3. AgentOK'
  BY DEF AgentOK, queueVars, historyVars
<1>4. QueueOK'
  BY DEF QueueOK, queueVars, historyVars
<1>5. Ahead'
  BY DEF Ahead, queueVars, historyVars
<1>6. InHand'
  BY DEF InHand, StoredPolicy, queueVars, historyVars
<1>7. PolicyIsTrue'
  BY DEF PolicyIsTrue, ActiveIsEnforced, SettledIsTrue, SucceededIsEnforced, RefusalIsReported, queueVars, historyVars
<1> QED BY <1>1, <1>2, <1>3, <1>4, <1>5, <1>6, <1>7

LEMMA DistributeReadsKeeps == ASSUME PolicyInv, NEW r \in PolicyRequests, DistributeReads(r) PROVE PolicyInv'
<1> USE SavesAssumption DEF PolicyInv, DistributeReads, Ask, NoClient
<1>1. PolicyType'
  BY DEF PolicyType, queueVars, historyVars
<1>2. VersionsCounted'
  BY DEF VersionsCounted, queueVars, historyVars, PolicyType, Row, Sent, Versions
<1>3. AgentOK'
  BY DEF AgentOK, queueVars, historyVars
<1>4. QueueOK'
  BY DEF QueueOK, queueVars, historyVars
<1>5. Ahead'
  BY DEF Ahead, queueVars, historyVars, PolicyType, Row, Sent, Versions
<1>6. InHand'
  BY DEF InHand, StoredPolicy, queueVars, historyVars
<1>7. PolicyIsTrue'
  BY DEF PolicyIsTrue, ActiveIsEnforced, SettledIsTrue, SucceededIsEnforced, RefusalIsReported, queueVars, historyVars
<1> QED BY <1>1, <1>2, <1>3, <1>4, <1>5, <1>6, <1>7

LEMMA DistributeEnqueuesKeeps == ASSUME PolicyInv, NEW r \in PolicyRequests, DistributeEnqueues(r) PROVE PolicyInv'
<1> USE SavesAssumption DEF PolicyInv, DistributeEnqueues, Answer, NoClient, Queue!Submit
<1>1. PolicyType'
  BY DEF PolicyType, queueVars, historyVars
<1>2. VersionsCounted'
  BY DEF VersionsCounted, queueVars, historyVars
<1>3. AgentOK'
  BY DEF AgentOK, queueVars, historyVars
<1>4. QueueOK'
  BY ZenonT(60) DEF QueueOK, queueVars, historyVars, PolicyType, Row, Sent, Versions, AgentOK
<1>5. Ahead'
  BY DEF Ahead, queueVars, historyVars, PolicyType, Row, Sent, Versions
<1>6. InHand'
  BY DEF InHand, StoredPolicy, queueVars, historyVars
<1>7. PolicyIsTrue'
  <2>1. UNCHANGED <<policy, edge, agent, mixed, rewound, reported>>
    BY DEF historyVars
  <2>2. \A v \in Versions : phase'[v] = phase[v] \/ phase'[v] = "waiting"
    BY DEF queueVars, PolicyType
  <2>3. ActiveIsEnforced'
    BY <2>1 DEF PolicyIsTrue, ActiveIsEnforced
  <2> QED BY <2>1, <2>2, <2>3 DEF PolicyIsTrue, SettledIsTrue, SucceededIsEnforced, RefusalIsReported
<1> QED BY <1>1, <1>2, <1>3, <1>4, <1>5, <1>6, <1>7

LEMMA ClientDiesKeeps == ASSUME PolicyInv, NEW r \in PolicyRequests, ClientDies(r) PROVE PolicyInv'
<1> USE SavesAssumption DEF PolicyInv, ClientDies, Answer, NoClient
<1>1. PolicyType'
  BY DEF PolicyType, queueVars, historyVars
<1>2. VersionsCounted'
  BY DEF VersionsCounted, queueVars, historyVars
<1>3. AgentOK'
  BY DEF AgentOK, queueVars, historyVars
<1>4. QueueOK'
  BY DEF QueueOK, queueVars, historyVars
<1>5. Ahead'
  BY DEF Ahead, queueVars, historyVars
<1>6. InHand'
  BY DEF InHand, StoredPolicy, queueVars, historyVars
<1>7. PolicyIsTrue'
  BY DEF PolicyIsTrue, ActiveIsEnforced, SettledIsTrue, SucceededIsEnforced, RefusalIsReported, queueVars, historyVars
<1> QED BY <1>1, <1>2, <1>3, <1>4, <1>5, <1>6, <1>7

LEMMA TakesJobKeeps == ASSUME PolicyInv, NEW v \in Versions, TakesJob(v) PROVE PolicyInv'
<1> USE SavesAssumption DEF PolicyInv, TakesJob, AtRest, Queue!Take
<1>1. PolicyType'
  BY DEF PolicyType, queueVars, historyVars
<1>2. VersionsCounted'
  BY DEF VersionsCounted, queueVars, historyVars
<1>3. AgentOK'
  BY DEF AgentOK, queueVars, historyVars, PolicyType, Row, Sent, Versions
<1>4. QueueOK'
  BY DEF QueueOK, queueVars, historyVars
<1>5. Ahead'
  BY DEF Ahead, queueVars, historyVars
<1>6. InHand'
  BY DEF InHand, StoredPolicy, queueVars, historyVars
<1>7. PolicyIsTrue'
  BY DEF PolicyIsTrue, ActiveIsEnforced, SettledIsTrue, SucceededIsEnforced, RefusalIsReported, queueVars, historyVars, PolicyType, Row, Sent, Versions
<1> QED BY <1>1, <1>2, <1>3, <1>4, <1>5, <1>6, <1>7

LEMMA LoadsPolicyKeeps == ASSUME PolicyInv, LoadsPolicy PROVE PolicyInv'
<1> USE SavesAssumption DEF PolicyInv, LoadsPolicy
<1>1. PolicyType'
  BY DEF PolicyType, queueVars, historyVars, Row, Sent, Versions
<1>2. VersionsCounted'
  BY DEF VersionsCounted, queueVars, historyVars
<1>3. AgentOK'
  BY DEF AgentOK, queueVars, historyVars
<1>4. QueueOK'
  BY DEF QueueOK, queueVars, historyVars
<1>5. Ahead'
  BY DEF Ahead, queueVars, historyVars, PolicyType, Row, Sent, Versions, AgentOK, QueueOK
<1>6. InHand'
  BY DEF InHand, StoredPolicy, queueVars, historyVars
<1>7. PolicyIsTrue'
  BY DEF PolicyIsTrue, ActiveIsEnforced, SettledIsTrue, SucceededIsEnforced, RefusalIsReported, queueVars, historyVars
<1> QED BY <1>1, <1>2, <1>3, <1>4, <1>5, <1>6, <1>7

LEMMA EdgeAcceptsKeeps == ASSUME PolicyInv, EdgeAccepts PROVE PolicyInv'
<1> USE SavesAssumption DEF PolicyInv, EdgeAccepts, HandlerReturns, Queue!Report, Queue!Held
<1>1. PolicyType'
  BY DEF PolicyType, queueVars, historyVars
<1>2. VersionsCounted'
  BY DEF VersionsCounted, queueVars, historyVars
<1>3. AgentOK'
  BY DEF AgentOK, queueVars, historyVars
<1>4. QueueOK'
  BY DEF QueueOK, queueVars, historyVars, PolicyType, Row, Sent, Versions, AgentOK
<1>5. Ahead'
  BY SMTT(40) DEF Ahead, queueVars, historyVars, PolicyType, Row, Sent, Versions, AgentOK, QueueOK
<1>6. InHand'
  BY DEF InHand, StoredPolicy, queueVars, historyVars
<1>7. PolicyIsTrue'
  BY SMTT(40) DEF PolicyIsTrue, ActiveIsEnforced, SettledIsTrue, SucceededIsEnforced, RefusalIsReported, queueVars, historyVars, PolicyType, Row, Sent, Versions, AgentOK, QueueOK, InHand, StoredPolicy
<1> QED BY <1>1, <1>2, <1>3, <1>4, <1>5, <1>6, <1>7

LEMMA ApplierReadsKeeps == ASSUME PolicyInv, ApplierReads PROVE PolicyInv'
<1> USE SavesAssumption DEF PolicyInv, ApplierReads
<1>1. PolicyType'
  <2> DEFINE text == IF agent.result = "succeeded" THEN policy.text ELSE agent.text
  <2>1. /\ PolicyType /\ agent' = [agent EXCEPT !.at = "write", !.text = text]
        /\ UNCHANGED <<policy, saves, edge, client, queueVars, historyVars>>
    OBVIOUS
  <2>2. text \in 0 .. MaxSaves
    BY <2>1 DEF PolicyType, Row
  <2> HIDE DEF text
  <2>3. agent' \in [at : {"idle", "load", "send", "settle", "apply", "write"},
                    job : Versions \cup {0}, read : Versions \cup {0}, load : Sent,
                    text : 0 .. MaxSaves, result : {"none", "succeeded", "degraded", "failed"}]
    BY <2>1, <2>2 DEF PolicyType
  <2>4. PolicyType /\ UNCHANGED <<policy, saves, edge, client, phase, moved, mixed, rewound>>
    BY <2>1 DEF queueVars, historyVars
  <2> QED BY <2>3, <2>4 DEF PolicyType
<1>2. VersionsCounted'
  BY DEF VersionsCounted, queueVars, historyVars
<1>3. AgentOK'
  BY DEF AgentOK, queueVars, historyVars
<1>4. QueueOK'
  BY DEF QueueOK, queueVars, historyVars
<1>5. Ahead'
  BY DEF Ahead, queueVars, historyVars
<1>6. InHand'
  BY DEF InHand, StoredPolicy, queueVars, historyVars
<1>7. PolicyIsTrue'
  BY DEF PolicyIsTrue, ActiveIsEnforced, SettledIsTrue, SucceededIsEnforced, RefusalIsReported, queueVars, historyVars
<1> QED BY <1>1, <1>2, <1>3, <1>4, <1>5, <1>6, <1>7

LEMMA SaveWritesKeeps == ASSUME PolicyInv, NEW r \in PolicyRequests, SaveWrites(r) PROVE PolicyInv'
<1> USE SavesAssumption DEF PolicyInv, SaveWrites, Answer
<1> DEFINE kept == [version |-> client[r].version + 1, state |-> "draft", text |-> client[r].text]
<1>1. /\ policy' = kept /\ kept \in Row /\ kept.version \in Versions /\ kept.state = "draft"
      /\ kept.version <= saves + 1
      /\ rewound' \in BOOLEAN /\ (~ rewound' => ~ rewound /\ policy.version <= kept.version)
  <2>1. /\ client[r].version \in 1 .. saves /\ client[r].text \in 0 .. MaxSaves
        /\ saves \in 0 .. MaxSaves
    BY DEF VersionsCounted, PolicyType
  <2>2. kept \in Row /\ kept.version \in Versions /\ kept.state = "draft" /\ kept.version <= saves + 1
    BY <2>1 DEF Row, Versions
  <2> QED BY <2>2, StoreNotes
<1>2. client' = [client EXCEPT ![r] = NoClient] /\ NoClient \in PolicyClients /\ NoClient.at = "idle"
  BY RestsTyped DEF NoClient
<1> HIDE DEF kept
<1>3. PolicyType'
  <2>1. client' \in [PolicyRequests -> PolicyClients]
    BY <1>2, AgentTyped
  <2> QED BY <1>1, <2>1 DEF PolicyType, PolicyClients, queueVars
<1>4. VersionsCounted'
  BY <1>1, <1>2 DEF VersionsCounted, PolicyType
<1>5. AgentOK' /\ QueueOK'
  BY DEF AgentOK, QueueOK, queueVars
<1>6. Ahead'
  <2> SUFFICES ASSUME ~ rewound' PROVE Ahead'
    BY DEF Ahead
  <2>1. policy.version \in Versions /\ policy'.version \in Versions /\ policy.version <= policy'.version
    BY <1>1 DEF PolicyType
  <2>2. \A x \in Versions : x <= policy.version => x <= policy'.version
    BY <2>1 DEF Versions
  <2> QED BY <1>1, <1>2, <2>2 DEF Ahead, queueVars, PolicyType, VersionsCounted
<1>7. InHand' /\ PolicyIsTrue'
  BY <1>1 DEF InHand, PolicyIsTrue, ActiveIsEnforced, SettledIsTrue, SucceededIsEnforced,
              RefusalIsReported, Ahead, QueueOK, queueVars
<1> QED BY <1>3, <1>4, <1>5, <1>6, <1>7

LEMMA AnswerLostKeeps == ASSUME PolicyInv, AnswerLost PROVE PolicyInv'
<1> USE SavesAssumption DEF PolicyInv, AnswerLost, queueVars, historyVars
<1>1. /\ agent' \in Agents /\ agent'.at = "settle" /\ agent'.job = agent.job
      /\ agent'.result = "failed" /\ agent'.read = 0 /\ agent'.load.version = 0
  BY Returned
<1>2. /\ agent.load \in Sent /\ edge \in Sent /\ edge' = agent.load
      /\ edge.version <= edge'.version
  BY DEF PolicyType, Sent
<1>3. PolicyType'
  BY <1>1, <1>2 DEF PolicyType, Agents
<1>4. VersionsCounted' /\ AgentOK'
  BY <1>1 DEF VersionsCounted, AgentOK, PolicyType
<1>5. QueueOK'
  BY <1>1 DEF QueueOK
<1>6. Ahead'
  BY <1>1, <1>2 DEF Ahead, QueueOK, Sent, Versions
<1>7. InHand'
  BY <1>1 DEF InHand
<1>8. PolicyIsTrue'
  <2>1. ActiveIsEnforced'
    BY <1>2 DEF PolicyIsTrue, ActiveIsEnforced, InHand, StoredPolicy
  <2> QED BY <1>1, <2>1, <1>6, <1>5
          DEF PolicyIsTrue, SettledIsTrue, SucceededIsEnforced, RefusalIsReported, Ahead, QueueOK
<1> QED BY <1>3, <1>4, <1>5, <1>6, <1>7, <1>8

LEMMA EdgeRefusesKeeps == ASSUME PolicyInv, EdgeRefuses PROVE PolicyInv'
<1> USE SavesAssumption DEF PolicyInv, EdgeRefuses, queueVars, historyVars
<1>1. /\ agent' \in Agents /\ agent'.at = "settle" /\ agent'.job = agent.job
      /\ agent'.result \in {"failed", "degraded"} /\ agent'.read = 0 /\ agent'.load.version = 0
  BY Returned
<1>2. PolicyType'
  BY <1>1 DEF PolicyType, Agents
<1>3. VersionsCounted' /\ AgentOK'
  BY <1>1 DEF VersionsCounted, AgentOK, PolicyType
<1>4. QueueOK'
  BY <1>1 DEF QueueOK
<1>5. Ahead' /\ InHand'
  BY <1>1 DEF Ahead, InHand
<1>6. PolicyIsTrue'
  BY <1>1 DEF PolicyIsTrue, ActiveIsEnforced, SettledIsTrue, SucceededIsEnforced, RefusalIsReported
<1> QED BY <1>2, <1>3, <1>4, <1>5, <1>6

LEMMA SettlesKeeps == ASSUME PolicyInv, Settles PROVE PolicyInv'
<1> USE SavesAssumption DEF PolicyInv, Settles, historyVars
<1> DEFINE j == agent.job
<1>1. /\ agent \in Agents /\ agent' = [agent EXCEPT !.at = "apply"] /\ j \in Versions
      /\ agent.result \in {"succeeded", "degraded", "failed"} /\ phase[j] = "taken"
  BY AgentTyped DEF Agents, AgentOK, QueueOK
\* The job ends as the handler said, or is charged; nobody holds it, and no other moves.
<1>2. /\ phase' \in [Versions -> {"absent", "waiting", "taken", "succeeded", "failed"}]
      /\ holder' \in [Versions -> {Worker1, NoHolder}]
      /\ spent' \in [Versions -> Nat] /\ said' = said
      /\ phase'[j] \in {"succeeded", "failed", "waiting"} /\ holder'[j] = NoHolder
      /\ (phase'[j] = "succeeded") = (agent.result = "succeeded")
      /\ phase'[j] = "succeeded" => j \in said
      /\ \A v \in Versions \ {j} : phase'[v] = phase[v] /\ holder'[v] = holder[v]
  <2>1. CASE agent.result = "succeeded"
    BY <1>1, <2>1 DEF Queue!End, QueueOK
  <2>2. CASE agent.result = "degraded"
    BY <1>1, <2>2 DEF Queue!End, QueueOK
  <2>3. CASE agent.result = "failed"
    BY <1>1, <2>3, Charged DEF Queue!Retry
  <2> QED BY <1>1, <2>1, <2>2, <2>3
<1>3. PolicyType'
  BY <1>1, <1>2 DEF PolicyType, Agents
<1>4. VersionsCounted' /\ AgentOK'
  BY <1>1 DEF VersionsCounted, AgentOK, Agents
<1>5. QueueOK'
  BY <1>1, <1>2 DEF QueueOK, Agents
<1>6. Ahead' /\ InHand'
  BY <1>1, <1>2 DEF Ahead, InHand, StoredPolicy, Agents
<1>7. PolicyIsTrue'
  BY <1>1, <1>2 DEF PolicyIsTrue, ActiveIsEnforced, SettledIsTrue, SucceededIsEnforced,
                    RefusalIsReported, Ahead, Agents, PolicyType, Sent, Versions
<1> QED BY <1>3, <1>4, <1>5, <1>6, <1>7

LEMMA ApplierActivatesKeeps == ASSUME PolicyInv, ApplierActivates PROVE PolicyInv'
<1> USE SavesAssumption DEF PolicyInv, ApplierActivates, WorkerRests
<1> DEFINE kept == [version |-> Acknowledged, state |-> "active", text |-> agent.text]
<1>1. /\ policy' = kept /\ kept \in Row /\ kept.version = Acknowledged
      /\ kept.version \in Versions /\ kept.version <= saves + 1
      /\ rewound' \in BOOLEAN /\ (~ rewound' => ~ rewound /\ policy.version <= kept.version)
  <2>1. kept \in Row /\ kept.version = Acknowledged /\ kept.version \in Versions /\ kept.version <= saves + 1
    BY AcknowledgedKnown DEF Row, PolicyType
  <2> QED BY <2>1, StoreNotes
<1>2. /\ agent' \in Agents /\ agent'.at = "idle" /\ agent'.result = "none"
      /\ agent'.read = 0 /\ agent'.load.version = 0 /\ agent' = AtRest
  BY RestsTyped DEF AtRest
<1>3. PolicyType'
  BY <1>1, <1>2 DEF PolicyType, Agents, queueVars
<1>4. VersionsCounted' /\ AgentOK'
  BY <1>1, <1>2 DEF VersionsCounted, AgentOK, PolicyType
<1>5. QueueOK'
  BY <1>2 DEF QueueOK, queueVars
<1>6. Ahead'
  <2> SUFFICES ASSUME ~ rewound' PROVE Ahead'
    BY DEF Ahead
  <2>1. \A x \in Versions : x <= policy.version => x <= policy'.version
    BY <1>1 DEF Versions, PolicyType
  <2> QED BY <1>1, <1>2, <2>1 DEF Ahead, VersionsCounted, queueVars
<1>7. InHand'
  BY <1>2 DEF InHand
<1>8. PolicyIsTrue'
  <2>1. ActiveIsEnforced'
    <3> SUFFICES ASSUME ~ moved PROVE edge = [version |-> Acknowledged, text |-> agent.text]
      BY <1>1 DEF ActiveIsEnforced
    <3> QED BY DEF InHand, StoredPolicy, Acknowledged, PolicyType
  <2>2. phase[agent.job] = "succeeded" /\ queueVars' = queueVars
    BY DEF QueueOK
  <2>3. SettledIsTrue'
    BY <1>1, <2>2 DEF PolicyIsTrue, SettledIsTrue, SucceededIsEnforced, RefusalIsReported, queueVars
  <2> QED BY <2>1, <2>3 DEF PolicyIsTrue
<1> QED BY <1>3, <1>4, <1>5, <1>6, <1>7, <1>8

LEMMA ApplierReportsKeeps == ASSUME PolicyInv, ApplierReports PROVE PolicyInv'
<1> USE SavesAssumption DEF PolicyInv, ApplierReports, WorkerRests, queueVars
<1>1. /\ agent' \in Agents /\ agent'.at = "idle" /\ agent'.result = "none"
      /\ agent'.read = 0 /\ agent'.load.version = 0 /\ agent' = AtRest
  BY RestsTyped DEF AtRest
<1>2. PolicyType'
  BY <1>1 DEF PolicyType, Agents
<1>3. VersionsCounted' /\ AgentOK' /\ QueueOK'
  BY <1>1 DEF VersionsCounted, AgentOK, QueueOK, PolicyType
<1>4. Ahead' /\ InHand'
  BY <1>1 DEF Ahead, InHand
<1>5. PolicyIsTrue'
  BY DEF PolicyIsTrue, ActiveIsEnforced, SettledIsTrue, SucceededIsEnforced, RefusalIsReported
<1> QED BY <1>2, <1>3, <1>4, <1>5

LEMMA WorkerDiesKeeps == ASSUME PolicyInv, WorkerDies PROVE PolicyInv'
<1> USE SavesAssumption DEF PolicyInv, WorkerDies, WorkerRests
<1>1. /\ agent' \in Agents /\ agent'.at = "idle" /\ agent'.result = "none"
      /\ agent'.read = 0 /\ agent'.load.version = 0 /\ agent' = AtRest
  BY RestsTyped DEF AtRest
<1>2. /\ agent.job \in Versions
      /\ holder' \in [Versions -> {Worker1, NoHolder}] /\ holder'[agent.job] = NoHolder
      /\ \A v \in Versions : holder'[v] = holder[v] \/ v = agent.job
      /\ phase' = phase /\ spent' = spent /\ said' = said
  BY DEF AgentOK, QueueOK, Queue!Die, queueVars
<1>3. PolicyType'
  BY <1>1, <1>2 DEF PolicyType, Agents
<1>4. VersionsCounted' /\ AgentOK'
  BY <1>1 DEF VersionsCounted, AgentOK, PolicyType
<1>5. QueueOK'
  BY <1>1, <1>2 DEF QueueOK
<1>6. Ahead' /\ InHand'
  BY <1>1, <1>2 DEF Ahead, InHand
<1>7. PolicyIsTrue'
  BY <1>2 DEF PolicyIsTrue, ActiveIsEnforced, SettledIsTrue, SucceededIsEnforced, RefusalIsReported
<1> QED BY <1>3, <1>4, <1>5, <1>6, <1>7

LEMMA TakenBackKeeps == ASSUME PolicyInv, TakenBack PROVE PolicyInv'
<1> USE SavesAssumption DEF PolicyInv, TakenBack, historyVars
<1>1. PICK S \in SUBSET Versions : S \subseteq Queue!Orphans /\ Queue!Charge(S)
  BY DEF Queue!TakeBack, Queue!Orphans
<1>2. \A v \in S : phase[v] = "taken" /\ holder[v] = NoHolder /\ v \in reported
  BY <1>1 DEF Queue!Orphans, QueueOK
<1>3. /\ phase' \in [Versions -> {"absent", "waiting", "taken", "succeeded", "failed"}]
      /\ holder' \in [Versions -> {Worker1, NoHolder}]
      /\ spent' \in [Versions -> Nat] /\ said' = said
      /\ \A v \in S : phase'[v] \in {"waiting", "failed"} /\ holder'[v] = NoHolder
      /\ \A v \in Versions \ S : phase'[v] = phase[v] /\ holder'[v] = holder[v]
  BY <1>1, Charged
\* The worker's own job is not among them.
<1>4. agent.at # "idle" /\ phase[agent.job] # "taken" => agent.job \notin S
  BY <1>2
<1>5. agent.at \in {"load", "send", "settle"} => agent.job \notin S
  BY <1>2 DEF QueueOK
<1>6. PolicyType' /\ VersionsCounted' /\ AgentOK'
  BY <1>3 DEF PolicyType, VersionsCounted, AgentOK
<1>7. QueueOK'
  BY <1>2, <1>3, <1>4, <1>5 DEF QueueOK, AgentOK
<1>8. Ahead' /\ InHand'
  BY <1>2, <1>3 DEF Ahead, InHand, StoredPolicy
<1>9. PolicyIsTrue'
  BY <1>2, <1>3 DEF PolicyIsTrue, ActiveIsEnforced, SettledIsTrue, SucceededIsEnforced,
                    RefusalIsReported
<1> QED BY <1>6, <1>7, <1>8, <1>9

LEMMA PolicyBegins == PolicyInit => PolicyInv
<1> SUFFICES ASSUME PolicyInit PROVE PolicyInv
  OBVIOUS
<1> USE SavesAssumption DEF PolicyInit, Queue!ContractInit
<1>1. PolicyType /\ agent.at = "idle"
  <2>1. agent \in Agents /\ client \in [PolicyRequests -> PolicyClients]
    BY RestsTyped
  <2>2. policy \in Row /\ policy.version \in Versions /\ edge \in Sent /\ 1 \in Versions
    BY DEF Row, Sent, Versions
  <2> QED BY <2>1, <2>2 DEF PolicyType, Agents, PolicyClients, AtRest
<1>2. VersionsCounted
  BY DEF VersionsCounted, AtRest, NoClient
<1>3. AgentOK /\ QueueOK
  BY <1>1 DEF AgentOK, QueueOK, AtRest
<1>4. Ahead /\ InHand
  BY <1>1 DEF Ahead, InHand, NoClient, AtRest
<1>5. PolicyIsTrue
  BY DEF PolicyIsTrue, ActiveIsEnforced, SettledIsTrue, SucceededIsEnforced, RefusalIsReported
<1> QED BY <1>1, <1>2, <1>3, <1>4, <1>5 DEF PolicyInv

\* One step at a time: whatever the API, the worker, the edge or the queue does next.
LEMMA PolicyGoesOn == PolicyInv /\ [PolicyNext]_policyVars => PolicyInv'
<1> SUFFICES ASSUME PolicyInv, [PolicyNext]_policyVars PROVE PolicyInv'
  OBVIOUS
<1>1. CASE \E r \in PolicyRequests :
             SaveReads(r) \/ SaveWrites(r) \/ DistributeReads(r) \/ DistributeEnqueues(r) \/ ClientDies(r)
  BY <1>1, SaveReadsKeeps, SaveWritesKeeps, DistributeReadsKeeps, DistributeEnqueuesKeeps, ClientDiesKeeps
<1>2. CASE \E v \in Versions : TakesJob(v)
  BY <1>2, TakesJobKeeps
<1>3. CASE LoadsPolicy \/ EdgeAccepts \/ AnswerLost \/ EdgeRefuses \/ Settles
  BY <1>3, LoadsPolicyKeeps, EdgeAcceptsKeeps, AnswerLostKeeps, EdgeRefusesKeeps, SettlesKeeps
<1>4. CASE ApplierReads \/ ApplierActivates \/ ApplierReports
  BY <1>4, ApplierReadsKeeps, ApplierActivatesKeeps, ApplierReportsKeeps
<1>5. CASE WorkerDies \/ TakenBack
  BY <1>5, WorkerDiesKeeps, TakenBackKeeps
<1>6. CASE UNCHANGED policyVars
  BY <1>6 DEF policyVars, queueVars, historyVars, PolicyInv, PolicyType, VersionsCounted, AgentOK, QueueOK, Ahead,
       InHand, StoredPolicy, PolicyIsTrue, ActiveIsEnforced, SettledIsTrue, SucceededIsEnforced, RefusalIsReported
<1> QED BY <1>1, <1>2, <1>3, <1>4, <1>5, <1>6 DEF PolicyNext

LEMMA PolicyAlways == PolicySpec => []PolicyInv
BY PolicyBegins, PolicyGoesOn, PTL DEF PolicySpec

\* The row, the edge, the requests and the worker's notes always are of their types.
THEOREM PolicyTypeAlways == PolicySpec => []PolicyType
<1>1. PolicyInv => PolicyType
  BY DEF PolicyInv
<1> QED BY <1>1, PolicyAlways, PTL

\* What the policy row and its jobs say is what the edge does: an active policy
\* is the one enforced unless it was saved while it was distributed, a
\* distribution that succeeded is in force, one that failed is on record
\* (policy-job.ts:101, 157, 198).
THEOREM PolicyIsTrueAlways == PolicySpec => []PolicyIsTrue
<1>1. PolicyInv => PolicyIsTrue
  BY DEF PolicyInv
<1> QED BY <1>1, PolicyAlways, PTL
=============================================================================
