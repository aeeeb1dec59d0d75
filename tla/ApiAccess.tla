------------------------------- MODULE ApiAccess -------------------------------
(***************************************************************************)
(* Who may do what: the dispatch of a request by the API, with a session   *)
(* or an API key (router.ts, context.ts, guard.ts), the roles and what     *)
(* they grant (packages/authorization), and the issue and revocation of    *)
(* keys.  A request reads the key and the memberships once, one after the  *)
(* other, and is judged by what it read; memberships and keys change       *)
(* meanwhile.                                                              *)
(* The identity provider is external: it names a user, or refuses.         *)
(* Bounds: RolesGiven, ScopesTried and ProceduresCalled are the roles      *)
(* memberships change to, the scopes keys are asked for and the procedures *)
(* that are called; MaxRoleChanges bounds how often memberships change.    *)
(***************************************************************************)
EXTENDS Naturals, TLC

CONSTANTS Persons, Organizations, AccessRequests, Keys,
          RolesGiven, ScopesTried, ProceduresCalled, MaxRoleChanges, NoKey, Nowhere

ASSUME AccessAssumption ==
  /\ NoKey \notin Keys /\ Nowhere \notin Organizations /\ MaxRoleChanges \in Nat
  /\ RolesGiven \subseteq {"owner", "admin", "member", "viewer", "none"}

-----------------------------------------------------------------------------
(* Roles and capabilities. *)

Capabilities ==
  {"org:read", "org:update", "org:delete", "member:read", "member:invite", "member:remove",
   "project:read", "project:create", "project:update", "project:delete",
   "deployment:read", "deployment:create", "deployment:cancel", "deployment:rollback",
   "data:read", "data:create", "data:backup", "data:restore", "data:rotate", "data:destroy",
   "domain:read", "domain:create", "domain:verify", "domain:delete",
   "security:read", "security:update", "security:quarantine",
   "apikey:read", "apikey:create", "apikey:revoke",
   "billing:read", "billing:manage", "audit:read"}

ViewerCapabilities ==
  {"org:read", "member:read", "project:read", "deployment:read", "data:read", "domain:read",
   "security:read", "billing:read", "audit:read"}

RoleCapabilities ==
  [role \in {"owner", "admin", "member", "viewer", "none"} |->
    CASE role = "owner"  -> Capabilities
      [] role = "admin"  -> Capabilities \ {"org:delete", "billing:manage"}
      [] role = "member" -> ViewerCapabilities \cup
           {"project:create", "project:update", "deployment:create", "deployment:cancel",
            "apikey:read"}
      [] role = "viewer" -> ViewerCapabilities
      [] role = "none"   -> {}]

-----------------------------------------------------------------------------
(* The procedure table: what each one asks the guard for. *)

OrganizationProcedures ==
  "organizations.get" :> "org:read" @@
  "organizations.members.list" :> "member:read" @@
  "organizations.members.updateRole" :> "member:invite" @@
  "organizations.members.remove" :> "member:remove" @@
  "projects.list" :> "project:read" @@
  "projects.get" :> "project:read" @@
  "projects.create" :> "project:create" @@
  "projects.update" :> "project:update"

DeploymentProcedures ==
  "deployments.list" :> "deployment:read" @@
  "deployments.listOrganization" :> "deployment:read" @@
  "deployments.create" :> "deployment:create" @@
  "deployments.rollback" :> "deployment:rollback" @@
  "deployments.redeploy" :> "deployment:create" @@
  "deployments.promote" :> "deployment:rollback" @@
  "deployments.logs" :> "deployment:read" @@
  "deployments.cancel" :> "deployment:cancel" @@
  "audit.list" :> "audit:read" @@
  "git.links.list" :> "project:read" @@
  "git.connect" :> "project:update" @@
  "git.disconnect" :> "project:update" @@
  "git.deployNow" :> "deployment:create" @@
  "env.list" :> "project:read" @@
  "environments.list" :> "project:read" @@
  "env.set" :> "project:update" @@
  "env.remove" :> "project:update"

DataProcedures ==
  "domains.list" :> "domain:read" @@
  "domains.create" :> "domain:create" @@
  "domains.verify" :> "domain:verify" @@
  "domains.remove" :> "domain:delete" @@
  "data.list" :> "data:read" @@
  "data.provision" :> "data:create" @@
  "data.backup" :> "data:backup" @@
  "data.backups.list" :> "data:read" @@
  "data.restore" :> "data:restore" @@
  "data.restores.list" :> "data:read" @@
  "data.rotateCredentials" :> "data:rotate" @@
  "data.logs" :> "data:read"

SecurityReads ==
  {"security.policy.get", "security.rules.list", "security.trustedSources.list",
   "security.rateLimits.list", "security.bots.list", "security.protection.get",
   "security.events.list", "security.incidents.list"}

SecurityUpdates ==
  {"security.policy.save", "security.policy.distribute", "security.rules.add",
   "security.rules.remove", "security.trustedSources.add", "security.trustedSources.remove",
   "security.rateLimits.add", "security.rateLimits.remove", "security.protection.save",
   "security.incidents.transition"}

SecurityProcedures ==
  [p \in SecurityReads |-> "security:read"] @@ [p \in SecurityUpdates |-> "security:update"]

OtherProcedures ==
  "apiKeys.list" :> "apikey:read" @@
  "apiKeys.create" :> "apikey:create" @@
  "apiKeys.revoke" :> "apikey:revoke" @@
  "providers.health" :> "org:read" @@
  "billing.usage" :> "billing:read" @@
  "billing.budgets.list" :> "billing:read" @@
  "billing.budgets.save" :> "billing:manage" @@
  "billing.budgets.remove" :> "billing:manage" @@
  "observability.jobs" :> "deployment:read"

\* Listing and creating organizations ask for nothing but a principal; a member
\* removes itself with org:read.
Procedures ==
  OrganizationProcedures @@ DeploymentProcedures @@ DataProcedures @@ SecurityProcedures @@
  OtherProcedures

Needs(p, itself) ==
  IF p = "organizations.members.remove" /\ itself THEN "org:read" ELSE Procedures[p]

-----------------------------------------------------------------------------
VARIABLES
  changed,   \* how often memberships have changed
  roleIn,    \* organization -> person -> the role of the membership, or none
  apiKeys,   \* key -> the stored row
  asking,    \* request -> its place and what it read
  during,    \* history: request -> the memberships its principal had from its
             \* beginning until they were read
  outdated   \* history: requests that began after their key had been revoked

accessVars == <<changed, roleIn, apiKeys, asking, during, outdated>>

Absent == [state |-> "absent", org |-> Nowhere, scopes |-> {}]

\* A request has what it learnt so far: the key it presented, if any, and its
\* principal; then the memberships and the scopes; then what it may do.
NoAsking == [at |-> "idle"]
NotAsking(r) == asking[r].at = "idle"

AccessInit ==
  /\ changed = 0
  /\ roleIn \in [Organizations -> [Persons -> {"owner", "none"}]]
  /\ apiKeys = [k \in Keys |-> Absent]
  /\ asking = [r \in AccessRequests |-> NoAsking]
  /\ during = [r \in AccessRequests |-> {}]
  /\ outdated = {}

RolesOf(person) == {<<o, roleIn[o][person]>> : o \in Organizations}

Moves(r, new) == asking' = [asking EXCEPT ![r] = new]
Ends(r) == /\ Moves(r, NoAsking)
           /\ during' = [during EXCEPT ![r] = {}]
           /\ outdated' = outdated \ {r}

\* A request reaches the router with a bearer token.
Begins(r, new) ==
  /\ NotAsking(r)
  /\ Moves(r, new)
  /\ during' = [during EXCEPT ![r] = RolesOf(new.person)]

\* Memberships change by other requests (Members), while these are served.
MembershipChanges(o, person, role) ==
  /\ roleIn[o][person] # role /\ changed < MaxRoleChanges
  /\ changed' = changed + 1
  /\ roleIn' = [roleIn EXCEPT ![o][person] = role]
  /\ during' = [r \in AccessRequests |->
       IF asking[r].at \in {"lookup", "members"} /\ asking[r].person = person
       THEN during[r] \cup {<<o, role>>} ELSE during[r]]
  /\ UNCHANGED <<apiKeys, asking, outdated>>

-----------------------------------------------------------------------------
(* Authentication. *)

SessionVerified(r, person) ==
  /\ Begins(r, [at |-> "members", key |-> NoKey, person |-> person])
  /\ UNCHANGED <<changed, roleIn, apiKeys, outdated>>

KeyPresented(r, k) ==
  /\ apiKeys[k].state # "absent"
  /\ Begins(r, [at |-> "lookup", key |-> k, person |-> apiKeys[k].owner])
  /\ outdated' = IF apiKeys[k].state = "revoked" THEN outdated \cup {r} ELSE outdated
  /\ UNCHANGED <<changed, roleIn, apiKeys>>

\* Faulty: a revoked key is found as well.
KnownKey(k) == TRUE

ActiveKey(k) == apiKeys[k].state = "active"

KeyFound(r) ==
  /\ asking[r].at = "lookup" /\ ActiveKey(asking[r].key)
  /\ Moves(r, [asking[r] EXCEPT !.at = "members"])
  /\ UNCHANGED <<changed, roleIn, apiKeys, during, outdated>>

RoleForKey(k, seen) == seen[apiKeys[k].org]

\* What the key was issued with, as far as its owner may still do it.
EffectiveScopes(k, seen) == apiKeys[k].scopes \cap RoleCapabilities[RoleForKey(k, seen)]

\* A key whose owner has left its organization is refused; the owner's address and
\* the stamp on the key change nothing here.
MembershipsRead(r) ==
  LET a == asking[r]
      seen == [o \in Organizations |-> roleIn[o][a.person]]
  IN /\ a.at = "members"
     /\ a.key # NoKey => RoleForKey(a.key, seen) # "none"
     /\ Moves(r, [at |-> "called", key |-> a.key, person |-> a.person, seen |-> seen,
                  scopes |-> IF a.key = NoKey THEN {} ELSE EffectiveScopes(a.key, seen)])
     /\ UNCHANGED <<changed, roleIn, apiKeys, during, outdated>>

\* Refused for any reason, failed, or the process stopped.
Rejected(r) ==
  /\ ~ NotAsking(r)
  /\ Ends(r)
  /\ UNCHANGED <<changed, roleIn, apiKeys>>

-----------------------------------------------------------------------------
(* The guard. *)

\* Faulty: a key opens every organization its owner belongs to.
OwnersOrg(a, o) == TRUE

KeysOrg(a, o) == a.key # NoKey => apiKeys[a.key].org = o

Allowed(a, o, capability) ==
  /\ capability \in RoleCapabilities[a.seen[o]]
  /\ KeysOrg(a, o)
  /\ a.key # NoKey => capability \in a.scopes

\* Faulty: the scopes asked for are stored as they are.
AskedScopes(a, o, scopes) == scopes

\* issueApiKey narrows to the role of the principal in the memberships it read.
BoundedScopes(a, o, scopes) == scopes \cap RoleCapabilities[a.seen[o]]

\* The handler of procedure p, up to its first write.
Handled(r, p, o) ==
  LET a == asking[r] IN
  /\ a.at = "called"
  /\ \E itself \in IF p = "organizations.members.remove" THEN BOOLEAN ELSE {FALSE} :
       LET needs == Needs(p, itself) IN
       /\ Allowed(a, o, needs)
       /\ \E scopes \in IF p = "apiKeys.create" THEN ScopesTried ELSE {{}},
             k \in IF p \in {"apiKeys.create", "apiKeys.revoke"} THEN Keys ELSE {NoKey} :
            Moves(r, [at |-> "writing", key |-> a.key, person |-> a.person,
                      procedure |-> p, org |-> o, needs |-> needs,
                      issues |-> BoundedScopes(a, o, scopes), target |-> k])
       /\ during' = [during EXCEPT ![r] = {}]
  /\ UNCHANGED <<changed, roleIn, apiKeys, outdated>>

\* createApiKey: an id is drawn once; the row is written by the service role.
CreateApiKey(r) ==
  LET a == asking[r] IN
  /\ a.at = "writing" /\ a.procedure = "apiKeys.create" /\ apiKeys[a.target].state = "absent"
  /\ apiKeys' = [apiKeys EXCEPT ![a.target] =
       [state |-> "active", owner |-> a.person, org |-> a.org, scopes |-> a.issues]]
  /\ Ends(r)
  /\ UNCHANGED <<changed, roleIn>>

\* revokeApiKey: of a key of the organization, by a caller who is a member still.
RevokeApiKey(r) ==
  LET a == asking[r] IN
  /\ a.at = "writing" /\ a.procedure = "apiKeys.revoke"
  /\ apiKeys' = IF apiKeys[a.target].org = a.org /\ roleIn[a.org][a.person] # "none"
                THEN [apiKeys EXCEPT ![a.target].state = "revoked"] ELSE apiKeys
  /\ Ends(r)
  /\ UNCHANGED <<changed, roleIn>>

\* Any other procedure: what it does is another module's.
Completed(r) ==
  /\ asking[r].at = "writing"
  /\ asking[r].procedure \notin {"apiKeys.create", "apiKeys.revoke"}
  /\ Ends(r)
  /\ UNCHANGED <<changed, roleIn, apiKeys>>

AccessNext ==
  \/ \E o \in Organizations, person \in Persons, role \in RolesGiven :
       MembershipChanges(o, person, role)
  \/ \E r \in AccessRequests :
       \/ \E person \in Persons : SessionVerified(r, person)
       \/ \E k \in Keys : KeyPresented(r, k)
       \/ KeyFound(r) \/ MembershipsRead(r) \/ Rejected(r)
       \/ \E p \in ProceduresCalled, o \in Organizations : Handled(r, p, o)
       \/ CreateApiKey(r) \/ RevokeApiKey(r) \/ Completed(r)

AccessSpec == AccessInit /\ [][AccessNext]_accessVars

-----------------------------------------------------------------------------
AccessType ==
  /\ \A o \in Organizations, person \in Persons : roleIn[o][person] \in DOMAIN RoleCapabilities
  /\ \A k \in Keys : /\ apiKeys[k].state \in {"absent", "active", "revoked"}
                     /\ apiKeys[k].scopes \subseteq Capabilities
  /\ \A r \in AccessRequests :
       /\ asking[r].at \in {"idle", "lookup", "members", "called", "writing"}
       /\ asking[r].at = "called" => asking[r].scopes \subseteq Capabilities
       /\ asking[r].at = "writing" => asking[r].issues \subseteq Capabilities
  /\ outdated \subseteq AccessRequests

\* What a request does was granted to its principal in that organization at some
\* moment between its beginning and its reading the memberships, so a demotion or
\* a removal before it began is final (context.ts:14-17); so were the scopes of a
\* key it issues.
Granted(r) ==
  \E role \in DOMAIN RoleCapabilities :
    /\ <<asking'[r].org, role>> \in during[r]
    /\ asking'[r].needs \in RoleCapabilities[role]
    /\ asking'[r].issues \subseteq RoleCapabilities[role]

\* With a key it is besides within what the key was issued with, in its own
\* organization, and the key had not been revoked when the request began.
WithinKey(r) ==
  LET k == asking'[r].key IN
  k # NoKey =>
    /\ asking'[r].needs \in apiKeys[k].scopes
    /\ asking'[r].org = apiKeys[k].org
    /\ r \notin outdated

ActsAsGranted ==
  [][\A r \in AccessRequests :
       asking'[r].at = "writing" /\ asking[r].at # "writing" => Granted(r) /\ WithinKey(r)]_accessVars
=============================================================================
