---------------------------- MODULE MCControlPlane ----------------------------
(***************************************************************************)
(* The parts of the control plane beside deployments, the database engine, *)
(* and the dashboard's deployments page and dialogs, on small instances.   *)
(* They share no state that another one writes, so every behaviour of all  *)
(* of them is an interleaving of behaviours of each: a run chooses one     *)
(* part and explores it, with the others at rest.                          *)
(***************************************************************************)
EXTENDS HostedDomains, EdgePolicy, SecurityIncidents, Members, DataJobs, EnvVars,
        GitDeliveries, DatabaseHost, ApiAccess, Projects, DeploymentsPage, Dialogs, TLC

CONSTANTS q1, q2,       \* requests, of whichever part
          x1, x2, x3,   \* rows, users or variables, of whichever part
          g1, g2,       \* hostnames
          r1, p1, p2, p3

VARIABLE part

tableVars == <<domainVars, policyVars, incidentVars, memberVars, dataVars, envVars,
               deliveryVars>>
apiVars == <<databaseVars, accessVars, projectVars>>
controlVars == <<part, tableVars, apiVars, pageVars, dialogsVars>>

\* Two rows for one hostname, to be added again after a removal.
HostnamesOfRows == x1 :> g1 @@ x2 :> g1 @@ x3 :> g2

\* Scopes an owner may grant and an administrator in part; procedures the key that
\* holds them may call and may not.
ScopesAsked == {{"apikey:create", "apikey:revoke", "billing:manage"}}
ProceduresTried == {"apiKeys.create", "apiKeys.revoke", "organizations.members.remove"}

\* A project renamed and moved to another directory, or switched.
ProjectChanges ==
  {[slug |-> 2, root |-> 1, model |-> Same],
   [slug |-> Same, root |-> Same, model |-> "serverless"]}
DirectoriesGiven == {Same, 1}

Tables == {"domains", "policy", "incidents", "members", "data", "env", "git"}
Parts == Tables \cup {"database", "access", "project", "list", "drawer", "dialogs"}

\* A page at rest is an empty one, and nobody is a member.  The routes differ in
\* nothing, so the dialogs start on the first.
OthersRest ==
  /\ part # "access" => roleIn = [o \in Organizations |-> [y \in Persons |-> "none"]]
  /\ part # "project" => project.root = 0
  /\ part # "list" => made = 0
  /\ part # "drawer" => lines = [log \in Logs |-> 0] /\ ~ handled /\ ~ numbered
  /\ part # "dialogs" => wired = Kept(Plain)
  /\ route = p1

ControlPlaneInit ==
  /\ part \in Parts
  /\ DomainInit /\ PolicyInit /\ IncidentInit /\ MemberInit /\ DataInit /\ EnvInit
  /\ DeliveryInit /\ DatabaseInit /\ AccessInit /\ ProjectInit /\ PageInit /\ DialogsInit /\ OthersRest

Steps(p, next) == part = p /\ next /\ UNCHANGED part

TablesNext ==
  \/ Steps("domains", DomainNext)
     /\ UNCHANGED <<policyVars, incidentVars, memberVars, dataVars, envVars, deliveryVars>>
  \/ Steps("policy", PolicyNext)
     /\ UNCHANGED <<domainVars, incidentVars, memberVars, dataVars, envVars, deliveryVars>>
  \/ Steps("incidents", IncidentNext)
     /\ UNCHANGED <<domainVars, policyVars, memberVars, dataVars, envVars, deliveryVars>>
  \/ Steps("members", MemberNext)
     /\ UNCHANGED <<domainVars, policyVars, incidentVars, dataVars, envVars, deliveryVars>>
  \/ Steps("data", DataNext)
     /\ UNCHANGED <<domainVars, policyVars, incidentVars, memberVars, envVars, deliveryVars>>
  \/ Steps("env", EnvNext)
     /\ UNCHANGED <<domainVars, policyVars, incidentVars, memberVars, dataVars, deliveryVars>>
  \/ Steps("git", DeliveryNext)
     /\ UNCHANGED <<domainVars, policyVars, incidentVars, memberVars, dataVars, envVars>>

ControlPlaneNext ==
  \/ TablesNext /\ UNCHANGED <<apiVars, pageVars, dialogsVars>>
  \/ Steps("database", DatabaseNext) /\ UNCHANGED <<tableVars, accessVars, projectVars, pageVars, dialogsVars>>
  \/ Steps("access", AccessNext) /\ UNCHANGED <<tableVars, databaseVars, projectVars, pageVars, dialogsVars>>
  \/ Steps("project", ProjectNext) /\ UNCHANGED <<tableVars, databaseVars, accessVars, pageVars, dialogsVars>>
  \/ Steps("list", ListNext) /\ UNCHANGED <<tableVars, apiVars, dialogsVars>>
  \/ Steps("drawer", DrawerNext) /\ UNCHANGED <<tableVars, apiVars, dialogsVars>>
  \/ Steps("dialogs", DialogsNext) /\ UNCHANGED <<tableVars, apiVars, pageVars>>

ControlPlaneSpec == ControlPlaneInit /\ [][ControlPlaneNext]_controlVars

Interchangeable == Permutations({q1, q2}) \cup Permutations({x1, x2})

-----------------------------------------------------------------------------
\* Every part keeps its tables and its requests to the values they can have.
ControlPlaneType ==
  CASE part = "domains"   -> DomainType
    [] part = "policy"    -> PolicyType
    [] part = "incidents" -> IncidentType
    [] part = "members"   -> MemberType
    [] part = "data"      -> DataType
    [] part = "env"       -> EnvType
    [] part = "git"       -> DeliveryType
    [] part = "database"  -> DatabaseHostType
    [] part = "access"    -> AccessType
    [] part = "project"   -> ProjectType
    [] part \in {"list", "drawer"} -> PageType
    [] part = "dialogs"   -> DialogsType
=============================================================================
