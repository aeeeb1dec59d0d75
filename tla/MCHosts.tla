-------------------------------- MODULE MCHosts --------------------------------
(***************************************************************************)
(* What stands on the hosts, on small instances: the runtime, with one     *)
(* application built from source with a hostname and one deployed from an  *)
(* image; the router; and what the security edge is sent, its rules and    *)
(* the postures of its hostnames.  They share no state, so a run chooses   *)
(* one part and explores it with the others at rest; what the runtime asks *)
(* of the router and what becomes of it is part of the runtime.            *)
(***************************************************************************)
EXTENDS RuntimeEngine, RouterHost, EdgeRules, EdgePostures, TLC

CONSTANTS
  a1, a2, h1,
  x1, x2,           \* attempts of the runtime, calls of the router, saves of a posture
  e1, e2,           \* addresses
  w1, w2, c1, c2,   \* what crawlers call themselves, and their confirmed names
  s1, s2, p1, p2    \* hostnames at the edge, and their projects

VARIABLE part

hostsVars == <<part, runtimeVars, routerVars, rulesVars, postureVars>>

HostsOf == h1 :> a1
Directory == <<[word |-> w1, name |-> c1], [word |-> w2, name |-> c2]>>
ProjectsOf == s1 :> p1 @@ s2 :> p2

\* A block of addresses and an agent to deny; one address of the block to trust.
BlockAndAgent == {{e1, e2}, {w1}}
OneSource == {{e1}}
SavedPolicies ==
  {[risk |-> "low", action |-> "log", attack |-> FALSE],
   [risk |-> "critical", action |-> "challenge", attack |-> TRUE],
   [risk |-> "high", action |-> "block", attack |-> FALSE]}

Parts == {"runtime", "router", "rules", "postures"}

\* Tables at rest are those of one organization.
RulesRest == part # "rules" => table = NotLoading.read

HostsInit ==
  /\ part \in Parts
  /\ RuntimeInit /\ RouterInit /\ RulesInit /\ PostureInit /\ RulesRest

Steps(p, next) == part = p /\ next /\ UNCHANGED part

HostsNext ==
  \/ Steps("runtime", RuntimeNext) /\ UNCHANGED <<routerVars, rulesVars, postureVars>>
  \/ Steps("router", RouterNext) /\ UNCHANGED <<runtimeVars, rulesVars, postureVars>>
  \/ Steps("rules", RulesNext) /\ UNCHANGED <<runtimeVars, routerVars, postureVars>>
  \/ Steps("postures", PostureNext) /\ UNCHANGED <<runtimeVars, routerVars, rulesVars>>

HostsSpec == HostsInit /\ [][HostsNext]_hostsVars

Interchangeable == Permutations({x1, x2})

-----------------------------------------------------------------------------
\* Each part keeps its records, its files and its calls to the values they can have.
HostsType ==
  CASE part = "runtime"  -> RuntimeType
    [] part = "router"   -> RouterType
    [] part = "rules"    -> RulesType
    [] part = "postures" -> PostureType
=============================================================================
