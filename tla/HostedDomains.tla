---------------------------- MODULE HostedDomains ----------------------------
(***************************************************************************)
(* The custom hostnames of one project: the domains table, the requests    *)
(* that add, verify and remove a hostname (apps/api domains.ts), and the   *)
(* two outside parties told about it: the security edge, which is sent one *)
(* route at a time, and the hosting engine, which is sent a whole list.    *)
(* A request is a sequence of awaits; any other request runs in between,   *)
(* and the API process may stop at each of them.                           *)
(***************************************************************************)
EXTENDS Naturals

CONSTANTS Domains,        \* identities of domain rows, used once each
          HostnameOf,     \* the hostname of each row
          DomainRequests, \* API requests served at a time
          NoDomain

ASSUME HostnameAssumption == DOMAIN HostnameOf = Domains /\ NoDomain \notin Domains

VARIABLES
  row,          \* domain -> absent, unverified, verified, removed
  hasApp,       \* the project's first deployment created an application
  edgeRoutes,   \* hostnames the security edge serves
  engineHosts,  \* hostnames the hosting engine was last told
  asked,        \* request -> its place in the procedure and what it read
  confirmed,    \* history: hostnames some row recorded as verified
  answered,     \* history: hostnames a verify request reported as published, still
                \* listed, as long as none overlapped
  unheard,      \* history: hostnames whose withdrawal failed or died
  crossed       \* history: two requests overlapped

domainVars == <<row, hasApp, edgeRoutes, engineHosts, asked, confirmed, answered, unheard, crossed>>
outside == <<hasApp, edgeRoutes, engineHosts>>
history == <<confirmed, answered, unheard, crossed>>

Hostnames == {HostnameOf[d] : d \in Domains}
Idle == [at |-> "idle", domain |-> NoDomain, answer |-> FALSE, hosts |-> {}]

Listed == {d \in Domains : row[d] \in {"unverified", "verified"}}
Routable == {HostnameOf[d] : d \in {e \in Domains : row[e] = "verified"}}

DomainInit ==
  /\ row = [d \in Domains |-> "absent"]
  /\ hasApp = FALSE
  /\ edgeRoutes = {}
  /\ engineHosts = {}
  /\ asked = [r \in DomainRequests |-> Idle]
  /\ confirmed = {}
  /\ answered = {}
  /\ unheard = {}
  /\ crossed = FALSE

Goto(r, place) == asked' = [asked EXCEPT ![r].at = place]
Finish(r) == asked' = [asked EXCEPT ![r] = Idle]

\* A removal is between its delete and its last call.
Withdrawing(r) == asked[r].domain \in Domains /\ row[asked[r].domain] = "removed"
NoteUnheard(r) ==
  unheard' = IF Withdrawing(r) THEN unheard \cup {HostnameOf[asked[r].domain]} ELSE unheard

\* A request begins; the history notes whether it is alone.
Begin(r, d, place, hosts) ==
  /\ asked[r] = Idle
  /\ asked' = [asked EXCEPT ![r] = [Idle EXCEPT !.at = place, !.domain = d, !.hosts = hosts]]
  /\ crossed' = (crossed \/ \E s \in DomainRequests : asked[s] # Idle)
  /\ answered' = IF crossed' THEN {} ELSE answered
  /\ UNCHANGED <<row, hasApp, edgeRoutes, engineHosts, confirmed, unheard>>

\* The project is deployed for the first time (deployment-executor.ts).
FirstDeploy ==
  /\ ~hasApp
  /\ hasApp' = TRUE
  /\ UNCHANGED <<row, edgeRoutes, engineHosts, asked, history>>

\* addDomain: the list is read, then the row is written; the table keeps one
\* row per hostname, whatever the list said.
AddDomain(r, d) ==
  /\ row[d] = "absent"
  /\ \A e \in Listed : HostnameOf[e] # HostnameOf[d]
  /\ Begin(r, d, "create", {})

CreateDomain(r) ==
  LET d == asked[r].domain IN
  /\ asked[r].at = "create"
  /\ row' = IF row[d] = "absent" /\ \A e \in Listed : HostnameOf[e] # HostnameOf[d]
            THEN [row EXCEPT ![d] = "unverified"] ELSE row
  /\ Finish(r)
  /\ UNCHANGED <<outside, history>>

\* verifyDomain: the row is read, then the verifier is asked.
VerifyDomain(r, d) == d \in Listed /\ Begin(r, d, "verify", {})

VerifierRefuses(r) ==
  /\ asked[r].at = "verify"
  /\ Finish(r)
  /\ UNCHANGED <<row, outside, history>>

VerifierAnswers(r) ==
  /\ asked[r].at = "verify"
  /\ \E answer \in BOOLEAN :
       asked' = [asked EXCEPT ![r].at = "record", ![r].answer = answer]
  /\ UNCHANGED <<row, outside, history>>

\* The answer is patched by id: a row deleted meanwhile matches nothing, and
\* the request goes on as if it had.
SetDomainVerification(r) ==
  LET d == asked[r].domain IN
  /\ asked[r].at = "record"
  /\ row' = IF d \notin Listed THEN row
            ELSE [row EXCEPT ![d] = IF asked[r].answer THEN "verified" ELSE "unverified"]
  /\ confirmed' = IF d \in Listed /\ asked[r].answer
                  THEN confirmed \cup {HostnameOf[d]} ELSE confirmed
  /\ IF asked[r].answer THEN Goto(r, "load") ELSE Finish(r)
  /\ UNCHANGED <<outside, answered, unheard, crossed>>

\* Faulty: the row is looked up but not whether it is verified.
LoadRouteListed(r) ==
  /\ asked[r].at = "load"
  /\ Goto(r, IF \E d \in Listed : HostnameOf[d] = HostnameOf[asked[r].domain]
             THEN "compile" ELSE "target")
  /\ UNCHANGED <<row, outside, history>>

\* publishRoute resolves the hostname through the stored row, by name.
LoadRoute(r) ==
  /\ asked[r].at = "load"
  /\ Goto(r, IF HostnameOf[asked[r].domain] \in Routable THEN "compile" ELSE "target")
  /\ UNCHANGED <<row, outside, history>>

\* Its artifact carries the organization's policy, if there is one, and with it
\* every other hostname that is verified by then.
CompileRoute(r) ==
  LET own == {HostnameOf[asked[r].domain]} IN
  /\ asked[r].at = "compile"
  /\ \E hosts \in {own, own \cup Routable} :
       asked' = [asked EXCEPT ![r].at = "publish", ![r].hosts = hosts]
  /\ UNCHANGED <<row, outside, history>>

\* The edge serves what the artifact names, or does not take it.
PublishRoute(r) ==
  /\ asked[r].at = "publish"
  /\ edgeRoutes' \in {edgeRoutes, edgeRoutes \cup asked[r].hosts}
  /\ asked' = [asked EXCEPT ![r].at = "target", ![r].hosts = {}]
  /\ UNCHANGED <<row, hasApp, engineHosts, history>>

\* The worker distributes the policy (EdgePolicy), with the verified hostnames.
DistributePolicy(r) == Routable # {} /\ Begin(r, NoDomain, "post", Routable)

PostPolicy(r) ==
  /\ asked[r].at = "post"
  /\ edgeRoutes' \in {edgeRoutes, edgeRoutes \cup asked[r].hosts}
  /\ Finish(r)
  /\ UNCHANGED <<row, hasApp, engineHosts, history>>

\* The project's application is read; without one there is nothing to route.
VerifyTarget(r) ==
  /\ asked[r].at = "target"
  /\ IF hasApp
     THEN asked' = [asked EXCEPT ![r].at = "set", ![r].hosts = {HostnameOf[asked[r].domain]}]
     ELSE Finish(r)
  /\ UNCHANGED <<row, outside, history>>

\* setDomains replaces the engine's whole list, or fails and leaves it.
SetDomains(r) ==
  /\ asked[r].at = "set"
  /\ engineHosts' = asked[r].hosts
  /\ answered' = IF crossed \/ Withdrawing(r) THEN answered ELSE answered \cup asked[r].hosts
  /\ Finish(r)
  /\ UNCHANGED <<row, hasApp, edgeRoutes, confirmed, unheard, crossed>>

SetDomainsFails(r) ==
  /\ asked[r].at = "set"
  /\ NoteUnheard(r)
  /\ Finish(r)
  /\ UNCHANGED <<row, outside, confirmed, answered, crossed>>

\* removeDomain: the row is read, deleted, and withdrawn from both parties.
RemoveDomain(r, d) == d \in Listed /\ Begin(r, d, "delete", {})

DeleteDomain(r) ==
  LET d == asked[r].domain IN
  /\ asked[r].at = "delete"
  /\ IF d \in Listed
     THEN /\ row' = [row EXCEPT ![d] = "removed"]
          /\ answered' = answered \ {HostnameOf[d]}
          /\ Goto(r, "withdraw")
     ELSE UNCHANGED <<row, answered>> /\ Finish(r)
  /\ UNCHANGED <<outside, confirmed, unheard, crossed>>

RemoveRoute(r) ==
  /\ asked[r].at = "withdraw"
  /\ \E taken \in BOOLEAN :
       /\ edgeRoutes' = IF taken THEN edgeRoutes \ {HostnameOf[asked[r].domain]} ELSE edgeRoutes
       /\ IF taken THEN UNCHANGED unheard ELSE NoteUnheard(r)
  /\ Goto(r, "remaining")
  /\ UNCHANGED <<row, hasApp, engineHosts, confirmed, answered, crossed>>

\* Faulty: the list is not read again, the hostname just goes.
ListRemainingKnown(r) ==
  /\ asked[r].at = "remaining"
  /\ IF hasApp
     THEN asked' = [asked EXCEPT ![r].at = "set", ![r].hosts = engineHosts]
     ELSE Finish(r)
  /\ UNCHANGED <<row, outside, history>>

\* The list that remains is read, then the engine is re-set to it.
ListRemaining(r) ==
  /\ asked[r].at = "remaining"
  /\ IF hasApp
     THEN asked' = [asked EXCEPT ![r].at = "set", ![r].hosts = Routable]
     ELSE Finish(r)
  /\ UNCHANGED <<row, outside, history>>

\* The API process stops: the request ends where it is.
RequestDies(r) ==
  /\ asked[r] # Idle
  /\ NoteUnheard(r)
  /\ Finish(r)
  /\ UNCHANGED <<row, outside, confirmed, answered, crossed>>

DomainNext ==
  \/ FirstDeploy
  \/ \E r \in DomainRequests :
       \/ \E d \in Domains : AddDomain(r, d) \/ VerifyDomain(r, d) \/ RemoveDomain(r, d)
       \/ CreateDomain(r)
       \/ VerifierRefuses(r) \/ VerifierAnswers(r) \/ SetDomainVerification(r)
       \/ LoadRoute(r) \/ CompileRoute(r) \/ PublishRoute(r) \/ VerifyTarget(r)
       \/ DistributePolicy(r) \/ PostPolicy(r)
       \/ SetDomains(r) \/ SetDomainsFails(r)
       \/ DeleteDomain(r) \/ RemoveRoute(r) \/ ListRemaining(r)
       \/ RequestDies(r)

DomainSpec == DomainInit /\ [][DomainNext]_domainVars

-----------------------------------------------------------------------------
DomainType ==
  /\ row \in [Domains -> {"absent", "unverified", "verified", "removed"}]
  /\ hasApp \in BOOLEAN
  /\ edgeRoutes \subseteq Hostnames
  /\ engineHosts \subseteq Hostnames
  /\ asked \in [DomainRequests ->
       [at : {"idle", "create", "verify", "record", "load", "compile", "publish", "target",
              "set", "delete", "withdraw", "remaining", "post"},
        domain : Domains \cup {NoDomain}, answer : BOOLEAN, hosts : SUBSET Hostnames]]
  /\ confirmed \subseteq Hostnames
  /\ answered \subseteq Hostnames
  /\ unheard \subseteq Hostnames
  /\ crossed \in BOOLEAN

\* The security edge serves only a hostname that some row recorded as
\* verified, although the row a request answers for may be gone and another
\* one, unverified, may have taken its hostname (edge-loaders.ts loadRoute).
EdgeServesConfirmed == edgeRoutes \subseteq confirmed

\* A hostname whose rows are gone is served by neither party, unless its
\* withdrawal is under way, failed or died, or requests overlapped: both are
\* sent lists that were read earlier (domains.ts removeDomain).
Released(h) == \A d \in Domains : HostnameOf[d] = h => d \notin Listed

ReleasedIsWithdrawn ==
  \A h \in Hostnames :
    \/ ~Released(h)
    \/ h \in unheard
    \/ \E r \in DomainRequests : Withdrawing(r) /\ h = HostnameOf[asked[r].domain]
    \/ crossed
    \/ h \notin edgeRoutes \cup engineHosts

\* Who serves a hostname agrees with the table.
HostnamesAgree == EdgeServesConfirmed /\ ReleasedIsWithdrawn

\* A hostname whose verification reported its hosting route as published is
\* served by the engine until it is removed, where requests do not overlap:
\* "A verified hostname must also be reachable on the hosting engine".
PublishedStaysServed == crossed \/ answered \subseteq engineHosts
=============================================================================
