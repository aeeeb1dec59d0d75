------------------------------ MODULE RouterHost ------------------------------
(***************************************************************************)
(* The router (infra/deployment/router-server.mjs): the routes in memory,  *)
(* the file they are saved to, and the certificates obtained for them in   *)
(* the background.  A publish replaces the route object of its hostname; a *)
(* certificate in the making belongs to the object it was started for.     *)
(* The certificate authority is external.  Proxying reads the routes and   *)
(* changes nothing.                                                        *)
(* Bounds: MaxRoutes publishes, MaxCerts certificates, MaxRouterStarts.    *)
(***************************************************************************)
EXTENDS Naturals, FiniteSets

CONSTANTS
  Names, NoName,   \* hostnames
  Calls,           \* calls of the admin API and what they start, at a time
  Renewer,         \* the renewal timer
  MaxRoutes, MaxCerts, MaxRouterStarts

ASSUME RouterAssumption == Renewer \notin Calls /\ NoName \notin Names

VARIABLES
  routes,     \* hostname -> its route object, or none
  routeFile,  \* what a start reads in routes.json: no routes when it is torn
  flow,       \* call or renewal -> its place, hostname, object, snapshot
  aged,       \* certificates within RENEW_WINDOW_DAYS of their end
  published, issued, restarted,   \* how many so far
  reloaded,   \* history: the route objects a restart read from the file
  overlapped  \* history: two writes of the file were under way together

routerVars == <<routes, routeFile, flow, aged, published, issued, restarted, reloaded,
                overlapped>>

Flows == Calls \cup {Renewer}

\* object tells two publishes apart, and with them what they asked for.
NoRoute == [object |-> 0, auto |-> FALSE, cert |-> 0, error |-> FALSE]

NoRoutes == [h \in Names |-> NoRoute]

Resting == [at |-> "idle", for |-> "none", name |-> NoName, object |-> 0, snap |-> NoRoutes, left |-> {}]

RouterInit ==
  /\ routes = NoRoutes /\ routeFile = NoRoutes
  /\ flow = [f \in Flows |-> Resting]
  /\ aged = {}
  /\ published = 0 /\ issued = 0 /\ restarted = 0
  /\ reloaded = {} /\ overlapped = FALSE

Routed(h) == routes[h].object # 0

\* ensureCertificate and renewLoop skip a route whose certificate lasts.
Lasting(h) == routes[h].cert # 0 /\ routes[h].cert \notin aged

Becomes(f, new) == flow' = [flow EXCEPT ![f] = new]

\* saveState writes a file nothing reads, then truncates and writes the real one.
Save(f, reason, h) ==
  Becomes(f, [flow[f] EXCEPT !.at = "saving", !.for = reason, !.name = h, !.object = 0])

Writing(f) == flow[f].at = "writing"

WriteBegins(f) ==
  /\ flow[f].at = "saving"
  /\ Becomes(f, [flow[f] EXCEPT !.at = "writing", !.snap = routes])
  /\ routeFile' = NoRoutes
  /\ overlapped' = (overlapped \/ \E g \in Flows : Writing(g))
  /\ UNCHANGED <<routes, aged, published, issued, restarted, reloaded>>

\* Two writers of one file may leave what either wrote or a mixture.
Written(f) ==
  /\ Writing(f)
  /\ \/ routeFile' = flow[f].snap
     \/ overlapped /\ routeFile' = NoRoutes

-----------------------------------------------------------------------------
\* PUT /routes.  The certificate of the route it replaces is kept.
Publish(f, h, auto) ==
  /\ flow[f].at = "idle" /\ f \in Calls /\ published < MaxRoutes
  /\ published' = published + 1
  /\ routes' = [routes EXCEPT ![h] =
       [object |-> published + 1, auto |-> auto, cert |-> @.cert, error |-> FALSE]]
  /\ Becomes(f, [Resting EXCEPT !.at = "saving", !.name = h,
                                !.for = IF auto THEN "certificate" ELSE "answer"])
  /\ UNCHANGED <<routeFile, aged, issued, restarted, reloaded, overlapped>>

\* Faulty: the route is taken out of memory only.
WithdrawUnsaved(f, h) ==
  /\ flow[f].at = "idle" /\ f \in Calls /\ Routed(h)
  /\ routes' = [routes EXCEPT ![h] = NoRoute]
  /\ UNCHANGED <<flow, routeFile, aged, published, issued, restarted, reloaded, overlapped>>

\* DELETE /routes/:host.
Withdraw(f, h) ==
  /\ flow[f].at = "idle" /\ f \in Calls /\ Routed(h)
  /\ routes' = [routes EXCEPT ![h] = NoRoute]
  /\ Save(f, "answer", h)
  /\ UNCHANGED <<routeFile, aged, published, issued, restarted, reloaded, overlapped>>

\* Faulty: no second certificate is asked for while one is being obtained.
EnsureOnce(f, h) ==
  IF routes[h].auto /\ ~ Lasting(h)
     /\ \A g \in Flows \ {f} : flow[g].at = "issuing" => flow[g].name # h
  THEN Becomes(f, [flow[f] EXCEPT !.at = "issuing", !.name = h,
                                  !.object = routes[h].object, !.snap = NoRoutes])
  ELSE Becomes(f, Resting)

\* ensureCertificate up to its first await: it keeps the object it finds.
Ensure(f, h) ==
  IF routes[h].auto /\ ~ Lasting(h)
  THEN Becomes(f, [flow[f] EXCEPT !.at = "issuing", !.name = h,
                                  !.object = routes[h].object, !.snap = NoRoutes])
  ELSE Becomes(f, Resting)

\* A publish is answered and its certificate looked after in the background.
RoutesSaved(f) ==
  /\ Written(f)
  /\ CASE flow[f].for = "certificate" -> Ensure(f, flow[f].name)
       [] flow[f].for = "answer"      -> Becomes(f, Resting)
       [] flow[f].for = "renewal"     -> Becomes(f, [flow[f] EXCEPT !.at = "renewing",
                                                                    !.snap = NoRoutes])
  /\ UNCHANGED <<routes, aged, published, issued, restarted, reloaded, overlapped>>

\* Where a flow goes on after the save of what the authority answered.
AfterIssue(f) == IF f = Renewer THEN "renewal" ELSE "answer"

\* The answer goes to the object the flow holds, replaced or not.
Obtained(f) ==
  /\ flow[f].at = "issuing" /\ issued < MaxCerts
  /\ issued' = issued + 1
  /\ routes' = IF routes[flow[f].name].object = flow[f].object
               THEN [routes EXCEPT ![flow[f].name].cert = issued + 1,
                                   ![flow[f].name].error = FALSE]
               ELSE routes
  /\ Save(f, AfterIssue(f), flow[f].name)
  /\ UNCHANGED <<routeFile, aged, published, restarted, reloaded, overlapped>>

\* Automatic TLS is not configured, or the authority refused.
NotObtained(f) ==
  /\ flow[f].at = "issuing"
  /\ routes' = IF routes[flow[f].name].object = flow[f].object
               THEN [routes EXCEPT ![flow[f].name].error = TRUE]
               ELSE routes
  /\ Save(f, AfterIssue(f), flow[f].name)
  /\ UNCHANGED <<routeFile, aged, published, issued, restarted, reloaded, overlapped>>

\* renewLoop: the hostnames of the moment it begins, one after another.
RenewBegins ==
  /\ flow[Renewer].at = "idle"
  /\ \E h \in Names : Routed(h)
  /\ Becomes(Renewer, [flow[Renewer] EXCEPT !.at = "renewing",
                                            !.left = {h \in Names : Routed(h)}])
  /\ UNCHANGED <<routes, routeFile, aged, published, issued, restarted, reloaded, overlapped>>

\* A route withdrawn meanwhile ends the loop with an exception.
RenewNext(h) ==
  /\ flow[Renewer].at = "renewing" /\ h \in flow[Renewer].left
  /\ Becomes(Renewer,
       IF ~ Routed(h) THEN Resting
       ELSE IF routes[h].auto /\ ~ Lasting(h)
       THEN [flow[Renewer] EXCEPT !.at = "issuing", !.left = @ \ {h}, !.name = h,
                                  !.object = routes[h].object]
       ELSE [flow[Renewer] EXCEPT !.left = @ \ {h}])
  /\ UNCHANGED <<routes, routeFile, aged, published, issued, restarted, reloaded, overlapped>>

RenewEnds ==
  /\ flow[Renewer].at = "renewing" /\ flow[Renewer].left = {}
  /\ Becomes(Renewer, Resting)
  /\ UNCHANGED <<routes, routeFile, aged, published, issued, restarted, reloaded, overlapped>>

CertAges(c) ==
  /\ c \in 1..issued \ aged
  /\ aged' = aged \cup {c}
  /\ UNCHANGED <<routes, routeFile, flow, published, issued, restarted, reloaded, overlapped>>

\* A crash and a start.
RouterRestarts ==
  /\ restarted < MaxRouterStarts
  /\ restarted' = restarted + 1
  /\ routes' = routeFile
  /\ reloaded' = reloaded \cup {routeFile[h].object : h \in Names}
  /\ flow' = [f \in Flows |-> Resting]
  /\ UNCHANGED <<routeFile, aged, published, issued, overlapped>>

RouterNext ==
  \/ \E f \in Flows :
       \/ WriteBegins(f) \/ RoutesSaved(f) \/ Obtained(f) \/ NotObtained(f)
       \/ \E h \in Names : Withdraw(f, h) \/ \E auto \in BOOLEAN : Publish(f, h, auto)
  \/ \E h \in Names : RenewNext(h)
  \/ RenewBegins \/ RenewEnds
  \/ \E c \in 1..MaxCerts : CertAges(c)
  \/ RouterRestarts

RouterSpec == RouterInit /\ [][RouterNext]_routerVars

-----------------------------------------------------------------------------
Route == [object : Nat, auto : BOOLEAN, cert : Nat, error : BOOLEAN]

Flow == [ at : {"idle", "saving", "writing", "issuing", "renewing"},
          for : {"none", "answer", "certificate", "renewal"},
          name : Names \cup {NoName}, object : Nat,
          snap : [Names -> Route], left : SUBSET Names ]

\* Routes and flows keep their types; what is saved is saved for a reason, and a
\* certificate is looked after for a hostname.
RouterType ==
  /\ routes \in [Names -> Route] /\ routeFile \in [Names -> Route]
  /\ flow \in [Flows -> Flow]
  /\ published \in Nat /\ issued \in Nat /\ overlapped \in BOOLEAN
  /\ \A f \in Flows :
       /\ flow[f].at \in {"saving", "writing"} => flow[f].for # "none"
       /\ flow[f].at = "issuing" \/ flow[f].for = "certificate" => flow[f].name \in Names

\* Somebody has yet to look at the certificate of a hostname, or is obtaining it.
LookedAfter(h) ==
  \E f \in Flows :
    \/ flow[f].at \in {"saving", "writing"} /\ flow[f].for = "certificate" /\ flow[f].name = h
    \/ flow[f].at = "issuing" /\ flow[f].name = h /\ flow[f].object = routes[h].object

\* A hostname to be served with a certificate of its own that has none says why,
\* or one is on its way to it: however publishes, withdrawals and certificates
\* overlap.  A restart does not resume what was on its way; the renewal timer does.
BareSaysWhy ==
  \A h \in Names :
    routes[h].auto /\ routes[h].cert = 0 =>
      routes[h].error \/ LookedAfter(h) \/ routes[h].object \in reloaded

\* When nothing is being saved the file holds the routes, so that a restart
\* serves what was published; unless two writes of it overlapped.
FileFollows ==
  (\A f \in Flows : flow[f].at \notin {"saving", "writing"}) /\ ~ overlapped =>
    routeFile = routes
=============================================================================
