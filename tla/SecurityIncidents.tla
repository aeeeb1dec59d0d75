-------------------------- MODULE SecurityIncidents --------------------------
(***************************************************************************)
(* The incidents of one organization: opened by the control plane when the *)
(* edge refuses a policy, and moved through triage by administrators, each *)
(* transition a read followed by a write that the table's trigger checks   *)
(* again (security.ts, supabase-store.ts, migration 0019).                 *)
(***************************************************************************)
CONSTANTS Incidents, Triagers, NoIncident

ASSUME NoIncidentAssumption == NoIncident \notin Incidents

VARIABLES
  incident,   \* incident -> absent, open, triaged, resolved, false_positive
  triage      \* request -> the incident it read and the state it asked for

incidentVars == <<incident, triage>>

Closed == {"resolved", "false_positive"}
Asked == {"triaged"} \cup Closed
NoTriage == [incident |-> NoIncident, to |-> "none"]

IncidentInit ==
  /\ incident = [i \in Incidents |-> "absent"]
  /\ triage = [t \in Triagers |-> NoTriage]

\* openSecurityIncidentForService: the state is left to its default.
OpenIncident(i) ==
  /\ incident[i] = "absent"
  /\ incident' = [incident EXCEPT ![i] = "open"]
  /\ UNCHANGED triage

\* The rule, checked by the request on what it read ...
MayTransition(from, to) ==
  /\ from \notin Closed
  /\ from = "open" => to \notin Closed

TransitionReads(t, i, to) ==
  /\ triage[t] = NoTriage
  /\ incident[i] # "absent"
  /\ MayTransition(incident[i], to)
  /\ triage' = [triage EXCEPT ![t] = [incident |-> i, to |-> to]]
  /\ UNCHANGED incident

\* Faulty: the trigger does not keep a closed incident closed.
GuardAcceptsReopened(from, to) == from = "open" => to \notin Closed

\* ... and by the trigger on the row: a closed one keeps its state, an open one
\* is not closed.
GuardAccepts(from, to) ==
  /\ from \in Closed => to = from
  /\ from = "open" => to \notin Closed

TransitionWrites(t) ==
  LET i == triage[t].incident IN
  /\ triage[t] # NoTriage
  /\ incident' =
       IF GuardAccepts(incident[i], triage[t].to)
       THEN [incident EXCEPT ![i] = triage[t].to] ELSE incident
  /\ triage' = [triage EXCEPT ![t] = NoTriage]

TriageDies(t) ==
  /\ triage[t] # NoTriage
  /\ triage' = [triage EXCEPT ![t] = NoTriage]
  /\ UNCHANGED incident

IncidentNext ==
  \/ \E i \in Incidents : OpenIncident(i)
  \/ \E t \in Triagers :
       \/ \E i \in Incidents, to \in Asked : TransitionReads(t, i, to)
       \/ TransitionWrites(t)
       \/ TriageDies(t)

IncidentSpec == IncidentInit /\ [][IncidentNext]_incidentVars

-----------------------------------------------------------------------------
IncidentType ==
  /\ incident \in [Incidents -> {"absent", "open"} \cup Asked]
  /\ triage \in [Triagers -> [incident : Incidents, to : Asked] \cup {NoTriage}]

\* An incident is closed only from triage and a closed one is never reopened
\* nor closed another way, although requests decide on what they read earlier
\* (security.ts:1216, migration 0019).
IncidentsMoveForward ==
  [][\A i \in Incidents :
       /\ incident[i] \in Closed => incident'[i] = incident[i]
       /\ incident'[i] \in Closed =>
            incident[i] \in {"triaged", incident'[i]}]_incidentVars
=============================================================================
