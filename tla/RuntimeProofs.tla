---------------------------- MODULE RuntimeProofs ----------------------------
(***************************************************************************)
(* Proofs about the runtime host, for any number of applications,          *)
(* attempts, hostnames, requests and restarts: what it reports deployed is *)
(* what its hosts lead to, and what it records of an attempt is the        *)
(* attempt's own.  And about the router: a bare hostname says why it is,   *)
(* and the file follows the routes.                                        *)
(***************************************************************************)
EXTENDS RouterHost, RuntimeEngine, TLAPS

-----------------------------------------------------------------------------
(* The runtime's invariant.  Memory and file: the file holds what memory   *)
(* held, and counts and attempts only grow.  Where operations neither      *)
(* overlapped nor were cut, there is at most one: records answer as        *)
(* attempts ended, the container runs the current image unless it is being *)
(* replaced, hosts lead to the port unless routes are being changed, and   *)
(* no build was asked for under a key beyond the saved count, so that the  *)
(* next one is new.                                                        *)

Processes == Attempts \cup {Control}

\* What is on record of an attempt that ended is how it ended.
Answers(a, apps, records) ==
  \A x \in apps[a].attempts : own[x] # "none" => records[x] = own[x]

\* Control replaces the container of a, or its routes.
Rolling(a) == On(Control) = a /\ op[Control].pc \in {"removing", "starting", "inspecting"}
Routing(a) == On(Control) = a /\ op[Control].pc \in {"withdrawing", "publishing", "releasing"}

Serves(a, r) == r.status = "succeeded" /\ box[a].up /\ ~ Rolling(a) => box[a].image = r.current

Leads(a, r) ==
  r.there /\ r.routed /\ ~ Routing(a) => \A h \in r.hosts : route[h] = r.port

KeysUpTo(a, n) == \A i \in BuildJobs : phase[i] # "none" /\ of[i][1] = a => of[i][2] <= n

\* The build an attempt waits for, or whose image it runs, is its own.
OwnBuild(x, i) == i \in BuildJobs /\ asker[i] = x /\ of[i] # NoKey

Unfinished == {"saving", "posting", "polling", "removing", "starting", "inspecting"}

\* A deploy that nothing overlapped, step by step.
DeployFits(x) ==
  LET a == On(x)
      pc == op[x].pc
  IN  /\ pc \in Unfinished => app[a].status = "running"
      /\ pc \in Unfinished \ {"saving"} => disk.app[a].status = "running"
      /\ pc = "publishing" => app[a].status = "succeeded"
      /\ pc \in {"saving", "posting"} => KeysUpTo(a, app[a].count - 1)
      /\ pc = "posting" => disk.app[a].count = app[a].count
      /\ pc = "polling" => OwnBuild(x, op[x].build)
      /\ pc = "removing" /\ a \notin ImageApps => OwnBuild(x, op[x].image)

\* Deploys, rollbacks and requests that publish.
RunFits(p) ==
  LET a == On(p)
  IN  /\ At(p, "inspecting") => box[a].image = op[p].image
      /\ At(p, "withdrawing") => app[a].hosts \subseteq op[p].hosts
      /\ At(p, "publishing") /\ op[p].ok =>
           \A h \in app[a].hosts \ op[p].hosts : route[h] = app[a].port

Remembers(a) ==
  /\ Answers(a, app, record) /\ Serves(a, app[a]) /\ Leads(a, app[a])

FileRemembers(a) ==
  /\ Answers(a, disk.app, disk.record) /\ Serves(a, disk.app[a]) /\ Leads(a, disk.app[a])

\* An application on which operations neither overlapped nor were cut.
AppFits(a) ==
  /\ Remembers(a) /\ FileRemembers(a)
  /\ KeysUpTo(a, disk.app[a].count)
  /\ \A x \in Attempts : On(x) = a => DeployFits(x)
  /\ \A p \in Processes : On(p) = a => RunFits(p)
  /\ \A p, q \in Processes : Busy(p) /\ Busy(q) /\ On(p) = a /\ On(q) = a => p = q

BuilderFits ==
  /\ of \in [BuildJobs -> (Apps \X Nat) \cup {NoKey}]
  /\ phase \in [BuildJobs -> BuildPhases] /\ did \subseteq BuildJobs
  /\ \A i \in BuildJobs : phase[i] # "none" => of[i] # NoKey

\* The file holds what memory held, neither takes anything back, and hosts are
\* those of the application.
OnFile(a) ==
  LET r == app[a]
      d == disk.app[a]
  IN  /\ d.there = r.there /\ d.port \in {NoPort, r.port}
      /\ d.attempts \subseteq r.attempts /\ d.count <= r.count
      /\ r.routed => r.port # NoPort
      /\ d.routed => d.port # NoPort
      /\ \A h \in r.hosts \cup d.hosts : HostApp[h] = a

\* An attempt is one application's, is on record, and ran if it succeeded.
RecordsFit ==
  /\ \A x \in Attempts, a \in Apps :
       /\ x \in app[a].attempts => record[x] # "none"
       /\ x \in disk.app[a].attempts => disk.record[x] # "none"
       /\ \A b \in Apps : x \in app[a].attempts /\ x \in app[b].attempts => a = b
  /\ \A x \in Attempts :
       /\ record[x] = "succeeded" \/ disk.record[x] = "succeeded" => x \in seen
       /\ disk.record[x] # "none" => record[x] # "none"

\* What a request or an attempt works with.
ProcessFits(p) ==
  /\ \A h \in op[p].hosts \cup op[p].drop : HostApp[h] = On(p)
  /\ p \in Attempts /\ Busy(p) => own[p] = "none" /\ p \in app[On(p)].attempts
  /\ p \in Attempts /\ At(p, "publishing") => p \in seen
  /\ op[p].pc \in {"starting", "inspecting"} => app[On(p)].port # NoPort
  /\ At(p, "publishing") /\ op[p].ok => app[On(p)].port # NoPort
  /\ p = Control /\ Busy(p) => app[On(p)].there

Standing ==
  /\ RuntimeType /\ BuilderFits /\ RecordsFit /\ PortsDiffer
  /\ \A a \in Apps : OnFile(a)
  /\ \A p \in Processes : ProcessFits(p)

RuntimeInv == Standing /\ \A a \in Apps \ mixed : AppFits(a)

-----------------------------------------------------------------------------
(* A step about one application by one process leaves what stands of the   *)
(* others alone.                                                           *)

LEMMA IdleTyped == Idle \in Operation /\ Idle.pc = "none" /\ Idle.hosts = {} /\ Idle.drop = {}
BY RuntimeAssumption DEF Idle, Operation, Images, NoImage

LEMMA App0Typed == App0 \in AppRecord
BY DEF App0, AppRecord, Statuses, Images, NoImage

LEMMA PiecesTyped ==
  ASSUME RuntimeType
  PROVE  /\ \A a \in Apps : app[a] \in AppRecord /\ disk.app[a] \in AppRecord
         /\ \A p \in Processes : op[p] \in Operation /\ On(p) \in Apps
         /\ \A x \in Attempts : record[x] \in Recorded /\ disk.record[x] \in Recorded
         /\ \A a \in Apps : box[a].image \in Images /\ box[a].up \in BOOLEAN
BY DEF RuntimeType, Processes, Operation, On

\* A save keeps types, and so does leaving the file alone.
Filed == UNCHANGED disk \/ SaveState

LEMMA FiledTyped ==
  ASSUME RuntimeType, app' \in [Apps -> AppRecord], record' \in [Attempts -> Recorded], Filed
  PROVE  disk' \in [app : [Apps -> AppRecord], record : [Attempts -> Recorded]]
BY DEF RuntimeType, Filed, SaveState

LEMMA TypedSoFar ==
  ASSUME RuntimeType, Filed,
         app' \in [Apps -> AppRecord], record' \in [Attempts -> Recorded],
         cancelled' \subseteq Attempts, op' \in [Processes -> Operation],
         box' \in [Apps -> [image : Images, port : Ports \cup {NoPort}, up : BOOLEAN]],
         route' \in [Hosts -> Ports \cup {NoPort}],
         asker' \in [BuildJobs -> Attempts \cup {NoAttempt}],
         seen' \subseteq Attempts, mixed' \subseteq Apps,
         own' \in [Attempts -> {"none", "succeeded", "failed"}],
         served' \in 0..MaxServed, restarts' \in 0..MaxRestarts
  PROVE  RuntimeType'
BY FiledTyped DEF RuntimeType, Processes

\* The record of one application is replaced.
LEMMA AppTyped ==
  ASSUME RuntimeType, NEW a \in Apps, NEW r \in AppRecord
  PROVE  [app EXCEPT ![a] = r] \in [Apps -> AppRecord]
BY DEF RuntimeType

LEMMA OpTyped ==
  ASSUME RuntimeType, NEW p \in Processes, NEW o \in Operation
  PROVE  [op EXCEPT ![p] = o] \in [Processes -> Operation]
BY DEF RuntimeType, Processes

\* A step about application a, by process p if p is one, leaves the rest alone.
Typed ==
  /\ app' \in [Apps -> AppRecord] /\ record' \in [Attempts -> Recorded]
  /\ cancelled' \subseteq Attempts /\ op' \in [Processes -> Operation]
  /\ box' \in [Apps -> [image : Images, port : Ports \cup {NoPort}, up : BOOLEAN]]
  /\ route' \in [Hosts -> Ports \cup {NoPort}]
  /\ asker' \in [BuildJobs -> Attempts \cup {NoAttempt}]
  /\ seen' \subseteq Attempts /\ mixed' \subseteq Apps
  /\ own' \in [Attempts -> {"none", "succeeded", "failed"}]
  /\ served' \in 0..MaxServed /\ restarts' \in 0..MaxRestarts

Elsewhere(a, p) ==
  /\ Filed
  /\ \A b \in Apps \ {a} : app'[b] = app[b] /\ box'[b] = box[b]
  /\ \A h \in Hosts : HostApp[h] # a => route'[h] = route[h]
  /\ \A q \in Processes \ {p} : op'[q] = op[q]
  /\ \A x \in Attempts \ {p} : record'[x] = record[x] /\ own'[x] = own[x]
  /\ p \in Processes =>
       (Busy(p) => On(p) = a) /\ (op'[p].pc # "none" => op'[p].app = a)
  /\ p \in Attempts /\ ~ (record'[p] = record[p] /\ own'[p] = own[p]) =>
       p \in app[a].attempts \/ record[p] = "none"
  /\ mixed \subseteq mixed' /\ seen \subseteq seen'

Builds(a) ==
  /\ BuilderFits'
  /\ \A i \in BuildJobs : of[i] # NoKey => of'[i] = of[i] /\ asker'[i] = asker[i]
  /\ \A i \in BuildJobs : phase'[i] # "none" => phase[i] # "none" \/ of'[i][1] = a

\* What such a step may do to the application.
AppGoesOn(a, p) ==
  LET r == app[a]
      s == app'[a]
  IN  /\ \A h \in s.hosts : HostApp[h] = a
      /\ \/ s.attempts = r.attempts
         \/ p \in Attempts /\ record[p] = "none" /\ record'[p] # "none"
              /\ s.attempts = r.attempts \cup {p}
      /\ r.count <= s.count
      /\ s.port = r.port \/ (r.port = NoPort /\ s.port \notin Taken(a))
      /\ s.routed => s.port # NoPort
      /\ s.there = r.there \/ (SaveState /\ (s.there => s.port = NoPort))
      /\ r.there /\ p # Control => s.there

\* And to the process.
ProcessGoesOn(p) ==
  /\ p \in Processes => ProcessFits(p)'
  /\ p \in Attempts => record'[p] # "none" \/ record'[p] = record[p]
  /\ p \in Attempts /\ record'[p] = "succeeded" => p \in seen'

LEMMA OnFileKept ==
  ASSUME Standing, NEW a \in Apps, NEW p, Typed, Elsewhere(a, p), AppGoesOn(a, p), NEW b \in Apps
  PROVE  OnFile(b)'
<1>1. /\ app[b] \in AppRecord /\ disk.app[b] \in AppRecord /\ app'[b] \in AppRecord
      /\ OnFile(b)
  BY PiecesTyped DEF Standing, Typed
<1>2. b # a => app'[b] = app[b]
  BY DEF Elsewhere
<1>3. CASE UNCHANGED disk
  <2>1. CASE b # a
    BY <1>1, <1>2, <1>3, <2>1 DEF OnFile
  <2>2. CASE b = a
    <3>1. ~ SaveState \/ disk = [app |-> app', record |-> record']
      BY <1>3 DEF SaveState
    <3>2. ~ SaveState => /\ app'[a].there = app[a].there
                         /\ app'[a].port = app[a].port \/ app[a].port = NoPort
      BY DEF AppGoesOn
    <3>3. SaveState => disk.app[a] = app'[a]
      BY <3>1
    <3> QED
      BY <1>1, <1>3, <2>2, <3>2, <3>3 DEF OnFile, AppGoesOn, AppRecord
  <2> QED BY <2>1, <2>2
<1>4. CASE SaveState
  <2>1. disk'.app[b] = app'[b]
    BY <1>4 DEF SaveState
  <2>2. app'[b].routed => app'[b].port # NoPort
    BY <1>1, <1>2 DEF OnFile, AppGoesOn
  <2>3. \A h \in app'[b].hosts : HostApp[h] = b
    BY <1>1, <1>2 DEF OnFile, AppGoesOn
  <2> QED BY <1>1, <2>1, <2>2, <2>3 DEF OnFile, AppRecord
<1> QED BY <1>3, <1>4 DEF Elsewhere, Filed

LEMMA RecordsKept ==
  ASSUME Standing, NEW a \in Apps, NEW p, Typed, Elsewhere(a, p), AppGoesOn(a, p), ProcessGoesOn(p)
  PROVE  RecordsFit'
<1>1. RecordsFit /\ \A b \in Apps : OnFile(b)
  BY DEF Standing
<1>2. \A x \in Attempts, b \in Apps : x \in app'[b].attempts =>
        x \in app[b].attempts \/ (b = a /\ x = p /\ record[p] = "none" /\ record'[p] # "none")
  BY DEF Elsewhere, AppGoesOn
<1>3. \A x \in Attempts, b \in Apps : x \in app'[b].attempts => record'[x] # "none"
  BY <1>1, <1>2 DEF RecordsFit, Elsewhere, ProcessGoesOn
<1>4. \A x \in Attempts, b, c \in Apps : x \in app'[b].attempts /\ x \in app'[c].attempts => b = c
  BY <1>1, <1>2 DEF RecordsFit
<1>5. \A x \in Attempts : record'[x] = "succeeded" => x \in seen'
  BY <1>1 DEF RecordsFit, Elsewhere, ProcessGoesOn
<1>6. \A x \in Attempts : record[x] # "none" => record'[x] # "none"
  BY DEF Elsewhere, ProcessGoesOn
<1>7. \/ disk'.app = disk.app /\ disk'.record = disk.record
      \/ disk'.app = app' /\ disk'.record = record'
  BY DEF Elsewhere, Filed, SaveState
<1>8. seen \subseteq seen'
  BY DEF Elsewhere
<1> QED BY <1>1, <1>3, <1>4, <1>5, <1>6, <1>7, <1>8 DEF RecordsFit

LEMMA ProcessesKept ==
  ASSUME Standing, NEW a \in Apps, NEW p, Typed, Elsewhere(a, p), AppGoesOn(a, p), ProcessGoesOn(p),
         NEW q \in Processes
  PROVE  ProcessFits(q)'
<1>1. CASE q = p
  BY <1>1 DEF ProcessGoesOn
<1>2. CASE q # p
  <2>1. op'[q] = op[q] /\ ProcessFits(q) /\ seen \subseteq seen' /\ On(q) \in Apps
    BY <1>2, PiecesTyped DEF Elsewhere, Standing
  <2>2. q \in Attempts => own'[q] = own[q]
    BY <1>2 DEF Elsewhere
  <2>3. \A b \in Apps : /\ app[b].attempts \subseteq app'[b].attempts
                        /\ app[b].port # NoPort => app'[b].port # NoPort
                        /\ app[b].there /\ p # Control => app'[b].there
    BY DEF Elsewhere, AppGoesOn
  <2> QED BY <1>2, <2>1, <2>2, <2>3 DEF ProcessFits, Busy, On, At
<1> QED BY <1>1, <1>2

LEMMA PortsKept ==
  ASSUME Standing, NEW a \in Apps, NEW p, Elsewhere(a, p), AppGoesOn(a, p)
  PROVE  PortsDiffer'
<1>1. PortsDiffer
  BY DEF Standing
<1>2. \A b \in Apps \ {a} : app'[b] = app[b]
  BY DEF Elsewhere
<1>3. \A b \in Apps \ {a} : app'[a].there /\ app[b].there /\ app'[a].port = app[b].port => app'[a].port = NoPort
  <2> SUFFICES ASSUME NEW b \in Apps \ {a}, app'[a].there, app[b].there, app'[a].port = app[b].port,
                      app'[a].port # NoPort
               PROVE  FALSE
    OBVIOUS
  <2>1. app'[a].there = app[a].there
    BY DEF AppGoesOn
  <2>2. CASE app'[a].port = app[a].port
    BY <1>1, <2>1, <2>2 DEF PortsDiffer
  <2>3. CASE app'[a].port \notin Taken(a)
    BY <2>3 DEF Taken
  <2> QED BY <2>2, <2>3 DEF AppGoesOn
<1> SUFFICES ASSUME NEW b \in Apps, NEW c \in Apps, app'[b].there, app'[c].there,
                    app'[b].port = app'[c].port, app'[b].port # NoPort, b # c
             PROVE  FALSE
  BY DEF PortsDiffer
<1>4. CASE b = a
  BY <1>2, <1>3, <1>4
<1>5. CASE c = a
  BY <1>2, <1>3, <1>5
<1>6. CASE b # a /\ c # a
  BY <1>1, <1>2, <1>6 DEF PortsDiffer
<1> QED BY <1>4, <1>5, <1>6

LEMMA StandingKept ==
  ASSUME Standing, NEW a \in Apps, NEW p, Typed, Elsewhere(a, p), Builds(a), AppGoesOn(a, p),
         ProcessGoesOn(p)
  PROVE  Standing'
<1>1. RuntimeType'
  BY TypedSoFar DEF Standing, Typed, Elsewhere
<1> QED
  BY <1>1, OnFileKept, RecordsKept, ProcessesKept, PortsKept DEF Standing, Builds

\* The other applications stay as they were.
LEMMA OthersFit ==
  ASSUME Standing, NEW a \in Apps, NEW p, Typed, Elsewhere(a, p), Builds(a),
         NEW b \in Apps, b # a, AppFits(b)
  PROVE  AppFits(b)'
<1>1. /\ app'[b] = app[b] /\ box'[b] = box[b] /\ app[b] \in AppRecord /\ disk.app[b] \in AppRecord
      /\ \A h \in Hosts : HostApp[h] = b => route'[h] = route[h]
      /\ OnFile(b) /\ app[b].hosts \subseteq Hosts /\ disk.app[b].hosts \subseteq Hosts
  BY PiecesTyped DEF Elsewhere, Standing, AppRecord
<1>2. \A q \in Processes : op'[q].pc # "none" /\ op'[q].app = b => op'[q] = op[q]
  BY DEF Elsewhere
<1>3. \A q \in Processes : op[q].pc # "none" /\ op[q].app = b => op'[q] = op[q]
  BY DEF Elsewhere, Busy, On
<1>4. \A x \in Attempts : x \in app[b].attempts => record'[x] = record[x] /\ own'[x] = own[x]
  BY DEF Elsewhere, Standing, RecordsFit
<1>5. /\ app[b].attempts \subseteq Attempts /\ disk.app[b].attempts \subseteq app[b].attempts
      /\ app[b].count \in Nat /\ disk.app[b].count \in Nat /\ disk.app[b].count <= app[b].count
  BY <1>1 DEF OnFile, AppRecord
<1>6. \/ disk'.app = disk.app /\ disk'.record = disk.record
      \/ disk'.app = app' /\ disk'.record = record'
  BY DEF Elsewhere, Filed, SaveState
<1>7. disk'.app[b] \in {app[b], disk.app[b]}
  BY <1>1, <1>6
<1>8. \A r \in AppRecord : Serves(b, r) => Serves(b, r)'
  BY <1>1, <1>2, <1>3, RuntimeAssumption DEF Serves, Rolling, Processes, On
<1>9. \A r \in {app[b], disk.app[b]} : Leads(b, r) => Leads(b, r)'
  <2>1. Routing(b) => Routing(b)'
    BY <1>3 DEF Routing, Processes, On
  <2>2. Routing(b)' => Routing(b)
    BY <1>2 DEF Routing, Processes, On
  <2>3. \A h \in app[b].hosts \cup disk.app[b].hosts : route'[h] = route[h]
    BY <1>1 DEF OnFile
  <2> QED BY <2>1, <2>2, <2>3 DEF Leads
<1>10. \A n : KeysUpTo(b, n) => KeysUpTo(b, n)'
  BY DEF Builds, KeysUpTo, Standing, BuilderFits
<1>11. Answers(b, app, record)' /\ Answers(b, disk.app, disk.record)'
  BY <1>1, <1>4, <1>5, <1>6 DEF AppFits, Remembers, FileRemembers, Answers
<1>12. Remembers(b)' /\ FileRemembers(b)'
  BY <1>1, <1>7, <1>8, <1>9, <1>11 DEF AppFits, Remembers, FileRemembers
<1>13. KeysUpTo(b, disk.app[b].count)'
  <2>1. KeysUpTo(b, app[b].count)
    BY <1>5 DEF AppFits, KeysUpTo, Standing, BuilderFits
  <2> QED BY <1>7, <1>10, <2>1 DEF AppFits
<1>14. ASSUME NEW x \in Attempts, On(x)' = b PROVE DeployFits(x)'
  <2>1. CASE op'[x].pc = "none"
    BY <2>1 DEF DeployFits, Unfinished
  <2>2. CASE op'[x].pc # "none"
    <3>1. op'[x] = op[x] /\ DeployFits(x) /\ op[x].app = b
      BY <1>2, <1>14, <2>2 DEF AppFits, On, Processes
    <3>2. \A i : OwnBuild(x, i) => OwnBuild(x, i)'
      BY DEF Builds, OwnBuild
    <3>3. op[x].pc \in {"saving", "posting"} => KeysUpTo(b, app[b].count - 1)'
      <4>1. \A n : n = app[b].count - 1 /\ KeysUpTo(b, n) => KeysUpTo(b, n)'
        BY <1>10
      <4>2. op[x].pc \in {"saving", "posting"} => KeysUpTo(b, app[b].count - 1)
        BY <3>1 DEF DeployFits, On
      <4> QED BY <1>1, <4>1, <4>2 DEF KeysUpTo
    <3>4. op[x].pc = "posting" => disk'.app[b].count = app[b].count
      BY <1>7, <3>1 DEF DeployFits, On
    <3>5. op[x].pc \in Unfinished \ {"saving"} => disk'.app[b].status = "running"
      BY <1>7, <3>1 DEF DeployFits, On
    <3> QED BY <1>1, <3>1, <3>2, <3>3, <3>4, <3>5 DEF DeployFits, On
  <2> QED BY <2>1, <2>2
<1>15. ASSUME NEW q \in Processes, On(q)' = b PROVE RunFits(q)'
  <2>1. CASE op'[q].pc = "none"
    BY <2>1 DEF RunFits, At
  <2>2. CASE op'[q].pc # "none"
    <3>1. op'[q] = op[q] /\ RunFits(q) /\ op[q].app = b
      BY <1>2, <1>15, <2>2 DEF AppFits, On
    <3>2. \A h \in app[b].hosts : route'[h] = route[h]
      BY <1>1 DEF OnFile
    <3> QED BY <1>1, <3>1, <3>2 DEF RunFits, On, At
  <2> QED BY <2>1, <2>2
<1>16. (\A q, s \in Processes : Busy(q) /\ Busy(s) /\ On(q) = b /\ On(s) = b => q = s)'
  BY <1>2 DEF AppFits, Busy, On
<1> QED BY <1>12, <1>13, <1>14, <1>15, <1>16 DEF AppFits

\* What there is to show of the application at hand.
Local(a, p) ==
  /\ Remembers(a)'
  /\ UNCHANGED disk => FileRemembers(a)'
  /\ KeysUpTo(a, disk.app[a].count)'
  /\ p \in Attempts => DeployFits(p)'
  /\ p \in Processes => RunFits(p)'
  /\ \A q \in Processes \ {p} : Busy(q) => On(q) # a

LEMMA AppKept ==
  ASSUME Standing, NEW a \in Apps, NEW p, Typed, Elsewhere(a, p), Local(a, p)
  PROVE  AppFits(a)'
<1>1. \A q \in Processes \ {p} : op'[q] = op[q] /\ (op'[q].pc # "none" => op'[q].app # a)
  BY DEF Elsewhere, Local, Busy, On
<1>2. FileRemembers(a)'
  BY DEF Local, Elsewhere, Filed, SaveState, Remembers, FileRemembers
<1>3. \A x \in Attempts : (On(x) = a => DeployFits(x))'
  BY <1>1 DEF Local, DeployFits, Unfinished, Processes, On
<1>4. \A q \in Processes : (On(q) = a => RunFits(q))'
  BY <1>1 DEF Local, RunFits, At, On
<1>5. (\A q, s \in Processes : Busy(q) /\ Busy(s) /\ On(q) = a /\ On(s) = a => q = s)'
  BY <1>1 DEF Busy, On
<1> QED BY <1>2, <1>3, <1>4, <1>5 DEF AppFits, Local

LEMMA StepKept ==
  ASSUME RuntimeInv, NEW a \in Apps, NEW p, Typed, Elsewhere(a, p), Builds(a), AppGoesOn(a, p),
         ProcessGoesOn(p), a \notin mixed' => Local(a, p)
  PROVE  RuntimeInv'
<1>1. Standing'
  BY StandingKept DEF RuntimeInv
<1>2. ASSUME NEW b \in Apps \ mixed' PROVE AppFits(b)'
  <2>1. b \notin mixed
    BY DEF Elsewhere
  <2>2. CASE b # a
    BY <2>1, <2>2, OthersFit DEF RuntimeInv
  <2>3. CASE b = a
    BY <2>3, AppKept DEF RuntimeInv
  <2> QED BY <2>2, <2>3
<1> QED BY <1>1, <1>2 DEF RuntimeInv

LEMMA Alone ==
  ASSUME RuntimeInv, NEW p \in Processes, Busy(p), On(p) \notin mixed
  PROVE  /\ On(p) \in Apps /\ AppFits(On(p))
         /\ \A q \in Processes \ {p} : Busy(q) => On(q) # On(p)
<1>1. On(p) \in Apps
  BY PiecesTyped DEF RuntimeInv, Standing
<1> QED BY <1>1 DEF RuntimeInv, AppFits

LEMMA MixedOnce ==
  ASSUME RuntimeInv, NEW a \in Apps, Mix(a)
  PROVE  /\ mixed \subseteq mixed' /\ mixed' \subseteq Apps
         /\ a \notin mixed' =>
              AppFits(a) /\ a \notin mixed /\ \A q \in Processes : Busy(q) => On(q) # a
<1>1. DOMAIN op = Processes /\ mixed \subseteq Apps
  BY DEF RuntimeInv, Standing, RuntimeType, Processes
<1> QED BY <1>1 DEF Mix, Quiet, RuntimeInv

\* Process p goes on with o; applications, records, builds and the file stay.
OperationSteps(a, p, o) ==
  /\ op' = [op EXCEPT ![p] = o]
  /\ (Busy(p) => On(p) = a) /\ (o.pc # "none" => o.app = a)
  /\ UNCHANGED <<app, record, cancelled, own, seen, asker, of, phase, did, disk, restarts>>
  /\ box' \in [Apps -> [image : Images, port : Ports \cup {NoPort}, up : BOOLEAN]]
  /\ \A b \in Apps \ {a} : box'[b] = box[b]
  /\ route' \in [Hosts -> Ports \cup {NoPort}]
  /\ \A h \in Hosts : HostApp[h] # a => route'[h] = route[h]
  /\ mixed \subseteq mixed' /\ mixed' \subseteq Apps
  /\ served' \in 0..MaxServed

LEMMA MoveFrame ==
  ASSUME Standing, NEW a \in Apps, NEW p \in Processes, NEW o \in Operation, OperationSteps(a, p, o)
  PROVE  /\ Typed /\ Elsewhere(a, p) /\ Builds(a) /\ AppGoesOn(a, p)
         /\ op'[p] = o /\ \A q \in Processes \ {p} : op'[q] = op[q]
         /\ ProcessFits(p)' => ProcessGoesOn(p)
<1>1. op' \in [Processes -> Operation] /\ op'[p] = o /\ \A q \in Processes \ {p} : op'[q] = op[q]
  BY OpTyped DEF Standing, RuntimeType, Processes, OperationSteps
<1>2. Typed
  BY <1>1 DEF Typed, Standing, RuntimeType, OperationSteps
<1>3. Elsewhere(a, p)
  BY <1>1 DEF Elsewhere, Filed, OperationSteps
<1>4. Builds(a)
  BY DEF Builds, Standing, BuilderFits, OperationSteps
<1>5. AppGoesOn(a, p)
  <2>1. OnFile(a) /\ app[a] \in AppRecord
    BY PiecesTyped DEF Standing
  <2> QED BY <2>1 DEF AppGoesOn, OnFile, AppRecord, OperationSteps
<1>6. ProcessFits(p)' => ProcessGoesOn(p)
  BY DEF ProcessGoesOn, Standing, RecordsFit, OperationSteps
<1> QED BY <1>1, <1>2, <1>3, <1>4, <1>5, <1>6

LEMMA NothingForgotten ==
  ASSUME NEW a \in Apps, AppFits(a), UNCHANGED <<app, disk, record, own, box, route>>,
         Rolling(a) => Rolling(a)', Routing(a) => Routing(a)'
  PROVE  Remembers(a)' /\ FileRemembers(a)'
BY DEF AppFits, Remembers, FileRemembers, Answers, Serves, Leads

LEMMA KeysStay ==
  ASSUME NEW a \in Apps, AppFits(a), UNCHANGED <<disk, of, phase>>
  PROVE  KeysUpTo(a, disk.app[a].count)'
BY DEF AppFits, KeysUpTo

LEMMA Processors == Control \notin Attempts /\ Attempts \subseteq Processes /\ Control \in Processes
BY RuntimeAssumption DEF Processes

LEMMA PollSucceedsKeeps ==
  ASSUME RuntimeInv, NEW x \in Attempts, NEW a \in Apps, a = On(x), PollSucceeds(x)
  PROVE  RuntimeInv'
<1> DEFINE o == [op[x] EXCEPT !.pc = "removing", !.image = op[x].build, !.before = app[a].current]
<1>0. /\ Standing /\ x \in Processes /\ op[x] \in Operation /\ app[a] \in AppRecord
      /\ ProcessFits(x)
  BY Processors, PiecesTyped DEF RuntimeInv, Standing
<1>1. /\ op' = [op EXCEPT ![x] = o] /\ op[x].pc = "polling"
      /\ UNCHANGED <<app, record, cancelled, own, seen, asker, of, phase,
                     did, disk, box, route, mixed, served, restarts>>
  BY DEF PollSucceeds, Run, At, memory, engines, builder, history, bounds
<1>2. /\ o \in Operation /\ o.pc = "removing" /\ o.app = a /\ o.image = op[x].build
      /\ o.hosts = op[x].hosts /\ o.drop = op[x].drop
  BY <1>0 DEF Operation, AppRecord, On
<1>2e. OperationSteps(a, x, o)
  BY <1>0, <1>1, <1>2 DEF OperationSteps, Standing, RuntimeType
<1> HIDE DEF o
<1>3. /\ Typed /\ Elsewhere(a, x) /\ Builds(a) /\ AppGoesOn(a, x) /\ op'[x] = o
      /\ op'[Control] = op[Control]
      /\ ProcessFits(x)' => ProcessGoesOn(x)
  BY <1>0, <1>2, <1>2e, MoveFrame, Processors
<1>4. ProcessFits(x)'
  BY <1>0, <1>1, <1>2, <1>3 DEF ProcessFits, On, At, Busy
<1>5. ASSUME a \notin mixed' PROVE Local(a, x)
  <2>1. Busy(x) /\ a \notin mixed
    BY <1>1, <1>5 DEF Busy, At
  <2>2. AppFits(a) /\ \A q \in Processes \ {x} : Busy(q) => On(q) # a
    BY <1>0, <2>1, Alone
  <2>3. Remembers(a)' /\ FileRemembers(a)'
    BY <1>0, <1>1, <1>3, <2>2, NothingForgotten DEF Rolling, Routing, On
  <2>4. DeployFits(x)
    BY <2>2 DEF AppFits
  <2>5. DeployFits(x)'
    BY <1>1, <1>2, <1>3, <2>4 DEF DeployFits, On, Unfinished, OwnBuild
  <2>6. RunFits(x)'
    BY <1>2, <1>3 DEF RunFits, At
  <2>7. KeysUpTo(a, disk.app[a].count)'
    BY <1>0, <1>1, <2>2, KeysStay
  <2> QED BY <1>1, <2>2, <2>3, <2>5, <2>6, <2>7 DEF Local
<1> QED BY <1>0, <1>3, <1>4, <1>5, StepKept

LEMMA StartedKeeps ==
  ASSUME RuntimeInv, NEW p \in Processes, NEW a \in Apps, a = On(p), Started(p)
  PROVE  RuntimeInv'
<1> DEFINE o == [op[p] EXCEPT !.pc = "inspecting"]
<1>0. /\ Standing /\ p \in Processes /\ op[p] \in Operation /\ app[a] \in AppRecord
      /\ ProcessFits(p) /\ OnFile(a) /\ disk.app[a] \in AppRecord
  BY Processors, PiecesTyped DEF RuntimeInv, Standing
<1>1. /\ op' = [op EXCEPT ![p] = o] /\ op[p].pc = "starting"
      /\ UNCHANGED <<app, record, cancelled, own, seen, asker, of, phase,
                     did, disk, route, mixed, served, restarts>>
      /\ \E up \in BOOLEAN : box' = [box EXCEPT ![a] = [image |-> op[p].image, port |-> app[a].port, up |-> up]]
  BY <1>0, RuntimeAssumption DEF Started, GoTo, At, memory, engines, builder, history, bounds
<1>2. /\ o \in Operation /\ o.pc = "inspecting" /\ o.app = a /\ o.image = op[p].image
      /\ o.hosts = op[p].hosts /\ o.drop = op[p].drop
  BY <1>0, <1>1, IdleTyped DEF Operation, AppRecord, On
<1>2a. box'[a].image = op[p].image /\ box' \in [Apps -> [image : Images, port : Ports \cup {NoPort}, up : BOOLEAN]] /\ \A b \in Apps \ {a} : box'[b] = box[b]
  <2>1. box \in [Apps -> [image : Images, port : Ports \cup {NoPort}, up : BOOLEAN]]
    BY <1>0 DEF Standing, RuntimeType
  <2>2. op[p].image \in Images /\ app[a].port \in Ports \cup {NoPort}
    BY <1>0 DEF Operation, AppRecord
  <2>3. PICK up \in BOOLEAN : box' = [box EXCEPT ![a] = [image |-> op[p].image, port |-> app[a].port, up |-> up]]
    BY <1>1
  <2> QED BY <2>1, <2>2, <2>3
<1>2c. /\ box' \in [Apps -> [image : Images, port : Ports \cup {NoPort}, up : BOOLEAN]]
       /\ \A b \in Apps \ {a} : box'[b] = box[b]
       /\ route' \in [Hosts -> Ports \cup {NoPort}]
       /\ \A g \in Hosts : HostApp[g] # a => route'[g] = route[g]
       /\ mixed \subseteq mixed' /\ mixed' \subseteq Apps /\ served' \in 0..MaxServed
  BY <1>0, <1>1, <1>2a DEF Standing, RuntimeType
<1>2d. (Busy(p) => On(p) = a) /\ (o.pc # "none" => o.app = a)
  BY <1>0, <1>1, <1>2 DEF Busy, On
<1> HIDE DEF o
<1>2e. OperationSteps(a, p, o)
  BY <1>1, <1>2c, <1>2d DEF OperationSteps
<1>3. /\ Typed /\ Elsewhere(a, p) /\ Builds(a) /\ AppGoesOn(a, p) /\ op'[p] = o
      /\ p # Control => op'[Control] = op[Control]
      /\ ProcessFits(p)' => ProcessGoesOn(p)
  BY <1>0, <1>2, <1>2e, MoveFrame, Processors
<1>4. ProcessFits(p)'
  <2>1. /\ op'[p] = o /\ On(p)' = On(p) /\ o.hosts \cup o.drop = op[p].hosts \cup op[p].drop
        /\ ~ At(p, "publishing")' /\ Busy(p) /\ op[p].pc = "starting"
    BY <1>1, <1>2, <1>3 DEF On, At, Busy
  <2>2. UNCHANGED <<app, own, seen>>
    BY <1>1
  <2> QED BY <1>0, <2>1, <2>2 DEF ProcessFits
<1>5. ASSUME a \notin mixed' PROVE Local(a, p)
  <2>1. Busy(p) /\ a \notin mixed
    BY <1>1, <1>5, <1>2a, <1>2c DEF Busy, At, StartFails
  <2>2. AppFits(a) /\ \A q \in Processes \ {p} : Busy(q) => On(q) # a
    BY <1>0, <1>1, <2>1, Alone
  <2>3. Remembers(a)' /\ FileRemembers(a)'
    <3>1. p = Control \/ (app[a].status # "succeeded" /\ disk.app[a].status # "succeeded")
      BY <1>0, <1>1, <2>2 DEF AppFits, DeployFits, Unfinished, Processes
    <3>2. p = Control => Rolling(a)'
      BY <1>2, <1>3 DEF Rolling, On
    <3>3. Routing(a) => Routing(a)'
      BY <1>1, <1>3 DEF Routing, On
    <3> QED BY <1>1, <2>2, <3>1, <3>2, <3>3 DEF AppFits, Remembers, FileRemembers,
         Answers, Serves, Leads
  <2>5. p \in Attempts => DeployFits(p)'
    <3> SUFFICES ASSUME p \in Attempts PROVE DeployFits(p)'
      OBVIOUS
    <3>1. DeployFits(p)
      BY <2>2 DEF AppFits
    <3>2. app[a].status = "running" /\ disk.app[a].status = "running"
      BY <1>1, <3>1 DEF DeployFits, Unfinished
    <3>3. op'[p].pc = "inspecting" /\ On(p)' = a /\ app' = app /\ disk' = disk
      BY <1>1, <1>2, <1>3 DEF On
    <3> QED BY <3>2, <3>3 DEF DeployFits, Unfinished
  <2>6. RunFits(p)'
    BY <1>2, <1>2a, <1>3 DEF RunFits, At, On
  <2>7. KeysUpTo(a, disk.app[a].count)'
    BY <1>0, <1>1, <2>2, KeysStay
  <2> QED BY <1>1, <2>2, <2>3, <2>5, <2>6, <2>7 DEF Local
<1> QED BY <1>0, <1>3, <1>4, <1>5, StepKept

\* One host was published, or was refused.
HostTried(p, h, ok) ==
  /\ At(p, "publishing") /\ h \in op[p].hosts
  /\ op' = [op EXCEPT ![p] = [op[p] EXCEPT !.hosts = @ \ {h}, !.ok = ok]]
  /\ \/ route' = [route EXCEPT ![h] = app[On(p)].port] /\ ok = op[p].ok
     \/ route' = route /\ ~ ok
  /\ UNCHANGED <<memory, disk, box, builder, history, bounds>>

LEMMA HostIsTried ==
  ASSUME RuntimeInv, NEW p \in Processes, NEW h \in Hosts, PublishHost(p, h)
  PROVE  \E ok \in BOOLEAN : HostTried(p, h, ok)
<1>1. op[p] \in Operation /\ op \in [Processes -> Operation]
  BY PiecesTyped DEF RuntimeInv, Standing, RuntimeType, Processes
<1>2. CASE route' = [route EXCEPT ![h] = app[On(p)].port] /\ op' = [op EXCEPT ![p].hosts = @ \ {h}]
  <2>1. [op[p] EXCEPT !.hosts = @ \ {h}] = [op[p] EXCEPT !.hosts = @ \ {h}, !.ok = op[p].ok]
    BY <1>1 DEF Operation
  <2>2. HostTried(p, h, op[p].ok)
    BY <1>2, <2>1 DEF HostTried, PublishHost
  <2> QED BY <1>1, <2>2 DEF Operation
<1>3. CASE route' = route /\ op' = [op EXCEPT ![p].hosts = @ \ {h}, ![p].ok = FALSE]
  <2>1. op' = [op EXCEPT ![p] = [op[p] EXCEPT !.hosts = @ \ {h}, !.ok = FALSE]]
    BY <1>1, <1>3
  <2> QED BY <1>3, <2>1 DEF HostTried, PublishHost
<1> QED BY <1>2, <1>3 DEF PublishHost

LEMMA HostTriedKeeps ==
  ASSUME RuntimeInv, NEW p \in Processes, NEW a \in Apps, a = On(p), NEW h \in Hosts, NEW ok \in BOOLEAN,
         HostTried(p, h, ok)
  PROVE  RuntimeInv'
<1> DEFINE o == [op[p] EXCEPT !.hosts = @ \ {h}, !.ok = ok]
<1>0. /\ Standing /\ p \in Processes /\ op[p] \in Operation /\ app[a] \in AppRecord
      /\ ProcessFits(p) /\ OnFile(a) /\ disk.app[a] \in AppRecord
  BY Processors, PiecesTyped DEF RuntimeInv, Standing
<1>1. /\ op' = [op EXCEPT ![p] = o] /\ op[p].pc = "publishing" /\ h \in op[p].hosts
      /\ UNCHANGED <<app, record, cancelled, own, seen, asker, of, phase,
                     did, disk, box, mixed, served, restarts>>
      /\ \/ route' = [route EXCEPT ![h] = app[a].port] /\ ok = op[p].ok
         \/ route' = route /\ ~ ok
  BY <1>0, RuntimeAssumption DEF HostTried, At, memory, engines, builder, history, bounds
<1>2. /\ o \in Operation /\ o.pc = "publishing" /\ o.app = a /\ o.ok = ok /\ o.hosts = op[p].hosts \ {h} /\ o.drop = op[p].drop
  BY <1>0, <1>1, IdleTyped DEF Operation, AppRecord, On
<1>2a. (ok => op[p].ok /\ route'[h] = app[a].port) /\ HostApp[h] = a
        /\ (\A g \in Hosts \ {h} : route'[g] = route[g])
        /\ route'[h] \in {app[a].port, route[h]} /\ route' \in [Hosts -> Ports \cup {NoPort}] /\ \A g \in Hosts : HostApp[g] # a => route'[g] = route[g]
  <2>1. route \in [Hosts -> Ports \cup {NoPort}] /\ app[a].port \in Ports \cup {NoPort}
    BY <1>0 DEF Standing, RuntimeType, AppRecord
  <2>2. HostApp[h] = a
    BY <1>0, <1>1 DEF ProcessFits, On
  <2>3. CASE route' = [route EXCEPT ![h] = app[a].port] /\ ok = op[p].ok
    BY <2>1, <2>2, <2>3
  <2>4. CASE route' = route /\ ~ ok
    BY <2>1, <2>2, <2>4
  <2> QED BY <1>1, <2>3, <2>4
<1>2c. /\ box' \in [Apps -> [image : Images, port : Ports \cup {NoPort}, up : BOOLEAN]]
       /\ \A b \in Apps \ {a} : box'[b] = box[b]
       /\ route' \in [Hosts -> Ports \cup {NoPort}]
       /\ \A g \in Hosts : HostApp[g] # a => route'[g] = route[g]
       /\ mixed \subseteq mixed' /\ mixed' \subseteq Apps /\ served' \in 0..MaxServed
  BY <1>0, <1>1, <1>2a DEF Standing, RuntimeType
<1>2d. (Busy(p) => On(p) = a) /\ (o.pc # "none" => o.app = a)
  BY <1>0, <1>1, <1>2 DEF Busy, On
<1> HIDE DEF o
<1>2e. OperationSteps(a, p, o)
  BY <1>1, <1>2c, <1>2d DEF OperationSteps
<1>3. /\ Typed /\ Elsewhere(a, p) /\ Builds(a) /\ AppGoesOn(a, p) /\ op'[p] = o
      /\ p # Control => op'[Control] = op[Control]
      /\ ProcessFits(p)' => ProcessGoesOn(p)
  BY <1>0, <1>2, <1>2e, MoveFrame, Processors
<1>4. ProcessFits(p)'
  BY <1>0, <1>1, <1>2, <1>2a, <1>2c, <1>3, Processors DEF ProcessFits, On, At, Busy
<1>5. ASSUME a \notin mixed' PROVE Local(a, p)
  <2>1. Busy(p) /\ a \notin mixed
    BY <1>1, <1>5, <1>2a, <1>2c DEF Busy, At, StartFails
  <2>2. AppFits(a) /\ \A q \in Processes \ {p} : Busy(q) => On(q) # a
    BY <1>0, <1>1, <2>1, Alone
  <2>3. Remembers(a)' /\ FileRemembers(a)'
    <3>1. (Rolling(a) => Rolling(a)') /\ (Routing(a) => Routing(a)')
      BY <1>1, <1>2, <1>3 DEF Rolling, Routing, On
    <3>2. \A r \in AppRecord : r.port = app[a].port /\ Leads(a, r) => Leads(a, r)'
      BY <1>2a, <3>1 DEF Leads, AppRecord
    <3>3. disk.app[a].routed => disk.app[a].port = app[a].port
      BY <1>0 DEF OnFile
    <3>4. Leads(a, disk.app[a]) => Leads(a, disk.app[a])'
      BY <1>0, <1>1, <3>2, <3>3 DEF Leads
    <3> QED BY <1>0, <1>1, <2>2, <3>1, <3>2, <3>4 DEF AppFits, Remembers, FileRemembers,
         Answers, Serves
  <2>5. p \in Attempts => DeployFits(p)'
    BY <1>0, <1>1, <1>2, <1>3, <2>2 DEF AppFits, DeployFits, On, Unfinished
  <2>6. RunFits(p)'
    <3>1. RunFits(p) /\ app[a].hosts \subseteq Hosts
      BY <1>0, <2>2 DEF AppFits, AppRecord
    <3> QED BY <1>1, <1>2, <1>2a, <1>3, <3>1 DEF RunFits, At, On
  <2>7. KeysUpTo(a, disk.app[a].count)'
    BY <1>0, <1>1, <2>2, KeysStay
  <2> QED BY <1>1, <2>2, <2>3, <2>5, <2>6, <2>7 DEF Local
<1> QED BY <1>0, <1>3, <1>4, <1>5, StepKept

LEMMA WithdrawHostKeeps ==
  ASSUME RuntimeInv, NEW a \in Apps, a = On(Control), NEW h \in Hosts, WithdrawHost(h)
  PROVE  RuntimeInv'
<1> DEFINE o == [op[Control] EXCEPT !.drop = @ \ {h}]
<1>0. /\ Standing /\ Control \in Processes /\ op[Control] \in Operation /\ app[a] \in AppRecord
      /\ ProcessFits(Control) /\ OnFile(a) /\ disk.app[a] \in AppRecord
  BY Processors, PiecesTyped DEF RuntimeInv, Standing
<1>1. /\ op' = [op EXCEPT ![Control] = o] /\ op[Control].pc \in {"withdrawing", "releasing"} /\ h \in op[Control].drop
      /\ UNCHANGED <<app, record, cancelled, own, seen, asker, of, phase,
                     did, disk, box, mixed, served, restarts>>
      /\ route' = [route EXCEPT ![h] = NoPort] \/ route' = route
  BY <1>0, RuntimeAssumption DEF WithdrawHost, At, memory, engines, builder, history, bounds
<1>2. /\ o \in Operation /\ o.pc = op[Control].pc /\ o.app = a /\ o.hosts = op[Control].hosts /\ o.drop = op[Control].drop \ {h}
  BY <1>0, <1>1, IdleTyped DEF Operation, AppRecord, On
<1>2a. route' \in [Hosts -> Ports \cup {NoPort}] /\ \A g \in Hosts : HostApp[g] # a => route'[g] = route[g]
  <2>1. route \in [Hosts -> Ports \cup {NoPort}] /\ HostApp[h] = a
    BY <1>0, <1>1 DEF Standing, RuntimeType, ProcessFits, On
  <2> QED BY <1>1, <2>1
<1>2c. /\ box' \in [Apps -> [image : Images, port : Ports \cup {NoPort}, up : BOOLEAN]]
       /\ \A b \in Apps \ {a} : box'[b] = box[b]
       /\ route' \in [Hosts -> Ports \cup {NoPort}]
       /\ \A g \in Hosts : HostApp[g] # a => route'[g] = route[g]
       /\ mixed \subseteq mixed' /\ mixed' \subseteq Apps /\ served' \in 0..MaxServed
  BY <1>0, <1>1, <1>2a DEF Standing, RuntimeType
<1>2d. (Busy(Control) => On(Control) = a) /\ (o.pc # "none" => o.app = a)
  BY <1>0, <1>1, <1>2 DEF Busy, On
<1> HIDE DEF o
<1>2e. OperationSteps(a, Control, o)
  BY <1>1, <1>2c, <1>2d DEF OperationSteps
<1>3. /\ Typed /\ Elsewhere(a, Control) /\ Builds(a) /\ AppGoesOn(a, Control) /\ op'[Control] = o
      /\ Control # Control => op'[Control] = op[Control]
      /\ ProcessFits(Control)' => ProcessGoesOn(Control)
  BY <1>0, <1>2, <1>2e, MoveFrame, Processors
<1>4. ProcessFits(Control)'
  BY <1>0, <1>1, <1>2, <1>2a, <1>2c, <1>3, Processors DEF ProcessFits, On, At, Busy
<1>5. ASSUME a \notin mixed' PROVE Local(a, Control)
  <2>1. Busy(Control) /\ a \notin mixed
    BY <1>1, <1>5, <1>2a, <1>2c DEF Busy, At, StartFails
  <2>2. AppFits(a) /\ \A q \in Processes \ {Control} : Busy(q) => On(q) # a
    BY <1>0, <1>1, <2>1, Alone
  <2>3. Remembers(a)' /\ FileRemembers(a)'
    <3>1. (Rolling(a) => Rolling(a)') /\ Routing(a)'
      BY <1>1, <1>2, <1>3 DEF Rolling, Routing, On
    <3> QED BY <1>1, <2>2, <3>1 DEF AppFits, Remembers, FileRemembers, Answers, Serves, Leads
  <2>5. Control \notin Attempts
    BY Processors
  <2>6. RunFits(Control)'
    BY <1>0, <1>1, <1>2, <1>3, <2>2 DEF AppFits, RunFits, At, On
  <2>7. KeysUpTo(a, disk.app[a].count)'
    BY <1>0, <1>1, <2>2, KeysStay
  <2> QED BY <1>1, <2>2, <2>3, <2>5, <2>6, <2>7 DEF Local
<1> QED BY <1>0, <1>3, <1>4, <1>5, StepKept

LEMMA AllWithdrawnKeeps ==
  ASSUME RuntimeInv, NEW a \in Apps, a = On(Control), AllWithdrawn
  PROVE  RuntimeInv'
<1> DEFINE o == [op[Control] EXCEPT !.pc = "publishing",
                   !.hosts = IF app[a].port = NoPort THEN {} ELSE @, !.ok = app[a].port # NoPort]
<1>0. /\ Standing /\ Control \in Processes /\ op[Control] \in Operation /\ app[a] \in AppRecord
      /\ ProcessFits(Control) /\ OnFile(a) /\ disk.app[a] \in AppRecord
  BY Processors, PiecesTyped DEF RuntimeInv, Standing
<1>1. /\ op' = [op EXCEPT ![Control] = o] /\ op[Control].pc = "withdrawing"
      /\ UNCHANGED <<app, record, cancelled, own, seen, asker, of, phase,
                     did, disk, box, route, mixed, served, restarts>>
  BY <1>0, RuntimeAssumption DEF AllWithdrawn, At, memory, engines, builder, history, bounds
<1>2. /\ o \in Operation /\ o.pc = "publishing" /\ o.app = a /\ o.hosts \subseteq op[Control].hosts
      /\ o.drop = op[Control].drop /\ o.ok = (app[a].port # NoPort) /\ (o.ok => o.hosts = op[Control].hosts)
  BY <1>0, <1>1, IdleTyped DEF Operation, AppRecord, On
<1>2c. /\ box' \in [Apps -> [image : Images, port : Ports \cup {NoPort}, up : BOOLEAN]]
       /\ \A b \in Apps \ {a} : box'[b] = box[b]
       /\ route' \in [Hosts -> Ports \cup {NoPort}]
       /\ \A g \in Hosts : HostApp[g] # a => route'[g] = route[g]
       /\ mixed \subseteq mixed' /\ mixed' \subseteq Apps /\ served' \in 0..MaxServed
  BY <1>0, <1>1 DEF Standing, RuntimeType
<1>2d. (Busy(Control) => On(Control) = a) /\ (o.pc # "none" => o.app = a)
  BY <1>0, <1>1, <1>2 DEF Busy, On
<1> HIDE DEF o
<1>2e. OperationSteps(a, Control, o)
  BY <1>1, <1>2c, <1>2d DEF OperationSteps
<1>3. /\ Typed /\ Elsewhere(a, Control) /\ Builds(a) /\ AppGoesOn(a, Control) /\ op'[Control] = o
      /\ Control # Control => op'[Control] = op[Control]
      /\ ProcessFits(Control)' => ProcessGoesOn(Control)
  BY <1>0, <1>2, <1>2e, MoveFrame, Processors
<1>4. ProcessFits(Control)'
  BY <1>0, <1>1, <1>2, <1>2c, <1>3, Processors, ZenonT(60) DEF ProcessFits, On, At, Busy
<1>5. ASSUME a \notin mixed' PROVE Local(a, Control)
  <2>1. Busy(Control) /\ a \notin mixed
    BY <1>1, <1>5, <1>2c DEF Busy, At, StartFails
  <2>2. AppFits(a) /\ \A q \in Processes \ {Control} : Busy(q) => On(q) # a
    BY <1>0, <1>1, <2>1, Alone
  <2>3. Remembers(a)' /\ FileRemembers(a)'
    BY <1>0, <1>1, <1>2, <1>3, <2>2, NothingForgotten, Processors DEF Rolling, Routing, On
  <2>5. Control \notin Attempts
    BY Processors
  <2>6. RunFits(Control)'
    <3>1. app' = app /\ box' = box /\ route' = route /\ op'[Control] = o
      BY <1>1, <1>3
    <3>2. app[a].hosts \subseteq op[Control].hosts
      BY <1>0, <1>1, <2>2 DEF AppFits, RunFits, At
    <3> QED BY <1>2, <3>1, <3>2 DEF RunFits, At, On
  <2>7. KeysUpTo(a, disk.app[a].count)'
    BY <1>0, <1>1, <2>2, KeysStay
  <2> QED BY <1>1, <2>2, <2>3, <2>5, <2>6, <2>7 DEF Local
<1> QED BY <1>0, <1>3, <1>4, <1>5, StepKept

LEMMA BoxDestroyedKeeps ==
  ASSUME RuntimeInv, NEW a \in Apps, a = On(Control), BoxDestroyed
  PROVE  RuntimeInv'
<1> DEFINE o == [op[Control] EXCEPT !.pc = "releasing", !.drop = app[a].hosts]
<1>0. /\ Standing /\ Control \in Processes /\ op[Control] \in Operation /\ app[a] \in AppRecord
      /\ ProcessFits(Control) /\ OnFile(a) /\ disk.app[a] \in AppRecord
  BY Processors, PiecesTyped DEF RuntimeInv, Standing
<1>1. /\ op' = [op EXCEPT ![Control] = o] /\ op[Control].pc = "destroying"
      /\ UNCHANGED <<app, record, cancelled, own, seen, asker, of, phase,
                     did, disk, route, mixed, served, restarts>>
      /\ box' = [box EXCEPT ![a] = NoBox]
  BY <1>0, RuntimeAssumption DEF BoxDestroyed, At, memory, engines, builder, history, bounds
<1>2. /\ o \in Operation /\ o.pc = "releasing" /\ o.app = a /\ o.hosts = op[Control].hosts /\ o.drop = app[a].hosts
  BY <1>0, <1>1, IdleTyped DEF Operation, AppRecord, On
<1>2a. ~ box'[a].up /\ box' \in [Apps -> [image : Images, port : Ports \cup {NoPort}, up : BOOLEAN]] /\ \A b \in Apps \ {a} : box'[b] = box[b]
  <2>1. box \in [Apps -> [image : Images, port : Ports \cup {NoPort}, up : BOOLEAN]]
    BY <1>0 DEF Standing, RuntimeType
  <2>2. NoBox \in [image : Images, port : Ports \cup {NoPort}, up : BOOLEAN] /\ ~ NoBox.up
    BY DEF NoBox, Images, NoImage
  <2> QED BY <1>1, <2>1, <2>2
<1>2c. /\ box' \in [Apps -> [image : Images, port : Ports \cup {NoPort}, up : BOOLEAN]]
       /\ \A b \in Apps \ {a} : box'[b] = box[b]
       /\ route' \in [Hosts -> Ports \cup {NoPort}]
       /\ \A g \in Hosts : HostApp[g] # a => route'[g] = route[g]
       /\ mixed \subseteq mixed' /\ mixed' \subseteq Apps /\ served' \in 0..MaxServed
  BY <1>0, <1>1, <1>2a DEF Standing, RuntimeType
<1>2d. (Busy(Control) => On(Control) = a) /\ (o.pc # "none" => o.app = a)
  BY <1>0, <1>1, <1>2 DEF Busy, On
<1> HIDE DEF o
<1>2e. OperationSteps(a, Control, o)
  BY <1>1, <1>2c, <1>2d DEF OperationSteps
<1>3. /\ Typed /\ Elsewhere(a, Control) /\ Builds(a) /\ AppGoesOn(a, Control) /\ op'[Control] = o
      /\ Control # Control => op'[Control] = op[Control]
      /\ ProcessFits(Control)' => ProcessGoesOn(Control)
  BY <1>0, <1>2, <1>2e, MoveFrame, Processors
<1>4. ProcessFits(Control)'
  <2>1. \A h \in o.hosts \cup o.drop : HostApp[h] = a
    BY <1>0, <1>2 DEF ProcessFits, OnFile
  <2>2. app[a].there /\ app' = app /\ Control \notin Attempts
    BY <1>0, <1>1, Processors DEF ProcessFits, Busy
  <2> QED BY <1>2, <1>3, <2>1, <2>2 DEF ProcessFits, On, At
<1>5. ASSUME a \notin mixed' PROVE Local(a, Control)
  <2>1. Busy(Control) /\ a \notin mixed
    BY <1>1, <1>5, <1>2a, <1>2c DEF Busy, At, StartFails
  <2>2. AppFits(a) /\ \A q \in Processes \ {Control} : Busy(q) => On(q) # a
    BY <1>0, <1>1, <2>1, Alone
  <2>3. Remembers(a)' /\ FileRemembers(a)'
    <3>1. Routing(a)'
      BY <1>2, <1>3 DEF Routing, On
    <3> QED BY <1>1, <1>2a, <2>2, <3>1 DEF AppFits, Remembers, FileRemembers, Answers,
         Serves, Leads
  <2>5. Control \notin Attempts
    BY Processors
  <2>6. RunFits(Control)'
    BY <1>2, <1>3 DEF RunFits, At
  <2>7. KeysUpTo(a, disk.app[a].count)'
    BY <1>0, <1>1, <2>2, KeysStay
  <2> QED BY <1>1, <2>2, <2>3, <2>5, <2>6, <2>7 DEF Local
<1> QED BY <1>0, <1>3, <1>4, <1>5, StepKept

LEMMA ProbeKeeps ==
  ASSUME RuntimeInv, NEW a \in Apps, Probe(a)
  PROVE  RuntimeInv'
<1> DEFINE o == [Idle EXCEPT !.pc = "probing", !.app = a]
<1>0. /\ Standing /\ Control \in Processes /\ op[Control] \in Operation /\ app[a] \in AppRecord
      /\ ProcessFits(Control) /\ OnFile(a) /\ disk.app[a] \in AppRecord
  BY Processors, PiecesTyped DEF RuntimeInv, Standing
<1>1. /\ op' = [op EXCEPT ![Control] = o] /\ op[Control].pc = "none"
      /\ UNCHANGED <<app, record, cancelled, own, seen, asker, of,
                     phase, did, disk, box, route, restarts>>
      /\ app[a].there /\ served' \in 0..MaxServed
      /\ Mix(a)
  BY <1>0, RuntimeAssumption DEF Probe, Serve, Begin, Busy, RuntimeInv, Standing,
       RuntimeType, At, memory, engines, builder, history, bounds
<1>2. /\ o \in Operation /\ o.pc = "probing" /\ o.app = a /\ o.hosts = {} /\ o.drop = {}
  BY <1>0, <1>1, IdleTyped DEF Operation, AppRecord, On
<1>2b. /\ mixed \subseteq mixed' /\ mixed' \subseteq Apps
       /\ a \notin mixed' => AppFits(a) /\ a \notin mixed /\ \A q \in Processes : Busy(q) => On(q) # a
  BY <1>1, MixedOnce
<1>2c. /\ box' \in [Apps -> [image : Images, port : Ports \cup {NoPort}, up : BOOLEAN]]
       /\ \A b \in Apps \ {a} : box'[b] = box[b]
       /\ route' \in [Hosts -> Ports \cup {NoPort}]
       /\ \A g \in Hosts : HostApp[g] # a => route'[g] = route[g]
       /\ mixed \subseteq mixed' /\ mixed' \subseteq Apps /\ served' \in 0..MaxServed
  BY <1>0, <1>1, <1>2b DEF Standing, RuntimeType
<1>2d. (Busy(Control) => On(Control) = a) /\ (o.pc # "none" => o.app = a)
  BY <1>0, <1>1, <1>2 DEF Busy, On
<1> HIDE DEF o
<1>2e. OperationSteps(a, Control, o)
  BY <1>1, <1>2c, <1>2d DEF OperationSteps
<1>3. /\ Typed /\ Elsewhere(a, Control) /\ Builds(a) /\ AppGoesOn(a, Control) /\ op'[Control] = o
      /\ Control # Control => op'[Control] = op[Control]
      /\ ProcessFits(Control)' => ProcessGoesOn(Control)
  BY <1>0, <1>2, <1>2e, MoveFrame, Processors
<1>4. ProcessFits(Control)'
  BY <1>0, <1>1, <1>2, <1>2b, <1>2c, <1>3, Processors DEF ProcessFits, On, At, Busy
<1>5. ASSUME a \notin mixed' PROVE Local(a, Control)
  <2>2. AppFits(a) /\ \A q \in Processes \ {Control} : Busy(q) => On(q) # a
    BY <1>2b, <1>5
  <2>3. Remembers(a)' /\ FileRemembers(a)'
    BY <1>0, <1>1, <1>2, <1>3, <2>2, NothingForgotten, Processors DEF Rolling, Routing, On
  <2>5. Control \notin Attempts
    BY Processors
  <2>6. RunFits(Control)'
    BY <1>2, <1>3 DEF RunFits, At
  <2>7. KeysUpTo(a, disk.app[a].count)'
    BY <1>0, <1>1, <2>2, KeysStay
  <2> QED BY <1>1, <2>2, <2>3, <2>5, <2>6, <2>7 DEF Local
<1> QED BY <1>0, <1>3, <1>4, <1>5, StepKept

LEMMA DestroyKeeps ==
  ASSUME RuntimeInv, NEW a \in Apps, Destroy(a)
  PROVE  RuntimeInv'
<1> DEFINE o == [Idle EXCEPT !.pc = "destroying", !.app = a]
<1>0. /\ Standing /\ Control \in Processes /\ op[Control] \in Operation /\ app[a] \in AppRecord
      /\ ProcessFits(Control) /\ OnFile(a) /\ disk.app[a] \in AppRecord
  BY Processors, PiecesTyped DEF RuntimeInv, Standing
<1>1. /\ op' = [op EXCEPT ![Control] = o] /\ op[Control].pc = "none"
      /\ UNCHANGED <<app, record, cancelled, own, seen, asker, of,
                     phase, did, disk, box, route, restarts>>
      /\ app[a].there /\ served' \in 0..MaxServed
      /\ Mix(a)
  BY <1>0, RuntimeAssumption DEF Destroy, Serve, Begin, Busy, RuntimeInv, Standing,
       RuntimeType, At, memory, engines, builder, history, bounds
<1>2. /\ o \in Operation /\ o.pc = "destroying" /\ o.app = a /\ o.hosts = {} /\ o.drop = {}
  BY <1>0, <1>1, IdleTyped DEF Operation, AppRecord, On
<1>2b. /\ mixed \subseteq mixed' /\ mixed' \subseteq Apps
       /\ a \notin mixed' => AppFits(a) /\ a \notin mixed /\ \A q \in Processes : Busy(q) => On(q) # a
  BY <1>1, MixedOnce
<1>2c. /\ box' \in [Apps -> [image : Images, port : Ports \cup {NoPort}, up : BOOLEAN]]
       /\ \A b \in Apps \ {a} : box'[b] = box[b]
       /\ route' \in [Hosts -> Ports \cup {NoPort}]
       /\ \A g \in Hosts : HostApp[g] # a => route'[g] = route[g]
       /\ mixed \subseteq mixed' /\ mixed' \subseteq Apps /\ served' \in 0..MaxServed
  BY <1>0, <1>1, <1>2b DEF Standing, RuntimeType
<1>2d. (Busy(Control) => On(Control) = a) /\ (o.pc # "none" => o.app = a)
  BY <1>0, <1>1, <1>2 DEF Busy, On
<1> HIDE DEF o
<1>2e. OperationSteps(a, Control, o)
  BY <1>1, <1>2c, <1>2d DEF OperationSteps
<1>3. /\ Typed /\ Elsewhere(a, Control) /\ Builds(a) /\ AppGoesOn(a, Control) /\ op'[Control] = o
      /\ Control # Control => op'[Control] = op[Control]
      /\ ProcessFits(Control)' => ProcessGoesOn(Control)
  BY <1>0, <1>2, <1>2e, MoveFrame, Processors
<1>4. ProcessFits(Control)'
  BY <1>0, <1>1, <1>2, <1>2b, <1>2c, <1>3, Processors DEF ProcessFits, On, At, Busy
<1>5. ASSUME a \notin mixed' PROVE Local(a, Control)
  <2>2. AppFits(a) /\ \A q \in Processes \ {Control} : Busy(q) => On(q) # a
    BY <1>2b, <1>5
  <2>3. Remembers(a)' /\ FileRemembers(a)'
    BY <1>0, <1>1, <1>2, <1>3, <2>2, NothingForgotten, Processors DEF Rolling, Routing, On
  <2>5. Control \notin Attempts
    BY Processors
  <2>6. RunFits(Control)'
    BY <1>2, <1>3 DEF RunFits, At
  <2>7. KeysUpTo(a, disk.app[a].count)'
    BY <1>0, <1>1, <2>2, KeysStay
  <2> QED BY <1>1, <2>2, <2>3, <2>5, <2>6, <2>7 DEF Local
<1> QED BY <1>0, <1>3, <1>4, <1>5, StepKept

LEMMA RollbackKeeps ==
  ASSUME RuntimeInv, NEW a \in Apps, Rollback(a)
  PROVE  RuntimeInv'
<1> DEFINE o == [Idle EXCEPT !.pc = "removing", !.app = a, !.image = app[a].previous]
<1>0. /\ Standing /\ Control \in Processes /\ op[Control] \in Operation /\ app[a] \in AppRecord
      /\ ProcessFits(Control) /\ OnFile(a) /\ disk.app[a] \in AppRecord
  BY Processors, PiecesTyped DEF RuntimeInv, Standing
<1>1. /\ op' = [op EXCEPT ![Control] = o] /\ op[Control].pc = "none"
      /\ UNCHANGED <<app, record, cancelled, own, seen, asker, of,
                     phase, did, disk, box, route, restarts>>
      /\ app[a].there /\ served' \in 0..MaxServed
      /\ Mix(a)
  BY <1>0, RuntimeAssumption DEF Rollback, Serve, Begin, Busy, RuntimeInv, Standing,
       RuntimeType, At, memory, engines, builder, history, bounds
<1>2. /\ o \in Operation /\ o.pc = "removing" /\ o.app = a /\ o.hosts = {} /\ o.drop = {}
  BY <1>0, <1>1, IdleTyped DEF Operation, AppRecord, On
<1>2b. /\ mixed \subseteq mixed' /\ mixed' \subseteq Apps
       /\ a \notin mixed' => AppFits(a) /\ a \notin mixed /\ \A q \in Processes : Busy(q) => On(q) # a
  BY <1>1, MixedOnce
<1>2c. /\ box' \in [Apps -> [image : Images, port : Ports \cup {NoPort}, up : BOOLEAN]]
       /\ \A b \in Apps \ {a} : box'[b] = box[b]
       /\ route' \in [Hosts -> Ports \cup {NoPort}]
       /\ \A g \in Hosts : HostApp[g] # a => route'[g] = route[g]
       /\ mixed \subseteq mixed' /\ mixed' \subseteq Apps /\ served' \in 0..MaxServed
  BY <1>0, <1>1, <1>2b DEF Standing, RuntimeType
<1>2d. (Busy(Control) => On(Control) = a) /\ (o.pc # "none" => o.app = a)
  BY <1>0, <1>1, <1>2 DEF Busy, On
<1> HIDE DEF o
<1>2e. OperationSteps(a, Control, o)
  BY <1>1, <1>2c, <1>2d DEF OperationSteps
<1>3. /\ Typed /\ Elsewhere(a, Control) /\ Builds(a) /\ AppGoesOn(a, Control) /\ op'[Control] = o
      /\ Control # Control => op'[Control] = op[Control]
      /\ ProcessFits(Control)' => ProcessGoesOn(Control)
  BY <1>0, <1>2, <1>2e, MoveFrame, Processors
<1>4. ProcessFits(Control)'
  BY <1>0, <1>1, <1>2, <1>2b, <1>2c, <1>3, Processors DEF ProcessFits, On, At, Busy
<1>5. ASSUME a \notin mixed' PROVE Local(a, Control)
  <2>2. AppFits(a) /\ \A q \in Processes \ {Control} : Busy(q) => On(q) # a
    BY <1>2b, <1>5
  <2>3. Remembers(a)' /\ FileRemembers(a)'
    BY <1>0, <1>1, <1>2, <1>3, <2>2, NothingForgotten, Processors DEF Rolling, Routing, On
  <2>5. Control \notin Attempts
    BY Processors
  <2>6. RunFits(Control)'
    BY <1>2, <1>3 DEF RunFits, At
  <2>7. KeysUpTo(a, disk.app[a].count)'
    BY <1>0, <1>1, <2>2, KeysStay
  <2> QED BY <1>1, <2>2, <2>3, <2>5, <2>6, <2>7 DEF Local
<1> QED BY <1>0, <1>3, <1>4, <1>5, StepKept

LEMMA RollbackFailsKeeps ==
  ASSUME RuntimeInv, NEW a \in Apps, a = On(Control), RollbackFails
  PROVE  RuntimeInv'
<1> DEFINE o == Idle
<1>0. /\ Standing /\ Control \in Processes /\ op[Control] \in Operation /\ app[a] \in AppRecord
      /\ ProcessFits(Control) /\ OnFile(a) /\ disk.app[a] \in AppRecord
  BY Processors, PiecesTyped DEF RuntimeInv, Standing
<1>1. /\ op' = [op EXCEPT ![Control] = o] /\ op[Control].pc \in {"starting", "inspecting"}
      /\ UNCHANGED <<app, record, cancelled, own, seen, asker, of, phase,
                     did, disk, box, route, served, restarts>>
      /\ mixed' = (IF box[a].up THEN mixed \cup {a} ELSE mixed)
  BY <1>0, RuntimeAssumption DEF RollbackFails, Leave, StartFails, At, memory, engines,
       builder, history, bounds
<1>2. /\ o \in Operation /\ o.pc = "none" /\ o.hosts = {} /\ o.drop = {}
  BY <1>0, <1>1, IdleTyped DEF Operation, AppRecord, On
<1>2a. mixed \subseteq mixed' /\ mixed' \subseteq Apps /\ (a \notin mixed' => a \notin mixed /\ ~ box[a].up)
  <2>1. mixed \subseteq Apps
    BY <1>0 DEF Standing, RuntimeType
  <2>2. CASE box[a].up
    BY <1>1, <2>1, <2>2
  <2>3. CASE ~ box[a].up
    BY <1>1, <2>1, <2>3
  <2> QED BY <2>2, <2>3
<1>2c. /\ box' \in [Apps -> [image : Images, port : Ports \cup {NoPort}, up : BOOLEAN]]
       /\ \A b \in Apps \ {a} : box'[b] = box[b]
       /\ route' \in [Hosts -> Ports \cup {NoPort}]
       /\ \A g \in Hosts : HostApp[g] # a => route'[g] = route[g]
       /\ mixed \subseteq mixed' /\ mixed' \subseteq Apps /\ served' \in 0..MaxServed
  BY <1>0, <1>1, <1>2a DEF Standing, RuntimeType
<1>2d. (Busy(Control) => On(Control) = a) /\ (o.pc # "none" => o.app = a)
  BY <1>0, <1>1, <1>2 DEF Busy, On
<1> HIDE DEF o
<1>2e. OperationSteps(a, Control, o)
  BY <1>1, <1>2c, <1>2d DEF OperationSteps
<1>3. /\ Typed /\ Elsewhere(a, Control) /\ Builds(a) /\ AppGoesOn(a, Control) /\ op'[Control] = o
      /\ Control # Control => op'[Control] = op[Control]
      /\ ProcessFits(Control)' => ProcessGoesOn(Control)
  BY <1>0, <1>2, <1>2e, MoveFrame, Processors
<1>4. ProcessFits(Control)'
  BY <1>0, <1>1, <1>2, <1>2a, <1>2c, <1>3, Processors DEF ProcessFits, On, At, Busy
<1>5. ASSUME a \notin mixed' PROVE Local(a, Control)
  <2>1. Busy(Control) /\ a \notin mixed
    BY <1>1, <1>5, <1>2a, <1>2c DEF Busy, At, StartFails
  <2>2. AppFits(a) /\ \A q \in Processes \ {Control} : Busy(q) => On(q) # a
    BY <1>0, <1>1, <2>1, Alone
  <2>3. Remembers(a)' /\ FileRemembers(a)'
    <3>1. ~ box[a].up /\ ~ Routing(a)
      BY <1>1, <1>2a, <1>5 DEF Routing
    <3> QED BY <1>1, <2>2, <3>1 DEF AppFits, Remembers, FileRemembers, Answers, Serves, Leads
  <2>5. Control \notin Attempts
    BY Processors
  <2>6. RunFits(Control)'
    BY <1>2, <1>3 DEF RunFits, At
  <2>7. KeysUpTo(a, disk.app[a].count)'
    BY <1>0, <1>1, <2>2, KeysStay
  <2> QED BY <1>1, <2>2, <2>3, <2>5, <2>6, <2>7 DEF Local
<1> QED BY <1>0, <1>3, <1>4, <1>5, StepKept

-----------------------------------------------------------------------------
(* Requests that act at once, containers that exit, builds that end, and   *)
(* the process stopping.                                                   *)

\* Nobody's step: a request that acts at once, and a container that exits.
LEMMA Noone == \E p : p \notin Processes
BY NoSetContainsEverything

Aside(a, r) ==
  /\ app' = [app EXCEPT ![a] = r] /\ SaveState
  /\ UNCHANGED <<record, op, own, seen, asker, of, phase, did, box, route, restarts>>
  /\ cancelled' \subseteq Attempts /\ served' \in 0..MaxServed
  /\ mixed \subseteq mixed' /\ mixed' \subseteq Apps
  /\ a \notin mixed' => a \notin mixed /\ \A q \in Processes : Busy(q) => On(q) # a
  /\ r.attempts = app[a].attempts /\ r.count = app[a].count /\ r.port = app[a].port
  /\ r.status # "succeeded"
  /\ r.there /\ (app[a].there \/ r.port = NoPort)
  /\ r.routed => app[a].routed /\ r.hosts = app[a].hosts /\ app[a].there
  /\ \A h \in r.hosts : HostApp[h] = a

LEMMA AsideKeeps ==
  ASSUME RuntimeInv, NEW a \in Apps, NEW r \in AppRecord, Aside(a, r)
  PROVE  RuntimeInv'
<1>0. /\ Standing /\ app[a] \in AppRecord /\ OnFile(a) /\ disk.app[a] \in AppRecord
  BY PiecesTyped DEF RuntimeInv, Standing
<1>1. PICK p : p \notin Processes
  BY Noone
<1>2. app' \in [Apps -> AppRecord] /\ app'[a] = r /\ \A b \in Apps \ {a} : app'[b] = app[b]
  BY <1>0 DEF Aside, Standing, RuntimeType
<1>3. Typed
  BY <1>0, <1>2 DEF Typed, Aside, Standing, RuntimeType, Processes
<1>4. Elsewhere(a, p)
  BY <1>1, <1>2 DEF Elsewhere, Filed, Aside, Processes
<1>5. Builds(a)
  BY <1>0 DEF Builds, Standing, BuilderFits, Aside
<1>6. AppGoesOn(a, p)
  BY <1>0, <1>1, <1>2 DEF AppGoesOn, OnFile, AppRecord, Aside
<1>7. ProcessGoesOn(p)
  BY <1>1 DEF ProcessGoesOn, Processes
<1>8. ASSUME a \notin mixed' PROVE Local(a, p)
  <2>1. AppFits(a) /\ \A q \in Processes : Busy(q) => On(q) # a
    BY <1>8 DEF Aside, RuntimeInv
  <2>2. Remembers(a)'
    BY <1>0, <1>2, <2>1 DEF Aside, AppFits, Remembers, Answers, Serves, Leads, Rolling,
         Routing, On
  <2>3. UNCHANGED disk => FileRemembers(a)'
    BY <2>2 DEF Remembers, FileRemembers, Aside, SaveState
  <2>4. KeysUpTo(a, disk.app[a].count)'
    <3>1. disk'.app[a].count = app[a].count /\ KeysUpTo(a, disk.app[a].count)
      BY <1>2, <2>1 DEF Aside, SaveState, AppFits
    <3>2. disk.app[a].count <= app[a].count /\ disk.app[a].count \in Nat /\ app[a].count \in Nat
      BY <1>0 DEF OnFile, AppRecord
    <3> QED BY <1>0, <3>1, <3>2 DEF KeysUpTo, Aside, Standing, BuilderFits
  <2> QED BY <1>1, <2>1, <2>2, <2>3, <2>4 DEF Local, Processes
<1> QED BY <1>3, <1>4, <1>5, <1>6, <1>7, <1>8, StepKept

LEMMA CreateAppKeeps ==
  ASSUME RuntimeInv, NEW a \in Apps, NEW hosts \in SUBSET Hosts, \A h \in hosts : HostApp[h] = a,
         CreateApp(a, hosts)
  PROVE  RuntimeInv'
<1> DEFINE r == [App0 EXCEPT !.there = TRUE, !.hosts = hosts]
<1>1. /\ app' = [app EXCEPT ![a] = r] /\ app[a] = App0
  BY DEF CreateApp, RuntimeInv, Standing, RuntimeType
<1>2. /\ r \in AppRecord /\ r.attempts = {} /\ r.count = 0 /\ r.port = NoPort /\ r.status = "pending"
      /\ r.there /\ ~ r.routed /\ r.hosts = hosts
  BY App0Typed DEF App0, AppRecord
<1>3. \A q \in Processes : Busy(q) => On(q) # a
  <2>1. ~ app[a].there /\ app[a].attempts = {}
    BY <1>1 DEF App0
  <2>2. \A q \in Processes : ProcessFits(q)
    BY DEF RuntimeInv, Standing
  <2> QED BY <2>1, <2>2 DEF ProcessFits, Processes
<1>4. Aside(a, r)
  BY <1>1, <1>2, <1>3 DEF Aside, CreateApp, App0, RuntimeInv, Standing, RuntimeType,
       engines, history, bounds, builder
<1> QED BY <1>2, <1>4, AsideKeeps

LEMMA ServedTyped ==
  ASSUME RuntimeType, Serve
  PROVE  served' \in 0..MaxServed /\ restarts' = restarts
BY RuntimeAssumption DEF RuntimeType, Serve

LEMMA CancelKeeps ==
  ASSUME RuntimeInv, NEW a \in Apps, app[a].there, app' = [app EXCEPT ![a].status = "pending"],
         Mix(a), SaveState, Serve, UNCHANGED <<record, op, engines, asker, seen, own>>,
         cancelled' \subseteq Attempts
  PROVE  RuntimeInv'
<1> DEFINE r == [app[a] EXCEPT !.status = "pending"]
<1>0. app[a] \in AppRecord /\ OnFile(a)
  BY PiecesTyped DEF RuntimeInv, Standing
<1>1. r \in AppRecord /\ app' = [app EXCEPT ![a] = r]
  BY <1>0 DEF AppRecord, Statuses
<1>2. /\ r.attempts = app[a].attempts /\ r.count = app[a].count /\ r.port = app[a].port
      /\ r.status = "pending" /\ r.there = app[a].there /\ r.routed = app[a].routed /\ r.hosts = app[a].hosts
  BY <1>0 DEF AppRecord
<1>3. served' \in 0..MaxServed /\ restarts' = restarts
  BY ServedTyped DEF RuntimeInv, Standing
<1>4. Aside(a, r)
  BY <1>0, <1>1, <1>2, <1>3, MixedOnce DEF Aside, OnFile, engines, builder
<1> QED BY <1>1, <1>4, AsideKeeps

LEMMA CancelAppKeeps ==
  ASSUME RuntimeInv, NEW a \in Apps, CancelApp(a)
  PROVE  RuntimeInv'
<1>1. cancelled' \subseteq Attempts
  BY DEF CancelApp, RuntimeInv, Standing, RuntimeType
<1> QED BY <1>1, CancelKeeps DEF CancelApp

LEMMA CancelAttemptKeeps ==
  ASSUME RuntimeInv, NEW x \in Attempts, CancelAttempt(x)
  PROVE  RuntimeInv'
<1>1. PICK a \in Apps : app[a].there /\ app' = [app EXCEPT ![a].status = "pending"] /\ Mix(a)
  BY DEF CancelAttempt
<1>2. cancelled' \subseteq Attempts
  BY DEF CancelAttempt, RuntimeInv, Standing, RuntimeType
<1> QED BY <1>1, <1>2, CancelKeeps DEF CancelAttempt

LEMMA BoxStopsKeeps ==
  ASSUME RuntimeInv, NEW a \in Apps, BoxStops(a)
  PROVE  RuntimeInv'
<1>0. Standing /\ box \in [Apps -> [image : Images, port : Ports \cup {NoPort}, up : BOOLEAN]]
  BY DEF RuntimeInv, Standing, RuntimeType
<1>1. /\ \A b \in Apps : box'[b].image = box[b].image /\ (box'[b].up => box[b].up)
      /\ box' \in [Apps -> [image : Images, port : Ports \cup {NoPort}, up : BOOLEAN]]
      /\ served' \in 0..MaxServed
  <2>1. box' = [box EXCEPT ![a] = [box[a] EXCEPT !.up = FALSE]]
    BY DEF BoxStops
  <2>2. /\ [box[a] EXCEPT !.up = FALSE] \in [image : Images, port : Ports \cup {NoPort}, up : BOOLEAN]
        /\ [box[a] EXCEPT !.up = FALSE].image = box[a].image
    BY <1>0
  <2> QED BY <1>0, <2>1, <2>2, ServedTyped DEF Standing, BoxStops
<1>2. UNCHANGED <<app, record, cancelled, disk, op, route, of, phase,
                  did, asker, seen, own, mixed, restarts>>
  BY DEF BoxStops, Serve, memory, history, builder
<1>3. Standing'
  BY <1>0, <1>1, <1>2 DEF Standing, RuntimeType, BuilderFits, RecordsFit, PortsDiffer,
       OnFile, ProcessFits, Busy, On, At
<1>4. ASSUME NEW b \in Apps \ mixed, AppFits(b) PROVE AppFits(b)'
  <2>1. (\A x \in Attempts : On(x) = b => DeployFits(x))'
    BY <1>2, <1>4 DEF AppFits, DeployFits, KeysUpTo, OwnBuild, On
  <2>2. (\A p \in Processes : On(p) = b => RunFits(p))'
    BY <1>1, <1>2, <1>4 DEF AppFits, RunFits, At, On
  <2>3. Remembers(b)' /\ FileRemembers(b)'
    BY <1>1, <1>2, <1>4 DEF AppFits, Remembers, FileRemembers, Answers, Serves, Leads,
         Rolling, Routing, On
  <2> QED BY <1>2, <1>4, <2>1, <2>2, <2>3 DEF AppFits, KeysUpTo, Busy, On
<1> QED BY <1>2, <1>3, <1>4 DEF RuntimeInv

LEMMA BuildSucceedsKeeps ==
  ASSUME RuntimeInv, NEW i \in BuildJobs, BuildSucceeds(i)
  PROVE  RuntimeInv'
<1>0. Standing
  BY DEF RuntimeInv
<1>1. /\ UNCHANGED <<app, record, cancelled, disk, op, box, route, asker,
                     seen, own, mixed, served, restarts, of>>
      /\ phase' = [phase EXCEPT ![i] = "succeeded"] /\ phase[i] = "pending"
      /\ did' = did \cup {i}
  BY DEF BuildSucceeds, End, memory, history, bounds
<1>2. /\ phase' \in [BuildJobs -> BuildPhases]
      /\ \A j \in BuildJobs : phase'[j] # "none" <=> phase[j] # "none"
  BY <1>0, <1>1 DEF Standing, BuilderFits, BuildPhases
<1>3. Standing'
  <2>1. RuntimeType' /\ BuilderFits'
    BY <1>0, <1>1, <1>2 DEF Standing, RuntimeType, BuilderFits
  <2>2. RecordsFit' /\ PortsDiffer'
    BY <1>0, <1>1 DEF Standing, RecordsFit, PortsDiffer
  <2>3. \A b \in Apps : OnFile(b)'
    BY <1>0, <1>1 DEF Standing, OnFile
  <2>4. \A p \in Processes : ProcessFits(p)'
    BY <1>0, <1>1 DEF Standing, ProcessFits, Busy, On, At
  <2> QED BY <2>1, <2>2, <2>3, <2>4 DEF Standing
<1>4. ASSUME NEW b \in Apps \ mixed, AppFits(b) PROVE AppFits(b)'
  <2>1. (\A x \in Attempts : On(x) = b => DeployFits(x))'
    BY <1>1, <1>2, <1>4 DEF AppFits, DeployFits, KeysUpTo, OwnBuild, On
  <2>2. (\A p \in Processes : On(p) = b => RunFits(p))'
    BY <1>1, <1>4 DEF AppFits, RunFits, At, On
  <2>3. Remembers(b)' /\ FileRemembers(b)'
    BY <1>1, <1>4 DEF AppFits, Remembers, FileRemembers, Answers, Serves, Leads,
         Rolling, Routing, On
  <2> QED BY <1>1, <1>2, <1>4, <2>1, <2>2, <2>3 DEF AppFits, KeysUpTo, Busy, On
<1> QED BY <1>1, <1>3, <1>4 DEF RuntimeInv

LEMMA RuntimeRestartsKeeps ==
  ASSUME RuntimeInv, RuntimeRestarts
  PROVE  RuntimeInv'
<1>0. Standing /\ Idle \in Operation /\ Idle.pc = "none" /\ Idle.hosts = {} /\ Idle.drop = {}
  BY IdleTyped DEF RuntimeInv
<1>1. /\ app' = disk.app /\ record' = disk.record /\ cancelled' = {} /\ restarts' \in 0..MaxRestarts
      /\ mixed' = (IF Busy(Control) THEN mixed \cup {On(Control)} ELSE mixed)
      /\ UNCHANGED <<disk, box, route, of, phase, did, asker, seen, own, served>>
  BY <1>0, RuntimeAssumption DEF RuntimeRestarts, engines, builder, Standing, RuntimeType
<1>2. op' \in [Processes -> Operation] /\ \A p \in Processes : op'[p] = Idle
  BY <1>0 DEF RuntimeRestarts, Standing, RuntimeType, Processes
<1>3. mixed' \subseteq Apps /\ mixed \subseteq mixed'
  BY <1>0, <1>1, Processors, PiecesTyped DEF Standing, RuntimeType
<1>4. RuntimeType'
  BY <1>0, <1>1, <1>2, <1>3 DEF Standing, RuntimeType, Processes
<1>5. \A a \in Apps : OnFile(a)'
  BY <1>0, <1>1, PiecesTyped DEF Standing, OnFile, AppRecord
<1>6. RecordsFit'
  <2>1. \A a \in Apps : disk.app[a].attempts \subseteq app[a].attempts
    BY <1>0 DEF Standing, OnFile
  <2> QED BY <1>0, <1>1, <2>1 DEF Standing, RecordsFit
<1>7. PortsDiffer'
  <2>1. \A a \in Apps : disk.app[a].there = app[a].there /\ disk.app[a].port \in {NoPort, app[a].port}
    BY <1>0 DEF Standing, OnFile
  <2> QED BY <1>0, <1>1, <2>1 DEF Standing, PortsDiffer
<1>8. \A p \in Processes : ProcessFits(p)'
  BY <1>0, <1>2 DEF ProcessFits, Busy, At
<1>9. Standing'
  BY <1>0, <1>1, <1>4, <1>5, <1>6, <1>7, <1>8 DEF Standing, BuilderFits
<1>10. ASSUME NEW a \in Apps, a \notin mixed' PROVE AppFits(a)'
  <2>1. AppFits(a) /\ ~ Rolling(a) /\ ~ Routing(a)
    BY <1>1, <1>3, <1>10 DEF RuntimeInv, Rolling, Routing, Busy
  <2>2. FileRemembers(a)' /\ Remembers(a)'
    BY <1>1, <2>1 DEF AppFits, FileRemembers, Remembers, Answers, Serves, Leads
  <2>3. KeysUpTo(a, disk.app[a].count)'
    BY <1>1, <2>1, KeysStay
  <2>4. (\A x \in Attempts : On(x) = a => DeployFits(x))'
    BY <1>0, <1>2 DEF DeployFits, Unfinished, Processes
  <2>5. (\A p \in Processes : On(p) = a => RunFits(p))'
    BY <1>0, <1>2 DEF RunFits, At
  <2> QED BY <1>0, <1>2, <2>2, <2>3, <2>4, <2>5 DEF AppFits, Busy
<1> QED BY <1>9, <1>10 DEF RuntimeInv

\* Process p goes on with o, and application a with r.
Changes(a, p, r, o) ==
  /\ app' = [app EXCEPT ![a] = r] /\ op' = [op EXCEPT ![p] = o]
  /\ (Busy(p) => On(p) = a) /\ (o.pc # "none" => o.app = a)
  /\ Filed
  /\ \A x \in Attempts \ {p} : record'[x] = record[x] /\ own'[x] = own[x]
  /\ record' \in [Attempts -> Recorded] /\ own' \in [Attempts -> {"none", "succeeded", "failed"}]
  /\ p \in Attempts /\ ~ (record'[p] = record[p] /\ own'[p] = own[p]) =>
       p \in app[a].attempts \/ record[p] = "none"
  /\ seen \subseteq seen' /\ seen' \subseteq Attempts
  /\ UNCHANGED <<cancelled, asker, of, phase, did, route, restarts>>
  /\ box' \in [Apps -> [image : Images, port : Ports \cup {NoPort}, up : BOOLEAN]]
  /\ \A b \in Apps \ {a} : box'[b] = box[b]
  /\ mixed \subseteq mixed' /\ mixed' \subseteq Apps
  /\ served' \in 0..MaxServed

LEMMA ChangeFrame ==
  ASSUME Standing, NEW a \in Apps, NEW p \in Processes, NEW r \in AppRecord, NEW o \in Operation,
         Changes(a, p, r, o)
  PROVE  /\ Typed /\ Elsewhere(a, p) /\ Builds(a) /\ app'[a] = r
         /\ op'[p] = o /\ \A q \in Processes \ {p} : op'[q] = op[q]
<1>1. op' \in [Processes -> Operation] /\ op'[p] = o /\ \A q \in Processes \ {p} : op'[q] = op[q]
  BY OpTyped DEF Standing, RuntimeType, Processes, Changes
<1>2. app' \in [Apps -> AppRecord] /\ app'[a] = r /\ \A b \in Apps \ {a} : app'[b] = app[b]
  BY AppTyped DEF Standing, RuntimeType, Changes
<1>3. Typed
  BY <1>1, <1>2 DEF Typed, Standing, RuntimeType, Changes
<1>4. Elsewhere(a, p)
  BY <1>1, <1>2 DEF Elsewhere, Changes
<1>5. Builds(a)
  BY DEF Builds, Standing, BuilderFits, Changes
<1> QED BY <1>1, <1>2, <1>3, <1>4, <1>5

\* Keys that were asked for stay below what is saved, also when memory is.
LEMMA KeysSaved ==
  ASSUME Standing, NEW a \in Apps, AppFits(a), UNCHANGED <<of, phase>>,
         disk'.app[a].count \in {disk.app[a].count, app[a].count}
  PROVE  KeysUpTo(a, disk.app[a].count)'
<1>1. disk.app[a].count <= app[a].count /\ disk.app[a].count \in Nat /\ app[a].count \in Nat
  BY PiecesTyped DEF Standing, OnFile, AppRecord
<1> QED BY <1>1 DEF Standing, AppFits, KeysUpTo, BuilderFits

LEMMA FailsKeeps ==
  ASSUME RuntimeInv, NEW x \in Attempts, NEW a \in Apps, a = On(x), op[x].pc # "none", Fails(x),
         UNCHANGED <<cancelled, engines, asker, seen, mixed, bounds>>
  PROVE  RuntimeInv'
<1> DEFINE r == [app[a] EXCEPT !.status = "failed", !.routed = app[a].routed]
           o == Idle
<1>0. /\ Standing /\ x \in Processes /\ op[x] \in Operation /\ app[a] \in AppRecord
      /\ ProcessFits(x) /\ OnFile(a) /\ disk.app[a] \in AppRecord
      /\ app \in [Apps -> AppRecord] /\ op \in [Processes -> Operation]
  BY Processors, PiecesTyped DEF RuntimeInv, Standing, RuntimeType, Processes
<1>1. /\ app' = [app EXCEPT ![a] = r] /\ op' = [op EXCEPT ![x] = o]
      /\ op[x].pc # "none"
      /\ UNCHANGED <<cancelled, asker, of, phase, did, box,
                     route, seen, mixed, served, restarts>>
      /\ record' = [record EXCEPT ![x] = "failed"] /\ own' = [own EXCEPT ![x] = "failed"] /\ SaveState
  BY <1>0 DEF Fails, Settle, Leave, At, On, memory, engines, builder, history, bounds
<1>2. /\ r \in AppRecord /\ r.there = app[a].there
      /\ r.status = "failed"
      /\ r.attempts = app[a].attempts
      /\ r.count = app[a].count
      /\ r.port = app[a].port
      /\ r.hosts = app[a].hosts
      /\ r.routed = app[a].routed
      /\ r.current = app[a].current
      /\ o \in Operation /\ o.pc = "none" /\ o.hosts = {} /\ o.drop = {}
  <2>1. r \in AppRecord /\ r.status = "failed"
    BY <1>0 DEF AppRecord, Statuses
  <2>2. /\ r.there = app[a].there /\ r.attempts = app[a].attempts /\ r.count = app[a].count
        /\ r.port = app[a].port /\ r.hosts = app[a].hosts /\ r.routed = app[a].routed
        /\ r.current = app[a].current
    BY <1>0 DEF AppRecord
  <2>3. o \in Operation /\ o.pc = "none" /\ o.hosts = {} /\ o.drop = {}
    BY IdleTyped
  <2> QED BY <2>1, <2>2, <2>3
<1>22. /\ record \in [Attempts -> Recorded] /\ "failed" \in Recorded
       /\ own \in [Attempts -> {"none", "succeeded", "failed"}] /\ x \in app[a].attempts
  BY <1>0, <1>1 DEF Standing, RuntimeType, Recorded, Statuses, ProcessFits, Busy, On
<1> HIDE DEF r, o
<1>23. Changes(a, x, r, o)
  BY <1>0, <1>1, <1>2, <1>22, Processors DEF Changes, Filed, SaveState, Standing,
       RuntimeType, Busy, On
<1>3. /\ Typed /\ Elsewhere(a, x) /\ Builds(a) /\ app'[a] = r /\ op'[x] = o
      /\ x # Control => op'[Control] = op[Control]
  BY <1>0, <1>2, <1>23, ChangeFrame, Processors
<1>4. AppGoesOn(a, x)
  BY <1>0, <1>1, <1>2, <1>3 DEF AppGoesOn, OnFile, AppRecord
<1>5. ProcessGoesOn(x)
  BY <1>0, <1>1, <1>2, <1>3, <1>22, Processors DEF ProcessGoesOn, ProcessFits, Busy, At
<1>6. ASSUME a \notin mixed' PROVE Local(a, x)
  <2>0. Busy(x) /\ a \notin mixed
    BY <1>1, <1>6 DEF Busy, At
  <2>1. AppFits(a) /\ \A q \in Processes \ {x} : Busy(q) => On(q) # a
    BY <1>0, <2>0, Alone DEF On
  <2>11. (Rolling(a) => Rolling(a)') /\ (Routing(a) => Routing(a)')
    BY <1>0, <1>1, <1>2, <1>3, <2>1, Processors DEF Rolling, Routing, On, Busy
  <2>2. Remembers(a)'
    BY <1>0, <1>1, <1>2, <1>3, <1>22, <2>1, <2>11 DEF AppFits, Remembers, Answers,
         Serves, Leads, AppRecord
  <2>3. UNCHANGED disk => FileRemembers(a)'
    BY <1>1, <2>2 DEF Remembers, FileRemembers, SaveState, Answers, Serves, Leads,
         Rolling, Routing, On
  <2>4. KeysUpTo(a, disk.app[a].count)'
    BY <1>0, <1>1, <1>2, <1>3, <2>1, KeysSaved DEF SaveState
  <2>5. x \in Attempts => DeployFits(x)'
    BY <1>1, <1>2, <1>3, Processors DEF DeployFits, Unfinished
  <2>6. RunFits(x)'
    BY <1>2, <1>3 DEF RunFits, At
  <2> QED BY <1>1, <2>1, <2>2, <2>3, <2>4, <2>5, <2>6 DEF Local, SaveState
<1> QED BY <1>0, <1>3, <1>4, <1>5, <1>6, StepKept

LEMMA DeployEndsKeeps ==
  ASSUME RuntimeInv, NEW x \in Attempts, NEW a \in Apps, a = On(x), DeployEnds(x)
  PROVE  RuntimeInv'
<1> DEFINE r == [app[a] EXCEPT !.status = app[a].status, !.routed = op[x].ok]
           o == Idle
<1>0. /\ Standing /\ x \in Processes /\ op[x] \in Operation /\ app[a] \in AppRecord
      /\ ProcessFits(x) /\ OnFile(a) /\ disk.app[a] \in AppRecord
      /\ app \in [Apps -> AppRecord] /\ op \in [Processes -> Operation]
  BY Processors, PiecesTyped DEF RuntimeInv, Standing, RuntimeType, Processes
<1>1. /\ app' = [app EXCEPT ![a] = r] /\ op' = [op EXCEPT ![x] = o]
      /\ op[x].pc = "publishing" /\ op[x].hosts = {}
      /\ UNCHANGED <<cancelled, asker, of, phase, did, box,
                     route, seen, mixed, served, restarts>>
      /\ record' = [record EXCEPT ![x] = app[a].status] /\ own' = [own EXCEPT ![x] = "succeeded"] /\ SaveState
  BY <1>0 DEF DeployEnds, Settle, Leave, AllPublished, At, On, memory, engines, builder,
       history, bounds
<1>2. /\ r \in AppRecord /\ r.there = app[a].there
      /\ r.status = app[a].status
      /\ r.attempts = app[a].attempts
      /\ r.count = app[a].count
      /\ r.port = app[a].port
      /\ r.hosts = app[a].hosts
      /\ r.routed = op[x].ok
      /\ r.current = app[a].current
      /\ o \in Operation /\ o.pc = "none" /\ o.hosts = {} /\ o.drop = {}
  BY <1>0, <1>1, IdleTyped DEF Operation, AppRecord, On, Images, NoImage, GivenImage, Statuses
<1>22. /\ record \in [Attempts -> Recorded] /\ app[a].status \in Recorded \ {"none"}
       /\ own \in [Attempts -> {"none", "succeeded", "failed"}] /\ x \in app[a].attempts
       /\ x \in seen /\ (op[x].ok => app[a].port # NoPort)
  BY <1>0, <1>1 DEF Standing, RuntimeType, Recorded, Statuses, AppRecord, ProcessFits,
       Busy, On, At
<1> HIDE DEF r, o
<1>23. Changes(a, x, r, o)
  BY <1>0, <1>1, <1>2, <1>22, Processors DEF Changes, Filed, SaveState, Standing,
       RuntimeType, Busy, On
<1>3. /\ Typed /\ Elsewhere(a, x) /\ Builds(a) /\ app'[a] = r /\ op'[x] = o
      /\ x # Control => op'[Control] = op[Control]
  BY <1>0, <1>2, <1>23, ChangeFrame, Processors
<1>4. AppGoesOn(a, x)
  BY <1>0, <1>1, <1>2, <1>3, <1>22 DEF AppGoesOn, OnFile, AppRecord
<1>5. ProcessGoesOn(x)
  BY <1>0, <1>1, <1>2, <1>3, <1>22, Processors DEF ProcessGoesOn, ProcessFits, Busy, At
<1>6. ASSUME a \notin mixed' PROVE Local(a, x)
  <2>0. Busy(x) /\ a \notin mixed
    BY <1>1, <1>6 DEF Busy, At
  <2>1. AppFits(a) /\ \A q \in Processes \ {x} : Busy(q) => On(q) # a
    BY <1>0, <2>0, Alone DEF On
  <2>12. DeployFits(x) /\ RunFits(x) /\ app[a].status = "succeeded"
    BY <1>0, <1>1, <2>1 DEF AppFits, DeployFits, On
  <2>11. (Rolling(a) => Rolling(a)') /\ (Routing(a) => Routing(a)')
    BY <1>0, <1>1, <1>2, <1>3, <2>1, Processors DEF Rolling, Routing, On, Busy
  <2>2. Remembers(a)'
    BY <1>0, <1>1, <1>2, <1>3, <1>22, <2>1, <2>11, <2>12, ZenonT(60)
        DEF AppFits, Remembers, Answers, Serves, Leads, RunFits, At, On, AppRecord
  <2>3. UNCHANGED disk => FileRemembers(a)'
    BY <1>1, <2>2 DEF Remembers, FileRemembers, SaveState, Answers, Serves, Leads,
         Rolling, Routing, On
  <2>4. KeysUpTo(a, disk.app[a].count)'
    BY <1>0, <1>1, <1>2, <1>3, <2>1, KeysSaved DEF SaveState
  <2>5. x \in Attempts => DeployFits(x)'
    BY <1>1, <1>2, <1>3, Processors DEF DeployFits, Unfinished
  <2>6. RunFits(x)'
    BY <1>2, <1>3 DEF RunFits, At
  <2> QED BY <1>1, <2>1, <2>2, <2>3, <2>4, <2>5, <2>6 DEF Local, SaveState
<1> QED BY <1>0, <1>3, <1>4, <1>5, <1>6, StepKept

LEMMA DeployKeeps ==
  ASSUME RuntimeInv, NEW x \in Attempts, NEW a \in Apps, Deploy(x, a)
  PROVE  RuntimeInv'
<1> DEFINE r == [app[a] EXCEPT !.attempt = x, !.attempts = @ \cup {x}, !.count = @ + 1, !.status = "running"]
           o == [Idle EXCEPT !.pc = "saving", !.app = a]
<1>0. /\ Standing /\ x \in Processes /\ op[x] \in Operation /\ app[a] \in AppRecord
      /\ ProcessFits(x) /\ OnFile(a) /\ disk.app[a] \in AppRecord
      /\ app \in [Apps -> AppRecord] /\ op \in [Processes -> Operation]
  BY Processors, PiecesTyped DEF RuntimeInv, Standing, RuntimeType, Processes
<1>1. /\ app' = [app EXCEPT ![a] = r] /\ op' = [op EXCEPT ![x] = o]
      /\ op[x].pc = "none" /\ record[x] = "none" /\ own[x] = "none"
      /\ UNCHANGED <<cancelled, disk, asker, of, phase, did, box,
                     route, seen, own, served, restarts>>
      /\ record' = [record EXCEPT ![x] = "running"] /\ Mix(a)
  BY <1>0 DEF Deploy, Begin, Busy, At, On, memory, engines, builder, history, bounds
<1>11. /\ r \in AppRecord /\ r.there = app[a].there
       /\ r.status = "running"
       /\ r.attempts = app[a].attempts \cup {x}
       /\ r.count = app[a].count + 1
       /\ r.port = app[a].port
       /\ r.hosts = app[a].hosts
       /\ r.routed = app[a].routed
       /\ r.current = app[a].current
  <2>1. /\ app[a].attempts \cup {x} \in SUBSET Attempts /\ app[a].count + 1 \in Nat
        /\ x \in Attempts \cup {NoAttempt} /\ "running" \in Statuses
    BY <1>0 DEF AppRecord, Statuses
  <2> QED BY <1>0, <2>1 DEF AppRecord
<1>12. o \in Operation /\ o.pc = "saving" /\ o.app = a /\ o.hosts = {} /\ o.drop = {}
  BY <1>0, <1>1, IdleTyped DEF Operation, AppRecord, On, Images, NoImage, GivenImage, Statuses
<1> HIDE DEF r, o
<1>2. /\ r \in AppRecord /\ r.there = app[a].there
      /\ r.status = "running"
      /\ r.attempts = app[a].attempts \cup {x}
      /\ r.count = app[a].count + 1
      /\ r.port = app[a].port
      /\ r.hosts = app[a].hosts
      /\ r.routed = app[a].routed
      /\ r.current = app[a].current
      /\ o \in Operation /\ o.pc = "saving" /\ o.app = a /\ o.hosts = {} /\ o.drop = {}
  BY <1>11, <1>12
<1>21. /\ mixed \subseteq mixed' /\ mixed' \subseteq Apps
       /\ a \notin mixed' => AppFits(a) /\ a \notin mixed /\ \A q \in Processes : Busy(q) => On(q) # a
  BY <1>1, MixedOnce
<1>22. /\ record \in [Attempts -> Recorded] /\ "running" \in Recorded
  BY <1>0, <1>1 DEF Standing, RuntimeType, Recorded, Statuses
<1> HIDE DEF r, o
<1>23. Changes(a, x, r, o)
  BY <1>0, <1>1, <1>2, <1>21, <1>22, Processors DEF Changes, Filed, SaveState, Standing,
       RuntimeType, Busy, On
<1>3. /\ Typed /\ Elsewhere(a, x) /\ Builds(a) /\ app'[a] = r /\ op'[x] = o
      /\ x # Control => op'[Control] = op[Control]
  BY <1>0, <1>2, <1>23, ChangeFrame, Processors
<1>4. AppGoesOn(a, x)
  BY <1>0, <1>1, <1>2, <1>3, <1>22 DEF AppGoesOn, OnFile, AppRecord
<1>5. ProcessGoesOn(x)
  BY <1>0, <1>1, <1>2, <1>3, <1>22, Processors DEF ProcessGoesOn, ProcessFits, Busy, On, At
<1>6. ASSUME a \notin mixed' PROVE Local(a, x)
  <2>1. AppFits(a) /\ \A q \in Processes \ {x} : Busy(q) => On(q) # a
    BY <1>6, <1>21
  <2>11. (Rolling(a) => Rolling(a)') /\ (Routing(a) => Routing(a)')
    BY <1>0, <1>1, <1>2, <1>3, <2>1, Processors DEF Rolling, Routing, On, Busy
  <2>2. Remembers(a)'
    BY <1>0, <1>1, <1>2, <1>3, <1>22, <2>1, <2>11 DEF AppFits, Remembers, Answers,
         Serves, Leads, AppRecord
  <2>3. UNCHANGED disk => FileRemembers(a)'
    BY <1>1, <1>3, <2>1, <2>11 DEF AppFits, FileRemembers, Answers, Serves, Leads
  <2>4. KeysUpTo(a, disk.app[a].count)'
    BY <1>0, <1>1, <1>2, <1>3, <2>1, KeysSaved DEF SaveState
  <2>5. x \in Attempts => DeployFits(x)'
    <3>1. KeysUpTo(a, app[a].count)
      BY <1>0, <2>1 DEF AppFits, KeysUpTo, OnFile, AppRecord, Standing, BuilderFits
    <3>2. KeysUpTo(a, app[a].count - 1)'
      BY <1>0, <1>1, <1>2, <1>3, <3>1 DEF KeysUpTo, AppRecord
    <3> QED BY <1>2, <1>3, <3>2 DEF DeployFits, Unfinished, On
  <2>6. RunFits(x)'
    BY <1>2, <1>3 DEF RunFits, At
  <2> QED BY <1>1, <2>1, <2>2, <2>3, <2>4, <2>5, <2>6 DEF Local, SaveState
<1> QED BY <1>0, <1>3, <1>4, <1>5, <1>6, StepKept

\* What a process works with after a step that leaves attempts and outcomes as they are.
LEMMA StepFits ==
  ASSUME RecordsFit, NEW p \in Processes, NEW a \in Apps, a = On(p), ProcessFits(p), Busy(p),
         NEW o, op'[p] = o, o.app = a, \A h \in o.hosts \cup o.drop : HostApp[h] = a,
         UNCHANGED <<own, record>>, seen \subseteq seen',
         app'[a].attempts = app[a].attempts, app'[a].there = app[a].there,
         o.pc = "publishing" /\ p \in Attempts => p \in seen',
         o.pc \in {"starting", "inspecting", "publishing"} => app'[a].port # NoPort
  PROVE  ProcessGoesOn(p)
<1>1. p \in Attempts => own'[p] = "none" /\ p \in app'[a].attempts
  BY DEF ProcessFits
<1>2. p = Control => app'[a].there
  BY DEF ProcessFits
<1>3. ProcessFits(p)'
  BY <1>1, <1>2 DEF ProcessFits, On, At
<1>4. p \in Attempts /\ record'[p] = "succeeded" => p \in seen'
  BY DEF RecordsFit
<1> QED BY <1>3, <1>4 DEF ProcessGoesOn

LEMMA SavedGoesKeeps ==
  ASSUME RuntimeInv, NEW x \in Attempts, NEW a \in Apps, a = On(x), NEW pc \in {"posting", "removing"}, At(x, "saving"), pc = "removing" => a \in ImageApps,
         op' = [op EXCEPT ![x] = [op[x] EXCEPT !.pc = pc, !.image = op'[x].image, !.before = op'[x].before]],
         op'[x].image \in Images, op'[x].before \in Images,
         UNCHANGED <<app, record, own, cancelled, engines, asker, seen, mixed, bounds>>, SaveState
  PROVE  RuntimeInv'
<1> DEFINE r == app[a]
           o == [op[x] EXCEPT !.pc = pc, !.image = op'[x].image, !.before = op'[x].before]
<1>0. /\ Standing /\ x \in Processes /\ op[x] \in Operation /\ app[a] \in AppRecord
      /\ ProcessFits(x) /\ OnFile(a) /\ disk.app[a] \in AppRecord
      /\ app \in [Apps -> AppRecord] /\ op \in [Processes -> Operation]
  BY Processors, PiecesTyped DEF RuntimeInv, Standing, RuntimeType, Processes
<1>1. /\ app' = [app EXCEPT ![a] = r] /\ op' = [op EXCEPT ![x] = o]
      /\ op[x].pc = "saving"
      /\ UNCHANGED <<cancelled, asker, of, phase, did, box, route,
                     seen, mixed, served, restarts, record, own>>
      /\ SaveState
  BY <1>0 DEF SaveState, At, On, memory, engines, builder, history, bounds
<1>2. /\ r \in AppRecord /\ r.there = app[a].there
      /\ r.status = app[a].status
      /\ r.attempts = app[a].attempts
      /\ r.count = app[a].count
      /\ r.port = app[a].port
      /\ r.hosts = app[a].hosts
      /\ r.routed = app[a].routed
      /\ r.current = app[a].current
      /\ o \in Operation /\ o.pc = pc /\ o.app = a /\ o.hosts = op[x].hosts /\ o.drop = op[x].drop
  BY <1>0, <1>1, IdleTyped DEF Operation, AppRecord, On, Images, NoImage, GivenImage, Statuses
<1> HIDE DEF r, o
<1>23. Changes(a, x, r, o)
  BY <1>0, <1>1, <1>2, Processors DEF Changes, Filed, SaveState, Standing, RuntimeType, Busy, On
<1>3. /\ Typed /\ Elsewhere(a, x) /\ Builds(a) /\ app'[a] = r /\ op'[x] = o
      /\ x # Control => op'[Control] = op[Control]
  BY <1>0, <1>2, <1>23, ChangeFrame, Processors
<1>4. AppGoesOn(a, x)
  BY <1>0, <1>1, <1>2, <1>3 DEF AppGoesOn, OnFile, AppRecord
<1>5. ProcessGoesOn(x)
  <2>1. RecordsFit /\ Busy(x) /\ UNCHANGED <<own, record, seen>>
    BY <1>0, <1>1 DEF Standing, Busy
  <2>2. \A h \in o.hosts \cup o.drop : HostApp[h] = a
    BY <1>0, <1>2 DEF ProcessFits
  <2>3. o.pc \notin {"starting", "inspecting", "publishing"}
    BY <1>2
  <2> QED BY <1>0, <1>2, <1>3, <2>1, <2>2, <2>3, StepFits
<1>6. ASSUME a \notin mixed' PROVE Local(a, x)
  <2>0. Busy(x) /\ a \notin mixed
    BY <1>1, <1>6 DEF Busy, At
  <2>1. AppFits(a) /\ \A q \in Processes \ {x} : Busy(q) => On(q) # a
    BY <1>0, <2>0, Alone DEF On
  <2>11. (Rolling(a) => Rolling(a)') /\ (Routing(a) => Routing(a)')
    BY <1>0, <1>1, <1>2, <1>3, <2>1, Processors DEF Rolling, Routing, On, Busy
  <2>2. Remembers(a)'
    BY <1>0, <1>1, <1>2, <1>3, <2>1, <2>11 DEF AppFits, Remembers, Answers, Serves,
         Leads, AppRecord
  <2>3. UNCHANGED disk => FileRemembers(a)'
    BY <1>1, <2>2 DEF Remembers, FileRemembers, SaveState, Answers, Serves, Leads,
         Rolling, Routing, On
  <2>4. KeysUpTo(a, disk.app[a].count)'
    BY <1>0, <1>1, <1>2, <1>3, <2>1, KeysSaved DEF SaveState
  <2>5. x \in Attempts => DeployFits(x)'
    <3>1. DeployFits(x) /\ disk'.app[a] = app'[a]
      BY <1>1, <2>1 DEF AppFits, SaveState
    <3>2. /\ op'[x].pc = pc /\ On(x)' = a /\ app'[a].status = app[a].status
          /\ app'[a].count = app[a].count
      BY <1>2, <1>3 DEF On
    <3>3. app[a].status = "running" /\ KeysUpTo(a, app[a].count - 1)
      BY <1>1, <3>1 DEF DeployFits, Unfinished
    <3>4. KeysUpTo(a, app[a].count - 1)' /\ UNCHANGED <<phase, of>>
      BY <1>1, <3>2, <3>3 DEF KeysUpTo
    <3>5. app'[a].status = "running" /\ disk'.app[a].status = "running" /\ disk'.app[a].count = app'[a].count
      BY <3>1, <3>2, <3>3
    <3>6. op'[x].pc \in {"posting", "removing"} /\ (op'[x].pc = "removing" => a \in ImageApps)
      BY <3>2
    <3> QED BY <3>2, <3>4, <3>5, <3>6 DEF DeployFits, Unfinished
  <2>6. RunFits(x)'
    BY <1>2, <1>3 DEF RunFits, At
  <2> QED BY <1>1, <2>1, <2>2, <2>3, <2>4, <2>5, <2>6 DEF Local, SaveState
<1> QED BY <1>0, <1>3, <1>4, <1>5, <1>6, StepKept

LEMMA RemovedKeeps ==
  ASSUME RuntimeInv, NEW p \in Processes, NEW a \in Apps, a = On(p), NEW port \in Ports \cup {NoPort},
         port = app[a].port \/ (app[a].port = NoPort /\ port \notin Taken(a)), port # NoPort,
         app' = [app EXCEPT ![a].port = port], Removed(p)
  PROVE  RuntimeInv'
<1> DEFINE r == [app[a] EXCEPT !.port = port]
           o == [op[p] EXCEPT !.pc = "starting"]
<1>0. /\ Standing /\ p \in Processes /\ op[p] \in Operation /\ app[a] \in AppRecord
      /\ ProcessFits(p) /\ OnFile(a) /\ disk.app[a] \in AppRecord
      /\ app \in [Apps -> AppRecord] /\ op \in [Processes -> Operation]
  BY Processors, PiecesTyped DEF RuntimeInv, Standing, RuntimeType, Processes
<1>1. /\ app' = [app EXCEPT ![a] = r] /\ op' = [op EXCEPT ![p] = o]
      /\ op[p].pc = "removing"
      /\ UNCHANGED <<record, own, cancelled, disk, asker, of, phase,
                     did, route, seen, mixed, served, restarts>>
      /\ box' \in {box, [box EXCEPT ![a] = NoBox]}
  BY <1>0 DEF Removed, GoTo, At, On, memory, engines, builder, history, bounds
<1>2. /\ r \in AppRecord /\ r.there = app[a].there
      /\ r.status = app[a].status
      /\ r.attempts = app[a].attempts
      /\ r.count = app[a].count
      /\ r.port = port
      /\ r.hosts = app[a].hosts
      /\ r.routed = app[a].routed
      /\ r.current = app[a].current
      /\ o \in Operation /\ o.pc = "starting" /\ o.app = a /\ o.hosts = op[p].hosts /\ o.drop = op[p].drop
  BY <1>0, <1>1, IdleTyped DEF Operation, AppRecord, On, Images, NoImage, GivenImage, Statuses
<1>22. /\ box' \in [Apps -> [image : Images, port : Ports \cup {NoPort}, up : BOOLEAN]]
       /\ \A b \in Apps \ {a} : box'[b] = box[b]
  <2>1. box \in [Apps -> [image : Images, port : Ports \cup {NoPort}, up : BOOLEAN]]
    BY <1>0 DEF Standing, RuntimeType
  <2>2. NoBox \in [image : Images, port : Ports \cup {NoPort}, up : BOOLEAN]
    BY DEF NoBox, Images, NoImage
  <2> QED BY <1>1, <2>1, <2>2
<1> HIDE DEF r, o
<1>23. Changes(a, p, r, o)
  BY <1>0, <1>1, <1>2, <1>22, Processors DEF Changes, Filed, SaveState, Standing,
       RuntimeType, Busy, On
<1>3. /\ Typed /\ Elsewhere(a, p) /\ Builds(a) /\ app'[a] = r /\ op'[p] = o
      /\ p # Control => op'[Control] = op[Control]
  BY <1>0, <1>2, <1>23, ChangeFrame, Processors
<1>4. AppGoesOn(a, p)
  BY <1>0, <1>1, <1>2, <1>3 DEF AppGoesOn, OnFile, AppRecord
<1>5. ProcessGoesOn(p)
  <2>1. RecordsFit /\ Busy(p) /\ UNCHANGED <<own, record, seen>>
    BY <1>0, <1>1 DEF Standing, Busy
  <2>2. \A h \in o.hosts \cup o.drop : HostApp[h] = a
    BY <1>0, <1>2 DEF ProcessFits
  <2> QED BY <1>0, <1>2, <1>3, <2>1, <2>2, StepFits
<1>6. ASSUME a \notin mixed' PROVE Local(a, p)
  <2>0. Busy(p) /\ a \notin mixed
    BY <1>1, <1>6 DEF Busy, At
  <2>1. AppFits(a) /\ \A q \in Processes \ {p} : Busy(q) => On(q) # a
    BY <1>0, <2>0, Alone DEF On
  <2>12. p = Control \/ (app[a].status # "succeeded" /\ disk.app[a].status # "succeeded")
    BY <1>0, <1>1, <2>1 DEF AppFits, DeployFits, Unfinished, Processes
  <2>13. p = Control => Rolling(a)'
    BY <1>2, <1>3 DEF Rolling, On
  <2>11. (Rolling(a) => Rolling(a)') /\ (Routing(a) => Routing(a)')
    BY <1>0, <1>1, <1>2, <1>3, <2>1, Processors DEF Rolling, Routing, On, Busy
  <2>2. Remembers(a)'
    BY <1>0, <1>1, <1>2, <1>3, <2>1, <2>11, <2>12, <2>13 DEF AppFits, Remembers,
         Answers, Serves, Leads, OnFile, AppRecord
  <2>3. UNCHANGED disk => FileRemembers(a)'
    BY <1>0, <1>1, <1>3, <2>1, <2>11, <2>12, <2>13 DEF AppFits, FileRemembers, Answers,
         Serves, Leads
  <2>4. KeysUpTo(a, disk.app[a].count)'
    BY <1>0, <1>1, <1>2, <1>3, <2>1, KeysSaved DEF SaveState
  <2>5. p \in Attempts => DeployFits(p)'
    <3> SUFFICES ASSUME p \in Attempts PROVE DeployFits(p)'
      OBVIOUS
    <3>1. DeployFits(p)
      BY <2>1 DEF AppFits
    <3>2. app[a].status = "running" /\ disk.app[a].status = "running"
      BY <1>1, <3>1 DEF DeployFits, Unfinished
    <3>3. op'[p].pc = "starting" /\ On(p)' = a /\ app'[a].status = "running" /\ disk' = disk
      BY <1>1, <1>2, <1>3, <3>2 DEF On
    <3> QED BY <3>2, <3>3 DEF DeployFits, Unfinished
  <2>6. RunFits(p)'
    BY <1>2, <1>3 DEF RunFits, At
  <2> QED BY <1>1, <2>1, <2>2, <2>3, <2>4, <2>5, <2>6 DEF Local, SaveState
<1> QED BY <1>0, <1>3, <1>4, <1>5, <1>6, StepKept

LEMMA InspectedKeeps ==
  ASSUME RuntimeInv, NEW x \in Attempts, NEW a \in Apps, a = On(x), Inspected(x)
  PROVE  RuntimeInv'
<1> DEFINE r == [app[a] EXCEPT !.current = op[x].image,
                     !.previous = IF op[x].before # NoImage THEN op[x].before ELSE @, !.status = "succeeded"]
           o == [op[x] EXCEPT !.pc = "publishing", !.hosts = app[a].hosts, !.ok = TRUE]
<1>0. /\ Standing /\ x \in Processes /\ op[x] \in Operation /\ app[a] \in AppRecord
      /\ ProcessFits(x) /\ OnFile(a) /\ disk.app[a] \in AppRecord
      /\ app \in [Apps -> AppRecord] /\ op \in [Processes -> Operation]
  BY Processors, PiecesTyped DEF RuntimeInv, Standing, RuntimeType, Processes
<1>1. /\ app' = [app EXCEPT ![a] = r] /\ op' = [op EXCEPT ![x] = o]
      /\ op[x].pc = "inspecting" /\ box[a].up
      /\ UNCHANGED <<record, own, cancelled, disk, asker, of, phase,
                     did, box, route, mixed, served, restarts>>
      /\ seen' = seen \cup {x}
  BY <1>0 DEF Inspected, At, On, memory, engines, builder, history, bounds
<1>11. /\ r \in AppRecord /\ r.there = app[a].there
       /\ r.status = "succeeded"
       /\ r.attempts = app[a].attempts
       /\ r.count = app[a].count
       /\ r.port = app[a].port
       /\ r.hosts = app[a].hosts
       /\ r.routed = app[a].routed
       /\ r.current = op[x].image
  <2>1. /\ op[x].image \in Images /\ "succeeded" \in Statuses
        /\ (IF op[x].before # NoImage THEN op[x].before ELSE app[a].previous) \in Images
    BY <1>0 DEF Operation, AppRecord, Statuses
  <2> QED BY <1>0, <2>1 DEF AppRecord
<1>12. o \in Operation /\ o.pc = "publishing" /\ o.app = a /\ o.hosts = app[a].hosts /\ o.drop = op[x].drop
  BY <1>0, <1>1, IdleTyped DEF Operation, AppRecord, On, Images, NoImage, GivenImage, Statuses
<1> HIDE DEF r, o
<1>2. /\ r \in AppRecord /\ r.there = app[a].there
      /\ r.status = "succeeded"
      /\ r.attempts = app[a].attempts
      /\ r.count = app[a].count
      /\ r.port = app[a].port
      /\ r.hosts = app[a].hosts
      /\ r.routed = app[a].routed
      /\ r.current = op[x].image
      /\ o \in Operation /\ o.pc = "publishing" /\ o.app = a /\ o.hosts = app[a].hosts /\ o.drop = op[x].drop
  BY <1>11, <1>12
<1> HIDE DEF r, o
<1>23. Changes(a, x, r, o)
  BY <1>0, <1>1, <1>2, Processors DEF Changes, Filed, SaveState, Standing, RuntimeType, Busy, On
<1>3. /\ Typed /\ Elsewhere(a, x) /\ Builds(a) /\ app'[a] = r /\ op'[x] = o
      /\ x # Control => op'[Control] = op[Control]
  BY <1>0, <1>2, <1>23, ChangeFrame, Processors
<1>4. AppGoesOn(a, x)
  BY <1>0, <1>1, <1>2, <1>3 DEF AppGoesOn, OnFile, AppRecord
<1>5. ProcessGoesOn(x)
  <2>1. RecordsFit /\ Busy(x) /\ UNCHANGED <<own, record>> /\ seen \subseteq seen' /\ x \in seen'
    BY <1>0, <1>1 DEF Standing, Busy
  <2>2. \A h \in o.hosts \cup o.drop : HostApp[h] = a
    BY <1>0, <1>2 DEF ProcessFits, OnFile
  <2>3. app[a].port # NoPort
    BY <1>0, <1>1 DEF ProcessFits
  <2> QED BY <1>0, <1>2, <1>3, <2>1, <2>2, <2>3, StepFits
<1>6. ASSUME a \notin mixed' PROVE Local(a, x)
  <2>0. Busy(x) /\ a \notin mixed
    BY <1>1, <1>6 DEF Busy, At
  <2>1. AppFits(a) /\ \A q \in Processes \ {x} : Busy(q) => On(q) # a
    BY <1>0, <2>0, Alone DEF On
  <2>12. DeployFits(x) /\ RunFits(x) /\ disk.app[a].status = "running" /\ box[a].image = op[x].image
    BY <1>0, <1>1, <2>1 DEF AppFits, DeployFits, RunFits, Unfinished, On, At
  <2>11. (Rolling(a) => Rolling(a)') /\ (Routing(a) => Routing(a)')
    BY <1>0, <1>1, <1>2, <1>3, <2>1, Processors DEF Rolling, Routing, On, Busy
  <2>2. Remembers(a)'
    BY <1>0, <1>1, <1>2, <1>3, <2>1, <2>11, <2>12 DEF AppFits, Remembers, Answers,
         Serves, Leads, AppRecord
  <2>3. UNCHANGED disk => FileRemembers(a)'
    BY <1>1, <1>3, <2>1, <2>11 DEF AppFits, FileRemembers, Answers, Serves, Leads
  <2>4. KeysUpTo(a, disk.app[a].count)'
    BY <1>0, <1>1, <1>2, <1>3, <2>1, KeysSaved DEF SaveState
  <2>5. x \in Attempts => DeployFits(x)'
    BY <1>1, <1>2, <1>3, <2>12 DEF DeployFits, On, Unfinished
  <2>6. RunFits(x)'
    BY <1>2, <1>3 DEF RunFits, At, On
  <2> QED BY <1>1, <2>1, <2>2, <2>3, <2>4, <2>5, <2>6 DEF Local, SaveState
<1> QED BY <1>0, <1>3, <1>4, <1>5, <1>6, StepKept

LEMMA DegradeKeeps ==
  ASSUME RuntimeInv, NEW a \in Apps, a = On(Control), Degrade
  PROVE  RuntimeInv'
<1> DEFINE r == [app[a] EXCEPT !.status = "degraded"]
           o == Idle
<1>0. /\ Standing /\ Control \in Processes /\ op[Control] \in Operation /\ app[a] \in AppRecord
      /\ ProcessFits(Control) /\ OnFile(a) /\ disk.app[a] \in AppRecord
      /\ app \in [Apps -> AppRecord] /\ op \in [Processes -> Operation]
  BY Processors, PiecesTyped DEF RuntimeInv, Standing, RuntimeType, Processes
<1>1. /\ app' = [app EXCEPT ![a] = r] /\ op' = [op EXCEPT ![Control] = o]
      /\ op[Control].pc = "probing"
      /\ UNCHANGED <<cancelled, asker, of, phase, did, box, route, seen,
                     mixed, served, restarts, record, own, disk>>
  BY <1>0 DEF Degrade, Leave, At, On, memory, engines, builder, history, bounds
<1>2. /\ r \in AppRecord /\ r.there = app[a].there
      /\ r.status = "degraded"
      /\ r.attempts = app[a].attempts
      /\ r.count = app[a].count
      /\ r.port = app[a].port
      /\ r.hosts = app[a].hosts
      /\ r.routed = app[a].routed
      /\ r.current = app[a].current
      /\ o \in Operation /\ o.pc = "none" /\ o.hosts = {} /\ o.drop = {}
  BY <1>0, <1>1, IdleTyped DEF Operation, AppRecord, On, Images, NoImage, GivenImage, Statuses
<1> HIDE DEF r, o
<1>23. Changes(a, Control, r, o)
  BY <1>0, <1>1, <1>2, Processors DEF Changes, Filed, SaveState, Standing, RuntimeType, Busy, On
<1>3. /\ Typed /\ Elsewhere(a, Control) /\ Builds(a) /\ app'[a] = r /\ op'[Control] = o
      /\ Control # Control => op'[Control] = op[Control]
  BY <1>0, <1>2, <1>23, ChangeFrame, Processors
<1>4. AppGoesOn(a, Control)
  BY <1>0, <1>1, <1>2, <1>3 DEF AppGoesOn, OnFile, AppRecord
<1>5. ProcessGoesOn(Control)
  BY <1>0, <1>1, <1>2, <1>3, Processors DEF ProcessGoesOn, ProcessFits, Standing,
       RecordsFit, OnFile, Busy, On, At
<1>6. ASSUME a \notin mixed' PROVE Local(a, Control)
  <2>0. Busy(Control) /\ a \notin mixed
    BY <1>1, <1>6 DEF Busy, At
  <2>1. AppFits(a) /\ \A q \in Processes \ {Control} : Busy(q) => On(q) # a
    BY <1>0, <2>0, Alone DEF On
  <2>11. (Rolling(a) => Rolling(a)') /\ (Routing(a) => Routing(a)')
    BY <1>0, <1>1, <1>2, <1>3, <2>1, Processors DEF Rolling, Routing, On, Busy
  <2>2. Remembers(a)'
    BY <1>0, <1>1, <1>2, <1>3, <2>1, <2>11 DEF AppFits, Remembers, Answers, Serves,
         Leads, AppRecord
  <2>3. UNCHANGED disk => FileRemembers(a)'
    BY <1>1, <1>3, <2>1, <2>11 DEF AppFits, FileRemembers, Answers, Serves, Leads
  <2>4. KeysUpTo(a, disk.app[a].count)'
    BY <1>0, <1>1, <1>2, <1>3, <2>1, KeysSaved DEF SaveState
  <2>5. Control \in Attempts => DeployFits(Control)'
    BY <1>1, <1>2, <1>3, Processors DEF DeployFits, Unfinished
  <2>6. RunFits(Control)'
    BY <1>2, <1>3 DEF RunFits, At
  <2> QED BY <1>1, <2>1, <2>2, <2>3, <2>4, <2>5, <2>6 DEF Local, SaveState
<1> QED BY <1>0, <1>3, <1>4, <1>5, <1>6, StepKept

LEMMA RolledBackKeeps ==
  ASSUME RuntimeInv, NEW a \in Apps, a = On(Control), RolledBack
  PROVE  RuntimeInv'
<1> DEFINE r == [app[a] EXCEPT !.previous = app[a].current, !.current = op[Control].image, !.status = "succeeded"]
           o == Idle
<1>0. /\ Standing /\ Control \in Processes /\ op[Control] \in Operation /\ app[a] \in AppRecord
      /\ ProcessFits(Control) /\ OnFile(a) /\ disk.app[a] \in AppRecord
      /\ app \in [Apps -> AppRecord] /\ op \in [Processes -> Operation]
  BY Processors, PiecesTyped DEF RuntimeInv, Standing, RuntimeType, Processes
<1>1. /\ app' = [app EXCEPT ![a] = r] /\ op' = [op EXCEPT ![Control] = o]
      /\ op[Control].pc = "inspecting" /\ box[a].up
      /\ UNCHANGED <<cancelled, asker, of, phase, did, box, route,
                     seen, mixed, served, restarts, record, own>>
      /\ SaveState
  BY <1>0 DEF RolledBack, Leave, At, On, memory, engines, builder, history, bounds
<1>2. /\ r \in AppRecord /\ r.there = app[a].there
      /\ r.status = "succeeded"
      /\ r.attempts = app[a].attempts
      /\ r.count = app[a].count
      /\ r.port = app[a].port
      /\ r.hosts = app[a].hosts
      /\ r.routed = app[a].routed
      /\ r.current = op[Control].image
      /\ o \in Operation /\ o.pc = "none" /\ o.hosts = {} /\ o.drop = {}
  BY <1>0, <1>1, IdleTyped, ZenonT(60) DEF Operation, AppRecord, On, Images, NoImage, GivenImage, Statuses
<1> HIDE DEF r, o
<1>23. Changes(a, Control, r, o)
  BY <1>0, <1>1, <1>2, Processors DEF Changes, Filed, SaveState, Standing, RuntimeType, Busy, On
<1>3. /\ Typed /\ Elsewhere(a, Control) /\ Builds(a) /\ app'[a] = r /\ op'[Control] = o
      /\ Control # Control => op'[Control] = op[Control]
  BY <1>0, <1>2, <1>23, ChangeFrame, Processors
<1>4. AppGoesOn(a, Control)
  BY <1>0, <1>1, <1>2, <1>3 DEF AppGoesOn, OnFile, AppRecord
<1>5. ProcessGoesOn(Control)
  BY <1>0, <1>1, <1>2, <1>3, Processors DEF ProcessGoesOn, ProcessFits, Standing,
       RecordsFit, OnFile, Busy, On, At
<1>6. ASSUME a \notin mixed' PROVE Local(a, Control)
  <2>0. Busy(Control) /\ a \notin mixed
    BY <1>1, <1>6 DEF Busy, At
  <2>1. AppFits(a) /\ \A q \in Processes \ {Control} : Busy(q) => On(q) # a
    BY <1>0, <2>0, Alone DEF On
  <2>12. box[a].image = op[Control].image /\ ~ Routing(a)
    BY <1>0, <1>1, <2>1 DEF AppFits, RunFits, On, At, Routing
  <2>2. Remembers(a)'
    BY <1>0, <1>1, <1>2, <1>3, <2>1, <2>12 DEF AppFits, Remembers, Answers, Serves,
         Leads, AppRecord
  <2>3. UNCHANGED disk => FileRemembers(a)'
    BY <1>1, <2>2 DEF Remembers, FileRemembers, SaveState, Answers, Serves, Leads,
         Rolling, Routing, On
  <2>4. KeysUpTo(a, disk.app[a].count)'
    BY <1>0, <1>1, <1>2, <1>3, <2>1, KeysSaved DEF SaveState
  <2>5. Control \in Attempts => DeployFits(Control)'
    BY <1>1, <1>2, <1>3, Processors DEF DeployFits, Unfinished
  <2>6. RunFits(Control)'
    BY <1>2, <1>3 DEF RunFits, At
  <2> QED BY <1>1, <2>1, <2>2, <2>3, <2>4, <2>5, <2>6 DEF Local, SaveState
<1> QED BY <1>0, <1>3, <1>4, <1>5, <1>6, StepKept

LEMMA SetDomainsKeeps ==
  ASSUME RuntimeInv, NEW a \in Apps, NEW hosts \in SUBSET Hosts, \A h \in hosts : HostApp[h] = a, SetDomains(a, hosts)
  PROVE  RuntimeInv'
<1> DEFINE r == [app[a] EXCEPT !.hosts = hosts]
           o == [Idle EXCEPT !.pc = "withdrawing", !.app = a, !.hosts = hosts, !.drop = app[a].hosts \ hosts]
<1>0. /\ Standing /\ Control \in Processes /\ op[Control] \in Operation /\ app[a] \in AppRecord
      /\ ProcessFits(Control) /\ OnFile(a) /\ disk.app[a] \in AppRecord
      /\ app \in [Apps -> AppRecord] /\ op \in [Processes -> Operation]
  BY Processors, PiecesTyped DEF RuntimeInv, Standing, RuntimeType, Processes
<1>1. /\ app' = [app EXCEPT ![a] = r] /\ op' = [op EXCEPT ![Control] = o]
      /\ op[Control].pc = "none" /\ app[a].there
      /\ UNCHANGED <<record, own, cancelled, disk, asker, of, phase,
                     did, box, route, seen, restarts>>
      /\ Mix(a) /\ Serve
  BY <1>0 DEF SetDomains, Serve, Busy, At, On, memory, engines, builder, history, bounds
<1>2. /\ r \in AppRecord /\ r.there = app[a].there
      /\ r.status = app[a].status
      /\ r.attempts = app[a].attempts
      /\ r.count = app[a].count
      /\ r.port = app[a].port
      /\ r.hosts = hosts
      /\ r.routed = app[a].routed
      /\ r.current = app[a].current
      /\ o \in Operation /\ o.pc = "withdrawing" /\ o.app = a /\ o.hosts = hosts /\ o.drop = app[a].hosts \ hosts
  <2>1. r \in AppRecord
    BY <1>0 DEF AppRecord
  <2>2. /\ r.there = app[a].there /\ r.status = app[a].status /\ r.attempts = app[a].attempts
        /\ r.count = app[a].count /\ r.port = app[a].port /\ r.hosts = hosts
        /\ r.routed = app[a].routed /\ r.current = app[a].current
    BY <1>0 DEF AppRecord
  <2>3. app[a].hosts \ hosts \in SUBSET Hosts
    BY <1>0 DEF AppRecord
  <2>4. o \in Operation
    BY <1>0, <2>3, IdleTyped DEF Operation
  <2>5. /\ o.pc = "withdrawing" /\ o.app = a /\ o.hosts = hosts
        /\ o.drop = app[a].hosts \ hosts
    BY IdleTyped DEF Operation
  <2> QED BY <2>1, <2>2, <2>4, <2>5
<1>21. /\ mixed \subseteq mixed' /\ mixed' \subseteq Apps
       /\ a \notin mixed' => AppFits(a) /\ a \notin mixed /\ \A q \in Processes : Busy(q) => On(q) # a
  BY <1>1, MixedOnce
<1>22. served' \in 0..MaxServed
  BY <1>0, <1>1, ServedTyped DEF Standing
<1> HIDE DEF r, o
<1>23. Changes(a, Control, r, o)
  BY <1>0, <1>1, <1>2, <1>21, <1>22, Processors DEF Changes, Filed, SaveState, Standing,
       RuntimeType, Busy, On
<1>3. /\ Typed /\ Elsewhere(a, Control) /\ Builds(a) /\ app'[a] = r /\ op'[Control] = o
      /\ Control # Control => op'[Control] = op[Control]
  BY <1>0, <1>2, <1>23, ChangeFrame, Processors
<1>4. AppGoesOn(a, Control)
  <2>1. /\ app'[a].hosts = hosts /\ app'[a].attempts = app[a].attempts /\ app'[a].count = app[a].count
        /\ app'[a].port = app[a].port /\ app'[a].routed = app[a].routed /\ app'[a].there = app[a].there
    BY <1>2, <1>3
  <2>2. app[a].routed => app[a].port # NoPort
    BY <1>0 DEF OnFile
  <2> QED BY <1>0, <2>1, <2>2 DEF AppGoesOn, AppRecord
<1>5. ProcessGoesOn(Control)
  <2>1. \A h \in hosts \cup app[a].hosts : HostApp[h] = a
    BY <1>0 DEF OnFile
  <2>2. ProcessFits(Control)'
    BY <1>1, <1>2, <1>3, <2>1, Processors, ZenonT(60) DEF ProcessFits, Busy, On, At
  <2> QED BY <2>2, Processors DEF ProcessGoesOn
<1>6. ASSUME a \notin mixed' PROVE Local(a, Control)
  <2>1. AppFits(a) /\ \A q \in Processes \ {Control} : Busy(q) => On(q) # a
    BY <1>6, <1>21
  <2>12. Routing(a)'
    BY <1>2, <1>3 DEF Routing, On
  <2>11. Rolling(a) => Rolling(a)'
    BY <1>1 DEF Rolling
  <2>2. Remembers(a)'
    BY <1>0, <1>1, <1>2, <1>3, <2>1, <2>11, <2>12 DEF AppFits, Remembers, Answers,
         Serves, Leads, AppRecord
  <2>3. UNCHANGED disk => FileRemembers(a)'
    BY <1>1, <1>3, <2>1, <2>11, <2>12 DEF AppFits, FileRemembers, Answers, Serves, Leads
  <2>4. KeysUpTo(a, disk.app[a].count)'
    BY <1>0, <1>1, <1>2, <1>3, <2>1, KeysSaved DEF SaveState
  <2>5. Control \in Attempts => DeployFits(Control)'
    BY <1>1, <1>2, <1>3, Processors DEF DeployFits, Unfinished
  <2>6. RunFits(Control)'
    BY <1>2, <1>3 DEF RunFits, At, On
  <2> QED BY <1>1, <2>1, <2>2, <2>3, <2>4, <2>5, <2>6 DEF Local, SaveState
<1> QED BY <1>0, <1>3, <1>4, <1>5, <1>6, StepKept

LEMMA DomainsSetKeeps ==
  ASSUME RuntimeInv, NEW a \in Apps, a = On(Control), DomainsSet
  PROVE  RuntimeInv'
<1> DEFINE r == [app[a] EXCEPT !.routed = op[Control].ok]
           o == Idle
<1>0. /\ Standing /\ Control \in Processes /\ op[Control] \in Operation /\ app[a] \in AppRecord
      /\ ProcessFits(Control) /\ OnFile(a) /\ disk.app[a] \in AppRecord
      /\ app \in [Apps -> AppRecord] /\ op \in [Processes -> Operation]
  BY Processors, PiecesTyped DEF RuntimeInv, Standing, RuntimeType, Processes
<1>1. /\ app' = [app EXCEPT ![a] = r] /\ op' = [op EXCEPT ![Control] = o]
      /\ op[Control].pc = "publishing" /\ op[Control].hosts = {}
      /\ UNCHANGED <<cancelled, asker, of, phase, did, box, route,
                     seen, mixed, served, restarts, record, own>>
      /\ SaveState
  BY <1>0 DEF DomainsSet, AllPublished, Leave, At, On, memory, engines, builder, history, bounds
<1>2. /\ r \in AppRecord /\ r.there = app[a].there
      /\ r.status = app[a].status
      /\ r.attempts = app[a].attempts
      /\ r.count = app[a].count
      /\ r.port = app[a].port
      /\ r.hosts = app[a].hosts
      /\ r.routed = op[Control].ok
      /\ r.current = app[a].current
      /\ o \in Operation /\ o.pc = "none" /\ o.hosts = {} /\ o.drop = {}
  BY <1>0, <1>1, IdleTyped DEF Operation, AppRecord, On, Images, NoImage, GivenImage, Statuses
<1> HIDE DEF r, o
<1>23. Changes(a, Control, r, o)
  BY <1>0, <1>1, <1>2, Processors DEF Changes, Filed, SaveState, Standing, RuntimeType, Busy, On
<1>3. /\ Typed /\ Elsewhere(a, Control) /\ Builds(a) /\ app'[a] = r /\ op'[Control] = o
      /\ Control # Control => op'[Control] = op[Control]
  BY <1>0, <1>2, <1>23, ChangeFrame, Processors
<1>4. AppGoesOn(a, Control)
  <2>1. \A h \in app[a].hosts : HostApp[h] = a
    BY <1>0 DEF OnFile
  <2>2. op[Control].ok => app[a].port # NoPort
    BY <1>0, <1>1 DEF ProcessFits, At
  <2>3. app[a].count \in Nat
    BY <1>0 DEF AppRecord
  <2> QED BY <1>2, <1>3, <2>1, <2>2, <2>3 DEF AppGoesOn
<1>5. ProcessGoesOn(Control)
  BY <1>0, <1>1, <1>2, <1>3, Processors DEF ProcessGoesOn, ProcessFits, Standing,
       RecordsFit, OnFile, Busy, On, At
<1>6. ASSUME a \notin mixed' PROVE Local(a, Control)
  <2>0. Busy(Control) /\ a \notin mixed
    BY <1>1, <1>6 DEF Busy, At
  <2>1. AppFits(a) /\ \A q \in Processes \ {Control} : Busy(q) => On(q) # a
    BY <1>0, <2>0, Alone DEF On
  <2>12. RunFits(Control) /\ ~ Rolling(a)
    BY <1>0, <1>1, <2>1 DEF AppFits, On, Rolling
  <2>2. Remembers(a)'
    BY <1>0, <1>1, <1>2, <1>3, <2>1, <2>12, ZenonT(60) DEF AppFits, Remembers, Answers, Serves,
         Leads, RunFits, At, On, AppRecord
  <2>3. UNCHANGED disk => FileRemembers(a)'
    BY <1>1, <2>2 DEF Remembers, FileRemembers, SaveState, Answers, Serves, Leads,
         Rolling, Routing, On
  <2>4. KeysUpTo(a, disk.app[a].count)'
    BY <1>0, <1>1, <1>2, <1>3, <2>1, KeysSaved DEF SaveState
  <2>5. Control \in Attempts => DeployFits(Control)'
    BY <1>1, <1>2, <1>3, Processors DEF DeployFits, Unfinished
  <2>6. RunFits(Control)'
    BY <1>2, <1>3 DEF RunFits, At
  <2> QED BY <1>1, <2>1, <2>2, <2>3, <2>4, <2>5, <2>6 DEF Local, SaveState
<1> QED BY <1>0, <1>3, <1>4, <1>5, <1>6, StepKept

LEMMA DestroyedKeeps ==
  ASSUME RuntimeInv, NEW a \in Apps, a = On(Control), Destroyed
  PROVE  RuntimeInv'
<1> DEFINE r == [app[a] EXCEPT !.there = FALSE]
           o == Idle
<1>0. /\ Standing /\ Control \in Processes /\ op[Control] \in Operation /\ app[a] \in AppRecord
      /\ ProcessFits(Control) /\ OnFile(a) /\ disk.app[a] \in AppRecord
      /\ app \in [Apps -> AppRecord] /\ op \in [Processes -> Operation]
  BY Processors, PiecesTyped DEF RuntimeInv, Standing, RuntimeType, Processes
<1>1. /\ app' = [app EXCEPT ![a] = r] /\ op' = [op EXCEPT ![Control] = o]
      /\ op[Control].pc = "releasing" /\ op[Control].drop = {}
      /\ UNCHANGED <<cancelled, asker, of, phase, did, box, route,
                     seen, mixed, served, restarts, record, own>>
      /\ SaveState
  BY <1>0 DEF Destroyed, Leave, At, On, memory, engines, builder, history, bounds
<1>2. /\ r \in AppRecord /\ r.there = FALSE
      /\ r.status = app[a].status
      /\ r.attempts = app[a].attempts
      /\ r.count = app[a].count
      /\ r.port = app[a].port
      /\ r.hosts = app[a].hosts
      /\ r.routed = app[a].routed
      /\ r.current = app[a].current
      /\ o \in Operation /\ o.pc = "none" /\ o.hosts = {} /\ o.drop = {}
  BY <1>0, <1>1, IdleTyped DEF Operation, AppRecord, On, Images, NoImage, GivenImage, Statuses
<1> HIDE DEF r, o
<1>23. Changes(a, Control, r, o)
  BY <1>0, <1>1, <1>2, Processors DEF Changes, Filed, SaveState, Standing, RuntimeType, Busy, On
<1>3. /\ Typed /\ Elsewhere(a, Control) /\ Builds(a) /\ app'[a] = r /\ op'[Control] = o
      /\ Control # Control => op'[Control] = op[Control]
  BY <1>0, <1>2, <1>23, ChangeFrame, Processors
<1>4. AppGoesOn(a, Control)
  BY <1>0, <1>1, <1>2, <1>3 DEF AppGoesOn, OnFile, AppRecord
<1>5. ProcessGoesOn(Control)
  BY <1>0, <1>1, <1>2, <1>3, Processors DEF ProcessGoesOn, ProcessFits, Standing,
       RecordsFit, OnFile, Busy, On, At
<1>6. ASSUME a \notin mixed' PROVE Local(a, Control)
  <2>0. Busy(Control) /\ a \notin mixed
    BY <1>1, <1>6 DEF Busy, At
  <2>1. AppFits(a) /\ \A q \in Processes \ {Control} : Busy(q) => On(q) # a
    BY <1>0, <2>0, Alone DEF On
  <2>12. ~ Rolling(a)
    BY <1>1 DEF Rolling
  <2>2. Remembers(a)'
    BY <1>0, <1>1, <1>2, <1>3, <2>1, <2>12 DEF AppFits, Remembers, Answers, Serves,
         Leads, AppRecord
  <2>3. UNCHANGED disk => FileRemembers(a)'
    BY <1>1, <2>2 DEF Remembers, FileRemembers, SaveState, Answers, Serves, Leads,
         Rolling, Routing, On
  <2>4. KeysUpTo(a, disk.app[a].count)'
    BY <1>0, <1>1, <1>2, <1>3, <2>1, KeysSaved DEF SaveState
  <2>5. Control \in Attempts => DeployFits(Control)'
    BY <1>1, <1>2, <1>3, Processors DEF DeployFits, Unfinished
  <2>6. RunFits(Control)'
    BY <1>2, <1>3 DEF RunFits, At
  <2> QED BY <1>1, <2>1, <2>2, <2>3, <2>4, <2>5, <2>6 DEF Local, SaveState
<1> QED BY <1>0, <1>3, <1>4, <1>5, <1>6, StepKept

\* A build of the same key is taken for this one.
LEMMA PostedAgainKeeps ==
  ASSUME RuntimeInv, NEW x \in Attempts, NEW a \in Apps, a = On(x), NEW i \in Remembered(BuildKey(a)),
         At(x, "posting"), Posted(x, i), UNCHANGED <<builder, asker>>
  PROVE  RuntimeInv'
<1> DEFINE o == [op[x] EXCEPT !.pc = "polling", !.build = i]
<1>0. /\ Standing /\ x \in Processes /\ op[x] \in Operation /\ app[a] \in AppRecord
      /\ ProcessFits(x) /\ OnFile(a) /\ disk.app[a] \in AppRecord
  BY Processors, PiecesTyped DEF RuntimeInv, Standing
<1>1. /\ op' = [op EXCEPT ![x] = o] /\ op[x].pc = "posting" /\ i \in BuildJobs
      /\ UNCHANGED <<app, record, cancelled, own, seen, asker, of, phase,
                     did, disk, box, route, mixed, served, restarts>>
  BY <1>0, RuntimeAssumption DEF Posted, Remembered, At, memory, engines, builder,
       history, bounds
<1>2. /\ o \in Operation /\ o.pc = "polling" /\ o.app = a /\ o.build = i
      /\ o.hosts = op[x].hosts /\ o.drop = op[x].drop
  BY <1>0, <1>1, IdleTyped DEF Operation, AppRecord, On, Images
<1>2c. /\ box' \in [Apps -> [image : Images, port : Ports \cup {NoPort}, up : BOOLEAN]]
       /\ \A b \in Apps \ {a} : box'[b] = box[b]
       /\ route' \in [Hosts -> Ports \cup {NoPort}]
       /\ \A g \in Hosts : HostApp[g] # a => route'[g] = route[g]
       /\ mixed \subseteq mixed' /\ mixed' \subseteq Apps /\ served' \in 0..MaxServed
  BY <1>0, <1>1 DEF Standing, RuntimeType
<1>2d. (Busy(x) => On(x) = a) /\ (o.pc # "none" => o.app = a)
  BY <1>0, <1>1, <1>2 DEF Busy, On
<1> HIDE DEF o
<1>2e. OperationSteps(a, x, o)
  BY <1>1, <1>2c, <1>2d DEF OperationSteps
<1>3. /\ Typed /\ Elsewhere(a, x) /\ Builds(a) /\ AppGoesOn(a, x) /\ op'[x] = o
      /\ x # Control => op'[Control] = op[Control]
      /\ ProcessFits(x)' => ProcessGoesOn(x)
  BY <1>0, <1>2, <1>2e, MoveFrame, Processors
<1>4. ProcessFits(x)'
  BY <1>0, <1>1, <1>2, <1>2c, <1>3, Processors DEF ProcessFits, On, At, Busy
<1>5. ASSUME a \notin mixed' PROVE Local(a, x)
  <2>1. Busy(x) /\ a \notin mixed
    BY <1>1, <1>5, <1>2c DEF Busy, At, StartFails
  <2>2. AppFits(a) /\ \A q \in Processes \ {x} : Busy(q) => On(q) # a
    BY <1>0, <1>1, <2>1, Alone
  <2>3. Remembers(a)' /\ FileRemembers(a)'
    BY <1>0, <1>1, <1>2, <1>3, <2>2, NothingForgotten, Processors DEF Rolling, Routing, On
  <2>5. DeployFits(x)'
    <3>1. KeysUpTo(a, app[a].count - 1)
      BY <1>0, <1>1, <2>2 DEF AppFits, DeployFits, On
    <3>2. phase[i] # "none" /\ of[i] = <<a, app[a].count>> /\ i \in BuildJobs
      BY DEF Remembered, BuildKey
    <3> QED BY <1>0, <3>1, <3>2 DEF KeysUpTo, AppRecord
  <2>6. RunFits(x)'
    BY <1>2, <1>3 DEF RunFits, At
  <2>7. KeysUpTo(a, disk.app[a].count)'
    BY <1>0, <1>1, <2>2, KeysStay
  <2> QED BY <1>1, <2>2, <2>3, <2>5, <2>6, <2>7 DEF Local
<1> QED BY <1>0, <1>3, <1>4, <1>5, StepKept

\* A build of its own is asked for.
LEMMA AskedKeeps ==
  ASSUME RuntimeInv, NEW x \in Attempts, NEW a \in Apps, a = On(x), NEW i \in BuildJobs,
         At(x, "posting"), Ask(i, BuildKey(a)), asker' = [asker EXCEPT ![i] = x], Posted(x, i)
  PROVE  RuntimeInv'
<1> DEFINE o == [op[x] EXCEPT !.pc = "polling", !.build = i]
<1>0. /\ Standing /\ x \in Processes /\ op[x] \in Operation /\ app[a] \in AppRecord
      /\ ProcessFits(x) /\ OnFile(a)
  BY Processors, PiecesTyped DEF RuntimeInv, Standing
<1>1. /\ op' = [op EXCEPT ![x] = o] /\ op[x].pc = "posting"
      /\ UNCHANGED <<app, record, cancelled, own, seen, disk,
                     box, route, mixed, served, restarts>>
      /\ of[i] = NoKey /\ of' = [of EXCEPT ![i] = <<a, app[a].count>>]
      /\ phase' = [phase EXCEPT ![i] = "pending"] /\ did' = did \ {i}
  BY DEF Posted, At, Ask, BuildKey, memory, history, bounds
<1>2. /\ o \in Operation /\ o.pc = "polling" /\ o.app = a /\ o.build = i
      /\ o.hosts = op[x].hosts /\ o.drop = op[x].drop
  BY <1>0 DEF Operation, On, Images
<1> HIDE DEF o
<1>3. op' \in [Processes -> Operation] /\ op'[x] = o /\ \A q \in Processes \ {x} : op'[q] = op[q]
  BY <1>0, <1>1, <1>2, OpTyped DEF Standing, RuntimeType, Processes
<1>4. asker' \in [BuildJobs -> Attempts \cup {NoAttempt}]
  BY <1>0 DEF Standing, RuntimeType
<1>5. Typed
  BY <1>0, <1>1, <1>3, <1>4 DEF Typed, Standing, RuntimeType
<1>6. Elsewhere(a, x)
  BY <1>1, <1>2, <1>3 DEF Elsewhere, Filed
<1>7. <<a, app[a].count>> \in Apps \X Nat /\ <<a, app[a].count>> # NoKey
  BY <1>0, RuntimeAssumption DEF AppRecord
<1>8. Builds(a)
  <2>1. of' \in [BuildJobs -> (Apps \X Nat) \cup {NoKey}]
    BY <1>0, <1>1, <1>7 DEF Standing, BuilderFits
  <2>2. phase' \in [BuildJobs -> BuildPhases] /\ did' \subseteq BuildJobs
    BY <1>0, <1>1 DEF Standing, BuilderFits, BuildPhases
  <2>3. \A j \in BuildJobs : phase'[j] # "none" => of'[j] # NoKey /\ (phase[j] # "none" \/ of'[j][1] = a)
    BY <1>0, <1>1, <1>7 DEF Standing, BuilderFits
  <2>4. \A j \in BuildJobs : of[j] # NoKey => of'[j] = of[j] /\ asker'[j] = asker[j]
    BY <1>0, <1>1 DEF Standing, BuilderFits, RuntimeType
  <2> QED BY <2>1, <2>2, <2>3, <2>4 DEF Builds, BuilderFits
<1>9. AppGoesOn(a, x)
  BY <1>0, <1>1 DEF AppGoesOn, OnFile, AppRecord
<1>10. ProcessGoesOn(x)
  BY <1>0, <1>1, <1>2, <1>3, Processors DEF ProcessGoesOn, ProcessFits, Standing,
       RecordsFit, On, At, Busy
<1>11. ASSUME a \notin mixed' PROVE Local(a, x)
  <2>1. Busy(x) /\ a \notin mixed
    BY <1>1, <1>11 DEF Busy
  <2>2. AppFits(a) /\ \A q \in Processes \ {x} : Busy(q) => On(q) # a
    BY <1>0, <2>1, Alone
  <2>3. Remembers(a)' /\ FileRemembers(a)'
    BY <1>1, <1>3, <2>2, NothingForgotten, Processors DEF Rolling, Routing, On
  <2>4. DeployFits(x) /\ disk.app[a].count = app[a].count
    BY <1>0, <1>1, <2>2 DEF AppFits, DeployFits, On
  <2>5. KeysUpTo(a, disk.app[a].count)'
    <3>1. \A j \in BuildJobs \ {i} : of'[j] = of[j] /\ phase'[j] = phase[j]
      BY <1>0, <1>1 DEF Standing, BuilderFits
    <3>2. of'[i][2] = app[a].count /\ app[a].count \in Nat
      BY <1>0, <1>1 DEF Standing, BuilderFits, AppRecord
    <3> QED BY <1>1, <2>2, <2>4, <3>1, <3>2 DEF AppFits, KeysUpTo
  <2>6. OwnBuild(x, i)'
    BY <1>0, <1>1, <1>7 DEF OwnBuild, Standing, BuilderFits, RuntimeType
  <2>7. DeployFits(x)'
    BY <1>1, <1>2, <1>3, <2>4, <2>6 DEF DeployFits, On, Unfinished
  <2>8. RunFits(x)'
    BY <1>2, <1>3 DEF RunFits, At
  <2> QED BY <2>2, <2>3, <2>5, <2>7, <2>8 DEF Local
<1> QED BY <1>5, <1>6, <1>8, <1>9, <1>10, <1>11, StepKept

LEMMA OnTyped ==
  ASSUME RuntimeInv, NEW p \in Processes
  PROVE  On(p) \in Apps /\ op[p] \in Operation
BY PiecesTyped DEF RuntimeInv, Standing

LEMMA SavedKeeps ==
  ASSUME RuntimeInv, NEW x \in Attempts, Saved(x)
  PROVE  RuntimeInv'
<1>0. x \in Processes /\ On(x) \in Apps /\ op[x] \in Operation /\ op \in [Processes -> Operation]
  BY Processors, OnTyped DEF RuntimeInv, Standing, RuntimeType, Processes
<1>1. At(x, "saving") /\ UNCHANGED <<cancelled, engines, asker, seen, mixed, bounds>>
  BY DEF Saved
<1>2. CASE Fails(x)
  BY <1>0, <1>1, <1>2, FailsKeeps DEF At
<1>3. CASE /\ IF On(x) \in ImageApps THEN Run(x, GivenImage) ELSE GoTo(x, "posting")
           /\ UNCHANGED <<app, record, own>> /\ SaveState
  <2>1. CASE On(x) \in ImageApps /\ Run(x, GivenImage)
    <3>1. /\ op' = [op EXCEPT ![x] = [op[x] EXCEPT !.pc = "removing", !.image = op'[x].image, !.before = op'[x].before]]
          /\ op'[x].image = GivenImage /\ op'[x].before = app[On(x)].current
      BY <1>0, <2>1 DEF Run, Operation
    <3>2. op'[x].image \in Images /\ op'[x].before \in Images
      BY <1>0, <3>1, PiecesTyped DEF RuntimeInv, Standing, AppRecord, Images
    <3> QED BY <1>0, <1>1, <1>3, <2>1, <3>1, <3>2, SavedGoesKeeps
  <2>2. CASE On(x) \notin ImageApps /\ GoTo(x, "posting")
    <3>1. /\ op' = [op EXCEPT ![x] = [op[x] EXCEPT !.pc = "posting", !.image = op'[x].image, !.before = op'[x].before]]
          /\ op'[x].image = op[x].image /\ op'[x].before = op[x].before
      BY <1>0, <2>2 DEF GoTo, Operation
    <3>2. op'[x].image \in Images /\ op'[x].before \in Images
      BY <1>0, <3>1 DEF Operation
    <3> QED BY <1>0, <1>1, <1>3, <2>2, <3>1, <3>2, SavedGoesKeeps
  <2> QED BY <1>3, <2>1, <2>2
<1> QED BY <1>2, <1>3 DEF Saved

LEMMA PostBuildKeeps ==
  ASSUME RuntimeInv, NEW x \in Attempts, PostBuild(x)
  PROVE  RuntimeInv'
<1>0. x \in Processes /\ On(x) \in Apps /\ At(x, "posting")
  BY Processors, OnTyped DEF PostBuild
<1>1. ASSUME NEW i \in BuildJobs, Ask(i, BuildKey(On(x))), asker' = [asker EXCEPT ![i] = x], Posted(x, i)
      PROVE  RuntimeInv'
  BY <1>0, <1>1, AskedKeeps
<1>2. ASSUME NEW i \in Remembered(BuildKey(On(x))), Posted(x, i), UNCHANGED <<builder, asker>>
      PROVE  RuntimeInv'
  BY <1>0, <1>2, PostedAgainKeeps
<1>3. CASE Fails(x) /\ UNCHANGED <<cancelled, engines, asker, seen, mixed, bounds>>
  BY <1>0, <1>3, FailsKeeps DEF At
<1> QED BY <1>1, <1>2, <1>3 DEF PostBuild

LEMMA PollFailsKeeps ==
  ASSUME RuntimeInv, NEW x \in Attempts, PollFails(x) \/ RunFails(x)
  PROVE  RuntimeInv'
<1>0. x \in Processes /\ On(x) \in Apps
  BY Processors, OnTyped
<1>1. op[x].pc # "none" /\ Fails(x) /\ UNCHANGED <<cancelled, engines, asker, seen,
                                                   mixed, bounds>>
  BY DEF PollFails, RunFails, At, StartFails
<1> QED BY <1>0, <1>1, FailsKeeps

LEMMA PortTaken ==
  ASSUME RuntimeInv, NEW p \in Processes, Removed(p)
  PROVE  RuntimeInv'
<1>0. On(p) \in Apps /\ app[On(p)] \in AppRecord
  BY OnTyped, PiecesTyped DEF RuntimeInv, Standing
<1>1. PICK port \in (IF app[On(p)].port # NoPort THEN {app[On(p)].port} ELSE FreePorts(On(p))) :
        app' = [app EXCEPT ![On(p)].port = port]
  BY DEF Removed
<1>2. /\ port \in Ports \cup {NoPort} /\ port # NoPort
      /\ port = app[On(p)].port \/ (app[On(p)].port = NoPort /\ port \notin Taken(On(p)))
  BY <1>0, <1>1, RuntimeAssumption DEF FreePorts, AppRecord
<1> QED BY <1>0, <1>1, <1>2, RemovedKeeps

LEMMA RunStepKeeps ==
  ASSUME RuntimeInv, NEW p \in Processes, RunStep(p)
  PROVE  RuntimeInv'
<1>1. On(p) \in Apps
  BY OnTyped
<1>2. ASSUME NEW h \in Hosts, PublishHost(p, h) PROVE RuntimeInv'
  BY <1>1, <1>2, HostIsTried, HostTriedKeeps
<1> QED BY <1>1, <1>2, PortTaken, StartedKeeps DEF RunStep

LEMMA DeployStepKeeps ==
  ASSUME RuntimeInv, NEW x \in Attempts, DeployStep(x)
  PROVE  RuntimeInv'
<1>1. On(x) \in Apps
  BY Processors, OnTyped
<1> QED
  BY <1>1, SavedKeeps, PostBuildKeeps, PollFailsKeeps, PollSucceedsKeeps, InspectedKeeps,
       DeployEndsKeeps
     DEF DeployStep

LEMMA ControlStepKeeps ==
  ASSUME RuntimeInv, ControlStep
  PROVE  RuntimeInv'
<1>1. On(Control) \in Apps
  BY Processors, OnTyped
<1> QED
  BY <1>1, DegradeKeeps, RollbackFailsKeeps, RolledBackKeeps, BoxDestroyedKeeps,
       AllWithdrawnKeeps,
     DomainsSetKeeps, DestroyedKeeps, WithdrawHostKeeps DEF ControlStep

LEMMA RequestedKeeps ==
  ASSUME RuntimeInv, Requested
  PROVE  RuntimeInv'
BY CreateAppKeeps, SetDomainsKeeps, DeployKeeps, CancelAttemptKeeps, CancelAppKeeps,
     ProbeKeeps, RollbackKeeps,
   DestroyKeeps DEF Requested

-----------------------------------------------------------------------------
(* The invariant holds at first and after every step; what the runtime     *)
(* promises follows from it.                                               *)

LEMMA RuntimeInvInit == RuntimeInit => RuntimeInv
<1> SUFFICES ASSUME RuntimeInit PROVE RuntimeInv
  OBVIOUS
<1>1. /\ \A a \in Apps : app[a] = App0 /\ disk.app[a] = App0 /\ box[a] = NoBox
      /\ \A x \in Attempts : record[x] = "none" /\ disk.record[x] = "none" /\ own[x] = "none"
      /\ \A p \in Processes : op[p] = Idle
      /\ \A i \in BuildJobs : phase[i] = "none" /\ of[i] = NoKey
      /\ mixed = {} /\ seen = {}
  BY DEF RuntimeInit, ContractInit, Processes
<1>2. RuntimeType
  BY IdleTyped, App0Typed, RuntimeAssumption
     DEF RuntimeInit, RuntimeType, Recorded, Images, NoImage, NoBox
<1>3. BuilderFits
  BY DEF RuntimeInit, ContractInit, BuilderFits, BuildPhases
<1>4. RecordsFit /\ PortsDiffer /\ \A a \in Apps : OnFile(a)
  BY <1>1 DEF RecordsFit, PortsDiffer, OnFile, App0
<1>5. \A p \in Processes : ProcessFits(p)
  BY <1>1, IdleTyped DEF ProcessFits, Busy, At
<1>6. \A a \in Apps : AppFits(a)
  <2> SUFFICES ASSUME NEW a \in Apps PROVE AppFits(a)
    OBVIOUS
  <2>1. Remembers(a) /\ FileRemembers(a)
    BY <1>1 DEF Remembers, FileRemembers, Answers, Serves, Leads, App0
  <2>2. KeysUpTo(a, disk.app[a].count)
    BY <1>1 DEF KeysUpTo
  <2>3. \A x \in Attempts : DeployFits(x)
    BY <1>1, IdleTyped, Processors DEF DeployFits, Unfinished
  <2>4. \A p \in Processes : RunFits(p) /\ ~ Busy(p)
    BY <1>1, IdleTyped DEF RunFits, At, Busy
  <2> QED BY <2>1, <2>2, <2>3, <2>4 DEF AppFits
<1> QED BY <1>2, <1>3, <1>4, <1>5, <1>6 DEF RuntimeInv, Standing

LEMMA RuntimeInvStep == RuntimeInv /\ [RuntimeNext]_runtimeVars => RuntimeInv'
<1> SUFFICES ASSUME RuntimeInv, [RuntimeNext]_runtimeVars PROVE RuntimeInv'
  OBVIOUS
<1>1. CASE Requested
  BY <1>1, RequestedKeeps
<1>2. ASSUME NEW x \in Attempts, DeployStep(x) PROVE RuntimeInv'
  BY <1>2, DeployStepKeeps
<1>3. ASSUME NEW p \in Attempts \cup {Control}, RunStep(p) PROVE RuntimeInv'
  BY <1>3, RunStepKeeps DEF Processes
<1>4. CASE ControlStep
  BY <1>4, ControlStepKeeps
<1>5. ASSUME NEW a \in Apps, BoxStops(a) PROVE RuntimeInv'
  BY <1>5, BoxStopsKeeps
<1>6. CASE RuntimeRestarts
  BY <1>6, RuntimeRestartsKeeps
<1>7. ASSUME NEW i \in BuildJobs, BuildSucceeds(i) PROVE RuntimeInv'
  BY <1>7, BuildSucceedsKeeps
<1>8. CASE UNCHANGED runtimeVars
  <2>1. /\ UNCHANGED <<app, record, cancelled, disk, op, box, route,
                       asker, seen, own, mixed, served, restarts>>
        /\ UNCHANGED <<of, phase, did>>
    BY <1>8 DEF runtimeVars, memory, engines, builder, history, bounds
  <2>2. Standing'
    <3>1. RuntimeType'
      BY <2>1 DEF RuntimeInv, Standing, RuntimeType
    <3>2. BuilderFits' /\ RecordsFit' /\ PortsDiffer'
      BY <2>1 DEF RuntimeInv, Standing, BuilderFits, RecordsFit, PortsDiffer
    <3>3. \A a \in Apps : OnFile(a)'
      BY <2>1 DEF RuntimeInv, Standing, OnFile
    <3>4. \A p \in Processes : ProcessFits(p)'
      BY <2>1 DEF RuntimeInv, Standing, ProcessFits, Busy, On, At
    <3> QED BY <3>1, <3>2, <3>3, <3>4 DEF Standing
  <2>3. ASSUME NEW a \in Apps, AppFits(a) PROVE AppFits(a)'
    <3>1. Remembers(a)' /\ FileRemembers(a)' /\ KeysUpTo(a, disk.app[a].count)'
      BY <2>1, <2>3 DEF AppFits, Remembers, FileRemembers, Answers, Serves, Leads,
           Rolling, Routing, On, KeysUpTo
    <3>2. (\A x \in Attempts : On(x) = a => DeployFits(x))'
      BY <2>1, <2>3 DEF AppFits, DeployFits, KeysUpTo, OwnBuild, On
    <3>3. (\A p \in Processes : On(p) = a => RunFits(p))'
      BY <2>1, <2>3 DEF AppFits, RunFits, At, On
    <3> QED BY <2>1, <2>3, <3>1, <3>2, <3>3 DEF AppFits, Busy, On
  <2> QED BY <2>1, <2>2, <2>3 DEF RuntimeInv
<1> QED BY <1>1, <1>2, <1>3, <1>4, <1>5, <1>6, <1>7, <1>8 DEF RuntimeNext

LEMMA RuntimeInvAlways == RuntimeSpec => []RuntimeInv
BY RuntimeInvInit, RuntimeInvStep, PTL DEF RuntimeSpec

LEMMA RuntimeIsTyped == RuntimeInv => RuntimeType
BY DEF RuntimeInv, Standing

\* Where nothing is under way, nothing replaces the container or the routes.
LEMMA QuietApart ==
  ASSUME RuntimeInv, NEW a \in Apps, Quiet(a)
  PROVE  ~ Rolling(a) /\ ~ Routing(a)
<1>1. DOMAIN op = Processes
  BY DEF RuntimeInv, Standing, RuntimeType, Processes
<1>2. Busy(Control) => On(Control) # a
  BY <1>1, Processors DEF Quiet
<1> QED BY <1>2 DEF Rolling, Routing, Busy

LEMMA ServesWhatItSays == RuntimeInv => RuntimeServes
<1> SUFFICES ASSUME RuntimeInv PROVE RuntimeServes
  OBVIOUS
<1>1. PortsDiffer
  BY DEF RuntimeInv, Standing
<1>2. ASSUME NEW a \in Apps, a \notin mixed PROVE Serves(a, app[a]) /\ Leads(a, app[a])
  BY <1>2 DEF RuntimeInv, AppFits, Remembers
<1>3. ServesCurrent
  BY <1>2, QuietApart DEF ServesCurrent, Serves
<1>4. ReachableIsRouted
  BY <1>2, QuietApart DEF ReachableIsRouted, Leads
<1> QED BY <1>1, <1>3, <1>4 DEF RuntimeServes

LEMMA AnswersForItself == RuntimeInv => OutcomesAreOwn
<1> SUFFICES ASSUME RuntimeInv PROVE OutcomesAreOwn
  OBVIOUS
<1>1. NoInventedSuccess
  BY DEF RuntimeInv, Standing, RecordsFit, NoInventedSuccess
<1>2. RecordsOwnOutcome
  BY DEF RuntimeInv, AppFits, Remembers, Answers, RecordsOwnOutcome
<1>3. ASSUME NEW x \in Attempts, On(x) \notin mixed, On(x) \notin ImageApps, At(x, "removing")
      PROVE asker[op[x].image] = x
  <2>1. On(x) \in Apps
    BY OnTyped, Processors
  <2>2. DeployFits(x)
    BY <1>3, <2>1 DEF RuntimeInv, AppFits
  <2> QED BY <1>3, <2>2 DEF DeployFits, At, OwnBuild
<1>4. RunsOwnBuild
  BY <1>3 DEF RunsOwnBuild
<1> QED BY <1>1, <1>2, <1>4 DEF OutcomesAreOwn

\* The runtime's memory, file, operations, containers and routes keep their types
\* (runtime-server.mjs).
THEOREM RuntimeTypeAlways == RuntimeSpec => []RuntimeType
BY RuntimeInvAlways, RuntimeIsTyped, PTL

\* What is reported as deployed is what its hosts lead to: no port is shared, the
\* current image is the one that runs, and every host leads to the application's
\* port, unless operations overlapped or were cut (allocatePort, runDeploy,
\* rollback, publishAppRoutes).
THEOREM RuntimeServesAlways == RuntimeSpec => []RuntimeServes
BY RuntimeInvAlways, ServesWhatItSays, PTL

\* An attempt's record is its own outcome, through restarts, its success is of a
\* container seen running, and the image it runs was built for it (deploy,
\* runDeploy, buildKeyFor).
THEOREM OutcomesAreOwnAlways == RuntimeSpec => []OutcomesAreOwn
BY RuntimeInvAlways, AnswersForItself, PTL

-----------------------------------------------------------------------------
(* The router.                                                             *)

\* The three kinds of step: what writes the file, what serves the admin API and
\* the authority's answers, and what the renewal timer and the host do.
FileStep(f) == WriteBegins(f) \/ RoutesSaved(f)

RouteStep(f) ==
  \/ Obtained(f) \/ NotObtained(f)
  \/ \E h \in Names : Withdraw(f, h) \/ \E auto \in BOOLEAN : Publish(f, h, auto)

TimerStep ==
  \/ \E h \in Names : RenewNext(h)
  \/ RenewBegins \/ RenewEnds
  \/ \E c \in 1..MaxCerts : CertAges(c)

LEMMA StepsOfRouter ==
  RouterNext <=> \/ \E f \in Flows : FileStep(f) \/ RouteStep(f)
                 \/ TimerStep
                 \/ RouterRestarts
BY DEF RouterNext, FileStep, RouteStep, TimerStep

LEMMA RestTypes == NoRoute \in Route /\ NoRoutes \in [Names -> Route] /\ Resting \in Flow
BY DEF NoRoute, NoRoutes, Route, Resting, Flow

FlowOK(w) ==
  /\ w \in Flow
  /\ w.at \in {"saving", "writing"} => w.for # "none"
  /\ w.at = "issuing" \/ w.for = "certificate" => w.name \in Names

LEMMA FlowsOK ==
  ASSUME RouterType, NEW f \in Flows PROVE FlowOK(flow[f])
BY DEF RouterType, FlowOK

\* What a step changes for one flow leaves the others typed as they are.
LEMMA Moves ==
  ASSUME RouterType, NEW f \in Flows, NEW w, FlowOK(w), Becomes(f, w),
         routes' \in [Names -> Route], routeFile' \in [Names -> Route],
         published' \in Nat, issued' \in Nat, overlapped' \in BOOLEAN
  PROVE  /\ RouterType'
         /\ flow'[f] = w /\ \A g \in Flows \ {f} : flow'[g] = flow[g]
BY DEF RouterType, Becomes, FlowOK

LEMMA BecomesIs ==
  ASSUME flow \in [Flows -> Flow], NEW f \in Flows, NEW w, Becomes(f, w)
  PROVE  flow'[f] = w /\ \A g \in Flows \ {f} : flow'[g] = flow[g]
BY DEF Becomes

\* What the moves of a flow leave of it, field by field.
LEMMA SaveIs ==
  ASSUME flow \in [Flows -> Flow], NEW f \in Flows, NEW x, NEW h, Save(f, x, h)
  PROVE  /\ flow'[f].at = "saving" /\ flow'[f].for = x /\ flow'[f].name = h
         /\ \A g \in Flows \ {f} : flow'[g] = flow[g]
<1>1. flow[f] \in Flow
  OBVIOUS
<1>2. /\ flow'[f] = [flow[f] EXCEPT !.at = "saving", !.for = x, !.name = h, !.object = 0]
      /\ \A g \in Flows \ {f} : flow'[g] = flow[g]
  BY BecomesIs DEF Save
<1> QED BY <1>1, <1>2 DEF Flow

LEMMA WriteIs ==
  ASSUME flow \in [Flows -> Flow], NEW f \in Flows, WriteBegins(f)
  PROVE  /\ flow'[f].at = "writing" /\ flow'[f].snap = routes /\ flow'[f].for = flow[f].for
         /\ flow'[f].name = flow[f].name /\ flow'[f].object = flow[f].object
         /\ \A g \in Flows \ {f} : flow'[g] = flow[g]
<1>1. flow[f] \in Flow
  OBVIOUS
<1>2. /\ flow'[f] = [flow[f] EXCEPT !.at = "writing", !.snap = routes]
      /\ \A g \in Flows \ {f} : flow'[g] = flow[g]
  BY BecomesIs DEF WriteBegins
<1> QED BY <1>1, <1>2 DEF Flow

LEMMA EnsureIs ==
  ASSUME flow \in [Flows -> Flow], NEW f \in Flows, NEW h, Ensure(f, h)
  PROVE  /\ IF routes[h].auto /\ ~ Lasting(h)
            THEN /\ flow'[f].at = "issuing" /\ flow'[f].name = h
                 /\ flow'[f].object = routes[h].object
            ELSE flow'[f] = Resting
         /\ \A g \in Flows \ {f} : flow'[g] = flow[g]
<1>1. flow[f] \in Flow
  OBVIOUS
<1>2. CASE routes[h].auto /\ ~ Lasting(h)
  <2>1. /\ flow'[f] = [flow[f] EXCEPT !.at = "issuing", !.name = h,
                                      !.object = routes[h].object, !.snap = NoRoutes]
        /\ \A g \in Flows \ {f} : flow'[g] = flow[g]
    BY <1>2, BecomesIs DEF Ensure
  <2> QED BY <1>1, <1>2, <2>1 DEF Flow
<1>3. CASE ~ (routes[h].auto /\ ~ Lasting(h))
  BY <1>3, BecomesIs DEF Ensure
<1> QED BY <1>2, <1>3

LEMMA PublishIs ==
  ASSUME flow \in [Flows -> Flow], NEW f \in Flows, NEW h, NEW auto, Publish(f, h, auto)
  PROVE  /\ flow'[f].at = "saving" /\ flow'[f].name = h
         /\ flow'[f].for = IF auto THEN "certificate" ELSE "answer"
         /\ \A g \in Flows \ {f} : flow'[g] = flow[g]
<1>1. /\ flow'[f] = [Resting EXCEPT !.at = "saving", !.name = h,
                                    !.for = IF auto THEN "certificate" ELSE "answer"]
      /\ \A g \in Flows \ {f} : flow'[g] = flow[g]
  BY BecomesIs DEF Publish
<1> QED BY <1>1 DEF Resting

LEMMA RestIsOK == FlowOK(Resting)
BY RestTypes DEF Resting, FlowOK

-----------------------------------------------------------------------------
(* Types.                                                                  *)

LEMMA RouterTypeInit == RouterInit => RouterType
<1> SUFFICES ASSUME RouterInit PROVE RouterType
  OBVIOUS
<1>1. flow = [f \in Flows |-> Resting]
  BY DEF RouterInit
<1>2. flow \in [Flows -> Flow] /\ \A f \in Flows : flow[f].at = "idle" /\ flow[f].for = "none"
  BY <1>1, RestTypes DEF Resting
<1> QED BY <1>2, RestTypes DEF RouterInit, RouterType

LEMMA RouterTypeFile ==
  ASSUME RouterType, NEW f \in Flows, FileStep(f) PROVE RouterType'
<1>0. FlowOK(flow[f])
  BY FlowsOK
<1>1. CASE WriteBegins(f)
  <2>1. FlowOK([flow[f] EXCEPT !.at = "writing", !.snap = routes])
    BY <1>0, <1>1 DEF WriteBegins, FlowOK, Flow, RouterType
  <2>2. /\ routes' = routes /\ routeFile' = NoRoutes /\ published' = published
        /\ issued' = issued /\ overlapped' \in BOOLEAN
        /\ Becomes(f, [flow[f] EXCEPT !.at = "writing", !.snap = routes])
    BY <1>1 DEF WriteBegins
  <2> QED BY <2>1, <2>2, RestTypes, Moves DEF RouterType
<1>2. CASE RoutesSaved(f)
  <2>1. routeFile' \in [Names -> Route] /\ Writing(f)
    BY <1>0, <1>2, RestTypes DEF RoutesSaved, Written, FlowOK, Flow
  <2>2. /\ routes' = routes /\ published' = published /\ issued' = issued
        /\ overlapped' = overlapped
    BY <1>2 DEF RoutesSaved
  <2>3. ASSUME NEW w, FlowOK(w), Becomes(f, w) PROVE RouterType'
    BY <2>1, <2>2, <2>3, Moves DEF RouterType
  <2>4. CASE flow[f].for = "certificate"
    <3>1. Ensure(f, flow[f].name)
      BY <1>2, <2>4 DEF RoutesSaved
    <3>2. FlowOK([flow[f] EXCEPT !.at = "issuing", !.name = flow[f].name,
                                 !.object = routes[flow[f].name].object, !.snap = NoRoutes])
      BY <1>0, <2>4, RestTypes DEF FlowOK, Flow, RouterType, Route
    <3> QED BY <2>3, <3>1, <3>2, RestIsOK DEF Ensure
  <2>5. CASE flow[f].for = "answer"
    BY <1>2, <2>3, <2>5, RestIsOK DEF RoutesSaved
  <2>6. CASE flow[f].for = "renewal"
    <3>1. FlowOK([flow[f] EXCEPT !.at = "renewing", !.snap = NoRoutes])
      BY <1>0, <2>6, RestTypes DEF FlowOK, Flow
    <3> QED BY <1>2, <2>3, <2>6, <3>1 DEF RoutesSaved
  <2> QED BY <1>0, <2>1, <2>4, <2>5, <2>6 DEF FlowOK, Flow, Writing
<1> QED BY <1>1, <1>2 DEF FileStep

LEMMA RouterTypeRoute ==
  ASSUME RouterType, NEW f \in Flows, RouteStep(f) PROVE RouterType'
<1>0. FlowOK(flow[f]) /\ AfterIssue(f) \in {"answer", "renewal"}
  BY FlowsOK DEF AfterIssue
<1>1. ASSUME NEW h \in Names, NEW reason \in {"answer", "renewal"}
      PROVE  FlowOK([flow[f] EXCEPT !.at = "saving", !.for = reason, !.name = h, !.object = 0])
  BY <1>0 DEF FlowOK, Flow
<1>2. ASSUME flow[f].at = "issuing" PROVE flow[f].name \in Names
  BY <1>0, <1>2 DEF FlowOK
<1>3. CASE Obtained(f)
  <2>1. routes' \in [Names -> Route] /\ issued' \in Nat
    <3>1. routes \in [Names -> Route] /\ issued \in Nat
      BY DEF RouterType
    <3>2. \/ routes' = routes
          \/ routes' = [routes EXCEPT ![flow[f].name].cert = issued + 1, ![flow[f].name].error = FALSE]
      BY <1>3 DEF Obtained
    <3>3. routes' \in [Names -> Route]
      BY <3>1, <3>2 DEF Route
    <3> QED BY <1>3, <3>1, <3>3 DEF Obtained
  <2> QED BY <1>0, <1>1, <1>2, <1>3, <2>1, Moves DEF Obtained, Save, RouterType
<1>4. CASE NotObtained(f)
  <2>1. routes' \in [Names -> Route]
    BY <1>4 DEF NotObtained, RouterType, Route
  <2> QED BY <1>0, <1>1, <1>2, <1>4, <2>1, Moves DEF NotObtained, Save, RouterType
<1>5. ASSUME NEW h \in Names, Withdraw(f, h) PROVE RouterType'
  <2>1. routes' \in [Names -> Route]
    BY <1>5, RestTypes DEF Withdraw, RouterType
  <2> QED BY <1>1, <1>5, <2>1, Moves DEF Withdraw, Save, RouterType
<1>6. ASSUME NEW h \in Names, NEW auto \in BOOLEAN, Publish(f, h, auto) PROVE RouterType'
  <2>1. routes' \in [Names -> Route] /\ published' \in Nat
    BY <1>6 DEF Publish, RouterType, Route
  <2>2. FlowOK([Resting EXCEPT !.at = "saving", !.name = h,
                               !.for = IF auto THEN "certificate" ELSE "answer"])
    BY RestTypes DEF FlowOK, Flow, Resting
  <2> QED BY <1>6, <2>1, <2>2, Moves DEF Publish, RouterType
<1> QED BY <1>3, <1>4, <1>5, <1>6 DEF RouteStep

LEMMA RouterTypeTimer ==
  ASSUME RouterType, TimerStep PROVE RouterType'
<1>0. Renewer \in Flows /\ FlowOK(flow[Renewer])
  BY FlowsOK DEF Flows
<1>1. ASSUME NEW h \in Names, RenewNext(h) PROVE RouterType'
  <2>1. /\ routes' = routes /\ routeFile' = routeFile /\ published' = published
        /\ issued' = issued /\ overlapped' = overlapped /\ flow[Renewer].at = "renewing"
    BY <1>1 DEF RenewNext
  <2>2. ASSUME NEW w, FlowOK(w), Becomes(Renewer, w) PROVE RouterType'
    BY <1>0, <2>1, <2>2, Moves DEF RouterType
  <2>3. FlowOK([flow[Renewer] EXCEPT !.at = "issuing", !.left = @ \ {h}, !.name = h,
                                     !.object = routes[h].object])
    BY <1>0 DEF FlowOK, Flow, RouterType, Route
  <2>4. FlowOK([flow[Renewer] EXCEPT !.left = @ \ {h}])
    BY <1>0 DEF FlowOK, Flow
  <2> QED BY <1>1, <2>2, <2>3, <2>4, RestIsOK DEF RenewNext
<1>2. CASE RenewBegins
  <2>1. FlowOK([flow[Renewer] EXCEPT !.at = "renewing", !.left = {h \in Names : Routed(h)}])
    BY <1>0 DEF FlowOK, Flow
  <2> QED BY <1>0, <1>2, <2>1, Moves DEF RenewBegins, RouterType
<1>3. CASE RenewEnds
  BY <1>0, <1>3, RestIsOK, Moves DEF RenewEnds, RouterType
<1>4. ASSUME NEW c \in 1..MaxCerts, CertAges(c) PROVE RouterType'
  BY <1>4 DEF CertAges, RouterType
<1> QED BY <1>1, <1>2, <1>3, <1>4 DEF TimerStep

\* For any number of hostnames, calls and restarts, routes, file and flows keep
\* their types.
THEOREM RouterTyped == RouterSpec => []RouterType
<1>1. RouterType /\ [RouterNext]_routerVars => RouterType'
  <2> SUFFICES ASSUME RouterType, [RouterNext]_routerVars PROVE RouterType'
    OBVIOUS
  <2>1. CASE RouterRestarts
    BY <2>1, RestTypes DEF RouterRestarts, RouterType, Resting
  <2>2. CASE UNCHANGED routerVars
    BY <2>2 DEF routerVars, RouterType
  <2> QED BY <2>1, <2>2, StepsOfRouter, RouterTypeFile, RouterTypeRoute, RouterTypeTimer
<1> QED BY <1>1, RouterTypeInit, PTL DEF RouterSpec

-----------------------------------------------------------------------------
(* Certificates.                                                           *)

\* What BareSaysWhy says of one hostname.
Excused(h) ==
  routes[h].auto /\ routes[h].cert = 0 =>
    routes[h].error \/ LookedAfter(h) \/ routes[h].object \in reloaded

\* A step of f that leaves the route of h alone, and f did not look after h, keeps
\* the excuse of h.
LEMMA ExcuseKept ==
  ASSUME NEW f \in Flows, NEW h \in Names, Excused(h),
         flow \in [Flows -> Flow], flow' \in [Flows -> Flow],
         routes'[h] = routes[h], reloaded' = reloaded,
         \A g \in Flows \ {f} : flow'[g] = flow[g],
         \/ flow[f].at \notin {"saving", "writing", "issuing"}
         \/ flow[f].at \in {"saving", "writing"} /\ flow[f].for # "certificate"
         \/ flow[f].name # h
         \/ flow[f].at = "issuing" /\ flow[f].object # routes[h].object
  PROVE  Excused(h)'
BY DEF Excused, LookedAfter

LEMMA BareFile ==
  ASSUME RouterType, BareSaysWhy, NEW f \in Flows, FileStep(f) PROVE BareSaysWhy'
<1> USE DEF RouterType
<1> SUFFICES ASSUME NEW h \in Names PROVE Excused(h)'
  BY DEF BareSaysWhy, Excused
<1>0. Excused(h)
  BY DEF BareSaysWhy, Excused
<1>1. CASE WriteBegins(f)
  <2>1. \A g \in Flows : /\ flow'[g].for = flow[g].for /\ flow'[g].name = flow[g].name
                         /\ flow'[g].object = flow[g].object
                         /\ \/ flow'[g].at = flow[g].at
                            \/ g = f /\ flow[g].at = "saving" /\ flow'[g].at = "writing"
    BY <1>1, WriteIs DEF WriteBegins
  <2> QED BY <1>0, <1>1, <2>1 DEF WriteBegins, Excused, LookedAfter
<1>2. CASE RoutesSaved(f)
  <2>0. /\ routes' = routes /\ reloaded' = reloaded
        /\ flow[f].at = "writing" /\ flow[f].for \in {"certificate", "answer", "renewal"}
    BY <1>2 DEF RoutesSaved, Written, Writing, Flow
  <2>1. flow' \in [Flows -> Flow]
    BY <1>2, RouterTypeFile
  <2>2. CASE flow[f].for = "certificate" /\ flow[f].name = h
    <3>1. Ensure(f, h)
      BY <1>2, <2>2 DEF RoutesSaved
    <3>2. CASE routes[h].auto /\ ~ Lasting(h)
      <4>1. flow'[f].at = "issuing" /\ flow'[f].name = h /\ flow'[f].object = routes[h].object
        BY <3>1, <3>2, EnsureIs
      <4> QED BY <4>1, <2>0 DEF Excused, LookedAfter
    <3>3. CASE ~ (routes[h].auto /\ ~ Lasting(h))
      BY <3>3, <2>0 DEF Lasting, Excused
    <3> QED BY <3>2, <3>3
  <2>3. CASE ~ (flow[f].for = "certificate" /\ flow[f].name = h)
    <3>1. \A g \in Flows \ {f} : flow'[g] = flow[g]
      BY <1>2, <2>0, BecomesIs DEF RoutesSaved, Ensure
    <3> QED BY <1>0, <2>0, <2>1, <2>3, <3>1, ExcuseKept
  <2> QED BY <2>2, <2>3
<1> QED BY <1>1, <1>2 DEF FileStep

LEMMA BareRoute ==
  ASSUME RouterType, BareSaysWhy, NEW f \in Flows, RouteStep(f) PROVE BareSaysWhy'
<1> USE DEF RouterType
<1> SUFFICES ASSUME NEW h \in Names PROVE Excused(h)'
  BY DEF BareSaysWhy, Excused
<1>0. Excused(h) /\ flow' \in [Flows -> Flow]
  BY RouterTypeRoute DEF BareSaysWhy, Excused
<1>1. CASE Obtained(f)
  <2>1. /\ reloaded' = reloaded /\ \A g \in Flows \ {f} : flow'[g] = flow[g]
        /\ flow[f].at = "issuing" /\ flow[f].name \in Names
    BY <1>1, BecomesIs, FlowsOK DEF Obtained, Save, FlowOK
  <2>2. CASE flow[f].name = h /\ routes[h].object = flow[f].object
    <3>1. routes'[h].cert = issued + 1
      BY <1>1, <2>2 DEF Obtained, Route
    <3> QED BY <3>1 DEF Excused
  <2>3. CASE ~ (flow[f].name = h /\ routes[h].object = flow[f].object)
    <3>1. routes'[h] = routes[h]
      BY <1>1, <2>1, <2>3 DEF Obtained
    <3> QED BY <1>0, <2>1, <2>3, <3>1, ExcuseKept
  <2> QED BY <2>2, <2>3
<1>2. CASE NotObtained(f)
  <2>1. /\ reloaded' = reloaded /\ \A g \in Flows \ {f} : flow'[g] = flow[g]
        /\ flow[f].at = "issuing" /\ flow[f].name \in Names
    BY <1>2, BecomesIs, FlowsOK DEF NotObtained, Save, FlowOK
  <2>2. CASE flow[f].name = h /\ routes[h].object = flow[f].object
    <3>1. routes'[h].error
      BY <1>2, <2>2 DEF NotObtained, Route
    <3> QED BY <3>1 DEF Excused
  <2>3. CASE ~ (flow[f].name = h /\ routes[h].object = flow[f].object)
    <3>1. routes'[h] = routes[h]
      BY <1>2, <2>1, <2>3 DEF NotObtained
    <3> QED BY <1>0, <2>1, <2>3, <3>1, ExcuseKept
  <2> QED BY <2>2, <2>3
<1>3. ASSUME NEW k \in Names, Withdraw(f, k) PROVE Excused(h)'
  <2>1. /\ reloaded' = reloaded /\ \A g \in Flows \ {f} : flow'[g] = flow[g]
        /\ flow[f].at = "idle"
    BY <1>3, BecomesIs DEF Withdraw, Save
  <2>2. CASE h = k
    BY <1>3, <2>2 DEF Withdraw, Excused, NoRoute
  <2>3. CASE h # k
    <3>1. routes'[h] = routes[h]
      BY <1>3, <2>3 DEF Withdraw
    <3> QED BY <1>0, <2>1, <3>1, ExcuseKept
  <2> QED BY <2>2, <2>3
<1>4. ASSUME NEW k \in Names, NEW auto \in BOOLEAN, Publish(f, k, auto) PROVE Excused(h)'
  <2>1. /\ reloaded' = reloaded /\ \A g \in Flows \ {f} : flow'[g] = flow[g]
        /\ flow[f].at = "idle"
    BY <1>4, BecomesIs DEF Publish
  <2>2. CASE h = k
    <3>1. routes'[h].auto = auto
      BY <1>4, <2>2 DEF Publish, Route
    <3>2. flow'[f].at = "saving" /\ flow'[f].name = h
            /\ flow'[f].for = IF auto THEN "certificate" ELSE "answer"
      BY <1>4, <2>2, PublishIs
    <3> QED BY <3>1, <3>2 DEF Excused, LookedAfter
  <2>3. CASE h # k
    <3>1. routes'[h] = routes[h]
      BY <1>4, <2>3 DEF Publish
    <3> QED BY <1>0, <2>1, <3>1, ExcuseKept
  <2> QED BY <2>2, <2>3
<1> QED BY <1>1, <1>2, <1>3, <1>4 DEF RouteStep

LEMMA BareTimer ==
  ASSUME RouterType, BareSaysWhy, TimerStep PROVE BareSaysWhy'
<1> USE DEF RouterType
<1> SUFFICES ASSUME NEW h \in Names PROVE Excused(h)'
  BY DEF BareSaysWhy, Excused
<1>0. Excused(h) /\ flow' \in [Flows -> Flow] /\ Renewer \in Flows
  BY RouterTypeTimer DEF BareSaysWhy, Excused, Flows
<1>1. /\ routes' = routes /\ reloaded' = reloaded
      /\ \A g \in Flows \ {Renewer} : flow'[g] = flow[g]
      /\ flow[Renewer].at \in {"idle", "renewing"} \/ flow' = flow
  BY <1>0, BecomesIs DEF TimerStep, RenewNext, RenewBegins, RenewEnds, CertAges
<1>2. CASE flow' = flow
  BY <1>0, <1>1, <1>2 DEF Excused, LookedAfter
<1>3. CASE flow[Renewer].at \in {"idle", "renewing"}
  BY <1>0, <1>1, <1>3, ExcuseKept
<1> QED BY <1>1, <1>2, <1>3

\* For any number of hostnames, calls, publishes and certificates, a hostname that
\* should have a certificate and has none says why or is being looked after.
THEOREM BareHostsSayWhy == RouterSpec => []BareSaysWhy
<1>1. RouterInit => BareSaysWhy
  BY DEF RouterInit, BareSaysWhy, NoRoutes, NoRoute
<1>2. RouterType /\ BareSaysWhy /\ [RouterNext]_routerVars => BareSaysWhy'
  <2> SUFFICES ASSUME RouterType, BareSaysWhy, [RouterNext]_routerVars PROVE BareSaysWhy'
    OBVIOUS
  <2>1. CASE RouterRestarts
    BY <2>1 DEF RouterRestarts, BareSaysWhy
  <2>2. CASE UNCHANGED routerVars
    BY <2>2 DEF routerVars, BareSaysWhy, LookedAfter
  <2> QED BY <2>1, <2>2, StepsOfRouter, BareFile, BareRoute, BareTimer
<1> QED BY <1>1, <1>2, RouterTyped, PTL DEF RouterSpec

-----------------------------------------------------------------------------
(* The file.                                                               *)

Pending(f) == flow[f].at \in {"saving", "writing"}

\* Unless two writes overlapped there is one at most, and when nobody waits to
\* write, what it writes is what the routes are.
OneWrite ==
  ~ overlapped =>
    /\ \A f, g \in Flows : Writing(f) /\ Writing(g) => f = g
    /\ \A f \in Flows :
         Writing(f) /\ (\A g \in Flows : flow[g].at # "saving") => flow[f].snap = routes

FileInv == OneWrite /\ FileFollows

\* A step of f that is not a write and after which f waits to write.
LEMMA FileWaits ==
  ASSUME FileInv, NEW f \in Flows, flow'[f].at = "saving", ~ Writing(f),
         flow \in [Flows -> Flow],
         \A g \in Flows \ {f} : flow'[g] = flow[g], overlapped' = overlapped
  PROVE  FileInv'
BY DEF FileInv, OneWrite, FileFollows, Writing

\* A step that changes neither the routes nor the file, and no flow that is to
\* write or writes.
LEMMA FileRests ==
  ASSUME FileInv, flow \in [Flows -> Flow],
         \A g \in Flows : flow'[g] = flow[g] \/ (~ Pending(g) /\ ~ Pending(g)'),
         routes' = routes, routeFile' = routeFile, overlapped' = overlapped
  PROVE  FileInv'
BY DEF FileInv, OneWrite, FileFollows, Writing, Pending

LEMMA FileFile ==
  ASSUME RouterType, FileInv, NEW f \in Flows, FileStep(f) PROVE FileInv'
<1> USE DEF RouterType
<1>1. CASE WriteBegins(f)
  <2>1. /\ flow'[f].at = "writing" /\ flow'[f].snap = routes' /\ flow[f].at = "saving"
        /\ \A g \in Flows \ {f} : flow'[g] = flow[g]
    BY <1>1, WriteIs DEF WriteBegins
  <2>2. ~ overlapped' => ~ overlapped /\ \A g \in Flows : ~ Writing(g)
    BY <1>1 DEF WriteBegins
  <2> QED BY <2>1, <2>2 DEF FileInv, OneWrite, FileFollows, Writing
<1>2. CASE RoutesSaved(f)
  <2>1. /\ Writing(f) /\ overlapped' = overlapped /\ routes' = routes
        /\ ~ overlapped => routeFile' = flow[f].snap
    BY <1>2 DEF RoutesSaved, Written
  <2>2. ~ Pending(f)' /\ \A g \in Flows \ {f} : flow'[g] = flow[g]
    <3>1. /\ Writing(f)
          /\ flow[f].for \in {"certificate", "answer", "renewal"}
      BY <1>2 DEF RoutesSaved, Written, Writing, Flow
    <3>2. ASSUME NEW w, Becomes(f, w), w.at \notin {"saving", "writing"} PROVE <2>2!:
      BY <3>2, BecomesIs DEF Pending
    <3>3. [flow[f] EXCEPT !.at = "renewing", !.snap = NoRoutes].at = "renewing"
      BY DEF Flow
    <3>4. \A h, o : [flow[f] EXCEPT !.at = "issuing", !.name = h, !.object = o,
                                   !.snap = NoRoutes].at = "issuing"
      BY DEF Flow
    <3> QED BY <1>2, <3>1, <3>2, <3>3, <3>4 DEF RoutesSaved, Ensure, Resting
  <2> SUFFICES ASSUME ~ overlapped' PROVE FileInv'
    BY DEF FileInv, OneWrite, FileFollows
  <2>3. \A g \in Flows : ~ Writing(g)'
    BY <2>1, <2>2 DEF FileInv, OneWrite, Writing, Pending
  <2>4. FileFollows'
    <3> SUFFICES ASSUME \A g \in Flows : ~ Pending(g)' PROVE routeFile' = routes'
      BY DEF FileFollows, Pending
    <3>1. \A g \in Flows : flow[g].at # "saving"
      BY <2>1, <2>2 DEF Pending, Writing
    <3> QED BY <2>1, <3>1 DEF FileInv, OneWrite
  <2> QED BY <2>3, <2>4 DEF FileInv, OneWrite
<1> QED BY <1>1, <1>2 DEF FileStep

LEMMA FileRoute ==
  ASSUME RouterType, FileInv, NEW f \in Flows, RouteStep(f) PROVE FileInv'
<1> USE DEF RouterType
<1>1. /\ flow'[f].at = "saving" /\ ~ Writing(f) /\ overlapped' = overlapped
      /\ \A g \in Flows \ {f} : flow'[g] = flow[g]
  <2>1. CASE Obtained(f)
    BY <2>1, SaveIs DEF Obtained, Writing
  <2>2. CASE NotObtained(f)
    BY <2>2, SaveIs DEF NotObtained, Writing
  <2>3. ASSUME NEW h \in Names, Withdraw(f, h) PROVE <1>1!:
    BY <2>3, SaveIs DEF Withdraw, Writing
  <2>4. ASSUME NEW h \in Names, NEW auto \in BOOLEAN, Publish(f, h, auto) PROVE <1>1!:
    BY <2>4, PublishIs DEF Publish, Writing
  <2> QED BY <2>1, <2>2, <2>3, <2>4 DEF RouteStep
<1> QED BY <1>1, FileWaits

LEMMA FileTimer ==
  ASSUME RouterType, FileInv, TimerStep PROVE FileInv'
<1> USE DEF RouterType
<1>1. /\ routes' = routes /\ routeFile' = routeFile /\ overlapped' = overlapped
      /\ \A g \in Flows : flow'[g] = flow[g] \/ (~ Pending(g) /\ ~ Pending(g)')
  <2>1. ASSUME NEW h \in Names, RenewNext(h) PROVE <1>1!:
    <3>1. Renewer \in Flows /\ flow[Renewer] \in Flow
      BY DEF Flows
    <3>2. /\ routes' = routes /\ routeFile' = routeFile /\ overlapped' = overlapped
          /\ flow[Renewer].at = "renewing"
      BY <2>1 DEF RenewNext
    <3>3. CASE ~ Routed(h)
      BY <2>1, <3>1, <3>2, <3>3, BecomesIs DEF RenewNext, Pending, Resting
    <3>4. CASE Routed(h) /\ routes[h].auto /\ ~ Lasting(h)
      <4>1. /\ flow'[Renewer] = [flow[Renewer] EXCEPT !.at = "issuing", !.left = @ \ {h},
                                           !.name = h, !.object = routes[h].object]
            /\ \A g \in Flows \ {Renewer} : flow'[g] = flow[g]
        BY <2>1, <3>1, <3>4, BecomesIs DEF RenewNext
      <4>2. flow'[Renewer].at = "issuing"
        BY <3>1, <4>1 DEF Flow
      <4> QED BY <3>2, <4>1, <4>2 DEF Pending
    <3>5. CASE Routed(h) /\ ~ (routes[h].auto /\ ~ Lasting(h))
      <4>1. /\ flow'[Renewer] = [flow[Renewer] EXCEPT !.left = @ \ {h}]
            /\ \A g \in Flows \ {Renewer} : flow'[g] = flow[g]
        BY <2>1, <3>1, <3>5, BecomesIs DEF RenewNext
      <4>2. flow'[Renewer].at = "renewing"
        BY <3>1, <3>2, <4>1 DEF Flow
      <4> QED BY <3>2, <4>1, <4>2 DEF Pending
    <3> QED BY <3>3, <3>4, <3>5
  <2>2. CASE RenewBegins
    <3>1. Renewer \in Flows /\ flow[Renewer] \in Flow
      BY DEF Flows
    <3>2. /\ flow'[Renewer] = [flow[Renewer] EXCEPT !.at = "renewing",
                                           !.left = {h \in Names : Routed(h)}]
          /\ \A g \in Flows \ {Renewer} : flow'[g] = flow[g]
      BY <2>2, <3>1, BecomesIs DEF RenewBegins
    <3>3. flow'[Renewer].at = "renewing"
      BY <3>1, <3>2 DEF Flow
    <3> QED BY <2>2, <3>2, <3>3 DEF RenewBegins, Pending
  <2>3. CASE RenewEnds
    BY <2>3, BecomesIs DEF RenewEnds, Pending, Resting, Flows
  <2>4. ASSUME NEW c \in 1..MaxCerts, CertAges(c) PROVE <1>1!:
    BY <2>4 DEF CertAges, Pending
  <2> QED BY <2>1, <2>2, <2>3, <2>4 DEF TimerStep
<1> QED BY <1>1, FileRests

\* For any number of hostnames and calls: unless two writes of the file overlapped,
\* a restart of a router that is not saving serves the routes it had.
THEOREM RestartServesRoutes == RouterSpec => []FileFollows
<1>1. RouterInit => FileInv
  BY DEF RouterInit, FileInv, OneWrite, FileFollows, Writing, Resting
<1>2. RouterType /\ FileInv /\ [RouterNext]_routerVars => FileInv'
  <2> SUFFICES ASSUME RouterType, FileInv, [RouterNext]_routerVars PROVE FileInv'
    OBVIOUS
  <2>1. CASE RouterRestarts
    BY <2>1 DEF RouterRestarts, FileInv, OneWrite, FileFollows, Writing, Resting
  <2>2. CASE UNCHANGED routerVars
    BY <2>2 DEF routerVars, FileInv, OneWrite, FileFollows, Writing
  <2> QED BY <2>1, <2>2, StepsOfRouter, FileFile, FileRoute, FileTimer
<1>3. FileInv => FileFollows
  BY DEF FileInv
<1> QED BY <1>1, <1>2, <1>3, RouterTyped, PTL DEF RouterSpec
==============================================================================
