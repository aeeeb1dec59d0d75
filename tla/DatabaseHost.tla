----------------------------- MODULE DatabaseHost -----------------------------
(***************************************************************************)
(* The database engine (infra/deployment/postgres-server.mjs): the         *)
(* databases it knows, the file it saves them to, a container each, and    *)
(* their backups.  Every await of a call is a step boundary, so calls on   *)
(* one database overlap, and so do saves.  The Docker daemon is external:  *)
(* it refuses a port that is bound, and may fail whatever it is asked.     *)
(* What a database holds, and with it imports, is left out.                *)
(* Bounds: MaxDbCalls calls, MaxDbStarts restarts.                         *)
(***************************************************************************)
EXTENDS Naturals, Sequences, SequencesExt

CONSTANTS
  Databases, Dumps,     \* ids, which the engine draws
  NoDatabase, NoDump,
  Clients,              \* calls at a time
  DbPorts, NoDbPort,
  MaxDbCalls, MaxDbStarts

ASSUME DatabaseHostAssumption ==
  /\ NoDatabase \notin Databases /\ NoDump \notin Dumps /\ NoDbPort \notin DbPorts

VARIABLES
  known,      \* id -> its record in memory
  saved,      \* what databases.json holds
  saving,     \* the saves under way, in the order they began
  container,  \* id -> its container and the port it was given
  dumped,     \* dumps written whole
  served,     \* call -> its place and what it is about
  dbCalls, dbStarts,
  promised,   \* history: databases a create was answered with, not destroyed since
  told,       \* history: <<database, dump>> a backup was answered with
  released,   \* history: databases whose container went while a create held its port
  overtaken   \* history: a save ended before one that began earlier

engineVars == <<known, saved, saving, container, dumped>>
countVars == <<dbCalls, dbStarts>>
answerVars == <<promised, told>>
databaseVars == <<engineVars, served, countVars, answerVars, released, overtaken>>

NoRecord == [there |-> FALSE, port |-> NoDbPort, backups |-> {}]
NoContainer == [state |-> "none", port |-> NoDbPort]
Unused == [at |-> "idle", id |-> NoDatabase, dump |-> NoDump, port |-> NoDbPort]

DatabaseInit ==
  /\ known = [i \in Databases |-> NoRecord] /\ saved = known /\ saving = <<>>
  /\ container = [i \in Databases |-> NoContainer]
  /\ dumped = {}
  /\ served = [c \in Clients |-> Unused]
  /\ dbCalls = 0 /\ dbStarts = 0
  /\ promised = {} /\ told = {} /\ released = {} /\ overtaken = FALSE

Place(c, place) == served[c].at = place

Called(c, work) ==
  /\ served[c] = Unused /\ dbCalls < MaxDbCalls
  /\ dbCalls' = dbCalls + 1
  /\ served' = [served EXCEPT ![c] = work]
  /\ UNCHANGED <<engineVars, dbStarts, answerVars, released, overtaken>>

Goes(c, place) == served' = [served EXCEPT ![c].at = place]
Answers(c) == served' = [served EXCEPT ![c] = Unused]

\* saveState writes what is in memory when it is called.
Keep(c, memory) == saving' = Append(saving, [by |-> c, rows |-> memory])

Stored(n) ==
  /\ saved' = saving[n].rows
  /\ saving' = RemoveAt(saving, n)
  /\ overtaken' = (overtaken \/ n > 1)

-----------------------------------------------------------------------------
\* Faulty: any port, taken or not.
AnyDbPort == DbPorts

\* allocatePort: a port no known database has.
FreeDbPorts == DbPorts \ {known[j].port : j \in Databases}

\* An id is drawn once: one is used again here only if nothing remembers it.
NewId(i) ==
  /\ container[i] = NoContainer /\ ~ known[i].there /\ ~ saved[i].there
  /\ \A n \in DOMAIN saving : ~ saving[n].rows[i].there
  /\ \A c \in Clients : served[c].id # i
  /\ i \notin promised \cup released /\ \A b \in Dumps : <<i, b>> \notin told

Create(c, i, port) ==
  /\ NewId(i) /\ port \in FreeDbPorts
  /\ Called(c, [Unused EXCEPT !.at = "starting", !.id = i, !.port = port])

Bound(port) == \E i \in Databases : container[i] = [state |-> "up", port |-> port]

\* docker run binds the port before the call learns of it.
Starts(c) ==
  /\ Place(c, "starting") /\ ~ Bound(served[c].port)
  /\ container' = [container EXCEPT ![served[c].id] = [state |-> "up", port |-> served[c].port]]
  /\ Goes(c, "started")
  /\ UNCHANGED <<known, saved, saving, dumped, countVars, answerVars, released, overtaken>>

\* A container gives its port back, maybe to a create that was given it before.
Lets(i, state) ==
  /\ container' = [container EXCEPT ![i] = IF state = "none" THEN NoContainer ELSE [@ EXCEPT !.state = state]]
  /\ released' = IF \E c \in Clients : served[c].port = container[i].port
                 THEN released \cup {i} ELSE released

\* docker run fails or times out, whatever the container does, and removing it
\* may fail too.
Refused(c) ==
  /\ served[c].at \in {"starting", "started"}
  /\ Answers(c)
  /\ container' \in {container, [container EXCEPT ![served[c].id] = NoContainer]}
  /\ UNCHANGED <<known, saved, saving, dumped, countVars, answerVars, released, overtaken>>

\* Faulty: what is saved is the memory of before.
RegisteredLate(c) ==
  /\ Place(c, "started")
  /\ known' = [known EXCEPT ![served[c].id] =
                 [there |-> TRUE, port |-> served[c].port, backups |-> {}]]
  /\ Keep(c, known)
  /\ served' = [served EXCEPT ![c].at = "keeping", ![c].port = NoDbPort]
  /\ UNCHANGED <<saved, container, dumped, countVars, answerVars, released, overtaken>>

Registered(c) ==
  /\ Place(c, "started")
  /\ known' = [known EXCEPT ![served[c].id] =
                 [there |-> TRUE, port |-> served[c].port, backups |-> {}]]
  /\ Keep(c, known')
  /\ served' = [served EXCEPT ![c].at = "keeping", ![c].port = NoDbPort]
  /\ UNCHANGED <<saved, container, dumped, countVars, answerVars, released, overtaken>>

\* waitReady and CREATE DATABASE, for which the container has to run.
Created(c) ==
  /\ Place(c, "waiting")
  /\ \/ /\ container[served[c].id].state = "up"
        /\ promised' = promised \cup {i \in {served[c].id} : known[i].there}
     \/ UNCHANGED promised
  /\ Answers(c)
  /\ UNCHANGED <<engineVars, countVars, told, released, overtaken>>

\* DELETE /databases/:id; the outcome of docker rm is not looked at.
Drop(c, i) ==
  /\ known[i].there
  /\ Called(c, [Unused EXCEPT !.at = "removing", !.id = i])

ContainerRemoved(c) ==
  /\ Place(c, "removing")
  /\ Goes(c, "removed")
  /\ \/ Lets(served[c].id, "none")
     \/ UNCHANGED <<container, released>>
  /\ UNCHANGED <<known, saved, saving, dumped, countVars, answerVars, overtaken>>

Forgotten(c) ==
  /\ Place(c, "removed")
  /\ known' = [known EXCEPT ![served[c].id] = NoRecord]
  /\ promised' = promised \ {served[c].id}
  /\ Keep(c, known')
  /\ Goes(c, "ending")
  /\ UNCHANGED <<saved, container, dumped, countVars, told, released, overtaken>>

\* POST /databases/:id/backups: pg_dump, the file, then the listing.
Backup(c, i, b) ==
  /\ known[i].there
  /\ b \notin dumped /\ \A d \in Clients : served[d].dump # b
  /\ Called(c, [Unused EXCEPT !.at = "dumping", !.id = i, !.dump = b])

DumpEnds(c) ==
  /\ Place(c, "dumping")
  /\ \/ container[served[c].id].state = "up" /\ Goes(c, "writing")
     \/ Answers(c)
  /\ UNCHANGED <<engineVars, countVars, answerVars, released, overtaken>>

\* Faulty: the dump is listed and told of, its file is not written.
BackupListedOnly(c) ==
  /\ Place(c, "writing")
  /\ known' = [known EXCEPT ![served[c].id].backups =
                 IF known[served[c].id].there THEN @ \cup {served[c].dump} ELSE @]
  /\ Keep(c, known')
  /\ Goes(c, "listing")
  /\ UNCHANGED <<saved, container, dumped, countVars, answerVars, released, overtaken>>

\* The record may have left the memory meanwhile; the listing goes with it.
BackupListed(c) ==
  /\ Place(c, "writing")
  /\ dumped' = dumped \cup {served[c].dump}
  /\ known' = [known EXCEPT ![served[c].id].backups =
                 IF known[served[c].id].there THEN @ \cup {served[c].dump} ELSE @]
  /\ Keep(c, known')
  /\ Goes(c, "listing")
  /\ UNCHANGED <<saved, container, countVars, answerVars, released, overtaken>>

\* PATCH /databases/:id: ALTER USER, then the record and its save.
Rotate(c, i) ==
  /\ known[i].there
  /\ Called(c, [Unused EXCEPT !.at = "altering", !.id = i])

Altered(c) ==
  /\ Place(c, "altering")
  /\ \/ container[served[c].id].state = "up" /\ Keep(c, known) /\ Goes(c, "ending")
     \/ Answers(c) /\ UNCHANGED saving
  /\ UNCHANGED <<known, saved, container, dumped, countVars, answerVars, released, overtaken>>

\* A save ends, and its call goes on.
SaveEnds(n) ==
  LET c == saving[n].by IN
  /\ Stored(n)
  /\ IF Place(c, "keeping") THEN Goes(c, "waiting") ELSE Answers(c)
  /\ told' = IF Place(c, "listing") THEN told \cup {<<served[c].id, served[c].dump>>} ELSE told
  /\ UNCHANGED <<known, container, dumped, countVars, promised, released>>

\* A write fails, and so does its call; memory keeps what it has.
SaveFails(n) ==
  /\ saving' = RemoveAt(saving, n)
  /\ Answers(saving[n].by)
  /\ UNCHANGED <<known, saved, container, dumped, countVars, answerVars, released, overtaken>>

\* A file that could not be written ends the backup unlisted.
FileFails(c) ==
  /\ Place(c, "writing")
  /\ Answers(c)
  /\ UNCHANGED <<engineVars, countVars, answerVars, released, overtaken>>

ContainerStops(i) ==
  /\ container[i].state = "up"
  /\ Lets(i, "stopped")
  /\ UNCHANGED <<known, saved, saving, dumped, served, countVars, answerVars, overtaken>>

\* loadState; containers outlive the engine.
EngineRestarts ==
  /\ dbStarts < MaxDbStarts
  /\ dbStarts' = dbStarts + 1
  /\ known' = saved /\ saving' = <<>>
  /\ served' = [c \in Clients |-> Unused]
  /\ UNCHANGED <<saved, container, dumped, dbCalls, answerVars, released, overtaken>>

DatabaseNext ==
  \/ \E c \in Clients, i \in Databases :
       \/ \E port \in DbPorts : Create(c, i, port)
       \/ \E b \in Dumps : Backup(c, i, b)
       \/ Drop(c, i) \/ Rotate(c, i)
  \/ \E c \in Clients :
       \/ Starts(c) \/ Refused(c) \/ Registered(c) \/ Created(c)
       \/ ContainerRemoved(c) \/ Forgotten(c)
       \/ DumpEnds(c) \/ BackupListed(c) \/ FileFails(c) \/ Altered(c)
  \/ \E n \in DOMAIN saving : SaveEnds(n) \/ SaveFails(n)
  \/ \E i \in Databases : ContainerStops(i)
  \/ EngineRestarts

DatabaseSpec == DatabaseInit /\ [][DatabaseNext]_databaseVars

-----------------------------------------------------------------------------
DatabaseRecord == [there : BOOLEAN, port : DbPorts \cup {NoDbPort}, backups : SUBSET Dumps]

DatabaseHostType ==
  /\ known \in [Databases -> DatabaseRecord] /\ saved \in [Databases -> DatabaseRecord]
  /\ \A n \in DOMAIN saving : /\ saving[n].by \in Clients
                              /\ saving[n].rows \in [Databases -> DatabaseRecord]
  /\ container \in [Databases -> [state : {"none", "up", "stopped"}, port : DbPorts \cup {NoDbPort}]]
  /\ served \in [Clients ->
       [ at : {"idle", "starting", "started", "keeping", "waiting", "removing", "removed",
               "ending", "dumping", "writing", "listing", "altering"},
         id : Databases \cup {NoDatabase}, dump : Dumps \cup {NoDump},
         port : DbPorts \cup {NoDbPort} ]]

\* No two databases on record were given one port, although a port is drawn from
\* the records and recorded only when the container runs: Docker refuses the
\* second container, unless the first one lets the port go in between.
DatabasePortsDiffer ==
  \A i, j \in Databases :
    i # j /\ known[i].there /\ known[j].there /\ known[i].port = known[j].port =>
      {i, j} \cap released # {}

\* A database or a backup the engine answered with is still on record after a
\* restart, and the file of the backup is there; unless saves overtook each other.
AnsweredSurvives ==
  overtaken \/
  \A i \in promised :
    /\ saved[i].there
    /\ \A b \in Dumps : <<i, b>> \in told => b \in saved[i].backups \cap dumped

\* Databases and backups the engine answered with are there after a restart, and
\* no two databases answer on one port.
DatabasesStand == DatabasePortsDiffer /\ AnsweredSurvives
=============================================================================
