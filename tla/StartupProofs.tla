--------------------------- MODULE StartupProofs ---------------------------
(***************************************************************************)
(* The safety of Startup, proved for any number of processes, crashes and  *)
(* deployments, over any registry and any template directories.            *)
(***************************************************************************)
EXTENDS Startup, SequenceTheorems, TLAPS

Phases == {"down", "opening", "migrating", "altering", "serving"}

Process ==
    [phase : Phases, at : 0..CurrentVersion, seen : SUBSET Objects, todo : Seq(Objects)]

\* The statements of the releases up to v have been committed.
Backed(v) == \A u \in 1..v : AddedBy(u) \subseteq schema

\* What a process that came so far may rely on.  A migration is in three
\* parts: what the earlier versions added is there, what this one adds is
\* there or still to do, and what was seen stays.
Progress(p) ==
    /\ proc[p].seen \subseteq schema
    /\ proc[p].phase # "down" => ValidSettings(settings) /\ Loads(Disk, files)
    /\ proc[p].phase = "migrating" => Backed(proc[p].at)
    /\ proc[p].phase = "altering" =>
          /\ proc[p].at > 0
          /\ Backed(proc[p].at - 1)
          /\ \A object \in AddedBy(proc[p].at) :
                object \in schema \/ \E i \in DOMAIN proc[p].todo : proc[p].todo[i] = object
    /\ proc[p].phase = "serving" /\ settings.store = "file" => Backed(CurrentVersion)
    /\ proc[p].phase = "serving" /\ settings.store # "file" => settings.store = "memory"

StartupInv ==
    /\ settings \in Deployments /\ files \in RegistryFiles
    /\ schema \subseteq Objects /\ version \in 0..CurrentVersion
    /\ crashes \in 0..MaxCrashes
    /\ proc \in [Processes -> Process]
    /\ VersionIsBacked
    /\ \A p \in Processes : Progress(p)

-----------------------------------------------------------------------------
(* The list of migrations *)

\* There are seven of them.
LEMMA SevenMigrations == CurrentVersion = 7
BY DEF CurrentVersion, Migrations

\* A finite function over 1..n is a sequence.
LEMMA ListsAreSequences ==
    ASSUME NEW n \in Nat, NEW S, NEW t, t = [i \in 1..n |-> t[i]],
           \A i \in 1..n : t[i] \in S
    PROVE  t \in Seq(S)
<1>1. t \in [1..n -> S]
  OBVIOUS
<1> QED BY <1>1, SeqDef

\* Each is a sequence of the objects it adds.
LEMMA MigrationsAreLists ==
    \A v \in 1..CurrentVersion :
        /\ Migrations[v] \in Seq(Objects)
        /\ \A object \in AddedBy(v) : \E i \in DOMAIN Migrations[v] : Migrations[v][i] = object
        /\ AddedBy(v) \subseteq Objects
<1> TAKE v \in 1..CurrentVersion
<1>1. AddedBy(v) = {Migrations[v][i] : i \in DOMAIN Migrations[v]}
  BY DEF AddedBy, Range
<1>2. AddedBy(v) \subseteq Objects
  BY DEF Objects
<1>3. \E n \in Nat : Migrations[v] = [i \in 1..n |-> Migrations[v][i]]
  <2>1. CASE v = 1
    <3>1. Migrations[1] = [i \in 1..1 |-> Migrations[1][i]]
      BY DEF Migrations
    <3> QED BY <2>1, <3>1
  <2>2. CASE v = 2
    <3>1. Migrations[2] = [i \in 1..8 |-> Migrations[2][i]]
      BY DEF Migrations
    <3> QED BY <2>2, <3>1
  <2>3. CASE v = 3
    <3>1. Migrations[3] = [i \in 1..1 |-> Migrations[3][i]]
      BY DEF Migrations
    <3> QED BY <2>3, <3>1
  <2>4. CASE v = 4
    <3>1. Migrations[4] = [i \in 1..4 |-> Migrations[4][i]]
      BY DEF Migrations
    <3> QED BY <2>4, <3>1
  <2>5. CASE v = 5
    <3>1. Migrations[5] = [i \in 1..1 |-> Migrations[5][i]]
      BY DEF Migrations
    <3> QED BY <2>5, <3>1
  <2>6. CASE v = 6
    <3>1. Migrations[6] = [i \in 1..1 |-> Migrations[6][i]]
      BY DEF Migrations
    <3> QED BY <2>6, <3>1
  <2>7. CASE v = 7
    <3>1. Migrations[7] = [i \in 1..2 |-> Migrations[7][i]]
      BY DEF Migrations
    <3> QED BY <2>7, <3>1
  <2>8. v = 1 \/ v = 2 \/ v = 3 \/ v = 4 \/ v = 5 \/ v = 6 \/ v = 7
    BY SevenMigrations
  <2> QED BY <2>1, <2>2, <2>3, <2>4, <2>5, <2>6, <2>7, <2>8
<1>4. Migrations[v] \in Seq(Objects)
  <2>1. PICK n \in Nat : Migrations[v] = [i \in 1..n |-> Migrations[v][i]]
    BY <1>3
  <2>2. DOMAIN Migrations[v] = 1..n
    BY <2>1
  <2>3. \A i \in 1..n : Migrations[v][i] \in Objects
    BY <1>1, <1>2, <2>2
  <2> QED BY <2>1, <2>3, ListsAreSequences
<1> QED BY <1>1, <1>2, <1>4

-----------------------------------------------------------------------------
(* The invariant *)

LEMMA DownIsAProcess == Down \in Process
BY SevenMigrations DEF Down, Process, Phases

\* An upgrade starts with every process down, over the schema of a release.
LEMMA StartupStarts == StartupInit => StartupInv
<1> SUFFICES ASSUME StartupInit PROVE StartupInv
  OBVIOUS
<1>1. \A v \in 1..version : AddedBy(v) \subseteq schema
  BY DEF StartupInit
<1>2. schema \subseteq Objects
  <2>1. version \in 0..7 /\ CurrentVersion = 7
    BY SevenMigrations DEF StartupInit
  <2>2. \A v \in 1..version : v \in 1..CurrentVersion
    BY <2>1
  <2> QED BY <2>2 DEF StartupInit, Objects
<1>3. \A p \in Processes : Progress(p)
  BY SevenMigrations DEF StartupInit, Down, Progress
<1> QED
  BY <1>1, <1>2, <1>3, DownIsAProcess, MaxCrashesAssumption
     DEF StartupInit, StartupInv, VersionIsBacked

\* What was committed stays committed, and with it what a process relies on.
LEMMA ProgressStays ==
    ASSUME NEW p \in Processes, Progress(p), proc'[p] = proc[p],
           schema \subseteq schema', UNCHANGED <<settings, files>>
    PROVE  Progress(p)'
<1>1. \A v : Backed(v) => Backed(v)'
  BY DEF Backed
<1>2. \A object \in AddedBy(proc[p].at) : object \in schema => object \in schema'
  OBVIOUS
<1> QED BY <1>1, <1>2 DEF Progress

\* The process that moves makes the progress it may rely on next, and leaves
\* the database with what its version promises.
LEMMA UpgradeKeepsInv ==
    ASSUME StartupInv, NEW p \in Processes, Upgrade(p)
    PROVE  StartupInv'
<1> USE DEF StartupInv, Process, Phases
<1>0. Progress(p) /\ proc[p] \in Process /\ \A v \in 1..version : AddedBy(v) \subseteq schema
  BY DEF VersionIsBacked
<1> DEFINE Others == \A q \in Processes \ {p} : proc'[q] = proc[q]
<1>1. ASSUME schema \subseteq schema', schema' \subseteq Objects,
             UNCHANGED <<settings, files, crashes>>, Others, Progress(p)',
             proc' \in [Processes -> Process],
             version' \in 0..CurrentVersion, VersionIsBacked'
      PROVE  StartupInv'
  <2>1. \A q \in Processes : Progress(q)'
    BY <1>1, ProgressStays
  <2> QED BY <1>1, <2>1
<1>2. ASSUME UNCHANGED <<schema, version>>
      PROVE  /\ schema \subseteq schema' /\ schema' \subseteq Objects
             /\ version' \in 0..CurrentVersion /\ VersionIsBacked'
  BY <1>2 DEF VersionIsBacked
<1>3. CASE LoadRegistry(p)
  <2>1. Progress(p)'
    BY <1>0, <1>3 DEF LoadRegistry, Progress, store
  <2> QED BY <1>1, <1>2, <1>3, <2>1 DEF LoadRegistry, store
<1>4. CASE OpenStore(p)
  <2>1. VersionSeen \in 0..CurrentVersion /\ Backed(VersionSeen)
    BY <1>0, SevenMigrations DEF VersionSeen, Backed
  <2>2. /\ proc'[p] = [Down EXCEPT !.phase = "migrating", !.at = VersionSeen]
        /\ UNCHANGED <<settings, files, schema, version>>
    BY <1>4 DEF OpenStore, store
  <2>3. /\ proc'[p].phase = "migrating" /\ proc'[p].at = VersionSeen
        /\ proc'[p].seen = {}
    BY <2>1, <2>2 DEF Down
  <2>5. proc'[p] \in Process
    BY <2>1, <2>2, DownIsAProcess
  <2>4. Progress(p)'
    BY <1>0, <1>4, <2>1, <2>2, <2>3 DEF OpenStore, Progress, Backed
  <2> QED BY <1>1, <1>2, <1>4, <2>2, <2>4, <2>5 DEF OpenStore, store
<1>5. CASE MigrateMemory(p)
  <2>1. Progress(p)'
    BY <1>0, <1>5 DEF MigrateMemory, Progress, store
  <2> QED BY <1>1, <1>2, <1>5, <2>1 DEF MigrateMemory, store
<1>6. CASE NextMigration(p)
  <2>1. /\ proc[p].at \in 0..7 /\ proc[p].at < 7 /\ CurrentVersion = 7
        /\ proc[p].phase = "migrating"
    BY <1>0, <1>6, SevenMigrations DEF NextMigration, Progress
  <2>2. /\ proc'[p].phase = "altering" /\ proc'[p].at = proc[p].at + 1
        /\ proc'[p].seen = schema /\ proc'[p].todo = Migrations[proc[p].at + 1]
        /\ UNCHANGED <<settings, files, schema, version>>
    BY <1>6 DEF NextMigration, store
  <2>3. proc[p].at + 1 \in 1..CurrentVersion
    BY <2>1
  <2>4. /\ proc'[p].todo \in Seq(Objects)
        /\ \A object \in AddedBy(proc'[p].at) :
              \E i \in DOMAIN proc'[p].todo : proc'[p].todo[i] = object
    BY <2>2, <2>3, MigrationsAreLists
  <2>5. proc'[p].at - 1 = proc[p].at /\ proc'[p].at > 0 /\ proc'[p].at \in 0..CurrentVersion
    BY <2>1, <2>2
  <2>6. \A u \in 1..proc[p].at : AddedBy(u) \subseteq schema'
    BY <1>0, <2>1, <2>2 DEF Progress, Backed
  <2>7. Progress(p)'
    BY <1>0, <2>1, <2>2, <2>4, <2>5, <2>6 DEF Progress, Backed
  <2>8. proc' \in [Processes -> Process]
    BY SMTT(30), <1>6, <2>4, <2>5 DEF NextMigration
  <2> QED BY <1>1, <1>2, <1>6, <2>7, <2>8 DEF NextMigration, store
<1>7. CASE Statement(p)
  <2>1. PICK object : /\ object = Head(proc[p].todo)
                      /\ proc[p].phase = "altering" /\ proc[p].todo # <<>>
    BY <1>7 DEF Statement
  <2>2. object \in Objects
    BY <1>0, <2>1 DEF Progress
  <2> DEFINE done == [proc EXCEPT ![p].todo = Tail(@), ![p].seen = @ \cup {object}]
  <2>3. ASSUME proc' = done, object \in schema', schema \subseteq schema',
               schema' \subseteq Objects, UNCHANGED <<settings, files, version>>
        PROVE  Progress(p)'
    <3>1. /\ proc'[p].todo = Tail(proc[p].todo)
          /\ proc'[p].seen = proc[p].seen \cup {object}
          /\ proc'[p].phase = "altering" /\ proc'[p].at = proc[p].at
      BY <2>1, <2>3
    <3>2. proc'[p].todo \in Seq(Objects)
      BY <1>0, <2>1, <3>1 DEF Progress
    <3>3. \A i \in DOMAIN proc[p].todo :
             proc[p].todo[i] = object
               \/ \E k \in DOMAIN proc'[p].todo : proc'[p].todo[k] = proc[p].todo[i]
      <4> TAKE i \in DOMAIN proc[p].todo
      <4>1. proc[p].todo \in Seq(Objects) /\ i \in 1..Len(proc[p].todo)
        BY <1>0 DEF Progress
      <4>2. CASE i = 1
        BY <2>1, <4>1, <4>2
      <4>3. CASE i # 1
        <5>1. i - 1 \in 1..Len(Tail(proc[p].todo))
          BY <2>1, <4>1, <4>3
        <5>2. Tail(proc[p].todo)[i - 1] = proc[p].todo[i]
          BY <2>1, <4>1, <4>3, <5>1
        <5>3. i - 1 \in DOMAIN proc'[p].todo
          BY <3>1, <3>2, <5>1
        <5> QED BY <3>1, <5>2, <5>3
      <4> QED BY <4>2, <4>3
    <3>4. \A thing \in AddedBy(proc'[p].at) :
             thing \in schema'
               \/ \E i \in DOMAIN proc'[p].todo : proc'[p].todo[i] = thing
      BY <1>0, <2>1, <2>3, <3>1, <3>3 DEF Progress
    <3>5. Backed(proc[p].at - 1)'
      BY <1>0, <2>1, <2>3, <3>1 DEF Progress, Backed
    <3>6. proc[p].seen \cup {object} \subseteq schema'
      BY <1>0, <2>3 DEF Progress
    <3> QED BY <1>0, <2>1, <2>3, <3>1, <3>2, <3>4, <3>5, <3>6 DEF Progress, Backed
  <2>4. schema \subseteq schema' => VersionIsBacked' /\ version' \in 0..CurrentVersion
    BY <1>0, <1>7 DEF Statement, VersionIsBacked
  <2>8. proc' = done => proc' \in [Processes -> Process]
    <3>1. Tail(proc[p].todo) \in Seq(Objects)
      BY <1>0, <2>1
    <3>2. proc[p].seen \cup {object} \in SUBSET Objects
      BY <1>0, <2>2
    <3> DEFINE next == [proc[p] EXCEPT !.todo = Tail(proc[p].todo),
                                       !.seen = proc[p].seen \cup {object}]
    <3>3. next \in Process
      BY <1>0, <3>1, <3>2
    <3>4. done = [proc EXCEPT ![p] = next]
      OBVIOUS
    <3> QED BY <3>3, <3>4
  <2>5. CASE Skips(p, object) /\ proc' = done /\ UNCHANGED schema
    <3>1. object \in schema
      BY <1>0, <2>5 DEF Skips, Progress
    <3>2. Progress(p)'
      BY <1>7, <2>3, <2>5, <3>1 DEF Statement
    <3> QED BY <1>1, <1>7, <2>4, <2>5, <2>8, <3>2 DEF Statement
  <2>6. CASE schema' = schema \cup {object} /\ proc' = done
    <3>1. Progress(p)'
      BY <1>7, <2>2, <2>3, <2>6 DEF Statement
    <3> QED BY <1>1, <1>7, <2>2, <2>4, <2>6, <2>8, <3>1 DEF Statement
  <2>7. CASE proc' = [proc EXCEPT ![p] = Down] /\ UNCHANGED schema
    <3>1. Progress(p)'
      BY <1>7, <2>7, SevenMigrations DEF Statement, Progress, Down
    <3> QED BY <1>1, <1>7, <2>4, <2>7, <3>1, DownIsAProcess DEF Statement
  <2> QED BY <1>7, <2>1, <2>5, <2>6, <2>7 DEF Statement
<1>8. CASE SetVersion(p)
  <2>1. /\ proc[p].phase = "altering" /\ proc[p].todo = <<>>
        /\ proc'[p].phase = "migrating" /\ proc'[p].at = proc[p].at
        /\ proc'[p].seen = proc[p].seen /\ proc'[p].todo = proc[p].todo
        /\ version' = proc[p].at /\ UNCHANGED <<settings, files, schema, crashes>>
    BY <1>8 DEF SetVersion
  <2>2. AddedBy(proc[p].at) \subseteq schema
    BY <1>0, <2>1 DEF Progress
  <2>3. proc[p].at \in 1..7 /\ CurrentVersion = 7
    BY <1>0, <2>1, SevenMigrations DEF Progress
  <2>4. Backed(proc[p].at)
    BY <1>0, <2>1, <2>2, <2>3 DEF Progress, Backed
  <2>5. Progress(p)'
    BY <1>0, <2>1, <2>4 DEF Progress, Backed
  <2>6. VersionIsBacked' /\ version' \in 0..CurrentVersion
    BY <2>1, <2>3, <2>4 DEF VersionIsBacked, Backed
  <2> QED BY <1>1, <1>8, <2>1, <2>5, <2>6 DEF SetVersion
<1>9. CASE Serve(p)
  <2>1. Progress(p)'
    BY <1>0, <1>9, SevenMigrations DEF Serve, Progress, Backed, Down, store
  <2>2. [Down EXCEPT !.phase = "serving"] \in Process
    BY DownIsAProcess
  <2> QED BY <1>1, <1>2, <1>9, <2>1, <2>2 DEF Serve, store
<1> QED BY <1>3, <1>4, <1>5, <1>6, <1>7, <1>8, <1>9 DEF Upgrade

\* So does every step; a crash takes nothing from the database.
LEMMA StartupStepKeepsInv ==
    ASSUME StartupInv, [StartupNext]_startupVars
    PROVE  StartupInv'
<1>1. CASE UNCHANGED startupVars
  BY <1>1 DEF startupVars, StartupInv, Progress, Backed, VersionIsBacked
<1>2. ASSUME NEW p \in Processes, Crash(p)
      PROVE  StartupInv'
  <2>1. /\ proc' = [proc EXCEPT ![p] = Down] /\ crashes' = crashes + 1
        /\ crashes < MaxCrashes /\ UNCHANGED <<settings, files, schema, version>>
    BY <1>2 DEF Crash
  <2>2. \A q \in Processes \ {p} : Progress(q)'
    BY <2>1, ProgressStays DEF StartupInv
  <2>3. Progress(p)'
    BY <2>1, SevenMigrations DEF StartupInv, Progress, Down
  <2> QED BY <2>1, <2>2, <2>3, DownIsAProcess, MaxCrashesAssumption DEF StartupInv, VersionIsBacked
<1> QED BY <1>1, <1>2, UpgradeKeepsInv DEF StartupNext

\* The invariant holds throughout.
THEOREM StartupInvariant == StartupSpec => []StartupInv
BY StartupStarts, StartupStepKeepsInv, PTL DEF StartupSpec

-----------------------------------------------------------------------------
(* What it shows *)

\* The version never promises a column the table has not got
\* (migrations/render_store.py:11).
THEOREM VersionsAreBacked == StartupSpec => []VersionIsBacked
<1>1. StartupInv => VersionIsBacked
  BY DEF StartupInv
<1> QED BY <1>1, StartupInvariant, PTL

\* A ready store, and the store of a process that serves, can be read
\* (render_store.py:60-103, main.py:63-98).
THEOREM ServedStoresCanBeRead == StartupSpec => []StoresCanBeRead
<1>1. ASSUME StartupInv PROVE StoresCanBeRead
  <2> USE DEF StartupInv
  <2>1. StartupTypeOK
    BY <1>1 DEF StartupTypeOK, Process, Phases
  <2>2. Backed(CurrentVersion) => Objects \subseteq schema
    BY DEF Backed, Objects
  <2>3. CheckReady => RowColumns \subseteq SchemaSeen
    <3> SUFFICES ASSUME CheckReady PROVE RowColumns \subseteq SchemaSeen
      OBVIOUS
    <3>1. settings.store = "file" /\ SchemaSeen = schema /\ VersionSeen = version
      BY DEF CheckReady, SchemaSeen, VersionSeen
    <3>2. version = CurrentVersion
      BY <1>1, <3>1, SevenMigrations DEF CheckReady
    <3>3. Backed(CurrentVersion)
      BY <1>1, <3>2 DEF VersionIsBacked, Backed
    <3> QED BY <2>2, <3>1, <3>3 DEF RowColumns
  <2>4. ASSUME NEW p \in Processes, proc[p].phase = "serving",
               settings.store = "file" \/ settings.environment # "development"
        PROVE  RowColumns \subseteq SchemaSeen
    <3>1. settings.store = "file"
      BY <1>1, <2>4 DEF Progress, ValidSettings, PersistentStoreRequired
    <3>2. Backed(CurrentVersion)
      BY <1>1, <2>4, <3>1 DEF Progress
    <3> QED BY <2>2, <3>1, <3>2 DEF RowColumns, SchemaSeen
  <2> QED BY <2>1, <2>3, <2>4 DEF StoresCanBeRead
<1> QED BY <1>1, StartupInvariant, PTL

\* A start the registry refuses leaves the database as it found it
\* (main.py:66-72).
THEOREM RefusedStartsTouchNothing == StartupSpec => RefusedStartTouchesNothing
<1>1. ASSUME StartupInv, [StartupNext]_startupVars
      PROVE  [~Loads(Disk, files) => UNCHANGED <<schema, version>>]_startupVars
  <2>1. ASSUME NEW p \in Processes, Upgrade(p), ~Loads(Disk, files)
        PROVE  UNCHANGED <<schema, version>>
    <3>1. proc[p].phase = "down"
      BY <1>1, <2>1 DEF StartupInv, Progress
    <3> QED BY <2>1, <3>1 DEF Upgrade, LoadRegistry, OpenStore, MigrateMemory,
                              NextMigration, Statement, SetVersion, Serve, store
  <2>2. ASSUME NEW p \in Processes, Crash(p)
        PROVE  UNCHANGED <<schema, version>>
    BY <2>2 DEF Crash
  <2> QED BY <1>1, <2>1, <2>2 DEF StartupNext, startupVars
<1> QED BY <1>1, StartupInvariant, PTL DEF StartupSpec, RefusedStartTouchesNothing

=============================================================================
