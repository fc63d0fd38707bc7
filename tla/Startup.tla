------------------------------ MODULE Startup ------------------------------
(***************************************************************************)
(* A process of lotus-render comes up: it loads the template registry,     *)
(* migrates the job store in place, then serves.  src/app/main.py's        *)
(* lifespan, src/app/infrastructure/migrations/render_store.py,            *)
(* RenderStore.__init__ and check_ready, core/settings.py.                 *)
(*                                                                         *)
(* sqlite3 commits each DDL statement and each PRAGMA on its own, so a     *)
(* start is a sequence of committed statements and a crash may fall        *)
(* between any two.  Two processes share the file while a replacement      *)
(* comes up beside the process it replaces.                                *)
(***************************************************************************)
EXTENDS TemplateRegistry, SequencesExt

CONSTANTS
    Processes,      \* processes that open the same store
    Deployments,    \* settings a process may be configured with
    RegistryFiles,  \* what the registry directory may hold, in path order
    Disk,           \* the template directories
    MaxCrashes      \* bound: crashes of a run

ASSUME MaxCrashesAssumption == MaxCrashes \in Nat

VARIABLES
    settings,       \* this deployment's configuration
    files,          \* the registry directory
    schema,         \* committed objects of the database file
    version,        \* PRAGMA user_version
    proc,           \* each process: phase and migration progress
    crashes

store == <<schema, version>>
startupVars == <<settings, files, schema, version, proc, crashes>>

-----------------------------------------------------------------------------
(* Configuration *)

PersistentStoreRequired(s) ==
    s.requirePersistent \/ s.environment # "development"

\* Mutant of ValidSettings: only the flag makes persistence mandatory.
ValidSettingsByFlag(s) ==
    /\ s.default \in s.formats
    /\ "pdf" \in s.formats
    /\ s.formats \subseteq {"pdf", "xlsx"}
    /\ ~(s.requirePersistent /\ s.store = "memory")

ValidSettings(s) ==
    /\ s.default \in s.formats
    /\ "pdf" \in s.formats
    /\ s.formats \subseteq {"pdf", "xlsx"}
    /\ ~(PersistentStoreRequired(s) /\ s.store = "memory")

-----------------------------------------------------------------------------
(* The schema *)

\* What each version adds, one committed statement at a time.
Migrations ==
    << <<"render_job">>,
       <<"snapshot_id", "lineage_refs_json", "disclosure_refs_json",
         "requested_by", "package_correlation_id", "package_trace_id",
         "idx_status_updated_at", "idx_snapshot_id">>,
       <<"template_digest">>,
       <<"archive_state", "archive_document_id", "archive_request_id",
         "archive_detail">>,
       <<"template_publication">>,
       <<"claim_generation">>,
       <<"tenant_id", "idx_tenant_id">> >>

CurrentVersion == Len(Migrations)

IfNotExists == {"render_job", "idx_status_updated_at", "idx_snapshot_id",
                "idx_tenant_id"}

AddedBy(v) == Range(Migrations[v])
Objects == UNION {AddedBy(v) : v \in 1..CurrentVersion}

\* The columns the readiness check asks for, and those reading a row needs.
RequiredColumns ==
    (AddedBy(2) \cup AddedBy(6) \cup AddedBy(7)) \ IfNotExists
RowColumns == Objects \ IfNotExists

\* A connection to ":memory:" opens an empty database of its own.
SchemaSeen == IF settings.store = "file" THEN schema ELSE {}
VersionSeen == IF settings.store = "file" THEN version ELSE 0

CheckReady ==
    /\ "render_job" \in SchemaSeen
    /\ VersionSeen >= CurrentVersion
    /\ RequiredColumns \subseteq SchemaSeen

-----------------------------------------------------------------------------
(* Starting *)

Down == [phase |-> "down", at |-> 0, seen |-> {}, todo |-> <<>>]

StartupInit ==
    /\ settings \in Deployments
    /\ files \in RegistryFiles
    /\ version \in 0..CurrentVersion
    /\ schema = UNION {AddedBy(v) : v \in 1..version}
    /\ proc = [p \in Processes |-> Down]
    /\ crashes = 0

\* Mutant of LoadRegistry: the store is opened whatever the registry says.
LoadRegistryLater(p) ==
    /\ proc[p].phase = "down" /\ ValidSettings(settings)
    /\ proc' = [proc EXCEPT ![p].phase = "opening"]
    /\ UNCHANGED <<settings, files, store, crashes>>

\* The lifespan loads the registry before it opens the store.  A start that
\* is refused by the settings or the registry leaves the process down.
LoadRegistry(p) ==
    /\ proc[p].phase = "down"
    /\ ValidSettings(settings)
    /\ Loads(Disk, files)
    /\ proc' = [proc EXCEPT ![p].phase = "opening"]
    /\ UNCHANGED <<settings, files, store, crashes>>

OpenStore(p) ==
    /\ proc[p].phase = "opening"
    /\ proc' = [proc EXCEPT ![p] =
                  [Down EXCEPT !.phase = "migrating", !.at = VersionSeen]]
    /\ UNCHANGED <<settings, files, store, crashes>>

\* In memory the whole migration runs on a connection nobody else opens.
MigrateMemory(p) ==
    /\ proc[p].phase = "migrating" /\ settings.store = "memory"
    /\ proc' = [proc EXCEPT ![p].phase = "serving"]
    /\ UNCHANGED <<settings, files, store, crashes>>

\* The next migration begins with the columns the table has now.
NextMigration(p) ==
    /\ proc[p].phase = "migrating" /\ settings.store = "file"
    /\ proc[p].at < CurrentVersion
    /\ proc' = [proc EXCEPT ![p].phase = "altering",
                            ![p].at = @ + 1,
                            ![p].seen = schema,
                            ![p].todo = Migrations[proc[p].at + 1]]
    /\ UNCHANGED <<settings, files, store, crashes>>

\* Mutant of Skips: the column is added without looking.
SkipsNone(p, object) == FALSE

Skips(p, object) == object \in proc[p].seen \ IfNotExists

\* One statement: skipped, executed, or refused as a duplicate column that
\* another process added since the columns were read.
Statement(p) ==
    /\ proc[p].phase = "altering" /\ proc[p].todo # <<>>
    /\ LET object == Head(proc[p].todo)
           done == [proc EXCEPT ![p].todo = Tail(@), ![p].seen = @ \cup {object}]
       IN  \/ /\ Skips(p, object)
              /\ proc' = done
              /\ UNCHANGED schema
           \/ /\ ~Skips(p, object)
              /\ object \notin schema \/ object \in IfNotExists
              /\ schema' = schema \cup {object}
              /\ proc' = done
           \/ /\ ~Skips(p, object)
              /\ object \in schema \ IfNotExists
              /\ proc' = [proc EXCEPT ![p] = Down]
              /\ UNCHANGED schema
    /\ UNCHANGED <<settings, files, version, crashes>>

\* Mutant of SetVersion: the version is recorded before the statements ran.
SetVersionFirst(p) ==
    /\ proc[p].phase = "altering" /\ version # proc[p].at
    /\ version' = proc[p].at
    /\ UNCHANGED <<settings, files, schema, proc, crashes>>

SetVersion(p) ==
    /\ proc[p].phase = "altering" /\ proc[p].todo = <<>>
    /\ version' = proc[p].at
    /\ proc' = [proc EXCEPT ![p].phase = "migrating"]
    /\ UNCHANGED <<settings, files, schema, crashes>>

Serve(p) ==
    /\ proc[p].phase = "migrating" /\ settings.store = "file"
    /\ proc[p].at = CurrentVersion
    /\ proc' = [proc EXCEPT ![p] = [Down EXCEPT !.phase = "serving"]]
    /\ UNCHANGED <<settings, files, store, crashes>>

Crash(p) ==
    /\ proc[p].phase # "down" /\ crashes < MaxCrashes
    /\ crashes' = crashes + 1
    /\ proc' = [proc EXCEPT ![p] = Down]
    /\ UNCHANGED <<settings, files, schema, version>>

Upgrade(p) ==
    \/ LoadRegistry(p) \/ OpenStore(p) \/ MigrateMemory(p)
    \/ NextMigration(p) \/ Statement(p) \/ SetVersion(p) \/ Serve(p)

StartupNext ==
    \E p \in Processes :
        Upgrade(p) \/ Crash(p)

StartupSpec == StartupInit /\ [][StartupNext]_startupVars

\* The supervisor restarts a process that is down, and a running start goes on.
StartupFairSpec ==
    StartupSpec /\ \A p \in Processes : WF_startupVars(Upgrade(p))

-----------------------------------------------------------------------------
(* Properties *)

StartupTypeOK ==
    /\ settings \in Deployments /\ files \in RegistryFiles
    /\ schema \subseteq Objects /\ version \in 0..CurrentVersion
    /\ crashes \in 0..MaxCrashes
    /\ \A p \in Processes :
          /\ proc[p].phase \in {"down", "opening", "migrating", "altering", "serving"}
          /\ proc[p].at \in 0..CurrentVersion
          /\ proc[p].seen \subseteq Objects

\* The recorded version never promises a column the table has not got, at
\* whatever statement a start was cut off and however two starts interleave:
\* the next start may skip everything up to it (migrations/render_store.py:11).
VersionIsBacked ==
    \A v \in 1..version : AddedBy(v) \subseteq schema

\* A process that serves from a file, as it must outside development, never
\* meets a table without the columns its queries name, while another process
\* starts, fails or dies half-way through the same upgrade; and a store whose
\* probe, which checks some of the columns and the version, answers ready can
\* be read (render_store.py:60-103, main.py:63-98, settings.py:69-100).
StoresCanBeRead ==
    /\ StartupTypeOK
    /\ CheckReady => RowColumns \subseteq SchemaSeen
    /\ \A p \in Processes :
          /\ proc[p].phase = "serving"
          /\ settings.store = "file" \/ settings.environment # "development"
          => RowColumns \subseteq SchemaSeen

\* A start the registry refuses leaves the database exactly as it found it:
\* no half-upgraded store under the release it would have been rolled back to
\* (main.py:66-72).
RefusedStartTouchesNothing ==
    [][~Loads(Disk, files) => UNCHANGED <<schema, version>>]_startupVars

\* Where the deployment is valid and the registry loads, the store ends
\* upgraded and ready for good, through crashes, duplicate columns and two
\* processes that each rewrite the version.
UpgradeCompletes ==
    (ValidSettings(settings) /\ Loads(Disk, files) /\ settings.store = "file")
        ~> [](CheckReady /\ \A p \in Processes : proc[p].phase = "serving")

=============================================================================
