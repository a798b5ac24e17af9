------------------------------ MODULE Migrate ------------------------------
(***************************************************************************)
(* migrate of src/type/migrate.ts: processes that start with the same      *)
(* database bring its schema up to the version of their entities, one      *)
(* configuration row serving as a lock and as a record of the version.     *)
(*                                                                         *)
(* Several calls may run at once, in one process or in several, on one     *)
(* database or on several.  A process whose database has no row yet works  *)
(* on INIT_DB_CONFIG, one object for all the calls of the process.         *)
(***************************************************************************)
EXTENDS Integers

CONSTANTS
  Process, Db,
  Call,        \* calls of migrate
  ProcessOf,   \* the process each runs in
  DbOf,        \* the database it is given
  Local,       \* the version of its entities
  Installed,   \* the version each database was migrated to before, or 0
  Tries,       \* readings of a locked configuration before giving up
  MayFail,     \* TRUE: building the schema and saving may fail
  MaxCrashes   \* bounds the crashes considered

ASSUME CallAssumption ==
  /\ ProcessOf \in [Call -> Process] /\ DbOf \in [Call -> Db]
  /\ Local \in [Call -> Nat \ {0}] /\ Installed \in [Db -> Nat]
ASSUME TriesAssumption == Tries \in Nat \ {0}
ASSUME FailAssumption == MayFail \in BOOLEAN /\ MaxCrashes \in Nat

VARIABLES
  row,      \* the stored configuration of each database
  schema,   \* the version its tables were last built for, 0 before that
  init,     \* INIT_DB_CONFIG in each process
  config,   \* dbConfigs in each call, when it is an object of its own
  shared,   \* dbConfigs is INIT_DB_CONFIG
  tries,    \* readings so far
  at,       \* where each call is
  crashes

migrateVars == <<row, schema, init, config, shared, tries, at, crashes>>

Config == [locked : BOOLEAN, version : Nat]
Fresh == [locked |-> FALSE, version |-> 0]
InstalledRow(d) ==
  [saved |-> Installed[d] # 0, config |-> [Fresh EXCEPT !.version = Installed[d]]]

Returned == {"migrated", "skipped"}
Ended == Returned \cup {"threw", "crashed"}

MigrateTypeOK ==
  /\ row \in [Db -> [saved : BOOLEAN, config : Config]]
  /\ schema \in [Db -> Nat]
  /\ init \in [Process -> Config]
  /\ config \in [Call -> Config]
  /\ shared \in [Call -> BOOLEAN]
  /\ tries \in [Call -> 0..Tries]
  /\ at \in [Call -> {"idle", "reading", "checking", "locking", "building",
                      "releasing", "failing"} \cup Ended]
  /\ crashes \in 0..MaxCrashes

MigrateInit ==
  /\ row = [d \in Db |-> InstalledRow(d)]
  /\ schema = Installed
  /\ init = [p \in Process |-> Fresh]
  /\ config = [c \in Call |-> Fresh]
  /\ shared = [c \in Call |-> FALSE]
  /\ tries = [c \in Call |-> 0]
  /\ at = [c \in Call |-> "idle"]
  /\ crashes = 0

\* The object dbConfigs of a call, now; and after an assignment to it.
Seen(c) == IF shared[c] THEN init[ProcessOf[c]] ELSE config[c]

Assign(c, value) ==
  IF shared[c]
  THEN init' = [init EXCEPT ![ProcessOf[c]] = value] /\ UNCHANGED config
  ELSE config' = [config EXCEPT ![c] = value] /\ UNCHANGED init

Goto(c, where) == at' = [at EXCEPT ![c] = where]

----------------------------------------------------------------------------
Start(c) ==
  /\ at[c] = "idle"
  /\ Goto(c, "reading")
  /\ UNCHANGED <<row, schema, init, config, shared, tries, crashes>>

\* getDBConfiguration: the row, or INIT_DB_CONFIG itself.
Read(c) ==
  /\ at[c] = "reading"
  /\ shared' = [shared EXCEPT ![c] = ~row[DbOf[c]].saved]
  /\ config' = [config EXCEPT ![c] = row[DbOf[c]].config]
  /\ tries' = [tries EXCEPT ![c] = @ + 1]
  /\ Goto(c, "checking")
  /\ UNCHANGED <<row, schema, init, crashes>>

\* Mutant: a version one behind is taken for the local one.
SkipOffByOne(c) ==
  /\ at[c] = "checking"
  /\ Seen(c).version + 1 >= Local[c]
  /\ Goto(c, "skipped")
  /\ UNCHANGED <<row, schema, init, config, shared, tries, crashes>>

\* The version read is no older than the local one: no migration.
Skip(c) ==
  /\ at[c] = "checking"
  /\ Seen(c).version >= Local[c]
  /\ Goto(c, "skipped")
  /\ UNCHANGED <<row, schema, init, config, shared, tries, crashes>>

\* Mutant: no limit.
WaitForever(c) ==
  /\ at[c] = "checking"
  /\ Seen(c).version < Local[c] /\ Seen(c).locked
  /\ tries' = [tries EXCEPT ![c] = 0]
  /\ Goto(c, "reading")
  /\ UNCHANGED <<row, schema, init, config, shared, crashes>>

\* Locked: sleep and read again.
Wait(c) ==
  /\ at[c] = "checking"
  /\ Seen(c).version < Local[c] /\ Seen(c).locked /\ tries[c] < Tries
  /\ Goto(c, "reading")
  /\ UNCHANGED <<row, schema, init, config, shared, tries, crashes>>

\* Locked at the last reading: after one more sleep the call throws.  It
\* looks at the object it read, so only INIT_DB_CONFIG can have changed
\* meanwhile, and then Lock or Skip is what it does.
GiveUp(c) ==
  /\ at[c] = "checking"
  /\ Seen(c).version < Local[c] /\ Seen(c).locked /\ tries[c] = Tries
  /\ Goto(c, "threw")
  /\ UNCHANGED <<row, schema, init, config, shared, tries, crashes>>

\* Mutant: whoever finds it unlocked builds, whatever its version.
LockAlways(c) ==
  /\ at[c] = "checking" /\ ~Seen(c).locked
  /\ Assign(c, [Seen(c) EXCEPT !.locked = TRUE])
  /\ Goto(c, "locking")
  /\ UNCHANGED <<row, schema, shared, tries, crashes>>

\* Unlocked: locked in memory, to be saved.
Lock(c) ==
  /\ at[c] = "checking"
  /\ Seen(c).version < Local[c] /\ ~Seen(c).locked
  /\ Assign(c, [Seen(c) EXCEPT !.locked = TRUE])
  /\ Goto(c, "locking")
  /\ UNCHANGED <<row, schema, shared, tries, crashes>>

\* saveDBConfiguration overwrites the whole row, whoever changed it since.
Save(c) ==
  row' = [row EXCEPT ![DbOf[c]] = [saved |-> TRUE, config |-> Seen(c)]]

SaveLock(c) ==
  /\ at[c] = "locking"
  /\ Save(c)
  /\ Goto(c, "building")
  /\ UNCHANGED <<schema, init, config, shared, tries, crashes>>

\* syncEntities, the new version, and the lock released in memory.
Build(c) ==
  /\ at[c] = "building"
  /\ schema' = [schema EXCEPT ![DbOf[c]] = Local[c]]
  /\ Assign(c, [locked |-> FALSE, version |-> Local[c]])
  /\ Goto(c, "releasing")
  /\ UNCHANGED <<row, shared, tries, crashes>>

\* Mutant: the new version is recorded in the finally block.
BuildFailsRecords(c) ==
  /\ at[c] = "building" /\ MayFail
  /\ Assign(c, [locked |-> FALSE, version |-> Local[c]])
  /\ Goto(c, "failing")
  /\ UNCHANGED <<row, schema, shared, tries, crashes>>

\* syncEntities throws: the finally block releases the lock all the same.
BuildFails(c) ==
  /\ at[c] = "building" /\ MayFail
  /\ Assign(c, [Seen(c) EXCEPT !.locked = FALSE])
  /\ Goto(c, "failing")
  /\ UNCHANGED <<row, schema, shared, tries, crashes>>

Release(c) ==
  /\ at[c] \in {"releasing", "failing"}
  /\ Save(c)
  /\ Goto(c, IF at[c] = "releasing" THEN "migrated" ELSE "threw")
  /\ UNCHANGED <<schema, init, config, shared, tries, crashes>>

\* Reading or saving the configuration throws, and so does the call: with
\* the lock kept in INIT_DB_CONFIG, or kept in the row.
DatabaseFails(c) ==
  /\ at[c] \in {"reading", "locking", "releasing", "failing"} /\ MayFail
  /\ Goto(c, "threw")
  /\ UNCHANGED <<row, schema, init, config, shared, tries, crashes>>

----------------------------------------------------------------------------
\* A process dies with all its calls, and may be started again.
Crash(p) ==
  /\ crashes < MaxCrashes
  /\ \E c \in Call : ProcessOf[c] = p /\ at[c] \notin Ended \cup {"idle"}
  /\ crashes' = crashes + 1
  /\ at' = [c \in Call |-> IF ProcessOf[c] = p THEN "crashed" ELSE at[c]]
  /\ UNCHANGED <<row, schema, init, config, shared, tries>>

Restart(p) ==
  /\ \E c \in Call : ProcessOf[c] = p /\ at[c] = "crashed"
  /\ init' = [init EXCEPT ![p] = Fresh]
  /\ at' = [c \in Call |-> IF ProcessOf[c] = p THEN "idle" ELSE at[c]]
  /\ tries' = [c \in Call |-> IF ProcessOf[c] = p THEN 0 ELSE tries[c]]
  /\ UNCHANGED <<row, schema, config, shared, crashes>>

CallStep(c) ==
  \/ Start(c) \/ Read(c) \/ Skip(c) \/ Wait(c) \/ GiveUp(c)
  \/ Lock(c) \/ SaveLock(c) \/ Build(c) \/ BuildFails(c) \/ Release(c)
  \/ DatabaseFails(c)

MigrateNext ==
  \/ \E c \in Call : CallStep(c)
  \/ \E p \in Process : Crash(p) \/ Restart(p)

\* A call that was made runs on: its sleeps end and the database answers.
MigrateFairness == \A c \in Call : WF_migrateVars(CallStep(c))

MigrateSpec == MigrateInit /\ [][MigrateNext]_migrateVars /\ MigrateFairness

----------------------------------------------------------------------------
\* A call that returned, having migrated or having skipped, leaves a
\* database whose tables were built for its entities or for newer ones.
ReturnedMeansMigrated ==
  \A c \in Call : at[c] \in Returned => schema[DbOf[c]] >= Local[c]

\* The recorded version never claims more than was built, whatever crashes
\* or fails between building and recording.
RecordIsNotAhead ==
  \A d \in Db : row[d].config.version <= schema[d]

\* A call never waits for good: also when a crashed process left the lock
\* behind, it gives up after Tries readings.
CallsEnd == <>[](\A c \in Call : at[c] \in Ended)

\* Two calls never build the schema of one database at the same time.
BuildersExclude ==
  \A c, d \in Call :
    at[c] = "building" /\ at[d] = "building" /\ DbOf[c] = DbOf[d] => c = d

\* A schema is never built for older entities than it was before: a process
\* that still runs the old version leaves a newer database alone.
NoDowngrade == [][\A d \in Db : schema'[d] >= schema[d]]_migrateVars
============================================================================
