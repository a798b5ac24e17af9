--------------------------- MODULE MigrateProofs ---------------------------
(***************************************************************************)
(* What holds of migrate for every number of processes, calls, versions,   *)
(* databases and readings, however many calls fail or crash.               *)
(*                                                                         *)
(* The record of a database is right, and a call that returned has its     *)
(* tables, as long as no schema is built for older entities than before    *)
(* (NoDowngrade), which is so when one new version is rolled out, beside   *)
(* processes of whatever old ones (OneUpgrade).  A process may migrate any *)
(* number of databases of which one at most is new (OneInstall).  Neither  *)
(* condition can be dropped: of two new versions started together the      *)
(* older can be built over the newer, and the run migrate_two_databases    *)
(* has two new databases in one process.                                   *)
(***************************************************************************)
EXTENDS Migrate, TLAPS

IsUpgrade(c) == Local[c] > Installed[DbOf[c]]
OneUpgrade ==
  \A c, d \in Call :
    DbOf[c] = DbOf[d] /\ IsUpgrade(c) /\ IsUpgrade(d) => Local[c] = Local[d]
OneInstall ==
  \A c, d \in Call :
    /\ ProcessOf[c] = ProcessOf[d]
    /\ Installed[DbOf[c]] = 0 /\ Installed[DbOf[d]] = 0
    => DbOf[c] = DbOf[d]

\* A call reads again only while it has readings left.
TriesLeft ==
  \A c \in Call :
    (at[c] = "idle" => tries[c] = 0) /\ (at[c] = "reading" => tries[c] < Tries)

\* INIT_DB_CONFIG is for databases without a row, and those are new.
SharedIsNew ==
  /\ \A d \in Db : ~row[d].saved => Installed[d] = 0
  /\ \A c \in Call : shared[c] => Installed[DbOf[c]] = 0

\* Nobody forgets the version that was installed, and who builds is newer.
Working == {"checking", "locking", "building", "releasing", "failing"}
KnowsInstalled ==
  /\ \A d \in Db : row[d].config.version >= Installed[d]
  /\ \A c \in Call :
       /\ at[c] \in Working => shared[c] \/ config[c].version >= Installed[DbOf[c]]
       /\ at[c] \in {"locking", "building"} => IsUpgrade(c)

\* The tables are those that were installed, or of a call that upgraded.
SchemaIsOfCall ==
  \A d \in Db :
    \/ schema[d] = Installed[d]
    \/ \E c \in Call : DbOf[c] = d /\ IsUpgrade(c) /\ schema[d] = Local[c]

StepInv ==
  MigrateTypeOK /\ TriesLeft /\ SharedIsNew /\ KnowsInstalled /\ SchemaIsOfCall

\* No copy of the record, stored or in memory, claims more than was built.
CopiesNotAhead ==
  /\ RecordIsNotAhead
  /\ \A c \in Call :
       /\ config[c].version <= schema[DbOf[c]]
       /\ Installed[DbOf[c]] = 0 => init[ProcessOf[c]].version <= schema[DbOf[c]]

\* A call that has built, or that found nothing to build, has its tables.
BuiltOrRead ==
  \A c \in Call : at[c] \in {"releasing"} \cup Returned => schema[DbOf[c]] >= Local[c]

RecordInv == CopiesNotAhead /\ BuiltOrRead

Rises == \A d \in Db : schema'[d] >= schema[d]

----------------------------------------------------------------------------
\* What holds whatever the versions and databases.

\* What a call sees is a configuration, and what it makes of it as well.
LEMMA SeenType ==
  ASSUME MigrateTypeOK, NEW c \in Call
  PROVE  /\ Seen(c) \in Config /\ Seen(c).version \in Nat
         /\ DbOf[c] \in Db /\ ProcessOf[c] \in Process /\ Local[c] \in Nat \ {0}
         /\ Installed[DbOf[c]] \in Nat
         /\ \A b \in BOOLEAN : /\ [Seen(c) EXCEPT !.locked = b] \in Config
                               /\ [Seen(c) EXCEPT !.locked = b].version = Seen(c).version
  BY CallAssumption DEF MigrateTypeOK, Config, Seen

\* An assignment to the object of a call.
LEMMA AssignTypes ==
  ASSUME MigrateTypeOK, NEW c \in Call, NEW value \in Config, Assign(c, value)
  PROVE  /\ init' \in [Process -> Config] /\ config' \in [Call -> Config]
         /\ config'[c] = IF shared[c] THEN config[c] ELSE value
         /\ init'[ProcessOf[c]] = IF shared[c] THEN value ELSE init[ProcessOf[c]]
         /\ \A d \in Call \ {c} : config'[d] = config[d]
         /\ \A p \in Process \ {ProcessOf[c]} : init'[p] = init[p]
<1> SUFFICES ASSUME ProcessOf[c] \in Process, init \in [Process -> Config],
                    config \in [Call -> Config], shared[c] \in BOOLEAN
             PROVE  /\ init' \in [Process -> Config] /\ config' \in [Call -> Config]
                    /\ config'[c] = IF shared[c] THEN config[c] ELSE value
                    /\ init'[ProcessOf[c]] = IF shared[c] THEN value ELSE init[ProcessOf[c]]
                    /\ \A d \in Call \ {c} : config'[d] = config[d]
                    /\ \A p \in Process \ {ProcessOf[c]} : init'[p] = init[p]
  BY CallAssumption DEF MigrateTypeOK
<1>1. CASE shared[c]
  <2>1. init' = [init EXCEPT ![ProcessOf[c]] = value] /\ config' = config
    BY <1>1 DEF Assign
  <2> QED
    BY <1>1, <2>1
<1>2. CASE ~shared[c]
  <2>1. config' = [config EXCEPT ![c] = value] /\ init' = init
    BY <1>2 DEF Assign
  <2> QED
    BY <1>2, <2>1
<1> QED
  BY <1>1, <1>2

\* Before the first call.
LEMMA StepInit == MigrateInit => StepInv
<1> SUFFICES ASSUME MigrateInit
             PROVE  StepInv
  OBVIOUS
<1>1. /\ \A d \in Db : /\ row[d].saved = (Installed[d] # 0)
                       /\ row[d].config.version = Installed[d]
                       /\ row[d] \in [saved : BOOLEAN, config : Config]
      /\ row = [d \in Db |-> row[d]]
  BY CallAssumption DEF MigrateInit, InstalledRow, Fresh, Config
<1>2. MigrateTypeOK
  BY <1>1, CallAssumption, TriesAssumption, FailAssumption
  DEF MigrateInit, MigrateTypeOK, Config, Fresh, Ended, Returned
<1>3. SharedIsNew /\ KnowsInstalled /\ SchemaIsOfCall /\ TriesLeft
  BY <1>1, CallAssumption, TriesAssumption
  DEF MigrateInit, SharedIsNew, KnowsInstalled, SchemaIsOfCall, TriesLeft, Working
<1> QED
  BY <1>2, <1>3 DEF StepInv

\* Every step of a call keeps StepInv.
LEMMA CallKeepsStepInv ==
  ASSUME StepInv, NEW c \in Call, CallStep(c)
  PROVE  StepInv'
<1> USE DEF StepInv
<1>0. /\ Seen(c) \in Config /\ Seen(c).version \in Nat
      /\ DbOf[c] \in Db /\ ProcessOf[c] \in Process /\ Local[c] \in Nat \ {0}
      /\ Installed[DbOf[c]] \in Nat
      /\ \A b \in BOOLEAN : /\ [Seen(c) EXCEPT !.locked = b] \in Config
                            /\ [Seen(c) EXCEPT !.locked = b].version = Seen(c).version
  BY SeenType
<1>9. at[c] \in Working => Seen(c).version >= Installed[DbOf[c]]
  BY <1>0, CallAssumption
  DEF Seen, SharedIsNew, KnowsInstalled, MigrateTypeOK, Config
<1>1. CASE Start(c) \/ Skip(c) \/ Wait(c) \/ GiveUp(c) \/ DatabaseFails(c)
  <2>1. UNCHANGED <<row, schema, init, config, shared, tries, crashes>>
    BY <1>1 DEF Start, Skip, Wait, GiveUp, DatabaseFails
  <2>2. PICK where \in {"reading", "threw", "skipped"} :
          Goto(c, where) /\ (where = "reading" => tries[c] < Tries)
    BY <1>1, TriesAssumption DEF Start, Skip, Wait, GiveUp, DatabaseFails, TriesLeft
  <2>3. MigrateTypeOK'
    BY <2>1, <2>2 DEF Goto, MigrateTypeOK, Ended, Returned
  <2>4. TriesLeft' /\ KnowsInstalled'
    BY <2>1, <2>2 DEF Goto, MigrateTypeOK, TriesLeft, KnowsInstalled, Working
  <2> QED
    BY <2>1, <2>3, <2>4 DEF SharedIsNew, SchemaIsOfCall
<1>2. CASE Read(c)
  <2>1. tries[c] < Tries
    BY <1>2 DEF Read, TriesLeft
  <2>2. /\ row[DbOf[c]].config \in Config /\ row[DbOf[c]].saved \in BOOLEAN
        /\ row[DbOf[c]].config.version >= Installed[DbOf[c]]
    BY <1>0 DEF MigrateTypeOK, KnowsInstalled
  <2>3. MigrateTypeOK'
    BY <1>0, <1>2, <2>1, <2>2, TriesAssumption
    DEF Read, Goto, MigrateTypeOK, Ended, Returned
  <2>4. TriesLeft' /\ KnowsInstalled'
    BY <1>2, <2>2 DEF Read, Goto, MigrateTypeOK, TriesLeft, KnowsInstalled, Working
  <2>5. SharedIsNew'
    BY <1>0, <1>2 DEF Read, MigrateTypeOK, SharedIsNew
  <2> QED
    BY <1>2, <2>3, <2>4, <2>5 DEF Read, SchemaIsOfCall
<1>3. CASE Lock(c) \/ BuildFails(c)
  <2>1. PICK b \in BOOLEAN, where \in {"locking", "failing"} :
          /\ Assign(c, [Seen(c) EXCEPT !.locked = b]) /\ Goto(c, where)
          /\ where = "locking" => at[c] = "checking" /\ Seen(c).version < Local[c]
    BY <1>3 DEF Lock, BuildFails
  <2>2. UNCHANGED <<row, schema, shared, tries, crashes>> /\ at[c] \in Working
    BY <1>3 DEF Lock, BuildFails, Working
  <2> DEFINE value == [Seen(c) EXCEPT !.locked = b]
  <2>3. value \in Config /\ value.version = Seen(c).version
    BY <1>0
  <2> HIDE DEF value
  <2>4. /\ init' \in [Process -> Config] /\ config' \in [Call -> Config]
        /\ config'[c] = IF shared[c] THEN config[c] ELSE value
        /\ \A d \in Call \ {c} : config'[d] = config[d]
    BY <2>1, <2>3, AssignTypes DEF value
  <2>5. MigrateTypeOK'
    BY <2>1, <2>2, <2>4 DEF Goto, MigrateTypeOK, Ended, Returned
  <2>6. TriesLeft' /\ SharedIsNew' /\ SchemaIsOfCall'
    BY <2>1, <2>2 DEF Goto, MigrateTypeOK, TriesLeft, SharedIsNew, SchemaIsOfCall
  <2>7. KnowsInstalled'
    BY <1>0, <1>9, <2>1, <2>2, <2>3, <2>4
    DEF Goto, MigrateTypeOK, KnowsInstalled, Working, IsUpgrade
  <2> QED
    BY <2>5, <2>6, <2>7
<1>4. CASE SaveLock(c) \/ Release(c)
  <2>1. /\ Save(c) /\ UNCHANGED <<schema, init, config, shared, tries, crashes>>
        /\ at[c] \in Working
    BY <1>4 DEF SaveLock, Release, Working
  <2>2. PICK where \in {"building"} \cup Ended :
          Goto(c, where) /\ (where = "building" => at[c] = "locking")
    BY <1>4 DEF SaveLock, Release, Ended, Returned
  <2>3. /\ row' \in [Db -> [saved : BOOLEAN, config : Config]]
        /\ row'[DbOf[c]].saved /\ row'[DbOf[c]].config.version >= Installed[DbOf[c]]
        /\ \A d \in Db \ {DbOf[c]} : row'[d] = row[d]
    BY <1>0, <1>9, <2>1 DEF Save, MigrateTypeOK
  <2>4. MigrateTypeOK'
    BY <2>1, <2>2, <2>3 DEF Goto, MigrateTypeOK
  <2>5. TriesLeft' /\ SharedIsNew' /\ SchemaIsOfCall'
    BY <2>1, <2>2, <2>3
    DEF Goto, MigrateTypeOK, TriesLeft, SharedIsNew, SchemaIsOfCall, Ended, Returned
  <2>6. KnowsInstalled'
    BY <2>1, <2>2, <2>3
    DEF Goto, MigrateTypeOK, KnowsInstalled, Working, Ended, Returned
  <2> QED
    BY <2>4, <2>5, <2>6
<1>5. CASE Build(c)
  <2> DEFINE value == [locked |-> FALSE, version |-> Local[c]]
  <2>1. /\ value \in Config /\ value.version = Local[c] /\ IsUpgrade(c)
        /\ Assign(c, value) /\ Goto(c, "releasing")
        /\ UNCHANGED <<row, shared, tries, crashes>>
        /\ schema' = [schema EXCEPT ![DbOf[c]] = Local[c]]
    BY <1>0, <1>5 DEF Build, Config, KnowsInstalled
  <2> HIDE DEF value
  <2>2. /\ init' \in [Process -> Config] /\ config' \in [Call -> Config]
        /\ config'[c] = IF shared[c] THEN config[c] ELSE value
        /\ \A d \in Call \ {c} : config'[d] = config[d]
    BY <2>1, AssignTypes
  <2>3. MigrateTypeOK'
    BY <1>0, <2>1, <2>2 DEF Goto, MigrateTypeOK
  <2>4. TriesLeft' /\ SharedIsNew'
    BY <2>1 DEF Goto, MigrateTypeOK, TriesLeft, SharedIsNew
  <2>5. KnowsInstalled'
    BY <1>0, <1>5, <2>1, <2>2
    DEF Build, Goto, MigrateTypeOK, KnowsInstalled, Working, IsUpgrade
  <2>6. SchemaIsOfCall'
    BY <1>0, <2>1 DEF MigrateTypeOK, SchemaIsOfCall, IsUpgrade
  <2> QED
    BY <2>3, <2>4, <2>5, <2>6
<1> QED
  BY <1>1, <1>2, <1>3, <1>4, <1>5 DEF CallStep

\* A crash and a restart keep StepInv.
LEMMA ProcessKeepsStepInv ==
  ASSUME StepInv, NEW p \in Process, Crash(p) \/ Restart(p)
  PROVE  StepInv'
<1>1. CASE Crash(p)
  BY <1>1, FailAssumption
  DEF Crash, StepInv, MigrateTypeOK, TriesLeft, SharedIsNew, KnowsInstalled,
      SchemaIsOfCall, Working, Ended, Returned
<1>2. CASE Restart(p)
  BY <1>2, TriesAssumption
  DEF Restart, StepInv, MigrateTypeOK, TriesLeft, SharedIsNew, KnowsInstalled,
      SchemaIsOfCall, Working, Ended, Returned, Config, Fresh
<1> QED
  BY <1>1, <1>2

LEMMA StepKeeps == StepInv /\ [MigrateNext]_migrateVars => StepInv'
<1> SUFFICES ASSUME StepInv, [MigrateNext]_migrateVars
             PROVE  StepInv'
  OBVIOUS
<1>1. CASE MigrateNext
  BY <1>1, CallKeepsStepInv, ProcessKeepsStepInv DEF MigrateNext
<1>2. CASE UNCHANGED migrateVars
  BY <1>2
  DEF migrateVars, StepInv, MigrateTypeOK, TriesLeft, SharedIsNew, KnowsInstalled,
      SchemaIsOfCall
<1> QED
  BY <1>1, <1>2

----------------------------------------------------------------------------
\* Only a call that builds changes the tables.
LEMMA OnlyBuilds ==
  ASSUME [MigrateNext]_migrateVars
  PROVE  schema' = schema \/ \E c \in Call : Build(c)
BY DEF MigrateNext, CallStep, Start, Read, Skip, Wait, GiveUp, Lock, SaveLock, BuildFails,
       Release, DatabaseFails, Crash, Restart, migrateVars

\* A version is rolled out over any older one while processes of any old
\* versions are started, crash and fail: no schema is ever built for older
\* entities than before.
THEOREM NoDowngradeHolds ==
  ASSUME OneUpgrade
  PROVE  MigrateSpec => NoDowngrade
<1>1. ASSUME StepInv, [MigrateNext]_migrateVars
      PROVE  Rises
  <2> USE DEF StepInv
  <2>1. schema \in [Db -> Nat]
    BY <1>1 DEF MigrateTypeOK
  <2>2. CASE schema' = schema
    BY <2>1, <2>2 DEF Rises
  <2>3. ASSUME NEW c \in Call, Build(c)
        PROVE  Rises
    <3>1. /\ DbOf[c] \in Db /\ Local[c] \in Nat /\ IsUpgrade(c)
          /\ schema' = [schema EXCEPT ![DbOf[c]] = Local[c]]
      BY <1>1, <2>3, CallAssumption DEF Build, KnowsInstalled
    <3>2. Local[c] >= schema[DbOf[c]]
      <4>1. CASE schema[DbOf[c]] = Installed[DbOf[c]]
        BY <3>1, <4>1, CallAssumption DEF IsUpgrade
      <4>2. ASSUME NEW d \in Call, DbOf[d] = DbOf[c], IsUpgrade(d),
                   schema[DbOf[c]] = Local[d]
            PROVE  Local[c] >= schema[DbOf[c]]
        BY <3>1, <4>2 DEF OneUpgrade
      <4> QED
        BY <1>1, <3>1, <4>1, <4>2 DEF SchemaIsOfCall
    <3> QED
      BY <2>1, <3>1, <3>2 DEF Rises
  <2> QED
    BY <1>1, <2>2, <2>3, OnlyBuilds
<1>2. StepInv /\ [MigrateNext]_migrateVars => [Rises]_migrateVars
  BY <1>1
<1> QED
  BY <1>2, StepInit, StepKeeps, PTL DEF MigrateSpec, NoDowngrade, Rises

----------------------------------------------------------------------------
\* What holds while no schema is built for older entities.

LEMMA RecordInit == MigrateInit => RecordInv
<1> SUFFICES ASSUME MigrateInit
             PROVE  RecordInv
  OBVIOUS
<1>1. \A d \in Db : row[d].config.version = Installed[d]
  BY DEF MigrateInit, InstalledRow, Fresh
<1>2. \A d \in Db : schema[d] = Installed[d] /\ Installed[d] \in Nat
  BY CallAssumption DEF MigrateInit
<1>3. /\ \A c \in Call : config[c].version = 0 /\ at[c] = "idle"
      /\ \A p \in Process : init[p].version = 0
  BY DEF MigrateInit, Fresh
<1> QED
  BY <1>1, <1>2, <1>3, CallAssumption
  DEF RecordInv, CopiesNotAhead, RecordIsNotAhead, BuiltOrRead, Returned

\* What a call sees claims no more than was built.
LEMMA SeenNotAhead ==
  ASSUME StepInv, RecordInv, NEW c \in Call
  PROVE  Seen(c).version <= schema[DbOf[c]]
  BY DEF StepInv, RecordInv, CopiesNotAhead, SharedIsNew, Seen

\* Assigning a version that was built keeps every copy true.
LEMMA AssignKeeps ==
  ASSUME StepInv, RecordInv, OneInstall, Rises, schema' \in [Db -> Nat], row' = row,
         NEW c \in Call, NEW value \in Config, Assign(c, value),
         value.version <= schema'[DbOf[c]]
  PROVE  CopiesNotAhead'
<1>1. /\ config' \in [Call -> Config] /\ init' \in [Process -> Config]
      /\ config'[c] = IF shared[c] THEN config[c] ELSE value
      /\ init'[ProcessOf[c]] = IF shared[c] THEN value ELSE init[ProcessOf[c]]
      /\ \A d \in Call \ {c} : config'[d] = config[d]
      /\ \A p \in Process \ {ProcessOf[c]} : init'[p] = init[p]
  BY AssignTypes DEF StepInv
<1>2. RecordIsNotAhead'
  BY DEF StepInv, MigrateTypeOK, Config, RecordInv, CopiesNotAhead, RecordIsNotAhead, Rises
<1>3. ASSUME NEW d \in Call
      PROVE  /\ config'[d].version <= schema'[DbOf[d]]
             /\ Installed[DbOf[d]] = 0 => init'[ProcessOf[d]].version <= schema'[DbOf[d]]
  <2>1. /\ DbOf[d] \in Db /\ ProcessOf[d] \in Process
        /\ config[d].version <= schema[DbOf[d]] /\ config[d].version \in Nat
        /\ Installed[DbOf[d]] = 0 => init[ProcessOf[d]].version <= schema[DbOf[d]]
        /\ init[ProcessOf[d]].version \in Nat
        /\ schema[DbOf[d]] <= schema'[DbOf[d]]
        /\ schema[DbOf[d]] \in Nat /\ schema'[DbOf[d]] \in Nat
    BY CallAssumption DEF StepInv, MigrateTypeOK, Config, RecordInv, CopiesNotAhead, Rises
  <2>2. config'[d].version <= schema'[DbOf[d]]
    <3>1. CASE config'[d] = config[d]
      BY <2>1, <3>1
    <3>2. CASE config'[d] # config[d]
      BY <1>1, <3>2
    <3> QED
      BY <3>1, <3>2
  <2>3. ASSUME Installed[DbOf[d]] = 0
        PROVE  init'[ProcessOf[d]].version <= schema'[DbOf[d]]
    <3>1. CASE init'[ProcessOf[d]] = init[ProcessOf[d]]
      BY <2>1, <2>3, <3>1
    <3>2. CASE init'[ProcessOf[d]] # init[ProcessOf[d]]
      <4>1. ProcessOf[d] = ProcessOf[c] /\ shared[c] /\ init'[ProcessOf[d]] = value
        BY <1>1, <2>1, <3>2
      <4>2. DbOf[d] = DbOf[c]
        BY <2>3, <4>1 DEF StepInv, SharedIsNew, OneInstall
      <4> QED
        BY <4>1, <4>2
    <3> QED
      BY <3>1, <3>2
  <2> QED
    BY <2>2, <2>3
<1> QED
  BY <1>2, <1>3 DEF CopiesNotAhead

\* Every step of a call keeps RecordInv.
LEMMA CallKeepsRecord ==
  ASSUME StepInv, RecordInv, OneInstall, Rises, NEW c \in Call, CallStep(c)
  PROVE  RecordInv'
<1> USE DEF RecordInv
<1>0. /\ Seen(c) \in Config /\ Seen(c).version \in Nat
      /\ DbOf[c] \in Db /\ ProcessOf[c] \in Process /\ Local[c] \in Nat \ {0}
      /\ Seen(c).version <= schema[DbOf[c]]
      /\ \A b \in BOOLEAN : /\ [Seen(c) EXCEPT !.locked = b] \in Config
                            /\ [Seen(c) EXCEPT !.locked = b].version = Seen(c).version
      /\ MigrateTypeOK /\ schema \in [Db -> Nat]
  BY SeenType, SeenNotAhead DEF StepInv, MigrateTypeOK
<1>1. CASE Start(c) \/ Wait(c) \/ GiveUp(c) \/ DatabaseFails(c)
  <2>1. UNCHANGED <<row, schema, init, config>>
    BY <1>1 DEF Start, Wait, GiveUp, DatabaseFails
  <2>2. \E where \in {"reading", "threw"} : Goto(c, where)
    BY <1>1 DEF Start, Wait, GiveUp, DatabaseFails
  <2>3. BuiltOrRead'
    BY <1>0, <2>1, <2>2 DEF Goto, MigrateTypeOK, BuiltOrRead, Returned
  <2> QED
    BY <2>1, <2>3 DEF CopiesNotAhead, RecordIsNotAhead
<1>2. CASE Read(c)
  <2>1. row[DbOf[c]].config.version <= schema[DbOf[c]]
    BY <1>0 DEF CopiesNotAhead, RecordIsNotAhead
  <2>2. CopiesNotAhead'
    BY <1>0, <1>2, <2>1 DEF Read, MigrateTypeOK, CopiesNotAhead, RecordIsNotAhead
  <2>3. BuiltOrRead'
    BY <1>0, <1>2 DEF Read, Goto, MigrateTypeOK, BuiltOrRead, Returned
  <2> QED
    BY <2>2, <2>3
<1>3. CASE Skip(c)
  <2>1. BuiltOrRead'
    BY <1>0, <1>3 DEF Skip, Goto, MigrateTypeOK, BuiltOrRead, Returned
  <2> QED
    BY <1>3, <2>1 DEF Skip, CopiesNotAhead, RecordIsNotAhead
<1>4. CASE Lock(c) \/ BuildFails(c)
  <2>1. PICK b \in BOOLEAN, where \in {"locking", "failing"} :
          /\ Assign(c, [Seen(c) EXCEPT !.locked = b]) /\ Goto(c, where)
          /\ row' = row /\ schema' = schema
    BY <1>4 DEF Lock, BuildFails
  <2>2. CopiesNotAhead'
    BY <1>0, <2>1, AssignKeeps
  <2>3. BuiltOrRead'
    BY <1>0, <2>1 DEF Goto, MigrateTypeOK, BuiltOrRead, Returned
  <2> QED
    BY <2>2, <2>3
<1>5. CASE SaveLock(c) \/ Release(c)
  <2>1. Save(c) /\ UNCHANGED <<schema, init, config>>
    BY <1>5 DEF SaveLock, Release
  <2>2. RecordIsNotAhead'
    BY <1>0, <2>1 DEF Save, MigrateTypeOK, CopiesNotAhead, RecordIsNotAhead
  <2>3. BuiltOrRead'
    BY <1>0, <1>5 DEF SaveLock, Release, Goto, MigrateTypeOK, BuiltOrRead, Returned
  <2> QED
    BY <2>1, <2>2, <2>3 DEF CopiesNotAhead
<1>6. CASE Build(c)
  <2> DEFINE value == [locked |-> FALSE, version |-> Local[c]]
  <2>1. /\ value \in Config /\ value.version = Local[c] /\ Assign(c, value)
        /\ row' = row /\ schema' = [schema EXCEPT ![DbOf[c]] = Local[c]]
    BY <1>0, <1>6 DEF Build, Config
  <2>2. schema' \in [Db -> Nat] /\ value.version <= schema'[DbOf[c]]
    BY <1>0, <2>1
  <2> HIDE DEF value
  <2>3. CopiesNotAhead'
    BY <2>1, <2>2, AssignKeeps
  <2>4. BuiltOrRead'
    <3>1. schema'[DbOf[c]] = Local[c] /\ at' = [at EXCEPT ![c] = "releasing"]
      BY <1>0, <1>6, <2>1 DEF Build, Goto
    <3>2. ASSUME NEW d \in Call, d # c, at'[d] \in {"releasing"} \cup Returned
          PROVE  schema'[DbOf[d]] >= Local[d]
      <4>1. /\ DbOf[d] \in Db /\ schema[DbOf[d]] >= Local[d]
            /\ schema'[DbOf[d]] >= schema[DbOf[d]]
        BY <3>1, <3>2, CallAssumption DEF BuiltOrRead, Rises
      <4> QED
        BY <1>0, <2>2, <4>1, CallAssumption
    <3> QED
      BY <1>0, <3>1, <3>2 DEF MigrateTypeOK, BuiltOrRead
  <2> QED
    BY <2>3, <2>4
<1> QED
  BY <1>1, <1>2, <1>3, <1>4, <1>5, <1>6 DEF CallStep

\* So do a crash, and a restart with a fresh INIT_DB_CONFIG.
LEMMA ProcessKeepsRecord ==
  ASSUME StepInv, RecordInv, NEW p \in Process, Crash(p) \/ Restart(p)
  PROVE  RecordInv'
<1>1. CASE Crash(p)
  BY <1>1 DEF Crash, StepInv, MigrateTypeOK, RecordInv, CopiesNotAhead, RecordIsNotAhead,
              BuiltOrRead, Returned
<1>2. CASE Restart(p)
  <2>1. BuiltOrRead'
    BY <1>2 DEF Restart, StepInv, MigrateTypeOK, RecordInv, BuiltOrRead, Returned
  <2>2. CopiesNotAhead'
    BY <1>2, CallAssumption
    DEF Restart, StepInv, MigrateTypeOK, RecordInv, CopiesNotAhead, RecordIsNotAhead, Fresh
  <2> QED
    BY <2>1, <2>2 DEF RecordInv
<1> QED
  BY <1>1, <1>2

LEMMA RecordKeeps ==
  ASSUME OneInstall
  PROVE  StepInv /\ RecordInv /\ [MigrateNext]_migrateVars /\ [Rises]_migrateVars
         => RecordInv'
<1> SUFFICES ASSUME StepInv, RecordInv, [MigrateNext]_migrateVars, [Rises]_migrateVars
             PROVE  RecordInv'
  OBVIOUS
<1>1. CASE UNCHANGED migrateVars
  BY <1>1 DEF migrateVars, RecordInv, CopiesNotAhead, RecordIsNotAhead, BuiltOrRead
<1>2. CASE MigrateNext /\ Rises
  BY <1>2, CallKeepsRecord, ProcessKeepsRecord DEF MigrateNext
<1> QED
  BY <1>1, <1>2

----------------------------------------------------------------------------
\* The recorded version never claims more than was built, whatever crashes
\* or fails between syncEntities and the last save of the finally block: of
\* all versions and databases only a schema that is built for older entities
\* (NoDowngrade), and a second new database of a process, can make it lie.
THEOREM RecordIsNotAheadHolds ==
  ASSUME OneInstall
  PROVE  MigrateSpec /\ NoDowngrade => []RecordIsNotAhead
<1>1. RecordInv => RecordIsNotAhead
  BY DEF RecordInv, CopiesNotAhead
<1> QED
  BY <1>1, StepInit, StepKeeps, RecordInit, RecordKeeps, PTL
  DEF MigrateSpec, NoDowngrade, Rises

\* Under the same conditions a call of migrate that returned leaves a
\* database whose tables were built for its entities or for newer ones,
\* whether it built them, waited for the lock of another process, or found
\* that there was nothing to do.
THEOREM ReturnedMeansMigratedHolds ==
  ASSUME OneInstall
  PROVE  MigrateSpec /\ NoDowngrade => []ReturnedMeansMigrated
<1>1. RecordInv => ReturnedMeansMigrated
  BY DEF RecordInv, BuiltOrRead, ReturnedMeansMigrated
<1> QED
  BY <1>1, StepInit, StepKeeps, RecordInit, RecordKeeps, PTL
  DEF MigrateSpec, NoDowngrade, Rises

\* When one new version is rolled out, neither needs to be assumed.
THEOREM UpgradeIsRecorded ==
  ASSUME OneInstall, OneUpgrade
  PROVE  MigrateSpec => [](RecordIsNotAhead /\ ReturnedMeansMigrated)
BY NoDowngradeHolds, RecordIsNotAheadHolds, ReturnedMeansMigratedHolds, PTL
============================================================================
