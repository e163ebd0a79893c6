-------------------------- MODULE PlatformProofs --------------------------
(***************************************************************************)
(* First: Maintenance implements ExclusiveUse for any migrators and        *)
(* controllers, as long as no process is suspended between two adjacent    *)
(* statements and no tick outlasts its lease (Suspend = {}).               *)
(* Then: what surrounds the controller's passes, side by side. Every part  *)
(* keeps its types, and its properties hold beside the others'.            *)
(***************************************************************************)
EXTENDS MCPlatform, ApprovalsProofs, IntakeProofs, ReviewRoundsProofs

\* From the lease it found dead to the end of its work, a migrator has no company.
Past(m) == mig[m].at \in {"drain", "backup", "rehearse", "upgrade"}

\* Who is between creating the lock file and releasing it finds its own file there.
LockOwned ==
  \A m \in Migrators : HoldsLock(m) =>
    /\ lock.by = m
    /\ mig[m].at # "write" => lock.written

\* A reclaim is judged and done at once: its file is still that of a dead holder, and
\* nobody else judges meanwhile.
ReclaimSound ==
  \A m \in Migrators : mig[m].at = "reclaim" =>
    /\ StaleLock
    /\ \A n \in Migrators : mig[n].at = "reclaim" => n = m

\* A tick runs under the lease of its controller, ...
TickHasLease == \A c \in Controllers : ctrl[c] = "tick" => lease = c

\* ... and none runs, nor is about to, once a migrator has found the lease dead.
NoCompany ==
  \A m \in Migrators : Past(m) => \A c \in Controllers : ctrl[c] \notin {"checked", "tick"}

ExclusionInv == LockOwned /\ ReclaimSound /\ TickHasLease /\ NoCompany

\* A file whose writer is at work is nobody's to reclaim, and stops every tick.
LEMMA HeldLock ==
  ASSUME MaintTypeOK, LockOwned, NEW m \in Migrators, HoldsLock(m)
  PROVE  ~StaleLock /\ lock # NoLock /\ maintenanceLockHolder # NoLock
BY MaintenanceAssumption DEF MaintTypeOK, LockOwned, HoldsLock, StaleLock, NoLock, maintenanceLockHolder

\* LockOwned makes the holder unique.
LEMMA OneHolder == LockOwned => OneMaintainer
BY DEF LockOwned, OneMaintainer
-----------------------------------------------------------------------------
LEMMA TypeInit == MaintInit => MaintTypeOK
<1> SUFFICES ASSUME MaintInit PROVE MaintTypeOK
  OBVIOUS
<1>1. 0 \in 0..LastSchema /\ 0 \in 0..1
  BY MaintenanceAssumption
<1> QED BY <1>1 DEF MaintInit, MaintTypeOK, NoLock, MigSteps, CtrSteps

LEMMA StepTypes ==
  ASSUME MaintTypeOK, NEW m \in Migrators, NEW s \in MigSteps, Step(m, s)
  PROVE  mig' \in [Migrators -> [at : MigSteps, tries : 0..1, from : 0..LastSchema, read : 0..LastSchema]]
BY DEF MaintTypeOK, Step

LEMMA CtrStepTypes ==
  ASSUME MaintTypeOK, NEW c \in Controllers, NEW s \in CtrSteps, CtrStep(c, s)
  PROVE  ctrl' \in [Controllers -> CtrSteps]
BY DEF MaintTypeOK, CtrStep

LEMMA TypeStep == MaintTypeOK /\ [MaintNext]_maintVars => MaintTypeOK'
<1> SUFFICES ASSUME MaintTypeOK, [MaintNext]_maintVars PROVE MaintTypeOK'
  OBVIOUS
<1> USE DEF lockVars, baseVars
<1>0. 0 \in 0..LastSchema /\ 0 \in 0..1 /\ 1 \in 0..1
  BY MaintenanceAssumption
<1>1. ASSUME NEW m \in Migrators, NEW s \in MigSteps, Step(m, s), UNCHANGED <<lock, baseVars, ctrl>>
      PROVE  MaintTypeOK'
  BY <1>1, StepTypes DEF MaintTypeOK
<1>2. ASSUME NEW c \in Controllers, NEW s \in CtrSteps, CtrStep(c, s), UNCHANGED <<lockVars, baseVars>>
      PROVE  MaintTypeOK'
  BY <1>2, CtrStepTypes DEF MaintTypeOK
<1>3. ASSUME NEW m \in Migrators, MigratorNext(m) PROVE MaintTypeOK'
  <2>1. CASE MigrateBegin(m)
    BY <1>0, <2>1 DEF MigrateBegin, MaintTypeOK, MigSteps
  <2>2. CASE AcquireLock(m)
    <3>1. CASE lock = NoLock /\ lock' = [by |-> m, written |-> FALSE] /\ Step(m, "write")
      <4>1. "write" \in MigSteps
        BY DEF MigSteps
      <4>2. lock' \in [by : Migrators \union {Nobody}, written : BOOLEAN]
        BY <3>1
      <4>3. mig' \in [Migrators -> [at : MigSteps, tries : 0..1, from : 0..LastSchema, read : 0..LastSchema]]
        BY <3>1, <4>1, StepTypes
      <4>4. UNCHANGED <<schema, lease, health, undrained, ctrl>>
        BY <2>2 DEF AcquireLock
      <4> QED BY <4>2, <4>3, <4>4 DEF MaintTypeOK
    <3>2. CASE (Step(m, "off") \/ Step(m, "reclaim")) /\ UNCHANGED lock
      BY <1>1, <2>2, <3>2 DEF AcquireLock, MigSteps
    <3> QED BY <2>2, <3>1, <3>2 DEF AcquireLock
  <2>3. CASE ReclaimLock(m)
    <3>1. mig' \in [Migrators -> [at : MigSteps, tries : 0..1, from : 0..LastSchema, read : 0..LastSchema]]
      <4>1. PICK s \in MigSteps : mig' = [mig EXCEPT ![m].at = s, ![m].tries = 1]
        BY <2>3 DEF ReclaimLock, MigSteps
      <4> QED BY <1>0, <4>1 DEF MaintTypeOK
    <3>2. lock' \in [by : Migrators \union {Nobody}, written : BOOLEAN]
      BY <2>3 DEF ReclaimLock, NoLock
    <3> QED BY <2>3, <3>1, <3>2 DEF ReclaimLock, MaintTypeOK
  <2>4. CASE WriteLock(m)
    BY <2>4, StepTypes DEF WriteLock, MaintTypeOK, MigSteps
  <2>5. CASE CheckLease(m)
    BY <1>1, <2>5 DEF CheckLease, MigSteps
  <2>6. CASE CheckDrained(m)
    BY <1>1, <2>6 DEF CheckDrained, MigSteps
  <2>7. CASE Backup(m)
    BY <1>1, <2>7 DEF Backup, MigSteps
  <2>8. CASE Rehearse(m)
    BY <1>1, <2>8 DEF Rehearse, MaintTypeOK, MigSteps
  <2>9. CASE Upgrade(m)
    <3>1. CASE Step(m, "release") /\ UNCHANGED schema
      BY <1>1, <2>9, <3>1 DEF Upgrade, MigSteps
    <3>2. CASE /\ mig[m].read < LastSchema /\ schema' = mig[m].read + 1
               /\ mig' = [mig EXCEPT ![m].read = @ + 1]
      <4>1. mig[m].read + 1 \in 0..LastSchema
        BY <3>2, MaintenanceAssumption DEF MaintTypeOK
      <4> QED BY <2>9, <3>2, <4>1 DEF Upgrade, MaintTypeOK
    <3> QED BY <2>9, <3>1, <3>2 DEF Upgrade
  <2>10. CASE ReleaseLock(m)
    BY <2>10, StepTypes DEF ReleaseLock, MaintTypeOK, MigSteps, NoLock
  <2>11. CASE KillMigrator(m)
    BY <1>1, <2>11 DEF KillMigrator, MigSteps
  <2> QED BY <1>3, <2>1, <2>2, <2>3, <2>4, <2>5, <2>6, <2>7, <2>8, <2>9, <2>10, <2>11 DEF MigratorNext
<1>4. ASSUME NEW c \in Controllers, ControllerNext(c) PROVE MaintTypeOK'
  <2>1. CASE OpenRecords(c)
    BY <1>2, <2>1 DEF OpenRecords, CtrSteps
  <2>2. CASE AssertNoMaintenance(c)
    BY <1>2, <2>2 DEF AssertNoMaintenance, CtrSteps
  <2>3. CASE TakeLease(c)
    BY <2>3, CtrStepTypes DEF TakeLease, MaintTypeOK, CtrSteps
  <2>4. CASE TickWork(c)
    BY <2>4 DEF TickWork, MaintTypeOK
  <2>5. CASE EndTick(c)
    BY <2>5, CtrStepTypes DEF EndTick, MaintTypeOK, CtrSteps
  <2>6. CASE Stop(c)
    BY <2>6, CtrStepTypes DEF Stop, MaintTypeOK, CtrSteps
  <2>7. CASE KillController(c)
    BY <1>2, <2>7 DEF KillController, CtrSteps
  <2> QED BY <1>4, <2>1, <2>2, <2>3, <2>4, <2>5, <2>6, <2>7 DEF ControllerNext
<1>5. CASE UNCHANGED maintVars
  BY <1>5 DEF maintVars, MaintTypeOK
<1> QED BY <1>3, <1>4, <1>5 DEF MaintNext
-----------------------------------------------------------------------------
LEMMA ExclusionInit == MaintInit => ExclusionInv
BY DEF MaintInit, ExclusionInv, LockOwned, ReclaimSound, TickHasLease, NoCompany, HoldsLock, Past

LEMMA MigratorExclusion ==
  ASSUME Suspend = {}, MaintTypeOK, ExclusionInv, NEW m \in Migrators, Turn(m), MigratorNext(m)
  PROVE  ExclusionInv'
<1> USE DEF ExclusionInv, lockVars, baseVars, Step
<1>1. /\ \A n \in Migrators \ {m} : mig[n].at # "reclaim"
      /\ \A c \in Controllers : ctrl[c] # "checked"
  BY MaintenanceAssumption DEF Turn
<1>2. /\ mig \in [Migrators -> [at : MigSteps, tries : 0..1, from : 0..LastSchema, read : 0..LastSchema]]
      /\ lock \in [by : Migrators \union {Nobody}, written : BOOLEAN]
      /\ Nobody \notin Migrators
  BY MaintenanceAssumption DEF MaintTypeOK
<1> USE DEF HoldsLock, Past, LockOwned, ReclaimSound, TickHasLease, NoCompany, StaleLock, NoLock
<1>3. CASE MigrateBegin(m)
  BY <1>1, <1>2, <1>3 DEF MigrateBegin
<1>4. CASE AcquireLock(m)
  <2>1. UNCHANGED <<ctrl, lease>> /\ \A n \in Migrators \ {m} : mig'[n] = mig[n]
    BY <1>2, <1>4 DEF AcquireLock
  <2>2. CASE lock = NoLock /\ lock' = [by |-> m, written |-> FALSE] /\ Step(m, "write")
    BY <1>1, <1>2, <2>1, <2>2
  <2>3. CASE Step(m, "off") /\ UNCHANGED lock
    BY <1>1, <1>2, <2>1, <2>3
  <2>4. CASE StaleLock /\ Step(m, "reclaim") /\ UNCHANGED lock
    BY <1>1, <1>2, <1>4, <2>1, <2>4 DEF AcquireLock
  <2> QED BY <1>4, <2>2, <2>3, <2>4 DEF AcquireLock
<1>5. CASE ReclaimLock(m)
  BY <1>1, <1>2, <1>5 DEF ReclaimLock
<1>6. CASE WriteLock(m)
  BY <1>1, <1>2, <1>6 DEF WriteLock
<1>7. CASE CheckLease(m)
  BY <1>1, <1>2, <1>7 DEF CheckLease, NoLiveController
<1>8. CASE CheckDrained(m)
  BY <1>1, <1>2, <1>8 DEF CheckDrained
<1>9. CASE Backup(m)
  BY <1>1, <1>2, <1>9 DEF Backup
<1>10. CASE Rehearse(m)
  BY <1>1, <1>2, <1>10 DEF Rehearse
<1>11. CASE Upgrade(m)
  BY <1>1, <1>2, <1>11 DEF Upgrade
<1>12. CASE ReleaseLock(m)
  BY <1>1, <1>2, <1>12 DEF ReleaseLock
<1>13. CASE KillMigrator(m)
  BY <1>1, <1>2, <1>13 DEF KillMigrator
<1> QED BY <1>3, <1>4, <1>5, <1>6, <1>7, <1>8, <1>9, <1>10, <1>11, <1>12, <1>13 DEF MigratorNext

LEMMA ControllerExclusion ==
  ASSUME Suspend = {}, MaintTypeOK, ExclusionInv, NEW c \in Controllers, Turn(c), ControllerNext(c)
  PROVE  ExclusionInv'
<1> USE DEF ExclusionInv, lockVars, baseVars, CtrStep
<1>1. /\ ctrl \in [Controllers -> CtrSteps] /\ Nobody \notin Controllers
      /\ \A m \in Migrators : mig[m].at # "reclaim"
  BY MaintenanceAssumption DEF MaintTypeOK, Turn
<1>2. ASSUME UNCHANGED lockVars PROVE LockOwned' /\ ReclaimSound'
  BY <1>2 DEF LockOwned, ReclaimSound, HoldsLock, StaleLock, NoLock
<1> USE DEF TickHasLease, NoCompany, Past
<1>3. CASE OpenRecords(c)
  BY <1>1, <1>2, <1>3 DEF OpenRecords
<1>4. CASE AssertNoMaintenance(c)
  BY <1>1, <1>2, <1>4, HeldLock DEF AssertNoMaintenance, HoldsLock
<1>5. CASE TakeLease(c)
  BY <1>1, <1>2, <1>5 DEF TakeLease, NoLiveController
<1>6. CASE TickWork(c)
  BY <1>1, <1>2, <1>6 DEF TickWork
<1>7. CASE EndTick(c)
  BY <1>1, <1>2, <1>7 DEF EndTick
<1>8. CASE Stop(c)
  BY <1>1, <1>2, <1>8 DEF Stop
<1>9. CASE KillController(c)
  BY <1>1, <1>2, <1>9 DEF KillController
<1> QED BY <1>3, <1>4, <1>5, <1>6, <1>7, <1>8, <1>9 DEF ControllerNext

LEMMA ExclusionStep ==
  ASSUME Suspend = {}, MaintTypeOK, ExclusionInv, [MaintNext]_maintVars
  PROVE  ExclusionInv'
<1>1. CASE UNCHANGED maintVars
  BY <1>1 DEF maintVars, lockVars, baseVars, ExclusionInv, LockOwned, ReclaimSound, TickHasLease, NoCompany,
              HoldsLock, Past, StaleLock
<1> QED BY <1>1, MigratorExclusion, ControllerExclusion DEF MaintNext
-----------------------------------------------------------------------------
(* The refinement: what each step does to the users and the owners.        *)

Ticking == {c \in Controllers : ctrl[c] = "tick"}
Writers == {m \in Migrators : Rewriting(m)}

LEMMA MigratorUse ==
  ASSUME MaintTypeOK, ExclusionInv, NEW m \in Migrators, MigratorNext(m)
  PROVE  [Shared!Next]_(Shared!useVars)
<1>1. mig \in [Migrators -> [at : MigSteps, tries : 0..1, from : 0..LastSchema, read : 0..LastSchema]]
  BY DEF MaintTypeOK
<1>2. UNCHANGED ctrl /\ \A n \in Migrators \ {m} : mig'[n] = mig[n]
  BY <1>1 DEF MigratorNext, MigrateBegin, AcquireLock, ReclaimLock, WriteLock, CheckLease, CheckDrained,
              Backup, Rehearse, Upgrade, ReleaseLock, KillMigrator, Step
<1>3. Ticking' = Ticking
  BY <1>2 DEF Ticking
<1>4. CASE Rewriting(m)' = Rewriting(m)
  <2>1. Writers' = Writers
    BY <1>2, <1>4 DEF Writers, Rewriting
  <2> QED BY <1>3, <2>1 DEF Shared!useVars, Ticking, Writers
<1>5. CASE Rewriting(m) /\ ~Rewriting(m)'
  <2>1. Writers' = Writers \ {m}
    BY <1>2, <1>5 DEF Writers, Rewriting
  <2> QED BY <1>3, <2>1 DEF Shared!Next, Shared!Drop, Ticking, Writers
<1>6. CASE ~Rewriting(m) /\ Rewriting(m)'
  <2>1. CheckDrained(m)
    BY <1>1, <1>6 DEF MigratorNext, MigrateBegin, AcquireLock, ReclaimLock, WriteLock, CheckLease,
                      Backup, Rehearse, Upgrade, ReleaseLock, KillMigrator, Step, Rewriting
  <2>2. mig[m].at = "drain"
    BY <2>1 DEF CheckDrained
  <2>3. Ticking = {}
    BY <2>2 DEF ExclusionInv, NoCompany, Past, Ticking
  <2>4. \A n \in Migrators : Rewriting(n) => n = m
    BY <2>2, OneHolder DEF ExclusionInv, OneMaintainer, HoldsLock, Rewriting
  <2>5. Writers = {} /\ Writers' = {m}
    BY <1>2, <1>6, <2>4 DEF Writers, Rewriting
  <2> QED BY <1>3, <2>3, <2>5 DEF Shared!Next, Shared!Take, Ticking, Writers
<1> QED BY <1>4, <1>5, <1>6 DEF Rewriting

LEMMA ControllerUse ==
  ASSUME MaintTypeOK, ExclusionInv, NEW c \in Controllers, ControllerNext(c)
  PROVE  [Shared!Next]_(Shared!useVars)
<1>1. ctrl \in [Controllers -> CtrSteps]
  BY DEF MaintTypeOK
<1>2. UNCHANGED mig /\ \A d \in Controllers \ {c} : ctrl'[d] = ctrl[d]
  BY <1>1 DEF ControllerNext, OpenRecords, AssertNoMaintenance, TakeLease, TickWork, EndTick, Stop,
              KillController, CtrStep, lockVars
<1>3. Writers' = Writers
  BY <1>2 DEF Writers, Rewriting
<1>4. CASE (ctrl[c] = "tick") <=> (ctrl'[c] = "tick")
  <2>1. Ticking' = Ticking
    BY <1>2, <1>4 DEF Ticking
  <2> QED BY <1>3, <2>1 DEF Shared!useVars, Ticking, Writers
<1>5. CASE ctrl[c] = "tick" /\ ctrl'[c] # "tick"
  <2>1. Ticking' = Ticking \ {c}
    BY <1>2, <1>5 DEF Ticking
  <2> QED BY <1>3, <2>1 DEF Shared!Next, Shared!Leave, Ticking, Writers
<1>6. CASE ctrl[c] # "tick" /\ ctrl'[c] = "tick"
  <2>1. ctrl[c] = "checked"
    BY <1>1, <1>6 DEF ControllerNext, OpenRecords, AssertNoMaintenance, TakeLease, TickWork, EndTick, Stop,
                      KillController, CtrStep
  <2>2. Writers = {}
    BY <2>1 DEF ExclusionInv, NoCompany, Past, Writers, Rewriting
  <2>3. Ticking' = Ticking \union {c}
    BY <1>2, <1>6 DEF Ticking
  <2> QED BY <1>3, <2>2, <2>3 DEF Shared!Next, Shared!Enter, Ticking, Writers
<1> QED BY <1>4, <1>5, <1>6

LEMMA UseStep ==
  ASSUME MaintTypeOK, ExclusionInv, [MaintNext]_maintVars
  PROVE  [Shared!Next]_(Shared!useVars)
<1>1. CASE UNCHANGED maintVars
  BY <1>1 DEF maintVars, lockVars, Shared!useVars, Rewriting
<1> QED BY <1>1, MigratorUse, ControllerUse DEF MaintNext
-----------------------------------------------------------------------------
\* The rows and files keep their types, whoever is suspended or dies where.
THEOREM MaintenanceTyped == MaintSpec => []MaintTypeOK
BY TypeInit, TypeStep, PTL DEF MaintSpec

\* The invariant the others rest on: a lock file is its writer's until it releases it, no
\* tick runs without its lease, and none runs beside a migrator that found the lease dead.
THEOREM Exclusion == Suspend = {} => (MaintSpec => []ExclusionInv)
<1> SUFFICES ASSUME Suspend = {} PROVE MaintSpec => []ExclusionInv
  OBVIOUS
<1>1. MaintTypeOK /\ ExclusionInv /\ [MaintNext]_maintVars => ExclusionInv'
  BY ExclusionStep
<1> QED BY <1>1, ExclusionInit, MaintenanceTyped, PTL DEF MaintSpec

\* Whatever migrators, controllers of either build and crashes there are, the database is
\* never rewritten while a controller ticks, nor by two migrators.
THEOREM ExclusiveMaintenance == Suspend = {} => (MaintSpec => MaintenanceIsExclusive)
<1> SUFFICES ASSUME Suspend = {} PROVE MaintSpec => MaintenanceIsExclusive
  OBVIOUS
<1>1. MaintInit => Shared!Init
  BY DEF MaintInit, Shared!Init, Rewriting
<1>2. MaintTypeOK /\ ExclusionInv /\ [MaintNext]_maintVars => [Shared!Next]_(Shared!useVars)
  BY UseStep
<1> QED BY <1>1, <1>2, MaintenanceTyped, Exclusion, PTL DEF MaintSpec, MaintenanceIsExclusive, Shared!Spec

\* Under the same condition there is one maintainer: the reclaim of a dead holder's lock file
\* never removes a living one's.
THEOREM OneMaintains == Suspend = {} => (MaintSpec => []OneMaintainer)
<1> SUFFICES ASSUME Suspend = {} PROVE MaintSpec => []OneMaintainer OBVIOUS
<1>1. ExclusionInv => OneMaintainer BY OneHolder DEF ExclusionInv
<1> QED BY <1>1, Exclusion, PTL

\* The version an upgrade goes on from, read once before its migrations, is still the stamp.
ReadCurrent == \A m \in Migrators : mig[m].at = "upgrade" => mig[m].read = schema

LEMMA ReadKept ==
  ASSUME MaintTypeOK, ExclusionInv, ReadCurrent, [MaintNext]_maintVars
  PROVE  ReadCurrent' /\ schema' \in {schema, schema + 1}
<1>1. ASSUME UNCHANGED schema, \A m \in Migrators : mig'[m].at = "upgrade" => mig'[m] = mig[m]
      PROVE  ReadCurrent' /\ schema' \in {schema, schema + 1}
  BY <1>1 DEF ReadCurrent
<1>2. ASSUME NEW m \in Migrators, NEW s \in MigSteps \ {"upgrade"}, Step(m, s), UNCHANGED schema
      PROVE  ReadCurrent' /\ schema' \in {schema, schema + 1}
  BY <1>1, <1>2 DEF Step, MaintTypeOK
<1>3. ASSUME NEW m \in Migrators, Upgrade(m) PROVE ReadCurrent' /\ schema' \in {schema, schema + 1}
  <2>1. CASE Step(m, "release") /\ UNCHANGED schema BY <1>2, <2>1 DEF MigSteps
  <2>2. CASE schema' = mig[m].read + 1 /\ mig' = [mig EXCEPT ![m].read = @ + 1]
    <3>1. mig[m].at = "upgrade" /\ mig[m].read = schema BY <1>3 DEF Upgrade, ReadCurrent
    <3>2. \A n \in Migrators \ {m} : mig[n].at # "upgrade" /\ mig'[n] = mig[n]
      BY <2>2, <3>1, OneHolder DEF ExclusionInv, OneMaintainer, HoldsLock, MaintTypeOK
    <3>3. mig'[m].read = schema + 1 /\ schema' = schema + 1 BY <2>2, <3>1 DEF MaintTypeOK
    <3> QED BY <3>2, <3>3 DEF ReadCurrent
  <2> QED BY <1>3, <2>1, <2>2 DEF Upgrade
<1>4. ASSUME NEW m \in Migrators, Rehearse(m) PROVE ReadCurrent' /\ schema' \in {schema, schema + 1}
  <2>1. UNCHANGED schema BY <1>4 DEF Rehearse, baseVars
  <2>2. CASE Step(m, "release") BY <1>2, <2>1, <2>2 DEF MigSteps
  <2>3. CASE mig' = [mig EXCEPT ![m].at = "upgrade", ![m].read = schema]
    BY <2>1, <2>3 DEF ReadCurrent, MaintTypeOK
  <2> QED BY <1>4, <2>2, <2>3 DEF Rehearse
<1>5. ASSUME NEW m \in Migrators, MigrateBegin(m) PROVE ReadCurrent' /\ schema' \in {schema, schema + 1}
  BY <1>1, <1>5 DEF MigrateBegin, baseVars, MaintTypeOK
<1>6. ASSUME NEW m \in Migrators, ReclaimLock(m) PROVE ReadCurrent' /\ schema' \in {schema, schema + 1}
  BY <1>1, <1>6 DEF ReclaimLock, baseVars, MaintTypeOK
<1>7. ASSUME NEW m \in Migrators, MigratorNext(m) PROVE ReadCurrent' /\ schema' \in {schema, schema + 1}
  <2>1. CASE AcquireLock(m) \/ WriteLock(m) \/ CheckLease(m) \/ CheckDrained(m) \/ Backup(m) \/ ReleaseLock(m)
             \/ KillMigrator(m)
    BY <1>2, <2>1 DEF AcquireLock, WriteLock, CheckLease, CheckDrained, Backup, ReleaseLock, KillMigrator,
                      baseVars, MigSteps
  <2> QED BY <1>3, <1>4, <1>5, <1>6, <1>7, <2>1 DEF MigratorNext
<1>8. ASSUME NEW c \in Controllers, ControllerNext(c) PROVE ReadCurrent' /\ schema' \in {schema, schema + 1}
  BY <1>1, <1>8 DEF ControllerNext, OpenRecords, AssertNoMaintenance, TakeLease, TickWork, EndTick, Stop,
                    KillController, lockVars, baseVars
<1>9. CASE UNCHANGED maintVars BY <1>1, <1>9 DEF maintVars, lockVars, baseVars
<1> QED BY <1>7, <1>8, <1>9 DEF MaintNext

\* Under the same condition the stamp follows the migrations one by one and is never put back,
\* whatever fails or dies in between and however many migrations are started.
THEOREM StampForward == Suspend = {} => (MaintSpec => SchemaForward)
<1> SUFFICES ASSUME Suspend = {} PROVE MaintSpec => SchemaForward OBVIOUS
<1>1. MaintInit => ReadCurrent BY DEF MaintInit, ReadCurrent
<1>2. MaintTypeOK /\ ExclusionInv /\ ReadCurrent /\ [MaintNext]_maintVars
        => ReadCurrent' /\ [schema' \in {schema, schema + 1}]_maintVars
  BY ReadKept
<1> QED BY <1>1, <1>2, MaintenanceTyped, Exclusion, PTL DEF MaintSpec, SchemaForward
-----------------------------------------------------------------------------
(* The parts side by side.                                                 *)

LEMMA PartsInit == MCInit => /\ RvInit /\ MaintInit /\ InInit /\ RtInit /\ EpInit /\ IcInit /\ ExInit /\ QInit
                             /\ OpInit /\ CuInit /\ part \in MCParts
BY DEF MCInit, MCExInit

\* A step of the platform is one of one part, and of every other a stutter.
LEMMA PartsStep ==
  [MCNext]_MCVars => /\ [RvNext]_rvVars /\ [MaintNext]_maintVars /\ [InNext]_inVars /\ [RtNext]_rtVars
                     /\ [EpNext]_epVars /\ [IcNext]_icVars /\ [ExNext]_exVars /\ [QNext]_qVars
<1> SUFFICES ASSUME [MCNext]_MCVars
             PROVE  /\ [RvNext]_rvVars /\ [MaintNext]_maintVars /\ [InNext]_inVars /\ [RtNext]_rtVars
                    /\ [EpNext]_epVars /\ [IcNext]_icVars /\ [ExNext]_exVars /\ [QNext]_qVars
  OBVIOUS
<1>1. CASE UNCHANGED MCVars BY <1>1 DEF MCVars, restVars
<1>2. CASE MCNext BY <1>2 DEF MCNext, restVars, QNext
<1> QED BY <1>1, <1>2

\* The approvals serve three of the parts: nothing is deployed or proposed in the others.
LEMMA GovernedStep ==
  [MCNext]_MCVars =>
    /\ part' = part
    /\ \/ part = "approvals" /\ [ApNext]_apVars /\ UNCHANGED apRest
       \/ part = "operations" /\ [OpNext]_opVars /\ UNCHANGED proposals
       \/ part = "curator" /\ [CuNext]_cuVars /\ UNCHANGED opRuns
       \/ UNCHANGED govVars
<1>1. CASE UNCHANGED MCVars BY <1>1 DEF MCVars
<1>2. CASE MCNext BY <1>2 DEF MCNext, cuRest, opRest, apRest
<1> QED BY <1>1, <1>2

Governed ==
  /\ part \in MCParts /\ RowsOK /\ ApprovedIsCurrent
  /\ part = "operations" => OpInv
  /\ part = "curator" => CuInv
  /\ part \notin {"operations", "curator"} => ApInv

LEMMA GovernedInit == MCInit => Governed
<1> SUFFICES ASSUME MCInit PROVE Governed OBVIOUS
<1>1. OpInv BY PartsInit, OpCountsInit
<1>2. CuInv BY PartsInit, CuCountsInit
<1>3. ApInv BY PartsInit, ApCountsInit, RowsInit DEF OpInit, ApInv
<1> QED BY <1>1, <1>2, <1>3, PartsInit DEF Governed, OpInv, DeployInv

LEMMA GovernedKept ==
  Governed /\ [MCNext]_MCVars => Governed' /\ StartsApproved /\ OnBase
<1> SUFFICES ASSUME Governed, [MCNext]_MCVars PROVE Governed' /\ StartsApproved /\ OnBase
  OBVIOUS
<1>1. part \in MCParts /\ part' = part BY GovernedStep DEF Governed
<1>2. ASSUME UNCHANGED opRuns PROVE StartsApproved BY <1>2, NothingStarts
<1>3. CASE part = "operations" /\ [OpNext]_opVars /\ UNCHANGED proposals
  <2>1. OpInv' /\ StartsApproved BY <1>3, OpCountsStep, DeployStep DEF Governed, OpInv
  <2> QED BY <1>1, <1>3, <2>1, ProposalsStay DEF Governed, OpInv, DeployInv
<1>4. CASE part = "curator" /\ [CuNext]_cuVars /\ UNCHANGED opRuns
  <2>1. CuInv' /\ OnBase BY <1>4, CuCountsStep, CurateStep DEF Governed, CuInv
  <2> QED BY <1>1, <1>2, <1>4, <2>1 DEF Governed, CuInv, CurateInv
<1>5. CASE part = "approvals" /\ [ApNext]_apVars /\ UNCHANGED apRest
  <2>1. ApInv' /\ ApprovedIsCurrent'
    BY <1>5, ApCountsStep, ApStep, MovedIsCurrent DEF Governed, ApInv
  <2>2. StartsApproved /\ OnBase BY <1>2, <1>5, ProposalsStay DEF apRest
  <2> QED BY <1>1, <1>5, <2>1, <2>2 DEF Governed, ApInv
<1>6. CASE UNCHANGED govVars
  <2>1. UNCHANGED <<apVars, opVars, cuVars>> BY <1>6 DEF govVars, apRest, apVars, opVars, cuVars
  <2>2. part = "operations" => OpInv' BY <2>1, OpCountsStep DEF Governed
  <2>3. part = "curator" => CuInv' BY <2>1, CuCountsStep DEF Governed
  <2>4. part \notin {"operations", "curator"} => ApInv' BY <2>1, ApCountsStep DEF Governed
  <2>5. RowsOK' /\ ApprovedIsCurrent' BY <2>1, ApStep, MovedIsCurrent DEF Governed
  <2>6. StartsApproved /\ OnBase BY <1>2, <1>6, ProposalsStay DEF govVars, apRest
  <2> QED BY <1>1, <2>2, <2>3, <2>4, <2>5, <2>6 DEF Governed
<1> QED BY <1>3, <1>4, <1>5, <1>6, GovernedStep

\* What each part keeps and counts, of the parts that share nothing.
Counted == /\ RvInv /\ MaintTypeOK /\ InCounts /\ RtInv /\ RtCounts /\ EpInv /\ IcInv /\ IcCounts /\ ExCounts
           /\ QInv /\ QCounts

LEMMA CountedInit == MCInit => Counted
BY PartsInit, RvBegins, TypeInit, InCountsInit, RtInvInit, RtCountsInit, EpInvInit, IcInvInit, IcCountsInit,
   ExCountsInit, QInvInit, QCountsInit DEF Counted

LEMMA CountedKept == Counted /\ [MCNext]_MCVars => Counted'
<1> SUFFICES ASSUME Counted, [MCNext]_MCVars PROVE Counted' OBVIOUS
<1>1. RvInv' /\ MaintTypeOK' BY PartsStep, RvInvInductive, TypeStep DEF Counted
<1>2. InCounts' BY PartsStep, InCountsStep DEF Counted
<1>3. RtInv' /\ RtCounts' BY PartsStep, RtInvStep, RtCountsStep DEF Counted
<1>4. EpInv' BY PartsStep, EpInvStep DEF Counted
<1>5. IcInv' /\ IcCounts' BY PartsStep, IcInvStep, IcCountsStep DEF Counted
<1>6. ExCounts' BY PartsStep, ExCountsStep DEF Counted
<1>7. QInv' /\ QCounts' BY PartsStep, Conversation, QCountsStep DEF Counted
<1> QED BY <1>1, <1>2, <1>3, <1>4, <1>5, <1>6, <1>7 DEF Counted

LEMMA AllTyped == Governed /\ Counted => TypesOK
<1> SUFFICES ASSUME Governed, Counted PROVE TypesOK OBVIOUS
<1>1. RvTypeOK /\ MaintTypeOK /\ EpTypeOK BY DEF Counted, RvInv, EpInv
<1>2. InTypeOK /\ RtTypeOK /\ IcTypeOK /\ ExTypeOK /\ QTypeOK BY InTyped, RtTyped, IcTyped, ExTyped, QTyped DEF Counted
<1>3. /\ part = "operations" => OpTypeOK
      /\ part = "curator" => CuTypeOK
      /\ part = "approvals" => ApTypeOK
  BY OpTyped, CuTyped, ApTyped DEF Governed
<1>4. part \in MCParts BY DEF Governed
<1> QED BY <1>1, <1>2, <1>3, <1>4 DEF TypesOK, MCParts

\* Every part's state keeps its type beside the others, for any rows, limits and bounds.
THEOREM PlatformTyped == MCSpec => []TypesOK
BY AllTyped, GovernedInit, GovernedKept, CountedInit, CountedKept, PTL DEF MCSpec

\* No platform passes a task as done unreviewed, keeps an approval of what has changed, starts
\* work twice, applies a plan that does not stand, spends a repair that was not earned, or tells
\* a lesson that is not so.
THEOREM PlatformHolds ==
  MCSpec => [](/\ ReviewedBeforeDone /\ ApprovedIsCurrent /\ IntakeHolds /\ PlansHold
               /\ RepairsEarned /\ LessonsHold)
<1>1. Governed => ApprovedIsCurrent BY DEF Governed
<1>2. Counted => ReviewedBeforeDone BY DEF Counted, RvInv
<1>3. Counted => IntakeHolds
  BY DEF Counted, InCounts, IntakeInv, IntakeRows, InTimeOnce, IntakeHolds, StartedOnce
<1>4. Counted => PlansHold BY EpInvHolds DEF Counted
<1>5. Counted => RepairsEarned BY IcEarned DEF Counted
<1>6. Counted => LessonsHold
  BY DEF Counted, IcInv, LessonsKnown, Fixed, ImportsKnown, Imported, LessonsHold, ToldVerified
<1> QED BY <1>1, <1>2, <1>3, <1>4, <1>5, <1>6, GovernedInit, GovernedKept, CountedInit, CountedKept, PTL DEF MCSpec

\* No step of the platform resolves or strands a finding, deploys or activates what is not
\* approved and evaluated for the moment, starts a worker where its task may not run, takes an
\* experiment's conclusion back, or forgets an answer.
THEOREM PlatformSteps ==
  MCSpec => FindingsKept /\ ActsAsApproved /\ ActivationsHold /\ RoutesHold /\ ExperimentsHold /\ ConversationHolds
<1>1. MCSpec => []Counted BY CountedInit, CountedKept, PTL DEF MCSpec
<1>2. MCSpec => RtSpec /\ ExSpec /\ QSpec BY PartsInit, PartsStep, PTL DEF MCSpec, RtSpec, ExSpec, QSpec
<1>3. MCSpec => RoutesHold /\ ExperimentsHold /\ ConversationHolds
  BY <1>2, RoutesAreKept, ExperimentsStand, ConversationsHold, PTL
<1>4. MCSpec => FindingsKept
  <2>1. RvInv /\ [RvNext]_rvVars
          => [\A k \in Items : Live(k) /\ finding'[k] = "resolved" =>
                \/ k = "question" /\ rvAt' = rvAt
                \/ k # "question" /\ run.kind = "review" /\ run.cfg = rvAt.cfg /\ k \notin run.items]_rvVars
    BY Validated
  <2>2. RvInv /\ [RvNext]_rvVars
          => [/\ rv.state = "CHECKING" /\ rv'.state = "BLOCKED" /\ rv'.why # "pending"
              => LiveItems \ {"question"} = {} \/ owed' # {}]_rvVars
    BY NotStranded
  <2>3. Counted => RvInv BY DEF Counted
  <2> QED BY <1>1, <2>1, <2>2, <2>3, PartsStep, PTL DEF MCSpec, FindingsKept, FindingsValidated, FindingsNotStranded
<1>5. MCSpec => ActsAsApproved /\ ActivationsHold
  BY GovernedInit, GovernedKept, PTL
     DEF MCSpec, ActsAsApproved, StartsApproved, ActivationsHold, OnBase
<1> QED BY <1>3, <1>4, <1>5, PTL

\* And the database is never rewritten beside a controller's tick, nor by two migrators, and its
\* stamp never goes back, as long as no process is suspended between two adjacent statements.
THEOREM PlatformExclusive == Suspend = {} => (MCSpec => MaintenanceIsExclusive /\ SchemaForward)
<1> SUFFICES ASSUME Suspend = {} PROVE MCSpec => MaintenanceIsExclusive /\ SchemaForward OBVIOUS
<1>1. MCSpec => MaintSpec BY PartsInit, PartsStep, PTL DEF MCSpec, MaintSpec
<1>2. MaintSpec => MaintenanceIsExclusive /\ SchemaForward BY ExclusiveMaintenance, StampForward
<1> QED BY <1>1, <1>2, PTL
=============================================================================
