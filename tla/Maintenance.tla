----------------------------- MODULE Maintenance -----------------------------
(***************************************************************************)
(* The maintenance lock, the explicit schema upgrade and the controllers   *)
(* it excludes: src/maintenance/lock.ts, src/maintenance/migrate.ts,       *)
(* src/store/db.ts, and tick, start and stop of                            *)
(* src/controller/controller.ts.                                           *)
(*                                                                         *)
(* A migrator is one `maintenance migrate` process, a controller one       *)
(* `controller start` process, of this build or of one that was built for  *)
(* the older schema. All share the lock file and the database. A dead      *)
(* process has a pid nothing else runs under.                              *)
(***************************************************************************)
EXTENDS Integers, FiniteSets

CONSTANTS Migrators, Controllers, OldBuilds, Nobody,
          LastSchema,   \* MIGRATIONS, counted from the schema found at first
          Suspend       \* where a process may be suspended: between two adjacent
                        \* statements of "reclaim" or "tick", or beyond its "lease"

ASSUME MaintenanceAssumption ==
  /\ OldBuilds \subseteq Controllers /\ Migrators \intersect Controllers = {}
  /\ Nobody \notin Migrators \union Controllers
  /\ LastSchema \in Nat \ {0} /\ Suspend \subseteq {"reclaim", "tick", "lease"}

VARIABLES
  lock,      \* the lock file: who created it, and whether its record is written
  mig,       \* each migrator: its step and what it has read
  schema,    \* schema_meta.schema_version
  lease,     \* controller_lease.controller_id
  health,    \* controller_health.state
  undrained, \* a task, attempt, stage or admission lease is open
  ctrl       \* each controller: its step

lockVars == <<lock, mig>>
baseVars == <<schema, lease, health, undrained>>
maintVars == <<lockVars, baseVars, ctrl>>

MigSteps == {"off", "open", "reclaim", "write", "lease", "drain", "backup", "rehearse",
             "upgrade", "release", "dead"}
CtrSteps == {"off", "idle", "checked", "tick", "dead"}
NoLock   == [by |-> Nobody, written |-> FALSE]

MaintTypeOK ==
  /\ lock \in [by : Migrators \union {Nobody}, written : BOOLEAN]
  /\ mig \in [Migrators -> [at : MigSteps, tries : 0..1, from : 0..LastSchema, read : 0..LastSchema]]
  /\ schema \in 0..LastSchema /\ lease \in Controllers \union {Nobody}
  /\ health \in {"none", "running", "degraded", "stopped"} /\ undrained \in BOOLEAN
  /\ ctrl \in [Controllers -> CtrSteps]

MaintInit ==
  /\ lock = NoLock /\ schema = 0 /\ lease = Nobody /\ health = "none" /\ undrained = FALSE
  /\ mig = [m \in Migrators |-> [at |-> "off", tries |-> 0, from |-> 0, read |-> 0]]
  /\ ctrl = [c \in Controllers |-> "off"]

Built(c) == IF c \in OldBuilds THEN 0 ELSE LastSchema
Step(m, s) == mig' = [mig EXCEPT ![m].at = s]

\* Adjacent statements of one process, unless it may be suspended between them.
Turn(p) == /\ \A m \in Migrators \ {p} : mig[m].at = "reclaim" => "reclaim" \in Suspend
           /\ \A c \in Controllers \ {p} : ctrl[c] = "checked" => "tick" \in Suspend
-----------------------------------------------------------------------------
(* The lock file.                                                          *)

\* Mutant: a holder is stale whatever its process.
AnyHolderStale == lock # NoLock

\* maintenanceLockHolder is null for a file whose recorded process is gone; an
\* unreadable record cannot be proven stale.
StaleLock == lock # NoLock /\ lock.written /\ mig[lock.by].at = "dead"

maintenanceLockHolder == IF lock = NoLock \/ StaleLock THEN NoLock ELSE lock

\* openSync(path, "wx"), or a look at the holder of the file in the way.
AcquireLock(m) ==
  /\ mig[m].at = "open"
  /\ \/ lock = NoLock /\ lock' = [by |-> m, written |-> FALSE] /\ Step(m, "write")
     \/ lock # NoLock /\ ~StaleLock /\ Step(m, "off") /\ UNCHANGED lock
     \/ StaleLock /\ Step(m, "reclaim") /\ UNCHANGED lock
  /\ UNCHANGED <<baseVars, ctrl>>

\* rmSync removes the file that is there by now; two tries are all there are.
ReclaimLock(m) ==
  /\ mig[m].at = "reclaim"
  /\ lock' = NoLock
  /\ mig' = [mig EXCEPT ![m].at = IF mig[m].tries = 0 THEN "open" ELSE "off", ![m].tries = 1]
  /\ UNCHANGED <<baseVars, ctrl>>

\* The record goes to the file this process created, removed or not.
WriteLock(m) ==
  /\ mig[m].at = "write" /\ Step(m, "lease")
  /\ lock' = IF lock.by = m THEN [lock EXCEPT !.written = TRUE] ELSE lock
  /\ UNCHANGED <<baseVars, ctrl>>

ReleaseLock(m) ==
  /\ mig[m].at = "release" /\ Step(m, "off")
  /\ lock' = IF lock.by = m /\ lock.written THEN NoLock ELSE lock
  /\ UNCHANGED <<baseVars, ctrl>>
-----------------------------------------------------------------------------
(* migrateDatabase.                                                        *)

MigrateBegin(m) ==
  /\ mig[m].at = "off" /\ schema # LastSchema
  /\ mig' = [mig EXCEPT ![m] = [at |-> "open", tries |-> 0, from |-> schema, read |-> 0]]
  /\ UNCHANGED <<lock, baseVars, ctrl>>

\* Mutant: the liveness of the lease's process is not asked for.
NoLeaseAsked == TRUE

\* controllerLiveness: no lease, or one whose process is gone.
NoLiveController == lease \notin {c \in Controllers : ctrl[c] \notin {"off", "dead"}}

CheckLease(m) ==
  /\ mig[m].at = "lease"
  /\ Step(m, IF NoLiveController THEN "drain" ELSE "release")
  /\ UNCHANGED <<lock, baseVars, ctrl>>

CheckDrained(m) ==
  /\ mig[m].at = "drain"
  /\ Step(m, IF undrained THEN "release" ELSE "backup")
  /\ UNCHANGED <<lock, baseVars, ctrl>>

\* The copy, its check against the schema read before the lock, and its
\* rehearsal; a copy can fail to verify, and an unknown layout stops here.
Backup(m) ==
  /\ mig[m].at = "backup"
  /\ \E intact \in BOOLEAN :
       Step(m, IF intact /\ schema = mig[m].from THEN "rehearse" ELSE "release")
  /\ UNCHANGED <<lock, baseVars, ctrl>>

\* new Store(auto) reads the version once, before its migrations.
Rehearse(m) ==
  /\ mig[m].at = "rehearse"
  /\ \/ mig' = [mig EXCEPT ![m].at = "upgrade", ![m].read = schema]
     \/ Step(m, "release")
  /\ UNCHANGED <<lock, baseVars, ctrl>>

\* One migration and its stamp, in one transaction, which may also fail.
Upgrade(m) ==
  /\ mig[m].at = "upgrade"
  /\ \/ /\ mig[m].read < LastSchema
        /\ schema' = mig[m].read + 1
        /\ mig' = [mig EXCEPT ![m].read = @ + 1]
     \/ Step(m, "release") /\ UNCHANGED schema
  /\ UNCHANGED <<lock, lease, health, undrained, ctrl>>

KillMigrator(m) == /\ mig[m].at \notin {"off", "dead"} /\ Step(m, "dead")
                   /\ UNCHANGED <<lock, baseVars, ctrl>>
-----------------------------------------------------------------------------
(* Controllers.                                                            *)

CtrStep(c, s) == ctrl' = [ctrl EXCEPT ![c] = s]

\* openRecords refuses a database of an older schema and of a newer one.
OpenRecords(c) == /\ ctrl[c] = "off" /\ schema = Built(c) /\ CtrStep(c, "idle")
                  /\ UNCHANGED <<lockVars, baseVars>>

\* tick: assertNoMaintenance; under maintenance the tick fails and writes nothing.
AssertNoMaintenance(c) ==
  /\ ctrl[c] = "idle" /\ maintenanceLockHolder = NoLock /\ CtrStep(c, "checked")
  /\ UNCHANGED <<lockVars, baseVars>>

\* tick: acquireControllerLease. The lease is new, renewed, or taken over from a
\* holder whose heartbeat is too old; a controller that finds it held stands down
\* and its process ends.
TakeLease(c) ==
  /\ ctrl[c] = "checked"
  /\ \/ /\ lease = c \/ NoLiveController \/ "lease" \in Suspend
        /\ lease' = c /\ CtrStep(c, "tick")
     \/ lease # c /\ CtrStep(c, "off") /\ UNCHANGED lease
  /\ UNCHANGED <<lockVars, schema, health, undrained>>

\* The passes of a tick start work and settle it; it ends with a health row,
\* degraded when a pass threw.
TickWork(c) == /\ ctrl[c] = "tick" /\ undrained' \in BOOLEAN
               /\ UNCHANGED <<lockVars, schema, lease, health, ctrl>>
EndTick(c)  == /\ ctrl[c] = "tick" /\ CtrStep(c, "idle") /\ health' \in {"running", "degraded"}
               /\ UNCHANGED <<lockVars, schema, lease, undrained>>

\* stop waits for the tick, writes the health row and releases the lease.
Stop(c) ==
  /\ ctrl[c] = "idle" /\ CtrStep(c, "off")
  /\ health' = "stopped" /\ lease' = IF lease = c THEN Nobody ELSE lease
  /\ UNCHANGED <<lockVars, schema, undrained>>

KillController(c) == /\ ctrl[c] \notin {"off", "dead"} /\ CtrStep(c, "dead")
                     /\ UNCHANGED <<lockVars, baseVars>>

MigratorNext(m) ==
  \/ MigrateBegin(m) \/ AcquireLock(m) \/ ReclaimLock(m) \/ WriteLock(m) \/ CheckLease(m)
  \/ CheckDrained(m) \/ Backup(m) \/ Rehearse(m) \/ Upgrade(m) \/ ReleaseLock(m)
  \/ KillMigrator(m)
ControllerNext(c) ==
  \/ OpenRecords(c) \/ AssertNoMaintenance(c) \/ TakeLease(c) \/ TickWork(c) \/ EndTick(c)
  \/ Stop(c) \/ KillController(c)

MaintNext == \/ \E m \in Migrators   : Turn(m) /\ MigratorNext(m)
             \/ \E c \in Controllers : Turn(c) /\ ControllerNext(c)

MaintSpec == MaintInit /\ [][MaintNext]_maintVars
-----------------------------------------------------------------------------
HoldsLock(m)   == mig[m].at \in {"write", "lease", "drain", "backup", "rehearse", "upgrade", "release"}
Rewriting(m) == mig[m].at \in {"backup", "rehearse", "upgrade"}

\* The lock is taken exclusively, reclaimed only from a holder that is gone
\* (acquireMaintenanceLock): one migrator is between taking and releasing it.
OneMaintainer == \A m, n \in Migrators : HoldsLock(m) /\ HoldsLock(n) => m = n

\* From its drain check to its end, a migration has the database to itself: no
\* controller ticks, and no other migration runs (ExclusiveUse).
Shared == INSTANCE ExclusiveUse WITH
  Users <- Controllers, Owners <- Migrators,
  using  <- {c \in Controllers : ctrl[c] = "tick"},
  owning <- {m \in Migrators : Rewriting(m)}
MaintenanceIsExclusive == Shared!Spec

\* The stamp follows the migrations one by one and is never put back, whatever
\* fails or dies in between and however many migrations are started.
SchemaForward == [][schema' \in {schema, schema + 1}]_maintVars

\* "Maintenance owns the database: write nothing, not even health" (tick's catch).
MaintenanceOwnsDatabase ==
  [][(\E m \in Migrators : Rewriting(m) /\ lock.by = m) => health' = health /\ lease' = lease]_maintVars

\* No controller ticks on a schema its build was not made for.
BuildFitsSchema == \A c \in Controllers : ctrl[c] = "tick" => Built(c) = schema
=============================================================================
