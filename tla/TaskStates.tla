----------------------------- MODULE TaskStates -----------------------------
(***************************************************************************)
(* The task lifecycle table of src/domain/states.ts and the mapping from a *)
(* controller stage to the task state it implies (src/domain/execution.ts).*)
(* Constant definitions only: every stateful module of the project extends *)
(* this one, so that all of them are bound to the same transition table.   *)
(***************************************************************************)

TASK_STATES == { "QUEUED", "READY", "RUNNING", "CHECKING", "REVIEWING",
                 "AWAITING_APPROVAL", "BLOCKED", "DONE", "FAILED", "CANCELLED" }

TERMINAL_STATES == {"DONE", "FAILED", "CANCELLED"}

\* A task in one of these states owns a worker slot.
SLOT_HOLDING_STATES == {"RUNNING", "CHECKING", "REVIEWING"}

TRANSITIONS ==
  [ QUEUED            |-> {"READY", "BLOCKED", "CANCELLED"},
    READY             |-> {"RUNNING", "BLOCKED", "QUEUED", "CANCELLED"},
    RUNNING           |-> {"CHECKING", "AWAITING_APPROVAL", "BLOCKED",
                           "FAILED", "CANCELLED", "READY"},
    CHECKING          |-> {"REVIEWING", "RUNNING", "AWAITING_APPROVAL",
                           "BLOCKED", "FAILED", "CANCELLED", "DONE"},
    REVIEWING         |-> {"RUNNING", "AWAITING_APPROVAL", "DONE", "BLOCKED",
                           "FAILED", "CANCELLED"},
    AWAITING_APPROVAL |-> {"RUNNING", "CHECKING", "REVIEWING", "READY",
                           "BLOCKED", "DONE", "FAILED", "CANCELLED"},
    BLOCKED           |-> {"READY", "QUEUED", "RUNNING", "REVIEWING",
                           "FAILED", "CANCELLED"},
    DONE              |-> {},
    FAILED            |-> {"QUEUED", "READY", "CANCELLED"},
    CANCELLED         |-> {"QUEUED"} ]

canTransition(from, to) == to \in TRANSITIONS[from]

\* Every writer compares before it asserts: writing the state a task already
\* has is never refused.
Reachable(from, to) == from = to \/ canTransition(from, to)

\* The durable stages of one execution episode that a worker process runs.
WORKER_STAGES == {"implement", "repair", "review"}

taskStateForStage(stage) ==
  CASE stage \in {"check", "finalize"} -> "CHECKING"
    [] stage \in {"review", "accept"}  -> "REVIEWING"
    [] OTHER                           -> "RUNNING"

\* A stage in one of these states is listed by listActiveStageRuns.
ACTIVE_STAGE_STATES == {"reserved", "launching", "running", "waiting", "unknown"}
STAGE_STATES == ACTIVE_STAGE_STATES \union {"succeeded", "failed", "cancelled"}
=============================================================================
