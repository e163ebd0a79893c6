----------------------------- MODULE Workspaces -----------------------------
(***************************************************************************)
(* The worktree of one task, from its preparation and the integration of   *)
(* its dependencies to the commit of its result, and the retention that    *)
(* reclaims it: src/workspace/git.ts, src/maintenance/retention.ts, and    *)
(* prepareTaskWorkspace of src/controller/controller.ts.                   *)
(*                                                                         *)
(* The controller may die between any two git commands. A branch is the    *)
(* base revision it was cut from and what was committed on it since; the   *)
(* dependencies' commits are the numbers 1..Deps, oldest first, and Work   *)
(* is a commit of the task's own.                                          *)
(***************************************************************************)
EXTENDS Integers, Sequences, SequencesExt, FiniteSets

CONSTANTS Deps,     \* dependency commits to integrate
          MaxHead,  \* bound: commits others add to the base branch
          MaxWork   \* bound: commits of the task's own

ASSUME WorkspaceAssumption == Deps \in Nat /\ MaxHead \in Nat /\ MaxWork \in Nat

VARIABLES
  head, merged,  \* the base branch: its tip, whether it contains the task branch
  branch,        \* the task branch: its root and log
  dir, dirty,    \* the worktree directory, changes that are not committed
  wtask,         \* the task: state, base_revision, worktree_path, result_revision
  integrated,    \* the base revision of its task.dependencies_integrated event
  prep,          \* dispatchInitial: its step, and prepareWorkspace's answer
  prune          \* pruneWorktrees: its step, and the candidate's refusal

gitVars  == <<head, merged, branch, dir, dirty>>
wsVars   == <<gitVars, wtask, integrated, prep, prune>>

NoRev    == [root |-> -1, len |-> 0]
Rev(b)   == [root |-> b.root, len |-> Len(b.log)]
NoBranch == [root |-> -1, log |-> <<>>]
Idle     == [at |-> "idle", fresh |-> FALSE, base |-> NoRev]
Terminal == {"DONE", "FAILED", "CANCELLED"}
Work     == 0

\* merge-base --is-ancestor
HoldsRevision(b, r) ==
  \/ r.len = 0 /\ r.root <= b.root
  \/ r.root = b.root /\ r.len <= Len(b.log)

WsTypeOK ==
  /\ head \in 0..MaxHead /\ {merged, dir, dirty} \subseteq BOOLEAN
  /\ branch.root \in -1..MaxHead /\ ToSet(branch.log) \subseteq 0..Deps
  /\ wtask.state \in Terminal \union {"READY", "RUNNING", "BLOCKED"}
  /\ {wtask.path, wtask.result, prep.fresh, prune.refused} \subseteq BOOLEAN
  /\ prep.at \in {"idle", "integrate", "record"} /\ prune.at \in {"idle", "listed", "clear"}
  /\ \A r \in {wtask.base, integrated, prep.base} :
       r.root \in -1..MaxHead /\ r.len \in 0..(Deps + MaxWork)

WsInit ==
  /\ head = 0 /\ merged = FALSE /\ branch = NoBranch /\ dir = FALSE /\ dirty = FALSE
  /\ wtask = [state |-> "READY", base |-> NoRev, path |-> FALSE, result |-> FALSE]
  /\ integrated = NoRev /\ prep = Idle /\ prune = [at |-> "idle", refused |-> FALSE]
-----------------------------------------------------------------------------
(* Preparation.                                                            *)

\* prepareWorkspace: an existing directory, a retained branch, or a new one.
PrepareWorkspace ==
  /\ prep.at = "idle" /\ wtask.state = "READY"
  /\ LET base == IF wtask.base = NoRev THEN [root |-> head, len |-> 0] ELSE wtask.base
     IN /\ prep' = [at |-> "integrate", fresh |-> branch = NoBranch, base |-> base]
        /\ branch' = IF branch = NoBranch THEN [root |-> base.root, log |-> <<>>] ELSE branch
  /\ dir' = TRUE
  /\ UNCHANGED <<head, merged, dirty, wtask, integrated, prune>>

\* The dependencies were integrated before, and the branch still holds them.
IntegratedBefore == ~prep.fresh /\ integrated # NoRev /\ HoldsRevision(branch, integrated)

\* Mutant: a cherry-picked commit is looked for by its hash, which changed.
PresentByHash(c) == c = Work

\* git cherry: a commit with the same patch is on the branch.
Equivalent(c) == c \in ToSet(branch.log)

ReuseIntegration ==
  /\ prep.at = "integrate" /\ Deps > 0 /\ IntegratedBefore
  /\ prep' = [prep EXCEPT !.at = "record", !.base = integrated]
  /\ UNCHANGED <<gitVars, wtask, integrated, prune>>

\* integrateDependencyRevisions, one cherry-pick: the oldest commit without an
\* equivalent on the branch. It needs a clean directory, or it is aborted.
CherryPick ==
  /\ prep.at = "integrate" /\ ~IntegratedBefore
  /\ \E c \in 1..Deps :
       /\ ~Equivalent(c) /\ \A b \in 1..(c - 1) : Equivalent(b)
       /\ Len(branch.log) < Deps + MaxWork
       /\ IF dir /\ ~dirty
          THEN branch' = [branch EXCEPT !.log = Append(@, c)] /\ UNCHANGED <<prep, wtask>>
          ELSE prep' = Idle /\ wtask' = [wtask EXCEPT !.state = "BLOCKED"] /\ UNCHANGED branch
  /\ UNCHANGED <<head, merged, dir, dirty, integrated, prune>>

DependenciesIntegrated ==
  /\ prep.at = "integrate" /\ Deps > 0 /\ ~IntegratedBefore
  /\ \A c \in 1..Deps : Equivalent(c)
  /\ integrated' = Rev(branch) /\ prep' = [prep EXCEPT !.at = "record", !.base = Rev(branch)]
  /\ UNCHANGED <<gitVars, wtask, prune>>

\* updateTaskFields and the end of the prepare stage. A task without dependencies
\* has nothing to integrate.
RecordWorkspace ==
  /\ prep.at = IF Deps = 0 THEN "integrate" ELSE "record"
  /\ wtask.state = "READY"
  /\ wtask' = [wtask EXCEPT !.state = "RUNNING", !.base = prep.base, !.path = TRUE]
  /\ prep' = Idle
  /\ UNCHANGED <<gitVars, integrated, prune>>

\* The stage of a task that was cancelled meanwhile is refused; a crash at any step.
Abandon == /\ prep.at # "idle" /\ prep' = Idle
           /\ UNCHANGED <<gitVars, wtask, integrated, prune>>
-----------------------------------------------------------------------------
(* Work on it.                                                             *)

WorkerWrites ==
  /\ wtask.state = "RUNNING" /\ dir /\ dirty' = TRUE
  /\ UNCHANGED <<head, merged, branch, dir, wtask, integrated, prep, prune>>

\* finalizeWorkspace and what became of the task; a scope violation, or no
\* directory, blocks it.
FinalizeWorkspace ==
  /\ wtask.state = "RUNNING"
  /\ \/ /\ dir /\ wtask.path
        /\ dirty => Len(branch.log) < Deps + MaxWork
        /\ branch' = IF dirty THEN [branch EXCEPT !.log = Append(@, Work)] ELSE branch
        /\ dirty' = FALSE
        /\ merged' = (merged /\ ~dirty)
        /\ \E s \in {"RUNNING", "DONE", "FAILED", "BLOCKED"} :
             wtask' = [wtask EXCEPT !.state = s, !.result = TRUE]
     \/ /\ wtask' = [wtask EXCEPT !.state = "BLOCKED"]
        /\ UNCHANGED <<branch, dirty, merged>>
  /\ UNCHANGED <<head, dir, integrated, prep, prune>>

\* retryTask; cancelTask leaves the directory as it is.
Retry  == /\ wtask.state \in {"BLOCKED", "FAILED"} /\ wtask' = [wtask EXCEPT !.state = "READY"]
          /\ UNCHANGED <<gitVars, integrated, prep, prune>>
Cancel == /\ wtask.state \notin Terminal /\ wtask' = [wtask EXCEPT !.state = "CANCELLED"]
          /\ UNCHANGED <<gitVars, integrated, prep, prune>>

BaseMoves == /\ head < MaxHead /\ head' = head + 1
             /\ UNCHANGED <<merged, branch, dir, dirty, wtask, integrated, prep, prune>>
Merge     == /\ branch # NoBranch /\ wtask.state \in Terminal /\ merged' = TRUE
             /\ UNCHANGED <<head, branch, dir, dirty, wtask, integrated, prep, prune>>
-----------------------------------------------------------------------------
(* Retention.                                                              *)

\* worktreeCandidates: an old enough worktree of a finished task, with the reason
\* not to remove it. Its age is left out.
ListWorktree ==
  /\ prune.at = "idle" /\ wtask.state \in Terminal /\ wtask.path /\ dir
  /\ prune' = [at |-> "listed", refused |-> dirty \/ (~wtask.result /\ ~merged)]
  /\ UNCHANGED <<gitVars, wtask, integrated, prep>>

\* Mutant: git worktree remove --force.
RemovableByForce == dir

\* git worktree remove refuses a directory with changes, and one that is gone.
Removable == dir /\ ~dirty

RemoveWorktree ==
  /\ prune.at = "listed"
  /\ \/ /\ ~prune.refused /\ Removable
        /\ dir' = FALSE /\ dirty' = FALSE /\ prune' = [prune EXCEPT !.at = "clear"]
     \/ /\ prune.refused \/ ~Removable
        /\ prune' = [prune EXCEPT !.at = "idle"] /\ UNCHANGED <<dir, dirty>>
  /\ UNCHANGED <<head, merged, branch, wtask, integrated, prep>>

ClearPath ==
  /\ prune.at = "clear" /\ prune' = [prune EXCEPT !.at = "idle"]
  /\ wtask' = [wtask EXCEPT !.path = FALSE]
  /\ UNCHANGED <<gitVars, integrated, prep>>

WsNext ==
  \/ PrepareWorkspace \/ ReuseIntegration \/ CherryPick \/ DependenciesIntegrated
  \/ RecordWorkspace \/ Abandon \/ WorkerWrites \/ FinalizeWorkspace \/ Retry \/ Cancel
  \/ BaseMoves \/ Merge \/ ListWorktree \/ RemoveWorktree \/ ClearPath

WsSpec == WsInit /\ [][WsNext]_wsVars
-----------------------------------------------------------------------------
\* A task is worked on over each dependency's commits, each of them once, oldest
\* first and before the work that builds on them, whatever crash, retry or pruned
\* directory came between (integrateDependencyRevisions, prepareTaskWorkspace).
DependenciesOnce ==
  /\ \A i \in DOMAIN branch.log : branch.log[i] = IF i <= Deps THEN i ELSE Work
  /\ wtask.state = "RUNNING" => Len(branch.log) >= Deps

\* Changes that exist only in the worktree leave it only by being committed, even
\* when a task is retried under a pruner that listed it (removeWorktree).
WorkSurvives == [][dirty /\ ~dirty' => Len(branch'.log) > Len(branch.log)]_wsVars

\* "Anything still in flight owns its worktree" (worktreeRetentionDays).
InFlightKeepsWorktree == [][wtask.state = "RUNNING" /\ dir => dir']_wsVars

\* The recorded base revision is one the task branch was cut from.
BaseIsAncestor == wtask.base # NoRev => HoldsRevision(branch, wtask.base)
=============================================================================
