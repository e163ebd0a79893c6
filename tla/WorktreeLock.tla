---------------------------- MODULE WorktreeLock ----------------------------
(***************************************************************************)
(* What the launch protocol promises about the worktree of a task: one     *)
(* attempt at a time works in it, and a launch id is spent by its first    *)
(* use. Ownership passes only through an idle worktree; a crash, a restart *)
(* or an operator never hands it to a second attempt. LaunchProtocol is    *)
(* shown to implement this specification.                                  *)
(***************************************************************************)
CONSTANTS Tasks, Launches, None

VARIABLES writer,   \* the attempt that owns the worktree of each task, or None
          spent     \* launch ids that have been used

vars == <<writer, spent>>

Init == writer = [t \in Tasks |-> None] /\ spent = {}

Acquire(t, l) ==
  /\ writer[t] = None /\ l \notin spent
  /\ writer' = [writer EXCEPT ![t] = l] /\ spent' = spent \union {l}

Release(t) ==
  /\ writer[t] # None
  /\ writer' = [writer EXCEPT ![t] = None] /\ UNCHANGED spent

Next == \E t \in Tasks : Release(t) \/ \E l \in Launches : Acquire(t, l)

Spec == Init /\ [][Next]_vars
=============================================================================
