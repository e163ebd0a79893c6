--------------------------- MODULE WorktreeProofs ---------------------------
(***************************************************************************)
(* One attempt at a time works in the worktree of a task: theorems about   *)
(* LaunchProtocol, for any tasks, launches, limits, hosts and crashes,     *)
(* over the invariants of LaunchProtocolProofs.                            *)
(***************************************************************************)
EXTENDS LaunchProtocolProofs, FiniteSetTheorems
-----------------------------------------------------------------------------
(* What is under way in a worktree.                                        *)

\* A worker stage left unsettled without a running attempt: what a launch or a collection
\* that was cut short leaves for recovery. Where the host lacks /proc a cancellation may be
\* interrupted on a blocked task, so that only stages without any attempt are counted there.
Loose(l) == /\ Unsettled(W(l))
            /\ attempt[l] = "none" \/ (procTable /\ attempt[l] # "running")

\* A launch is under way while something of it is still to be settled.
Under(l) == attempt[l] = "running" \/ Unsettled(F(l)) \/ Loose(l)

\* Nothing of task t is under way but launch l, not even a check; or nothing at all.
Others(t, l) == \A m \in Launches : owner[m] = t /\ Under(m) => m = l
Only(t, l)   == ~Unsettled(C(t)) /\ Others(t, l)
Free(t)      == ~Unsettled(C(t)) /\ \A m \in Launches : owner[m] = t => ~Under(m)
NoFinal(t)   == \A m \in Launches : owner[m] = t => ~Unsettled(F(m))

\* One launch of a task at a time is under way, and no check beside it; recovery may start
\* the check of a commit before it settles the worker stage of the finished attempt.
Exclusive ==
  \A l \in Launches :
    /\ Under(l) => Others(owner[l], l)
    /\ attempt[l] = "running" \/ Unsettled(F(l)) \/ (Unsettled(W(l)) /\ attempt[l] = "none")
         => ~Unsettled(C(owner[l]))

\* The controller is inside a handler; its steps by what they know of the launch in cur.
Handling == pc \notin {"down", "idle", "pass"}
Starting == {"grant", "activate", "context", "start"}
Started  == {"spec", "spawn", "setpid", "bind", "unlaunch"}
Settling == {"failStage", "yieldStage", "staleStage", "reviewStage", "schedule", "unlaunchStage"}
Deciding == {"decide", "verdict", "rereview", "handle", "admit", "reserve"}
Finals   == {"collect", "revise", "keepStage", "keepFinal", "brokenFinal"}
Collecting == Finals \union {"verify", "adopt", "failStage", "yieldStage", "staleStage",
                             "reviewStage", "brokenStage"}

\* A finalize stage belongs to a completed implementation; its attempt is collected again
\* before recovery looks at the stage.
Finalizing ==
  \A l \in Launches :
    /\ stage[F(l)] \notin {"waiting", "unknown"}
    /\ Unsettled(F(l)) =>
         /\ attempt[l] # "none" /\ kind[l] # "review" /\ result[l] = "succeeded"
         /\ attempt[l] = "running" =>
              \/ pc \in {"idle", "down"}
              \/ pass = "attempts" /\ (l \in todo \/ (cur = l /\ pc \in {"collect", "revise"}))

\* A handler has its task to itself.
Handled ==
  /\ Handling => Only(tgt, cur) /\ (pc \notin Finals => NoFinal(tgt))
  /\ pc \in Deciding \/ (pc = "block" /\ pass # "attempts") => Free(tgt)
  /\ pc \in Collecting => pass = "attempts"
  /\ pc = "schedule" => cur \in Launches /\ pass \in {"attempts", "orphans"}
  /\ pc \in {"verify", "collect", "revise"} => want = kind[cur] /\ attempt[cur] # "none"
  /\ pc \in Settling \union {"keepStage", "keepFinal", "brokenFinal", "brokenStage"}
       => attempt[cur] \notin {"none", "running"}
  /\ pc \in Starting => attempt[cur] = "none"
  /\ pc \in Starting \union Started => task[tgt] \in {"RUNNING", "REVIEWING", "CANCELLED"}
  /\ pc = "unlaunch" => attempt[cur] \in {"running", "cancelled"}
  /\ pc = "block" /\ procTable => Running(tgt) = {}
  /\ Handling /\ pass = "orphans" => pc = "schedule"

\* What the state of a task says about its worktree: what waits to be dispatched or resumed
\* has no worker, a commit or a check is in progress only in the states that say so, and
\* nothing is under way in a DONE task.
States ==
  \A t \in Tasks :
    /\ task[t] = "READY" \/ (task[t] = "BLOCKED" /\ parked[t] # "none") => Running(t) = {}
    /\ task[t] \notin {"CHECKING", "CANCELLED"} => ~Unsettled(C(t))
    /\ task[t] \notin {"RUNNING", "CHECKING", "CANCELLED"} => NoFinal(t)
    /\ task[t] = "DONE" => Free(t)
    /\ procTable /\ task[t] \notin SLOT_HOLDING_STATES \union {"CANCELLED"} => Running(t) = {}

\* Cancelled while it ran, after recovery had passed its stage over.
Dropped(l) == attempt[l] = "cancelled" /\ task[owner[l]] \in SLOT_HOLDING_STATES \union {"CANCELLED"}

\* The attempts still to be reconciled are those of tasks without anything else under way.
Attending ==
  pass = "attempts" => \A x \in todo :
    /\ attempt[x] # "none" /\ Only(owner[x], x)
    /\ \A y \in todo : owner[x] = owner[y] => x = y
    /\ Handling => owner[x] # tgt

\* Recovery settles every loose stage, ...
Recovering ==
  pass = "orphans" => \A l \in Launches : Loose(l) =>
    \/ W(l) \in todo
    \/ Dropped(l) /\ Only(owner[l], l) /\ ~Unsettled(F(l)) /\ (Handling => cur # l)

\* ... and a later pass leaves one only for the next tick, in a task it does not come back to.
Recovered ==
  pc \notin {"idle", "down"} /\ pass \notin {"attempts", "orphans"} =>
    \A l \in Launches : Loose(l) =>
      /\ Only(owner[l], l)
      /\ \/ cur = l /\ pc \in Starting \union Started \union {"unlaunchStage"}
         \/ pass = "late"
         \/ pass = "ready" /\ owner[l] \notin todo
         \/ Dropped(l)

\* The later passes list tasks. A listed stage is unsettled until the pass comes to it, or
\* cancelled; a task listed for its review has no worker until then.
Awaiting ==
  /\ pass = "orphans" => \A l \in Launches : W(l) \in todo => Unsettled(W(l)) \/ stage[W(l)] = "cancelled"
  /\ pass \in {"checks", "pending", "reviews", "ready", "late"} => todo \subseteq Tasks
  /\ pass \in {"checks", "late"} => \A t \in todo : Unsettled(C(t)) \/ stage[C(t)] = "cancelled"
  /\ pass = "reviews" => \A t \in todo : Running(t) = {} /\ task[t] \in {"BLOCKED", "READY", "CANCELLED"}

Apart == pass \in {"checks", "pending", "reviews", "ready", "late"} /\ Handling => tgt \notin todo

Stopping == opc \in {"kill", "finish"} => attempt[oatt] # "none"

Listed == Attending /\ Recovering /\ Recovered /\ Awaiting /\ Apart
Sole   == Exclusive /\ Finalizing /\ Handled /\ States /\ Listed /\ Stopping
-----------------------------------------------------------------------------
(* Steps after which nothing more is under way than before.                *)

Calm ==
  /\ UNCHANGED <<owner, kind, procTable>>
  /\ \A l \in Launches :
       /\ attempt'[l] = "none" <=> attempt[l] = "none"
       /\ attempt'[l] = "running" => attempt[l] = "running"
       /\ Unsettled(W(l))' => Unsettled(W(l))
       /\ Unsettled(F(l))' => Unsettled(F(l))
       /\ stage'[F(l)] \notin {"waiting", "unknown"}
       /\ result[l] # "none" => result'[l] = result[l]
  /\ \A t \in Tasks : Unsettled(C(t))' => Unsettled(C(t))

LEMMA CalmShrinks ==
  ASSUME Sound, Calm
  PROVE  /\ \A l \in Launches : Under(l)' => Under(l)
         /\ \A l \in Launches : Loose(l)' => Loose(l) \/ attempt[l] = "running"
         /\ \A t \in Tasks : /\ Free(t) => Free(t)'
                             /\ NoFinal(t) => NoFinal(t)'
                             /\ Running(t) = {} => Running(t)' = {}
         /\ \A t \in Tasks : \A l : Only(t, l) => Only(t, l)'
<1>1. /\ \A l \in Launches : Under(l)' => Under(l)
      /\ \A l \in Launches : Loose(l)' => Loose(l) \/ attempt[l] = "running"
  BY DEF Calm, Under, Loose
<1>2. \A t \in Tasks : /\ Free(t) => Free(t)'
                       /\ NoFinal(t) => NoFinal(t)'
                       /\ Running(t) = {} => Running(t)' = {}
  BY <1>1 DEF Calm, Free, NoFinal, Running
<1>3. \A t \in Tasks : \A l : Only(t, l) => Only(t, l)'
  BY <1>1 DEF Calm, Only, Others
<1> QED BY <1>1, <1>2, <1>3

\* A launch under way has a task.
LEMMA UnderOwned ==
  ASSUME Sound, NEW l \in Launches, Under(l)
  PROVE  owner[l] \in Tasks
BY DEF Sound, Data, RowsTyped, Blank, Under, Loose, Unsettled

LEMMA CalmExclusive ==
  ASSUME Sound, Calm, Exclusive
  PROVE  Exclusive'
<1> SUFFICES ASSUME NEW l \in Launches, Under(l)'
             PROVE  /\ Others(owner[l], l)'
                    /\ attempt'[l] = "running" \/ Unsettled(F(l))' \/ (Unsettled(W(l))' /\ attempt'[l] = "none")
                         => ~Unsettled(C(owner[l]))'
  BY DEF Exclusive, Under, Loose
<1>1. Under(l) /\ owner[l] \in Tasks /\ owner'[l] = owner[l]
  BY CalmShrinks, UnderOwned DEF Calm
<1>2. Others(owner[l], l)'
  BY <1>1, CalmShrinks DEF Exclusive, Others, Calm
<1> QED BY <1>1, <1>2 DEF Exclusive, Calm

\* The rows stay as they are, a stage is settled, or an attempt is.
LEMMA SameCalm ==
  ASSUME Finalizing, UNCHANGED <<owner, kind, stage, attempt, procTable>>,
         \A l \in Launches : result[l] # "none" => result'[l] = result[l]
  PROVE  Calm
BY DEF Calm, Finalizing, Unsettled

LEMMA SettleCalm ==
  ASSUME Sound, Finalizing, NEW s \in StageIds,
         NEW st \in {"succeeded", "failed", "cancelled", "waiting", "unknown"},
         \A l \in Launches : s = F(l) => st \notin {"waiting", "unknown"},
         stage' = [stage EXCEPT ![s] = st],
         UNCHANGED <<owner, kind, attempt, result, procTable>>
  PROVE  Calm /\ ~Unsettled(s)'
<1>1. \A r \in StageIds : stage'[r] = IF r = s THEN st ELSE stage[r]
  BY DEF Sound, Data, RowsTyped
<1> QED BY <1>1, StageIdsOf DEF Calm, Finalizing, Unsettled

LEMMA AttemptCalm ==
  ASSUME Sound, Finalizing, NEW l \in Launches, attempt[l] # "none",
         NEW outcome \in {"succeeded", "failed", "cancelled"}, finishAttempt(l, outcome),
         UNCHANGED <<owner, kind, stage, result, procTable>>
  PROVE  Calm /\ attempt'[l] = outcome /\ \A m \in Launches \ {l} : attempt'[m] = attempt[m]
<1>1. \A m \in Launches : attempt'[m] = IF m = l THEN outcome ELSE attempt[m]
  BY DEF Sound, Data, RowsTyped, finishAttempt
<1> QED BY <1>1 DEF Calm, Finalizing, Unsettled
-----------------------------------------------------------------------------
(* How a step may change the states of the tasks, and the control.         *)

\* The ways in which a task changes its state, by what is then under way.
Moves(t) ==
  \/ task'[t] = task[t] /\ parked'[t] \in {parked[t], "none"}
  \/ task'[t] = "CANCELLED"
  \/ Free(t)'
  \/ task'[t] = "READY" /\ task[t] \in {"BLOCKED", "FAILED"} /\ Running(t) = {}
  \/ task'[t] \in {"RUNNING", "CHECKING"} /\ ~Unsettled(C(t))'
  \/ /\ task'[t] = "BLOCKED" /\ parked'[t] = "none" /\ ~Unsettled(C(t))' /\ NoFinal(t)'
     /\ procTable => Running(t)' = {}

LEMMA FreeIs ==
  ASSUME NEW t
  PROVE  Free(t) => ~Unsettled(C(t)) /\ NoFinal(t) /\ Running(t) = {}
BY DEF Free, NoFinal, Running, Under

LEMMA StatesMove ==
  ASSUME Sound, Calm, States, \A t \in Tasks : Moves(t)
  PROVE  States'
<1> SUFFICES ASSUME NEW t \in Tasks
             PROVE  /\ task'[t] = "READY" \/ (task'[t] = "BLOCKED" /\ parked'[t] # "none") => Running(t)' = {}
                    /\ task'[t] \notin {"CHECKING", "CANCELLED"} => ~Unsettled(C(t))'
                    /\ task'[t] \notin {"RUNNING", "CHECKING", "CANCELLED"} => NoFinal(t)'
                    /\ task'[t] = "DONE" => Free(t)'
                    /\ procTable' /\ task'[t] \notin SLOT_HOLDING_STATES \union {"CANCELLED"} => Running(t)' = {}
  BY DEF States
<1>1. Free(t)' => ~Unsettled(C(t))' /\ NoFinal(t)' /\ Running(t)' = {}
  BY DEF Free, NoFinal, Running, Under
<1>2. /\ Unsettled(C(t))' => Unsettled(C(t))
      /\ Free(t) => Free(t)'
      /\ NoFinal(t) => NoFinal(t)'
      /\ Running(t) = {} => Running(t)' = {}
      /\ procTable' = procTable
  BY CalmShrinks DEF Calm
<1>3. Moves(t)
  OBVIOUS
<1> QED BY <1>1, <1>2, <1>3 DEF Moves, States, SLOT_HOLDING_STATES

LEMMA StoppingKeeps ==
  ASSUME Sound, Calm, Stopping, UNCHANGED <<opc, oatt>>
  PROVE  Stopping'
BY DEF Sound, Data, Targets, Stopping, Calm

\* The tick ends, or the controller dies.
LEMMA Rests ==
  ASSUME Sound, Sole, Calm, NEW p \in {"idle", "down"}, Rest(p),
         \A t \in Tasks : Moves(t), UNCHANGED <<opc, oatt>> \/ opc' = "idle"
  PROVE  Sole'
<1>1. Exclusive' /\ States'
  BY CalmExclusive, StatesMove DEF Sole
<1>2. Stopping'
  BY StoppingKeeps DEF Sole, Stopping
<1>3. Finalizing'
  BY DEF Rest, Calm, Sole, Finalizing
<1>4. Handled'
  BY DEF Rest, Handled, Handling, Deciding, Finals, Settling, Starting, Started
<1>5. Listed'
  BY DEF Rest, Listed, Attending, Recovering, Recovered, Awaiting, Apart
<1> QED BY <1>1, <1>2, <1>3, <1>4, <1>5 DEF Sole

\* A step of a handler leaves the other tasks alone.
Mine ==
  /\ Handling /\ Calm /\ UNCHANGED <<opc, oatt, pass, todo>>
  /\ \A t \in Tasks \ {tgt} :
       task'[t] = task[t] /\ parked'[t] = parked[t] /\ stage'[C(t)] = stage[C(t)]
  /\ \A m \in Launches : owner[m] # tgt => attempt'[m] = attempt[m]
  /\ pass = "orphans" => \A m \in Launches : stage'[W(m)] = stage[W(m)]
  /\ pc' \notin {"idle", "down"} /\ (pc' = "pass" \/ (tgt' = tgt /\ cur' = cur))

\* It leaves no finalize stage to a running attempt, and a loose stage only where a later
\* step, or the next tick, settles it.
Tidy ==
  /\ \A l \in Launches : owner[l] = tgt /\ Unsettled(F(l))' /\ attempt'[l] = "running" =>
       pass = "attempts" /\ cur' = l /\ pc' \in {"collect", "revise"}
  /\ \A l \in Launches : owner[l] = tgt /\ Loose(l)' =>
       \/ pass \in {"attempts", "ready", "late"}
       \/ pass = "orphans" /\ Loose(l)
       \/ cur' = l /\ pc' \in Starting \union Started \union {"unlaunchStage"}
       \/ Dropped(l)'

LEMMA MineFinalizing ==
  ASSUME Sound, Sole, Mine, Tidy
  PROVE  Finalizing'
<1> SUFFICES ASSUME NEW l \in Launches, Unsettled(F(l))', attempt'[l] = "running", owner[l] # tgt
             PROVE  pass' = "attempts" /\ l \in todo'
  BY DEF Finalizing, Sole, Mine, Calm, Tidy
<1>1. Unsettled(F(l)) /\ attempt[l] = "running"
  BY DEF Mine, Calm
<1>2. pc \in {"collect", "revise"} => owner[cur] = tgt
  BY Subject DEF LaunchSteps
<1> QED BY <1>1, <1>2 DEF Sole, Finalizing, Mine, Handling

LEMMA MineListed ==
  ASSUME Sound, Sole, Mine, Tidy
  PROVE  Listed'
<1>0. /\ Only(tgt, cur) /\ tgt \in Tasks /\ Listed /\ Calm
      /\ UNCHANGED <<pass, todo>> /\ pc \notin {"idle", "down", "pass"}
      /\ pc' = "pass" \/ (tgt' = tgt /\ cur' = cur)
      /\ pc' \notin {"idle", "down"}
  BY Subject DEF Sole, Handled, Handling, Mine
<1>1. ASSUME NEW l \in Launches, Loose(l)'
      PROVE  /\ Under(l) /\ owner'[l] = owner[l] /\ owner[l] \in Tasks
             /\ Only(owner[l], l) => Only(owner[l], l)'
             /\ owner[l] = tgt => l = cur /\ Only(owner[l], l)'
             /\ owner[l] # tgt => Loose(l) /\ (Dropped(l) => Dropped(l)')
  <2>1. Under(l) /\ owner'[l] = owner[l] /\ owner[l] \in Tasks
    BY <1>0, <1>1, CalmShrinks, UnderOwned DEF Under, Calm
  <2>2. Only(owner[l], l) => Only(owner[l], l)'
    BY <1>0, <2>1, CalmShrinks DEF Only, Others
  <2>3. owner[l] = tgt => l = cur /\ Only(owner[l], l)
    BY <1>0, <2>1 DEF Only, Others
  <2>4. owner[l] # tgt => Loose(l) /\ (Dropped(l) => Dropped(l)')
    BY <1>1, <2>1 DEF Mine, Calm, Loose, Dropped
  <2> QED BY <2>1, <2>2, <2>3, <2>4
<1>3. Attending'
  <2>1. ASSUME pass = "attempts", NEW x \in todo
        PROVE  /\ attempt'[x] # "none" /\ Only(owner[x], x)'
               /\ \A y \in todo : owner'[x] = owner'[y] => x = y
               /\ owner'[x] # tgt
    <3>1. \A y \in todo : y \in Launches /\ owner[y] \in Tasks /\ owner'[y] = owner[y]
      BY <1>0, <2>1 DEF Sound, Control, Lists, Calm
    <3>2. /\ attempt[x] # "none" /\ Only(owner[x], x)
          /\ \A y \in todo : owner[x] = owner[y] => x = y
          /\ owner[x] # tgt
      BY <1>0, <2>1 DEF Listed, Attending, Handling
    <3>3. Only(owner[x], x)'
      BY <1>0, <3>1, <3>2, CalmShrinks DEF Only, Others
    <3> QED BY <1>0, <2>1, <3>1, <3>2, <3>3 DEF Mine, Calm
  <2> QED BY <1>0, <2>1 DEF Attending, Handling
<1>4. Recovering'
  <2>1. ASSUME pass = "orphans", NEW l \in Launches, Loose(l)'
        PROVE  \/ W(l) \in todo
               \/ Dropped(l)' /\ Only(owner[l], l)' /\ ~Unsettled(F(l))' /\ (Handling' => cur' # l)
    <3>1. Loose(l) => \/ W(l) \in todo
                      \/ Dropped(l) /\ Only(owner[l], l) /\ ~Unsettled(F(l)) /\ cur # l
      BY <1>0, <2>1 DEF Listed, Recovering, Handling
    <3>2. pc = "schedule" /\ attempt[cur] \notin {"none", "running"}
      BY <1>0, <2>1 DEF Sole, Handled, Settling, Handling
    <3>3. CASE owner[l] = tgt
      <4>1. Loose(l)
        BY <1>0, <1>1, <2>1, <3>2, <3>3, CalmShrinks DEF Calm, Loose
      <4> QED BY <1>1, <2>1, <3>1, <3>3, <4>1
    <3>4. CASE owner[l] # tgt
      <4>1. ~Unsettled(F(l)) => ~Unsettled(F(l))'
        BY <1>0 DEF Calm
      <4>2. Handling' => cur' = cur
        BY <1>0 DEF Handling
      <4> QED BY <1>1, <2>1, <3>1, <3>4, <4>1, <4>2
    <3> QED BY <3>3, <3>4
  <2> QED BY <1>0, <2>1 DEF Recovering
<1>5. Recovered'
  <2>1. ASSUME pass \notin {"attempts", "orphans"}, NEW l \in Launches, Loose(l)'
        PROVE  /\ Only(owner[l], l)'
               /\ \/ cur' = l /\ pc' \in Starting \union Started \union {"unlaunchStage"}
                  \/ pass = "late"
                  \/ pass = "ready" /\ owner[l] \notin todo
                  \/ Dropped(l)'
    <3>1. CASE owner[l] = tgt
      <4>1. pass = "ready" => tgt \notin todo
        BY <1>0 DEF Listed, Apart, Handling
      <4> QED BY <1>1, <2>1, <3>1, <4>1 DEF Tidy
    <3>2. CASE owner[l] # tgt
      <4>1. ~(cur = l /\ pc \in Starting \union Started \union {"unlaunchStage"})
        BY <3>2, Subject DEF LaunchSteps, Starting, Started
      <4>2. /\ Only(owner[l], l)
            /\ pass = "late" \/ (pass = "ready" /\ owner[l] \notin todo) \/ Dropped(l)
        BY <1>0, <1>1, <2>1, <3>2, <4>1 DEF Listed, Recovered
      <4> QED BY <1>1, <2>1, <3>2, <4>2
    <3> QED BY <3>1, <3>2
  <2>2. \A l \in Launches : Loose(l)' => owner'[l] = owner[l]
    BY <1>1
  <2> QED BY <1>0, <2>1, <2>2 DEF Recovered
<1>6. Awaiting'
  <2>1. pass \in {"checks", "pending", "reviews", "ready", "late"} => todo \subseteq Tasks /\ tgt \notin todo
    BY <1>0 DEF Listed, Awaiting, Apart, Handling
  <2>2. ASSUME pass \in {"checks", "late"}, NEW t \in todo
        PROVE  Unsettled(C(t))' \/ stage'[C(t)] = "cancelled"
    BY <1>0, <2>1, <2>2 DEF Listed, Awaiting, Unsettled, Mine
  <2>3. ASSUME pass = "reviews", NEW t \in todo
        PROVE  Running(t)' = {} /\ task'[t] \in {"BLOCKED", "READY", "CANCELLED"}
    BY <1>0, <2>1, <2>3, CalmShrinks DEF Listed, Awaiting, Mine
  <2>4. pass = "orphans" => \A l \in Launches : W(l) \in todo => Unsettled(W(l))' \/ stage'[W(l)] = "cancelled"
    BY <1>0 DEF Listed, Awaiting, Unsettled, Mine
  <2> QED BY <1>0, <2>1, <2>2, <2>3, <2>4 DEF Awaiting
<1>7. Apart'
  BY <1>0 DEF Listed, Apart, Handling
<1> QED BY <1>3, <1>4, <1>5, <1>6, <1>7 DEF Listed
-----------------------------------------------------------------------------
(* The steps of a handler.                                                 *)

LEMMA PassHandled ==
  ASSUME pc' = "pass"
  PROVE  Handled'
BY DEF Handled, Handling, Deciding, Finals, Collecting, Settling, Starting, Started

LEMMA MineKeeps ==
  ASSUME Sound, Sole, Mine, Tidy, \A t \in Tasks : t = tgt => Moves(t), pc' = "pass" \/ Handled'
  PROVE  Sole'
<1>1. ASSUME NEW t \in Tasks
      PROVE  Moves(t)
  <2>1. CASE t # tgt
    BY <2>1 DEF Mine, Moves
  <2> QED BY <2>1
<1>2. Exclusive' /\ States' /\ Stopping'
  BY <1>1, CalmExclusive, StatesMove, StoppingKeeps DEF Mine, Sole
<1>3. Finalizing' /\ Listed' /\ Handled'
  BY MineFinalizing, MineListed, PassHandled
<1> QED BY <1>2, <1>3 DEF Sole

\* A handler whose attempt is settled or not begun has no running attempt.
LEMMA Idle ==
  ASSUME Sound, Handled, pc \in Deciding \union Starting \union Settling
                                \union {"keepStage", "keepFinal", "brokenFinal", "brokenStage"}
  PROVE  Running(tgt) = {}
<1>1. CASE pc \in Deciding
  BY <1>1, FreeIs DEF Handled
<1>2. CASE pc \notin Deciding
  <2>1. Only(tgt, cur) /\ attempt[cur] # "running"
    BY <1>2 DEF Handled, Handling, Starting, Settling
  <2> QED BY <2>1 DEF Only, Others, Running, Under
<1> QED BY <1>1, <1>2

\* What the handler knows of its task stays true when it goes on.
LEMMA GoesOn ==
  ASSUME Sound, Sole, Handling, Calm, tgt' = tgt, cur' = cur
  PROVE  /\ Only(tgt, cur)' /\ ~Unsettled(C(tgt))'
         /\ NoFinal(tgt) => NoFinal(tgt)'
         /\ Free(tgt) => Free(tgt)'
         /\ Running(tgt) = {} => Running(tgt)' = {}
<1>1. tgt \in Tasks /\ Only(tgt, cur)
  BY Subject DEF Sole, Handled, Handling
<1>2. /\ \A l \in Launches : Under(l)' => Under(l)
      /\ Free(tgt) => Free(tgt)'
      /\ NoFinal(tgt) => NoFinal(tgt)'
      /\ Running(tgt) = {} => Running(tgt)' = {}
  BY <1>1, CalmShrinks
<1>3. ~Unsettled(C(tgt))' /\ \A m \in Launches : owner'[m] = tgt /\ Under(m)' => m = cur
  BY <1>1, <1>2 DEF Only, Others, Calm
<1> QED BY <1>2, <1>3 DEF Only, Others, NoFinal, Free, Running

\* A step that leaves the stages and attempts alone leaves nothing new to tidy up.
LEMMA QuietTidy ==
  ASSUME Sound, Sole, Mine, UNCHANGED <<owner, kind, stage, attempt, procTable>>,
         pc \in {"collect", "revise"} => cur' = cur /\ pc' \in {"collect", "revise"},
         pc \in Starting \union Started \union {"unlaunchStage"} =>
           \/ pass = "ready"
           \/ cur' = cur /\ pc' \in Starting \union Started \union {"unlaunchStage"}
  PROVE  Tidy
<1>1. ASSUME NEW l \in Launches, owner[l] = tgt, Unsettled(F(l))', attempt'[l] = "running"
      PROVE  pass = "attempts" /\ cur' = l /\ pc' \in {"collect", "revise"}
  <2>1. pass = "attempts" /\ (l \in todo \/ (cur = l /\ pc \in {"collect", "revise"}))
    BY <1>1 DEF Sole, Finalizing, Mine, Handling, Unsettled
  <2> QED BY <1>1, <2>1 DEF Sole, Listed, Attending, Mine
<1>2. ASSUME NEW l \in Launches, owner[l] = tgt, Loose(l)',
             pass \notin {"attempts", "orphans", "ready", "late"}
      PROVE  cur' = l /\ pc' \in Starting \union Started \union {"unlaunchStage"}
  <2>1. Loose(l) /\ Under(l) /\ pc \notin {"idle", "down", "pass"}
    BY <1>2 DEF Loose, Unsettled, Under, Mine, Handling
  <2>2. Only(tgt, cur) /\ ~Free(tgt)
    BY <1>2, <2>1 DEF Sole, Handled, Mine, Free
  <2>3. l = cur
    BY <1>2, <2>1, <2>2 DEF Only, Others
  <2>4. pc \in Starting \union Started \union {"unlaunchStage"}
    BY <1>2, <2>1, <2>2
    DEF Sole, Handled, Deciding, Collecting, Finals, Starting, Started, Sound, Control, ControllerTyped, Steps
  <2> QED BY <1>2, <2>3, <2>4
<1>3. \A l \in Launches : Loose(l)' => Loose(l)
  BY DEF Loose, Unsettled
<1> QED BY <1>1, <1>2, <1>3 DEF Tidy

\* An exception ends the tick, or blocks the task that was being dispatched.
LEMMA UnwindSole ==
  ASSUME Sound, Sole, Unwind, UNCHANGED <<owner, kind, stage, attempt>>,
         pass = "ready" => Handling /\ Running(tgt) = {}
  PROVE  Sole'
<1>1. Calm /\ UNCHANGED <<opc, oatt>>
  BY SameCalm DEF Unwind, Sole, procVars, opVars, hostVars
<1>2. CASE Rest("idle") /\ UNCHANGED taskVars
  <2>1. \A t \in Tasks : Moves(t)
    BY <1>2 DEF Moves, taskVars
  <2> QED BY <1>1, <1>2, <2>1, Rests
<1>3. CASE /\ pass = "ready" /\ pc' = "pass" /\ UNCHANGED loop
           /\ IF task[tgt] \in {"READY", "RUNNING"} THEN SetTask(tgt, "BLOCKED") ELSE UNCHANGED taskVars
  <2>0. PICK t \in Tasks : t = tgt
    BY <1>3, Subject DEF Handling
  <2>1. Handling /\ Running(t) = {} /\ NoFinal(t) /\ ~Unsettled(C(t))
    BY <1>3, <2>0 DEF Sole, Handled, Collecting, Finals, Handling, Only
  <2>2. \/ task' = [task EXCEPT ![t] = "BLOCKED"] /\ parked' = [parked EXCEPT ![t] = "none"]
        \/ UNCHANGED <<task, parked>>
    BY <1>3, <2>0 DEF SetTask, taskVars
  <2>3. /\ \A u \in Tasks \ {t} : task'[u] = task[u] /\ parked'[u] = parked[u]
        /\ \/ task'[t] = task[t] /\ parked'[t] = parked[t]
           \/ task'[t] = "BLOCKED" /\ parked'[t] = "none"
    BY <2>2 DEF Sound, Data, RowsTyped
  <2>4. Mine
    BY <1>1, <1>3, <2>0, <2>1, <2>3 DEF Mine, loop
  <2>5. Tidy
    BY <1>3, <2>4, QuietTidy DEF Unwind, hostVars, Sole, Handled, Collecting, Finals
  <2>6. Moves(t)
    <3>1. ~Unsettled(C(t))' /\ NoFinal(t)' /\ Running(t)' = {}
      BY <1>1, <2>1, CalmShrinks DEF Calm
    <3> QED BY <2>3, <3>1 DEF Moves
  <2> QED BY <1>3, <2>0, <2>4, <2>5, <2>6, MineKeeps
<1> QED BY <1>2, <1>3 DEF Unwind

LEMMA ThrowSole ==
  ASSUME Sound, Sole, NEW s, Throw \/ ThrowReleasing(s),
         pass = "ready" => Handling /\ Running(tgt) = {}
  PROVE  Sole'
BY UnwindSole DEF Throw, ThrowReleasing, rowVars

\* The handler settles the worker stage of its launch: nothing of the task is under way then.
LEMMA SettledSole ==
  ASSUME Sound, Sole, pc \in LaunchSteps, attempt[cur] # "running", NoFinal(tgt),
         NEW outcome \in {"succeeded", "failed", "waiting"}, NEW to,
         NEW p \in Deciding \union {"pass", "block"},
         finishStage(W(cur), outcome, to), Goto(p),
         UNCHANGED <<owner, kind, attempt, pid, procVars, opVars, hostVars>>
  PROVE  Sole'
<1>0. PICK t \in Tasks, l \in Launches : t = tgt /\ l = cur
  BY Subject
<1>1. owner[l] = t /\ W(l) \in StageIds /\ TaskOf(W(l)) = t
  BY <1>0, Subject, StageIdsOf DEF TaskOf, W
<1>2. Handling /\ Only(t, l) /\ pass # "orphans"
  BY <1>0, Subject DEF Sole, Handled, Handling, LaunchSteps
<1>3. Calm /\ ~Unsettled(W(l))' /\ stage' = [stage EXCEPT ![W(l)] = outcome]
  <2>1. \A m \in Launches : W(l) # F(m)
    BY DEF W, F
  <2>2. stage' = [stage EXCEPT ![W(l)] = outcome]
    BY <1>0 DEF finishStage, W
  <2> QED BY <1>1, <2>1, <2>2, SettleCalm DEF Sole, procVars, hostVars
<1>4. Free(t)'
  <2>1. ~Unsettled(C(t))' /\ NoFinal(t)' /\ Only(t, l)'
    BY <1>0, <1>2, <1>3, CalmShrinks DEF Only, Calm
  <2>2. ~Under(l)'
    BY <1>0, <1>1, <1>3, <2>1 DEF Under, Loose, NoFinal
  <2> QED BY <2>1, <2>2 DEF Free, Only, Others
<1>5. \A u \in Tasks \ {t} : task'[u] = task[u] /\ parked'[u] = parked[u] /\ stage'[C(u)] = stage[C(u)]
  BY <1>0, <1>1, <1>3, StageIdsOf DEF finishStage, SetTask, Sound, Data, RowsTyped, W, C
<1>6. pc' = p /\ UNCHANGED <<pass, todo>> /\ (p = "pass" \/ (tgt' = t /\ cur' = l))
  BY <1>0 DEF Goto, loop, locals
<1>7. Mine
  BY <1>0, <1>2, <1>3, <1>5, <1>6 DEF Mine, Deciding, opVars
<1>8. Tidy
  BY <1>0, <1>3, <1>4 DEF Tidy, Free, Under, Calm
<1>9. p = "pass" \/ Handled'
  <2>1. Only(t, l)' /\ NoFinal(t)' /\ Running(t)' = {} /\ Free(t)'
    BY <1>4 DEF Only, Others, Free, NoFinal, Running, Under
  <2>2. p # "pass" => Only(tgt, cur)' /\ NoFinal(tgt)' /\ Running(tgt)' = {} /\ Free(tgt)'
    BY <1>6, <2>1
  <2> QED BY <1>2, <1>6, <2>2
       DEF Handled, Handling, Deciding, Finals, Collecting, Settling, Starting, Started
<1> QED BY <1>0, <1>4, <1>6, <1>7, <1>8, <1>9, MineKeeps DEF Moves

\* The handler settles the attempt of its launch.
LEMMA AttemptSettles ==
  ASSUME Sound, Sole, pc \in LaunchSteps, attempt[cur] # "none",
         NEW outcome \in {"succeeded", "failed"}, finishAttempt(cur, outcome),
         NEW p \in Steps \ {"down", "idle", "pass"}, pass = "attempts" \/ p = "unlaunchStage", Goto(p),
         UNCHANGED <<taskVars, owner, kind, stage, lease, pid, procVars, opVars, hostVars>>
  PROVE  /\ Mine /\ Tidy /\ (\A t \in Tasks : Moves(t)) /\ Running(tgt)' = {} /\ attempt'[cur] = outcome
         /\ Only(tgt, cur)' /\ (NoFinal(tgt) => NoFinal(tgt)')
         /\ pc' = p /\ UNCHANGED <<loop, locals>>
<1>1. cur \in Launches /\ owner[cur] = tgt /\ tgt \in Tasks
  BY Subject
<1>2. Handling /\ Only(tgt, cur) /\ pass # "orphans"
  BY Subject DEF Sole, Handled, Handling, LaunchSteps
<1>3. Calm /\ attempt'[cur] = outcome /\ \A m \in Launches \ {cur} : attempt'[m] = attempt[m]
  BY <1>1, AttemptCalm DEF Sole, procVars, hostVars
<1>4. pc' = p /\ UNCHANGED <<loop, locals>>
  BY DEF Goto
<1>5. Only(tgt, cur)' /\ (NoFinal(tgt) => NoFinal(tgt)')
  BY <1>2, <1>3, <1>4, GoesOn DEF locals
<1>6. \A m \in Launches : owner'[m] = tgt /\ Under(m)' => m = cur
  BY <1>4, <1>5 DEF Only, Others, locals
<1>7. Mine
  BY <1>1, <1>2, <1>3, <1>4 DEF Mine, taskVars, opVars, loop, locals
<1>8. Tidy
  BY <1>2, <1>3, <1>4, <1>6 DEF Tidy, Under, Calm, locals
<1>9. Running(tgt)' = {} /\ \A t \in Tasks : Moves(t)
  BY <1>3, <1>4, <1>6 DEF Running, Under, Moves, taskVars, locals
<1> QED BY <1>3, <1>4, <1>5, <1>7, <1>8, <1>9
-----------------------------------------------------------------------------
(* Every step of a handler.                                                *)

\* The handler goes on, and at most the state of its task changes.
LEMMA QuietSole ==
  ASSUME Sound, Sole, Handling,
         UNCHANGED <<owner, kind, stage, attempt, result, procTable, opc, oatt, pass, todo>>,
         \A t \in Tasks : t # tgt => task'[t] = task[t] /\ parked'[t] = parked[t],
         \A t \in Tasks : t = tgt => Moves(t),
         pc' \notin {"idle", "down"},
         \/ pc' = "pass"
         \/ /\ tgt' = tgt /\ cur' = cur
            /\ /\ Only(tgt, cur)' /\ ~Unsettled(C(tgt))' /\ (NoFinal(tgt) => NoFinal(tgt)')
               /\ (Free(tgt) => Free(tgt)') /\ (Running(tgt) = {} => Running(tgt)' = {})
               => Handled',
         pc \in {"collect", "revise"} => cur' = cur /\ pc' \in {"collect", "revise"},
         pc \in Starting \union Started \union {"unlaunchStage"} =>
           cur' = cur /\ pc' \in Starting \union Started \union {"unlaunchStage"}
  PROVE  Sole'
<1>1. Calm
  BY SameCalm DEF Sole
<1>2. Mine
  BY <1>1 DEF Mine
<1>3. Tidy
  BY <1>2, QuietTidy
<1>4. pc' = "pass" \/ Handled'
  BY <1>1, GoesOn
<1> QED BY <1>2, <1>3, <1>4, MineKeeps

\* The handler leaves the task in another state and goes on.
LEMMA SetTaskOnly ==
  ASSUME Sound, NEW t \in Tasks, NEW to, SetTask(t, to)
  PROVE  /\ task'[t] = to /\ parked'[t] = "none"
         /\ \A u \in Tasks : u # t => task'[u] = task[u] /\ parked'[u] = parked[u]
BY DEF SetTask, Sound, Data, RowsTyped

LEMMA BlockTaskSole ==
  ASSUME Sound, Sole, BlockTask
  PROVE  Sole'
<1>0. PICK t \in Tasks : t = tgt
  BY Subject DEF BlockTask
<1>1. /\ Handling /\ Only(t, cur) /\ NoFinal(t) /\ (procTable => Running(t) = {})
      /\ (pass = "ready" => Running(t) = {})
  BY <1>0, FreeIs DEF BlockTask, Handling, Sole, Handled, Finals
<1>2. CASE /\ SetTask(tgt, "BLOCKED") \/ UNCHANGED taskVars
           /\ Goto("pass") /\ UNCHANGED <<rowVars, procVars, opVars, hostVars>>
  <2>1. /\ \A u \in Tasks : u # t => task'[u] = task[u] /\ parked'[u] = parked[u]
        /\ \/ task'[t] = task[t] /\ parked'[t] = parked[t]
           \/ task'[t] = "BLOCKED" /\ parked'[t] = "none"
    BY <1>0, <1>2, SetTaskOnly DEF taskVars
  <2>2. ~Unsettled(C(t))' /\ NoFinal(t)' /\ (procTable => Running(t)' = {})
    BY <1>1, <1>2 DEF Only, NoFinal, Running, Unsettled, rowVars
  <2>3. Moves(t)
    BY <2>1, <2>2 DEF Moves
  <2> QED BY <1>0, <1>1, <1>2, <2>1, <2>3, QuietSole
       DEF BlockTask, Goto, loop, rowVars, procVars, opVars, hostVars, Starting, Started
<1> QED BY <1>0, <1>1, <1>2, ThrowSole DEF BlockTask

LEMMA VerifySole ==
  ASSUME Sound, Sole, VerifyAlive \/ VerifyLaunching \/ VerifyAmbiguous
  PROVE  Sole'
<1>1. /\ pc = "verify" /\ Handling /\ pass = "attempts"
      /\ UNCHANGED <<owner, kind, stage, attempt, result, procTable, opc, oatt, pass, todo>>
      /\ UNCHANGED <<task, parked>>
      /\ \/ pc' = "pass"
         \/ pc' \in {"adopt", "block"} /\ tgt' = tgt /\ cur' = cur /\ (pc' = "block" => ~procTable)
  BY DEF VerifyAlive, VerifyLaunching, VerifyAmbiguous, Handling, Sole, Handled, Collecting, Goto,
         taskVars, rowVars, procVars, opVars, hostVars, loop, locals
<1>2. \A t \in Tasks : Moves(t)
  BY <1>1 DEF Moves
<1>3. NoFinal(tgt)
  BY <1>1 DEF Sole, Handled, Finals
<1> QED BY <1>1, <1>2, <1>3, QuietSole
     DEF Handled, Handling, Deciding, Finals, Collecting, Settling, Starting, Started

LEMMA SkipSole ==
  ASSUME Sound, Sole,
         \/ Skip("keepStage", "keepFinal") \/ Skip("brokenStage", "block")
         \/ ScheduleNextCheck /\ Active(C(tgt)) /\ Goto("pass") /\ UNCHANGED rowVars
  PROVE  Sole'
<1>1. /\ pc \in {"keepStage", "brokenStage", "schedule"} /\ Handling
      /\ UNCHANGED <<owner, kind, stage, attempt, result, procTable, opc, oatt, pass, todo>>
      /\ UNCHANGED <<task, parked>>
      /\ \/ pc' = "pass"
         \/ /\ tgt' = tgt /\ cur' = cur
            /\ (pc = "keepStage" /\ pc' = "keepFinal") \/ (pc = "brokenStage" /\ pc' = "block")
  BY DEF Skip, ScheduleNextCheck, Handling, Goto, MayReserve,
         taskVars, rowVars, procVars, opVars, hostVars, loop, locals
<1>2. \A t \in Tasks : Moves(t)
  BY <1>1 DEF Moves
<1>3. /\ pc # "keepStage" => NoFinal(tgt)
      /\ pc # "schedule" => pass = "attempts"
      /\ Running(tgt) = {} /\ attempt[cur] \notin {"none", "running"}
  BY <1>1, Idle DEF Sole, Handled, Finals, Collecting, Settling
<1> QED BY <1>1, <1>2, <1>3, QuietSole
     DEF Handled, Handling, Deciding, Finals, Collecting, Settling, Starting, Started

\* A worker stage is settled by the handler that has settled its attempt.
LEMMA SettleStageSole ==
  ASSUME Sound, Sole, NEW at \in {"failStage", "yieldStage", "staleStage", "reviewStage"},
         NEW outcome \in {"succeeded", "failed", "waiting"}, NEW to,
         NEW next \in {"handle", "block", "rereview", "verdict", "pass"},
         SettleStage(at, outcome, to, next)
  PROVE  Sole'
<1>1. /\ pc = at /\ pc \in LaunchSteps /\ Handling /\ pass = "attempts" /\ pc \notin Finals
      /\ attempt[cur] \notin {"none", "running"} /\ NoFinal(tgt) /\ Only(tgt, cur)
  BY DEF SettleStage, Handling, Sole, Handled, Collecting, Finals, Settling, LaunchSteps
<1>2. CASE ~Unsettled(W(cur)) /\ Goto(next) /\ UNCHANGED <<taskVars, rowVars, procVars, opVars, hostVars>>
  <2>1. cur \in Launches /\ owner[cur] = tgt /\ Running(tgt) = {}
    BY <1>1, Subject, Idle DEF Sole, Settling
  <2>2. Free(tgt)
    BY <1>1, <1>2, <2>1 DEF Free, Only, Others, Under, Loose, NoFinal
  <2>3. \A t \in Tasks : Moves(t)
    BY <1>2 DEF Moves, taskVars
  <2>4. pc' = next /\ (next = "pass" \/ (tgt' = tgt /\ cur' = cur)) /\ UNCHANGED <<pass, todo>>
    BY <1>2 DEF Goto, loop, locals
  <2> QED BY <1>1, <1>2, <2>1, <2>2, <2>3, <2>4, QuietSole
       DEF taskVars, rowVars, procVars, opVars, hostVars, Handled, Handling, Deciding, Finals,
           Collecting, Settling, Starting, Started
<1>3. CASE /\ finishStage(W(cur), outcome, to) /\ Goto(next)
           /\ UNCHANGED <<owner, kind, attempt, pid, procVars, opVars, hostVars>>
  BY <1>1, <1>3, SettledSole DEF Deciding
<1>4. CASE ThrowReleasing(W(cur))
  BY <1>1, <1>4, ThrowSole
<1> QED BY <1>2, <1>3, <1>4 DEF SettleStage

LEMMA SettleStagesSole ==
  ASSUME Sound, Sole, FailStage \/ YieldStage \/ StaleStage \/ ReviewStage
  PROVE  Sole'
BY SettleStageSole DEF FailStage, YieldStage, StaleStage, ReviewStage

\* The stages of a commit that was made or refused.
LEMMA FinalSole ==
  ASSUME Sound, Sole,
         \/ pc = "keepStage" /\ finishStage(W(cur), "succeeded", "RUNNING") /\ Goto("keepFinal")
         \/ pc = "keepFinal" /\ finishStage(F(cur), "succeeded", "CHECKING") /\ Goto("schedule")
         \/ pc = "brokenFinal" /\ finishStage(F(cur), "failed", "BLOCKED") /\ Goto("brokenStage"),
         UNCHANGED <<owner, kind, attempt, pid, procVars, opVars, hostVars>>
  PROVE  Sole'
<1>0. PICK t \in Tasks, l \in Launches : t = tgt /\ l = cur
  BY Subject DEF LaunchSteps
<1>1. /\ owner[l] = t /\ W(l) \in StageIds /\ F(l) \in StageIds /\ TaskOf(W(l)) = t /\ TaskOf(F(l)) = t
      /\ \A m \in Launches : W(l) # F(m)
      /\ \A u \in Tasks : C(u) \in StageIds \ {W(l), F(l)}
  BY <1>0, Subject, StageIdsOf DEF TaskOf, W, F, C, LaunchSteps
<1>2. /\ Handling /\ Only(t, l) /\ pass = "attempts" /\ attempt[l] \notin {"none", "running"}
      /\ Running(t) = {}
  BY <1>0, Idle DEF Sole, Handled, Handling, Collecting, Finals
<1>3. PICK s \in {W(l), F(l)}, st \in {"succeeded", "failed"}, to \in {"RUNNING", "CHECKING", "BLOCKED"} :
        /\ stage' = [stage EXCEPT ![s] = st] /\ SetTask(t, to)
        /\ pc = "keepStage" => to = "RUNNING"
        /\ pc # "keepStage" => s = F(l)
  BY <1>0, <1>1 DEF finishStage, W, F
<1>4. Calm /\ ~Unsettled(s)'
  BY <1>1, <1>3, SettleCalm DEF Sole, procVars, hostVars
<1>5. /\ Only(t, l)' /\ ~Unsettled(C(t))' /\ Running(t)' = {} /\ attempt'[l] \notin {"none", "running"}
      /\ pc # "keepStage" => NoFinal(t)'
  <2>1. /\ Only(t, l)' /\ ~Unsettled(C(t))' /\ Running(t)' = {} /\ attempt'[l] \notin {"none", "running"}
    BY <1>2, <1>4, CalmShrinks DEF Only, Calm
  <2>2. s = F(l) => NoFinal(t)'
    BY <1>4, <2>1 DEF NoFinal, Only, Others, Under
  <2> QED BY <1>3, <2>1, <2>2
<1>6. \A u \in Tasks \ {t} : task'[u] = task[u] /\ parked'[u] = parked[u] /\ stage'[C(u)] = stage[C(u)]
  BY <1>1, <1>3, SetTaskOnly DEF Sound, Data, RowsTyped
<1>7. /\ UNCHANGED <<pass, todo>> /\ tgt' = t /\ cur' = l
      /\ \/ pc = "keepStage" /\ pc' = "keepFinal"
         \/ pc = "keepFinal" /\ pc' = "schedule"
         \/ pc = "brokenFinal" /\ pc' = "brokenStage"
  BY <1>0 DEF Goto, loop, locals
<1>8. Mine
  BY <1>0, <1>2, <1>4, <1>6, <1>7 DEF Mine, opVars
<1>9. Tidy
  BY <1>0, <1>2, <1>4, <1>5 DEF Tidy, Running, Calm
<1>10. Moves(t)
  BY <1>3, <1>5, <1>7, SetTaskOnly DEF Moves
<1>11. Handled'
  BY <1>2, <1>5, <1>7 DEF Handled, Handling, Deciding, Finals, Collecting, Settling, Starting, Started
<1> QED BY <1>0, <1>8, <1>9, <1>10, <1>11, MineKeeps

LEMMA SettlesSole ==
  ASSUME Sound, Sole, KeepStage \/ KeepFinal \/ BrokenFinal \/ BrokenStage \/ UnlaunchStage
  PROVE  Sole'
<1>1. ASSUME pc \in {"keepStage", "keepFinal", "brokenFinal", "brokenStage", "unlaunchStage"},
             ThrowReleasing(W(cur)) \/ ThrowReleasing(F(cur))
      PROVE  Sole'
  <2>1. Handling /\ Running(tgt) = {}
    BY <1>1, Idle DEF Handling, Sole, Settling
  <2> QED BY <1>1, <2>1, ThrowSole
<1>2. pc \in {"brokenStage", "unlaunchStage"} =>
        pc \in LaunchSteps /\ attempt[cur] # "running" /\ NoFinal(tgt)
  BY DEF Sole, Handled, Handling, Settling, Finals, LaunchSteps
<1>3. CASE KeepStage
  BY <1>1, <1>3, SkipSole, FinalSole DEF KeepStage, Settle
<1>4. CASE KeepFinal
  BY <1>1, <1>4, FinalSole DEF KeepFinal, Settle
<1>5. CASE BrokenFinal
  BY <1>1, <1>5, FinalSole DEF BrokenFinal, Settle
<1>6. CASE BrokenStage
  BY <1>1, <1>2, <1>6, SkipSole, SettledSole DEF BrokenStage, Settle
<1>7. CASE UnlaunchStage
  BY <1>1, <1>2, <1>7, SettledSole DEF UnlaunchStage, Settle, Deciding
<1> QED BY <1>3, <1>4, <1>5, <1>6, <1>7

\* A handler settles the attempt of its launch and turns to its stages.
LEMMA CollectedSole ==
  ASSUME Sound, Sole, VerifyLost \/ CollectFailed \/ CollectYield \/ Revise \/ UnlaunchAttempt
  PROVE  Sole'
<1>0. PICK t \in Tasks, l \in Launches : t = tgt /\ l = cur /\ owner[l] = t
  BY Subject
  DEF VerifyLost, CollectFailed, CollectYield, Revise, UnlaunchAttempt, LaunchSteps
<1>1. PICK outcome \in {"succeeded", "failed"},
           p \in {"block", "failStage", "staleStage", "yieldStage", "reviewStage", "keepStage",
                  "brokenFinal", "unlaunchStage"} :
        /\ finishAttempt(cur, outcome) /\ Goto(p)
        /\ UNCHANGED <<taskVars, owner, kind, stage, lease, pid, procVars, opVars, hostVars>>
        /\ p = "unlaunchStage" <=> pc = "unlaunch"
        /\ p \in {"keepStage", "brokenFinal"} <=> pc = "revise"
        /\ pc \in {"verify", "collect", "revise", "unlaunch"}
        /\ pc = "collect" => result[cur] # "succeeded" \/ want = "review"
  BY DEF VerifyLost, CollectFailed, CollectYield, Revise, UnlaunchAttempt
<1>2. /\ pc \in LaunchSteps /\ attempt[cur] # "none" /\ p \in Steps \ {"down", "idle", "pass"}
      /\ pass = "attempts" \/ p = "unlaunchStage"
  BY <1>1 DEF Sole, Handled, Collecting, Finals, LaunchSteps, Steps
<1>3. /\ Mine /\ Tidy /\ (\A u \in Tasks : Moves(u)) /\ Running(tgt)' = {} /\ attempt'[cur] = outcome
      /\ Only(tgt, cur)' /\ (NoFinal(tgt) => NoFinal(tgt)')
      /\ pc' = p /\ UNCHANGED <<loop, locals>>
  BY <1>1, <1>2, AttemptSettles
<1>4. pc # "revise" => NoFinal(tgt)
  <2>1. CASE pc # "collect"
    BY <1>1, <2>1 DEF Sole, Handled, Handling, Finals
  <2>2. CASE pc = "collect"
    <3>1. Only(t, l) /\ want = kind[l]
      BY <1>0, <2>2 DEF Sole, Handled, Handling
    <3>2. ~Unsettled(F(l))
      BY <1>0, <1>1, <2>2, <3>1 DEF Sole, Finalizing
    <3> QED BY <1>0, <3>1, <3>2 DEF NoFinal, Only, Others, Under
  <2> QED BY <2>1, <2>2
<1>5. attempt'[cur'] \notin {"none", "running"} /\ pass' = pass /\ pass # "orphans"
  BY <1>1, <1>3 DEF locals, loop, Sole, Handled, Handling
<1>6. Handled'
  BY <1>1, <1>2, <1>3, <1>4, <1>5
  DEF Handled, Handling, Deciding, Finals, Collecting, Settling, Starting, Started, locals
<1> QED BY <1>3, <1>6, MineKeeps

\* A commit is begun, or found begun by an earlier collection.
LEMMA CollectWorkSole ==
  ASSUME Sound, Sole, CollectWork
  PROVE  Sole'
<1>0. PICK t \in Tasks, l \in Launches : t = tgt /\ l = cur
  BY Subject DEF CollectWork, LaunchSteps
<1>1. /\ owner[l] = t /\ F(l) \in StageIds /\ Handling /\ Only(t, l) /\ pass = "attempts"
      /\ pc = "collect" /\ want = kind[l] /\ attempt[l] # "none"
      /\ \A s \in StageIds : s = F(l) => TaskOf(s) = t
      /\ \A m \in Launches : W(m) \in StageIds \ {F(l)} /\ (m # l => F(m) \in StageIds \ {F(l)})
      /\ \A u \in Tasks : C(u) \in StageIds \ {F(l)}
  BY <1>0, Subject, StageIdsOf
  DEF CollectWork, LaunchSteps, Handling, Sole, Handled, Collecting, Finals, TaskOf, W, F, C
<1>2. CASE Throw
  BY <1>1, <1>2, ThrowSole
<1>3. CASE /\ stage[F(cur)] # "none"
           /\ stage' = IF stage[F(cur)] = "reserved" THEN [stage EXCEPT ![F(cur)] = "running"] ELSE stage
           /\ pc' = "revise"
           /\ UNCHANGED <<taskVars, owner, kind, lease, attempt, pid, procVars, opVars, hostVars,
                          loop, cur, tgt, want, seen>>
  <2>1. /\ \A s \in StageIds : s # F(l) => stage'[s] = stage[s]
        /\ stage'[F(l)] = IF stage[F(l)] = "reserved" THEN "running" ELSE stage[F(l)]
    BY <1>0, <1>1, <1>3 DEF Sound, Data, RowsTyped, F
  <2>2. Calm
    BY <1>1, <1>3, <2>1 DEF Calm, Sole, Finalizing, Unsettled, procVars, hostVars
  <2>3. Mine
    BY <1>0, <1>1, <1>3, <2>1, <2>2 DEF Mine, taskVars, opVars, loop
  <2>4. \A m \in Launches : owner'[m] = t /\ Under(m)' => m = cur
    BY <1>0, <1>1, <1>3, <2>2, GoesOn DEF Only, Others
  <2>5. Tidy
    BY <1>0, <1>1, <1>3, <2>4 DEF Tidy, Under
  <2>6. Only(tgt, cur)'
    BY <1>1, <1>3, <2>2, GoesOn
  <2>7. Handled'
    BY <1>0, <1>1, <1>3, <2>6
    DEF Handled, Handling, Deciding, Finals, Collecting, Settling, Starting, Started, loop
  <2>8. Moves(t)
    BY <1>3 DEF Moves, taskVars
  <2> QED BY <1>0, <2>3, <2>5, <2>7, <2>8, MineKeeps
<1>4. CASE /\ stage[F(cur)] = "none" /\ MayReserve(tgt, "finalize")
           /\ stage' = [stage EXCEPT ![F(cur)] = "running"] /\ SetTask(tgt, "CHECKING")
           /\ pc' = "revise" /\ result[cur] = "succeeded" /\ want # "review"
           /\ UNCHANGED <<owner, kind, lease, attempt, pid, procVars, opVars, hostVars,
                       loop, cur, tgt, want, seen>>
  <2>1. /\ \A s \in StageIds : s # F(l) => stage'[s] = stage[s]
        /\ stage'[F(l)] = "running"
    BY <1>0, <1>1, <1>4 DEF Sound, Data, RowsTyped, F
  <2>2. /\ \A m \in Launches : Loose(m)' <=> Loose(m)
        /\ \A m \in Launches : Under(m)' <=> (Under(m) \/ m = l)
        /\ \A m \in Launches : m # l => (Unsettled(F(m))' <=> Unsettled(F(m)))
        /\ \A u \in Tasks : (Unsettled(C(u))' <=> Unsettled(C(u)))
        /\ \A u \in Tasks : Running(u)' = Running(u)
    BY <1>1, <1>4, <2>1 DEF Loose, Under, Unsettled, Running, hostVars
  <2>3. /\ task'[t] = "CHECKING"
        /\ \A u \in Tasks : u # t => task'[u] = task[u] /\ parked'[u] = parked[u]
    BY <1>0, <1>4, SetTaskOnly
  <2>4. /\ \A m \in Launches, u \in Tasks : u # t \/ m = l => (Only(u, m) => Only(u, m)')
        /\ \A u \in Tasks : u # t => (Free(u) => Free(u)') /\ (NoFinal(u) => NoFinal(u)')
    BY <1>1, <1>4, <2>2 DEF Only, Others, Free, NoFinal
  <2>5. Exclusive'
    <3>1. ASSUME NEW m \in Launches, Under(m)'
          PROVE  Others(owner[m], m)' /\
                 (attempt'[m] = "running" \/ Unsettled(F(m))' \/ (Unsettled(W(m))' /\ attempt'[m] = "none")
                   => ~Unsettled(C(owner[m]))')
      <4>1. CASE owner[m] = t
        <5>1. m = l
          BY <1>1, <2>2, <3>1, <4>1 DEF Only, Others
        <5> QED BY <1>1, <1>4, <2>2, <2>4, <5>1 DEF Only, Others
      <4>2. CASE owner[m] # t
        <5>1. Under(m) /\ owner[m] \in Tasks
          BY <1>1, <2>2, <3>1, <4>2, UnderOwned
        <5> QED BY <1>1, <1>4, <2>1, <2>2, <4>2, <5>1 DEF Sole, Exclusive, Others, Unsettled
      <4> QED BY <4>1, <4>2
    <3> QED BY <3>1 DEF Exclusive, Under, Loose
  <2>6. Finalizing'
    BY <1>0, <1>1, <1>4, <2>1, <2>2 DEF Sole, Finalizing, Handling, Unsettled, procVars, loop
  <2>7. Only(t, l)' /\ Handled'
    BY <1>0, <1>1, <1>4, <2>4
    DEF Handled, Handling, Deciding, Finals, Collecting, Settling, Starting, Started, loop
  <2>8. States'
    <3>1. ASSUME NEW u \in Tasks
          PROVE  /\ task'[u] = "READY" \/ (task'[u] = "BLOCKED" /\ parked'[u] # "none") => Running(u)' = {}
                 /\ task'[u] \notin {"CHECKING", "CANCELLED"} => ~Unsettled(C(u))'
                 /\ task'[u] \notin {"RUNNING", "CHECKING", "CANCELLED"} => NoFinal(u)'
                 /\ task'[u] = "DONE" => Free(u)'
                 /\ procTable' /\ task'[u] \notin SLOT_HOLDING_STATES \union {"CANCELLED"} => Running(u)' = {}
      <4>1. CASE u = t
        BY <2>3, <4>1 DEF SLOT_HOLDING_STATES
      <4>2. CASE u # t
        BY <1>4, <2>2, <2>3, <2>4, <4>2 DEF Sole, States, hostVars
      <4> QED BY <4>1, <4>2
    <3> QED BY <3>1 DEF States
  <2>9. Stopping'
    BY <1>4 DEF Sole, Stopping, opVars
  <2>10. Listed'
    <3>1. Attending'
      <4>1. ASSUME NEW x \in todo
            PROVE  x \in Launches /\ owner[x] \in Tasks /\ owner[x] # t /\ Only(owner[x], x) /\ owner'[x] = owner[x]
        BY <1>0, <1>1, <1>4, <4>1 DEF Sound, Control, Lists, Sole, Listed, Attending
      <4>2. ASSUME NEW x \in todo
            PROVE  Only(owner[x], x)'
        BY <4>1, <4>2, <2>4 DEF Only, Others
      <4> QED BY <1>0, <1>1, <1>4, <4>1, <4>2 DEF Sole, Listed, Attending, Handling, loop
    <3> QED BY <1>1, <1>4, <3>1 DEF Listed, Recovering, Recovered, Awaiting, Apart, loop
  <2> QED BY <2>5, <2>6, <2>7, <2>8, <2>9, <2>10 DEF Sole
<1> QED BY <1>2, <1>3, <1>4 DEF CollectWork

\* A check of task t begins where at most a worker stage of a finished attempt is still to be
\* settled, by recovery.
LEMMA CheckBegins ==
  ASSUME Sound, Sole, NEW t \in Tasks, NoFinal(t), Running(t) = {}, pass \in {"attempts", "orphans", "ready"},
         \A m \in Launches : owner[m] = t /\ Loose(m) =>
           /\ attempt[m] # "none"
           /\ pass = "attempts" \/ (pass = "orphans" /\ W(m) \in todo),
         pass = "attempts" => \A x \in todo : owner[x] # t,
         stage' = [stage EXCEPT ![C(t)] = "running"], SetTask(t, "CHECKING"),
         pc \notin {"down", "idle"}, pc' = "pass", UNCHANGED pass, todo' \subseteq todo,
         IF pass = "ready" THEN pc = "pass" ELSE UNCHANGED todo,
         pc \notin {"collect", "revise"},
         UNCHANGED <<owner, kind, attempt, result, procTable, opc, oatt>>
  PROVE  Sole'
<1>1. /\ \A s \in StageIds : s # C(t) => stage'[s] = stage[s]
      /\ \A m \in Launches : W(m) \in StageIds \ {C(t)} /\ F(m) \in StageIds \ {C(t)}
      /\ \A u \in Tasks : u # t => C(u) \in StageIds \ {C(t)}
  BY StageIdsOf DEF W, F, C, Sound, Data, RowsTyped
<1>2. /\ \A m \in Launches : Loose(m)' <=> Loose(m)
      /\ \A m \in Launches : Under(m)' <=> Under(m)
      /\ \A m \in Launches : Unsettled(F(m))' <=> Unsettled(F(m))
      /\ \A m \in Launches : Unsettled(W(m))' <=> Unsettled(W(m))
      /\ \A u \in Tasks : u # t => (Unsettled(C(u))' <=> Unsettled(C(u)))
      /\ \A u \in Tasks : Running(u)' = Running(u)
  BY <1>1 DEF Loose, Under, Unsettled, Running
<1>3. /\ task'[t] = "CHECKING"
      /\ \A u \in Tasks : u # t => task'[u] = task[u] /\ parked'[u] = parked[u]
  BY SetTaskOnly
<1>4. /\ \A u \in Tasks : \A m : u # t => (Only(u, m) => Only(u, m)')
      /\ \A u \in Tasks : u # t => (Free(u) => Free(u)')
      /\ \A u \in Tasks : NoFinal(u) => NoFinal(u)'
      /\ \A m \in Launches : owner[m] # t => (Dropped(m) => Dropped(m)')
  <2>1. \A u \in Tasks : \A m : u # t => (Only(u, m) => Only(u, m)')
    BY <1>2 DEF Only, Others
  <2>2. /\ \A u \in Tasks : u # t => (Free(u) => Free(u)')
        /\ \A u \in Tasks : NoFinal(u) => NoFinal(u)'
    BY <1>2 DEF Free, NoFinal
  <2>3. \A m \in Launches : owner[m] # t => (Dropped(m) => Dropped(m)')
    BY <1>3 DEF Dropped, Sound, Data, RowsTyped, Blank
  <2> QED BY <2>1, <2>2, <2>3
<1>5. Exclusive'
  <2>1. ASSUME NEW m \in Launches, Under(m)'
        PROVE  Others(owner[m], m)' /\
               (attempt'[m] = "running" \/ Unsettled(F(m))' \/ (Unsettled(W(m))' /\ attempt'[m] = "none")
                 => ~Unsettled(C(owner[m]))')
    <3>1. Under(m) /\ owner[m] \in Tasks /\ Others(owner[m], m)
      BY <1>2, <2>1, UnderOwned DEF Sole, Exclusive
    <3>2. Others(owner[m], m)'
      BY <1>2, <3>1 DEF Others
    <3>3. CASE owner[m] = t
      BY <1>2, <3>2, <3>3 DEF NoFinal, Running, Loose
    <3>4. CASE owner[m] # t
      BY <1>2, <3>1, <3>2, <3>4 DEF Sole, Exclusive
    <3> QED BY <3>3, <3>4
  <2> QED BY <2>1 DEF Exclusive, Under, Loose
<1>6. Finalizing'
  BY <1>1 DEF Sole, Finalizing, Unsettled, NoFinal, Running
<1>7. Handled'
  BY PassHandled
<1>8. States'
  <2>1. ASSUME NEW u \in Tasks
        PROVE  /\ task'[u] = "READY" \/ (task'[u] = "BLOCKED" /\ parked'[u] # "none") => Running(u)' = {}
               /\ task'[u] \notin {"CHECKING", "CANCELLED"} => ~Unsettled(C(u))'
               /\ task'[u] \notin {"RUNNING", "CHECKING", "CANCELLED"} => NoFinal(u)'
               /\ task'[u] = "DONE" => Free(u)'
               /\ procTable' /\ task'[u] \notin SLOT_HOLDING_STATES \union {"CANCELLED"} => Running(u)' = {}
    <3>1. CASE u = t
      BY <1>3, <3>1 DEF SLOT_HOLDING_STATES
    <3>2. CASE u # t
      BY <1>2, <1>3, <1>4, <3>2 DEF Sole, States
    <3> QED BY <3>1, <3>2
  <2> QED BY <2>1 DEF States
<1>9. Stopping'
  BY DEF Sole, Stopping
<1>10. Listed'
  <2>1. Attending'
    <3>1. ASSUME pass = "attempts", NEW x \in todo
          PROVE  owner[x] \in Tasks /\ owner[x] # t /\ Only(owner[x], x) /\ owner'[x] = owner[x]
      BY <3>1 DEF Sound, Control, Lists, Sole, Listed, Attending
    <3>2. ASSUME pass = "attempts", NEW x \in todo
          PROVE  Only(owner[x], x)'
      BY <1>4, <3>1, <3>2 DEF Only, Others
    <3> QED BY <3>1, <3>2 DEF Sole, Listed, Attending, Handling
  <2>2. ASSUME NEW m \in Launches, Loose(m)', Only(owner[m], m), owner[m] # t
        PROVE  Only(owner[m], m)'
    BY <1>2, <1>4, <2>2, UnderOwned DEF Only, Others, Under
  <2>3. Recovering'
    BY <1>2, <1>4, <2>2 DEF Sole, Listed, Recovering, Handling
  <2>4. Recovered'
    <3>1. ASSUME pass = "ready", NEW m \in Launches, Loose(m)'
          PROVE  /\ Only(owner[m], m)'
                 /\ owner[m] \notin todo' \/ Dropped(m)'
      <4>1. Loose(m) /\ owner[m] # t
        BY <1>2, <3>1
      <4>2. Only(owner[m], m) /\ (owner[m] \notin todo \/ Dropped(m))
        BY <3>1, <4>1 DEF Sole, Listed, Recovered, Starting, Started
      <4> QED BY <1>4, <2>2, <3>1, <4>1, <4>2
    <3> QED BY <3>1 DEF Recovered
  <2>5. Awaiting'
    BY <1>2, <1>1 DEF Sole, Listed, Awaiting
  <2> QED BY <2>1, <2>3, <2>4, <2>5 DEF Listed, Apart, Handling
<1> QED BY <1>5, <1>6, <1>7, <1>8, <1>9, <1>10 DEF Sole

LEMMA ScheduleNextCheckSole ==
  ASSUME Sound, Sole, ScheduleNextCheck
  PROVE  Sole'
<1>0. PICK t \in Tasks : t = tgt
  BY Subject DEF ScheduleNextCheck
<1>1. /\ pc = "schedule" /\ Handling /\ Only(t, cur) /\ NoFinal(t) /\ attempt[cur] \notin {"none", "running"}
      /\ pass \in {"attempts", "orphans"}
  BY <1>0 DEF ScheduleNextCheck, Handling, Sole, Handled, Finals, Settling
<1>2. CASE Throw
  BY <1>1, <1>2, ThrowSole
<1>3. CASE Active(C(tgt)) /\ Goto("pass") /\ UNCHANGED rowVars
  BY <1>3, SkipSole
<1>4. CASE /\ stage' = [stage EXCEPT ![C(tgt)] = "running"]
           /\ SetTask(tgt, "CHECKING") /\ Goto("pass")
           /\ UNCHANGED <<owner, kind, lease, attempt, pid, procVars, opVars, hostVars>>
  <2>1. Running(t) = {}
    BY <1>0, <1>1, Idle DEF Sole, Settling
  <2>2. \A m \in Launches : owner[m] = t /\ Loose(m) =>
          /\ attempt[m] # "none"
          /\ pass = "attempts" \/ (pass = "orphans" /\ W(m) \in todo)
    <3>1. \A m \in Launches : owner[m] = t /\ Loose(m) => m = cur
      BY <1>1 DEF Only, Others, Under
    <3> QED BY <1>1, <3>1 DEF Sole, Listed, Recovering
  <2>3. pass = "attempts" => \A x \in todo : owner[x] # t
    BY <1>0, <1>1 DEF Sole, Listed, Attending
  <2>4. /\ pc' = "pass" /\ UNCHANGED <<pass, todo, owner, kind, attempt, result, procTable, opc, oatt>>
        /\ stage' = [stage EXCEPT ![C(t)] = "running"] /\ SetTask(t, "CHECKING")
    BY <1>0, <1>4 DEF Goto, loop, procVars, opVars, hostVars, C, SetTask
  <2> QED BY <1>1, <2>1, <2>2, <2>3, <2>4, CheckBegins
<1> QED BY <1>2, <1>3, <1>4 DEF ScheduleNextCheck

\* Whatever a handler decides for a task nothing is under way in.
LEMMA DecideSole ==
  ASSUME Sound, Sole, pc \in Deciding,
         UNCHANGED <<rowVars, procVars, opVars, hostVars, pass, todo>>,
         \A t \in Tasks : t # tgt => task'[t] = task[t] /\ parked'[t] = parked[t],
         \/ pc' = "pass"
         \/ pc' \in {"admit", "reserve", "block"} /\ tgt' = tgt /\ cur' = cur
  PROVE  Sole'
<1>0. PICK t \in Tasks : t = tgt
  BY Subject DEF Deciding
<1>1. Handling /\ Free(t) /\ Running(t) = {} /\ NoFinal(t) /\ pass # "orphans" /\ pc \notin {"collect", "revise"}
      /\ pc \notin Starting \union Started \union {"unlaunchStage"}
  BY <1>0, FreeIs DEF Handling, Deciding, Sole, Handled, Starting, Started
<1>2. Free(t)'
  BY <1>1 DEF Free, Under, Loose, Unsettled, rowVars, hostVars
<1>3. Moves(t)
  BY <1>2 DEF Moves
<1> QED BY <1>0, <1>1, <1>3, QuietSole
     DEF rowVars, procVars, opVars, hostVars, Handled, Handling, Deciding, Finals, Collecting,
         Settling, Starting, Started

LEMMA DecidersSole ==
  ASSUME Sound, Sole, CompleteChecks \/ ReviewVerdict \/ Rereview \/ HandleFailure \/ Admit
  PROVE  Sole'
<1>0. PICK t \in Tasks : t = tgt
  BY Subject DEF CompleteChecks, ReviewVerdict, Rereview, HandleFailure, Admit
<1>1. pc \in Deciding /\ Handling /\ Running(tgt) = {}
  BY Idle DEF CompleteChecks, ReviewVerdict, Rereview, HandleFailure, Admit, Deciding, Handling, Sole
<1>2. CASE Throw
  BY <1>1, <1>2, ThrowSole
<1>3. CASE Block \/ (Goto("reserve") /\ UNCHANGED <<taskVars, rowVars, procVars, opVars, hostVars>>)
  BY <1>1, <1>3, DecideSole DEF Block, Goto, loop, locals, taskVars
<1>4. ASSUME NEW to, SetTask(tgt, to), UNCHANGED <<rowVars, procVars, opVars, hostVars, loop>>,
             pc' = "pass" \/ (pc' = "admit" /\ UNCHANGED <<cur, tgt>>)
      PROVE  Sole'
  <2>1. \A u \in Tasks : u # tgt => task'[u] = task[u] /\ parked'[u] = parked[u]
    BY <1>0, <1>4, SetTaskOnly
  <2> QED BY <1>1, <1>4, <2>1, DecideSole DEF loop
<1>5. ASSUME NEW to, Leave(to)
      PROVE  Sole'
  BY <1>2, <1>4, <1>5 DEF Leave, Goto
<1>6. CASE Accept
  BY <1>2, <1>4, <1>6 DEF Accept, Goto
<1>7. ASSUME NEW k, NEW to, Enter(k, to)
      PROVE  Sole'
  BY <1>2, <1>4, <1>7 DEF Enter
<1>8. ASSUME NEW k, Defer(k)
      PROVE  Sole'
  <2>1. \A u \in Tasks : u # tgt => task'[u] = task[u] /\ parked'[u] = parked[u]
    BY <1>0, <1>8 DEF Defer, taskVars, Sound, Data, RowsTyped
  <2> QED BY <1>1, <1>8, <2>1, DecideSole DEF Defer, Goto, loop
<1>9. CASE CompleteChecks
  BY <1>3, <1>5, <1>6, <1>7, <1>8, <1>9 DEF CompleteChecks
<1>10. CASE ReviewVerdict
  BY <1>3, <1>5, <1>6, <1>7, <1>10 DEF ReviewVerdict
<1>11. CASE Rereview
  BY <1>2, <1>3, <1>7, <1>8, <1>11 DEF Rereview
<1>12. CASE HandleFailure
  BY <1>2, <1>3, <1>5, <1>7, <1>8, <1>12 DEF HandleFailure
<1>13. CASE Admit
  BY <1>2, <1>3, <1>8, <1>13 DEF Admit
<1> QED BY <1>9, <1>10, <1>11, <1>12, <1>13

\* The steps of a launch that leave its stages and its attempt as they are.
LEMMA LaunchingSole ==
  ASSUME Sound, Watched, Sole,
         ReserveAdmission \/ BuildContext \/ WriteSpec \/ Spawn \/ SetAttemptProcess
  PROVE  Sole'
<1>1. /\ pc \in {"grant", "context", "spec", "spawn", "setpid"} /\ Handling /\ pass # "orphans"
      /\ pc \in LaunchSteps /\ NoFinal(tgt)
      /\ pc \in {"grant", "context"} => Running(tgt) = {} /\ attempt[cur] = "none"
  <2>1. pc \in {"grant", "context", "spec", "spawn", "setpid"}
    BY DEF ReserveAdmission, BuildContext, WriteSpec, Spawn, SetAttemptProcess, Settle
  <2> QED BY <2>1, Idle DEF Handling, Sole, Handled, Starting, LaunchSteps, Finals
<1>2. CASE Throw
  <2>1. pc \in {"grant", "context"}
    BY <1>1, <1>2 DEF ReserveAdmission, BuildContext, WriteSpec, Spawn, SetAttemptProcess, Settle,
                      Throw, Unwind, Goto, Rest
  <2> QED BY <1>1, <1>2, <2>1, ThrowSole
<1>3. ASSUME NEW p \in {"activate", "start", "spawn", "setpid", "bind", "unlaunch"},
             p \in {"activate", "start"} <=> pc \in {"grant", "context"}, Goto(p),
             UNCHANGED <<taskVars, owner, kind, stage, attempt, result, opVars, hostVars>>
      PROVE  Sole'
  <2>1. \A t \in Tasks : Moves(t)
    BY <1>3 DEF Moves, taskVars
  <2>2. pc' = p /\ UNCHANGED <<pass, todo, cur, tgt>>
    BY <1>3 DEF Goto, loop, locals
  <2>3. pc \in {"spec", "spawn"} => attempt[cur] \in {"running", "cancelled"}
    BY DEF Watched, Launching
  <2>4. pc = "setpid" => attempt[cur] \in {"running", "cancelled"}
    BY DEF Watched, Launching
  <2>5. task[tgt] \in {"RUNNING", "REVIEWING", "CANCELLED"}
    BY <1>1 DEF Sole, Handled, Starting, Started
  <2>6. Only(tgt, cur)' /\ NoFinal(tgt)' => Handled'
    BY <1>1, <1>3, <2>2, <2>3, <2>4, <2>5
    DEF Handled, Handling, Deciding, Finals, Collecting, Settling, Starting, Started, taskVars
  <2> QED BY <1>1, <1>3, <2>1, <2>2, <2>6, QuietSole
       DEF taskVars, opVars, hostVars, Starting, Started
<1>4. ASSUME NEW outcome \in {"failed", "waiting"}, Settle("context", W(cur), outcome, "BLOCKED", "block")
      PROVE  Sole'
  <2>1. CASE /\ finishStage(W(cur), outcome, "BLOCKED") /\ Goto("block")
             /\ UNCHANGED <<owner, kind, attempt, pid, procVars, opVars, hostVars>>
    <3>1. attempt[cur] # "running" /\ pc \in LaunchSteps /\ NoFinal(tgt)
      BY <1>1, <1>4 DEF Settle
    <3> QED BY <2>1, <3>1, SettledSole
  <2>2. CASE ThrowReleasing(W(cur))
    BY <1>1, <1>4, <2>2, ThrowSole DEF Settle
  <2> QED BY <1>4, <2>1, <2>2 DEF Settle
<1>5. CASE ReserveAdmission
  BY <1>2, <1>3, <1>5 DEF ReserveAdmission, procVars
<1>6. CASE BuildContext
  BY <1>2, <1>3, <1>4, <1>6 DEF BuildContext, procVars, rowVars
<1>7. CASE WriteSpec \/ Spawn \/ SetAttemptProcess
  BY <1>3, <1>7 DEF WriteSpec, Spawn, SetAttemptProcess, procVars, rowVars
<1> QED BY <1>5, <1>6, <1>7

\* The worker stage of the launch in cur advances: activated, bound or adopted.
LEMMA AdvanceSole ==
  ASSUME Sound, Watched, Sole, ActivateAdmission \/ RecordLaunchStarted \/ AdoptLaunchedAttempt
  PROVE  Sole'
<1>0. PICK t \in Tasks, l \in Launches : t = tgt /\ l = cur /\ owner[l] = t
  BY Subject DEF ActivateAdmission, RecordLaunchStarted, AdoptLaunchedAttempt, LaunchSteps
<1>1. /\ pc \in {"activate", "bind", "adopt"} /\ Handling /\ pass # "orphans"
      /\ NoFinal(t) /\ Only(t, l)
      /\ pc = "activate" => Running(t) = {} /\ attempt[l] = "none"
      /\ pc = "bind" => attempt[l] \in {"running", "cancelled"}
      /\ pc = "adopt" => pass = "attempts"
      /\ pc \in {"activate", "bind"} => task[t] \in {"RUNNING", "REVIEWING", "CANCELLED"}
  <2>1. pc \in {"activate", "bind", "adopt"}
    BY DEF ActivateAdmission, RecordLaunchStarted, AdoptLaunchedAttempt
  <2>2. pc = "bind" => attempt[l] \in {"running", "cancelled"}
    BY <1>0 DEF Watched, Launching
  <2> QED BY <1>0, <2>1, <2>2, Idle
       DEF Handling, Sole, Handled, Starting, Started, Finals, Collecting
<1>2. CASE ActivateAdmission /\ Throw
  BY <1>0, <1>1, <1>2, ThrowSole DEF ActivateAdmission
<1>3. CASE RecordLaunchStarted /\ UNCHANGED stage /\ Goto("unlaunch")
  <2>1. \A u \in Tasks : Moves(u)
    BY <1>3 DEF RecordLaunchStarted, Moves, taskVars
  <2>2. pc = "bind" /\ pc' = "unlaunch" /\ UNCHANGED <<pass, todo, cur, tgt>>
    BY <1>3 DEF RecordLaunchStarted, Goto, loop, locals
  <2>3. Only(tgt, cur)' /\ NoFinal(tgt)' => Handled'
    BY <1>0, <1>1, <1>3, <2>2
    DEF RecordLaunchStarted, Handled, Handling, Deciding, Finals, Collecting, Settling, Starting,
        Started, taskVars
  <2> QED BY <1>0, <1>1, <1>3, <2>1, <2>2, <2>3, QuietSole
       DEF RecordLaunchStarted, taskVars, procVars, opVars, hostVars, Starting, Started
<1>4. ASSUME NEW p \in {"context", "pass"}, Goto(p),
             \/ pc = "activate" /\ p = "context" /\ stage[W(cur)] = "reserved"
                                /\ stage' = [stage EXCEPT ![W(cur)] = "launching"]
             \/ pc = "bind" /\ p = "pass" /\ stage[W(cur)] \in {"reserved", "launching"}
                                /\ stage' = [stage EXCEPT ![W(cur)] = "running"]
             \/ /\ pc = "adopt" /\ p = "pass"
                /\ stage' = IF stage[W(cur)] \in {"reserved", "launching"}
                            THEN [stage EXCEPT ![W(cur)] = "running"] ELSE stage,
             UNCHANGED <<taskVars, owner, kind, attempt, procVars, opVars, hostVars>>
      PROVE  Sole'
  <2>1. W(l) \in StageIds /\ W(l) = W(cur) /\ (\A u \in Tasks : C(u) # W(l) /\ C(u) \in StageIds)
    BY <1>0, StageIdsOf DEF W, C
  <2>2. /\ \A s \in StageIds : s # W(l) => stage'[s] = stage[s]
        /\ Unsettled(W(l))' => Unsettled(W(l))
    BY <1>4, <2>1 DEF Sound, Data, RowsTyped, Unsettled
  <2>3. Calm
    BY <1>4, <2>1, <2>2, StageIdsOf DEF Calm, Sole, Finalizing, Unsettled, W, F, procVars, hostVars
  <2>4. pc' = p /\ UNCHANGED <<pass, todo>> /\ (p # "pass" => UNCHANGED <<cur, tgt>>)
    BY <1>4 DEF Goto, loop, locals
  <2>5. Mine
    BY <1>0, <1>1, <1>4, <2>1, <2>2, <2>3, <2>4 DEF Mine, taskVars, opVars
  <2>6. Only(t, l)' /\ NoFinal(t)' /\ (Running(t) = {} => Running(t)' = {}) /\ ~Unsettled(C(t))'
    BY <1>1, <2>3, CalmShrinks DEF Only
  <2>7. Tidy
    <3>1. ASSUME NEW m \in Launches, owner[m] = tgt, Unsettled(F(m))'
          PROVE  FALSE
      BY <1>0, <1>4, <2>6, <3>1 DEF NoFinal
    <3>2. ASSUME NEW m \in Launches, owner[m] = tgt, Loose(m)'
          PROVE  m = l
      BY <1>0, <1>4, <2>6, <3>2 DEF Only, Others, Under
    <3>3. pc = "bind" /\ Loose(l)' => Dropped(l)'
      BY <1>0, <1>1, <1>4 DEF Loose, Dropped, SLOT_HOLDING_STATES, taskVars
    <3> QED BY <1>0, <1>1, <1>4, <2>4, <3>1, <3>2, <3>3 DEF Tidy, Starting
  <2>8. \A u \in Tasks : Moves(u)
    BY <1>4 DEF Moves, taskVars
  <2>9. p # "pass" => Handled'
    <3>1. p # "pass" => Only(tgt, cur)' /\ NoFinal(tgt)' /\ ~Unsettled(C(tgt))'
      BY <1>0, <2>4, <2>6
    <3> QED BY <1>0, <1>1, <1>4, <2>4, <3>1
         DEF Handled, Handling, Deciding, Finals, Collecting, Settling, Starting, Started, taskVars
  <2> QED BY <2>4, <2>5, <2>7, <2>8, <2>9, MineKeeps
<1>5. CASE ActivateAdmission
  BY <1>2, <1>4, <1>5 DEF ActivateAdmission
<1>6. CASE RecordLaunchStarted
  BY <1>3, <1>4, <1>6 DEF RecordLaunchStarted
<1>7. CASE AdoptLaunchedAttempt
  BY <1>4, <1>7 DEF AdoptLaunchedAttempt
<1> QED BY <1>5, <1>6, <1>7

\* A launch l of task t comes under way where nothing else is: its stage is reserved, or its
\* attempt is started.
LEMMA LaunchBegins ==
  ASSUME Sound, Sole, NEW t \in Tasks, NEW l \in Launches, t = tgt, Handling,
         pass # "orphans", pc \notin {"collect", "revise"},
         \A m \in Launches : m # l => owner'[m] = owner[m] /\ kind'[m] = kind[m] /\ attempt'[m] = attempt[m],
         owner'[l] = t, owner[l] \in {t, None}, Only(t, l), NoFinal(t), ~Unsettled(F(l)),
         attempt[l] = "none", attempt'[l] \in {"none", "running"}, attempt'[l] = "running" => owner[l] = t,
         \A s \in StageIds : s # W(l) => stage'[s] = stage[s],
         \A u \in Tasks \ {t} : task'[u] = task[u] /\ parked'[u] = parked[u],
         task'[t] \in {"RUNNING", "REVIEWING", "CANCELLED"},
         task'[t] = "CANCELLED" \/ attempt'[l] = "running" \/ Running(t) = {},
         cur' = l, tgt' = t, pc' \in {"grant", "spec"}, pc' = "grant" <=> attempt'[l] = "none",
         UNCHANGED <<result, procTable, opc, oatt, pass, todo>>
  PROVE  Sole'
<1>1. /\ \A m \in Launches : W(m) \in StageIds /\ F(m) \in StageIds \ {W(l)}
      /\ \A m \in Launches : m # l => W(m) # W(l)
      /\ \A u \in Tasks : C(u) \in StageIds \ {W(l)}
  BY StageIdsOf DEF W, F, C
<1>2. /\ \A m \in Launches : m # l => (Loose(m)' <=> Loose(m)) /\ (Under(m)' <=> Under(m))
      /\ \A m \in Launches : Unsettled(F(m))' <=> Unsettled(F(m))
      /\ \A m \in Launches : m # l => (Unsettled(W(m))' <=> Unsettled(W(m)))
      /\ \A u \in Tasks : Unsettled(C(u))' <=> Unsettled(C(u))
      /\ \A u \in Tasks : u # t => Running(u)' = Running(u)
  <2>1. /\ \A m \in Launches : m # l => (Loose(m)' <=> Loose(m)) /\ (Under(m)' <=> Under(m))
        /\ \A m \in Launches : Unsettled(F(m))' <=> Unsettled(F(m))
        /\ \A m \in Launches : m # l => (Unsettled(W(m))' <=> Unsettled(W(m)))
        /\ \A u \in Tasks : Unsettled(C(u))' <=> Unsettled(C(u))
    BY <1>1 DEF Loose, Under, Unsettled
  <2>2. \A u \in Tasks : u # t => Running(u)' = Running(u)
    BY LaunchAssumption DEF Running
  <2> QED BY <2>1, <2>2
<1>3. /\ Only(t, l)' /\ NoFinal(t)' /\ ~Unsettled(C(t))'
      /\ \A u \in Tasks, m \in Launches : u # t => (Only(u, m) => Only(u, m)')
      /\ \A u \in Tasks : u # t => (Free(u) => Free(u)') /\ (NoFinal(u) => NoFinal(u)')
  <2>1. ~Unsettled(C(t))' /\ Only(t, l)'
    BY <1>2 DEF Only, Others
  <2>2. NoFinal(t)'
    BY <1>2 DEF NoFinal
  <2>3. \A u \in Tasks, m \in Launches : u # t => (Only(u, m) => Only(u, m)')
    BY <1>2 DEF Only, Others
  <2>4. \A u \in Tasks : u # t => (Free(u) => Free(u)') /\ (NoFinal(u) => NoFinal(u)')
    BY <1>2 DEF Free, NoFinal
  <2> QED BY <2>1, <2>2, <2>3, <2>4
<1>4. Exclusive'
  <2>1. ASSUME NEW m \in Launches, Under(m)'
        PROVE  Others(owner[m], m)' /\
               (attempt'[m] = "running" \/ Unsettled(F(m))' \/ (Unsettled(W(m))' /\ attempt'[m] = "none")
                 => ~Unsettled(C(owner[m]))')
    <3>1. CASE owner'[m] = t
      <4>1. m = l
        BY <1>3, <2>1, <3>1 DEF Only, Others
      <4> QED BY <1>3, <4>1 DEF Only, Others
    <3>2. CASE owner'[m] # t
      <4>1. m # l /\ Under(m) /\ owner[m] \in Tasks /\ owner'[m] = owner[m]
        BY <1>2, <2>1, <3>2, UnderOwned
      <4>2. /\ Others(owner[m], m)
            /\ attempt[m] = "running" \/ Unsettled(F(m)) \/ (Unsettled(W(m)) /\ attempt[m] = "none")
                 => ~Unsettled(C(owner[m]))
        BY <4>1 DEF Sole, Exclusive
      <4>3. Others(owner[m], m)'
        BY <1>2, <3>2, <4>1, <4>2 DEF Others
      <4> QED BY <1>2, <4>1, <4>2, <4>3
    <3> QED BY <3>1, <3>2
  <2> QED BY <2>1 DEF Exclusive, Under, Loose
<1>5. Finalizing'
  BY <1>1 DEF Sole, Finalizing, Unsettled, Handling
<1>6. Handled'
  BY <1>3 DEF Handled, Handling, Deciding, Finals, Collecting, Settling, Starting, Started
<1>7. States'
  <2>1. ASSUME NEW u \in Tasks
        PROVE  /\ task'[u] = "READY" \/ (task'[u] = "BLOCKED" /\ parked'[u] # "none") => Running(u)' = {}
               /\ task'[u] \notin {"CHECKING", "CANCELLED"} => ~Unsettled(C(u))'
               /\ task'[u] \notin {"RUNNING", "CHECKING", "CANCELLED"} => NoFinal(u)'
               /\ task'[u] = "DONE" => Free(u)'
               /\ procTable' /\ task'[u] \notin SLOT_HOLDING_STATES \union {"CANCELLED"} => Running(u)' = {}
    <3>1. CASE u = t
      BY <1>3, <3>1 DEF SLOT_HOLDING_STATES
    <3>2. CASE u # t
      BY <1>2, <1>3, <3>2 DEF Sole, States
    <3> QED BY <3>1, <3>2
  <2> QED BY <2>1 DEF States
<1>8. Stopping'
  BY DEF Sole, Stopping, Sound, Data, Targets
<1>9. Listed'
  <2>0. tgt \in Tasks /\ Listed
    BY DEF Sole
  <2>1. Attending'
    <3>1. ASSUME pass = "attempts", NEW x \in todo
          PROVE  x \in Launches /\ owner[x] \in Tasks /\ owner[x] # t /\ Only(owner[x], x) /\ x # l
      BY <2>0, <3>1, LaunchAssumption DEF Sound, Control, Lists, Listed, Attending
    <3>2. ASSUME pass = "attempts", NEW x \in todo
          PROVE  Only(owner[x], x)'
      BY <1>3, <3>1, <3>2 DEF Only, Others
    <3> QED BY <2>0, <3>1, <3>2 DEF Listed, Attending, Handling
  <2>2. ASSUME NEW m \in Launches, Loose(m)', m # l, pass \notin {"attempts", "orphans"}
        PROVE  /\ Only(owner[m], m)'
               /\ pass = "late" \/ (pass = "ready" /\ owner'[m] \notin todo) \/ Dropped(m)'
    <3>1. Loose(m) /\ owner[m] \in Tasks /\ owner'[m] = owner[m] /\ Under(m)
      BY <1>2, <2>2, UnderOwned DEF Under
    <3>2. owner[m] # t
      BY <2>2, <3>1 DEF Only, Others
    <3>3. ~(cur = m /\ pc \in Starting \union Started \union {"unlaunchStage"})
      BY <3>2, Subject DEF LaunchSteps, Starting, Started
    <3>4. /\ Only(owner[m], m)
          /\ pass = "late" \/ (pass = "ready" /\ owner[m] \notin todo) \/ Dropped(m)
      BY <2>0, <2>2, <3>1, <3>3 DEF Listed, Recovered, Handling
    <3>5. Only(owner[m], m)' /\ (Dropped(m) => Dropped(m)')
      BY <1>3, <2>2, <3>1, <3>2, <3>4 DEF Only, Others, Dropped
    <3> QED BY <3>1, <3>4, <3>5
  <2>3. Recovered'
    <3>1. Loose(l)' => attempt'[l] # "running"
      BY DEF Loose
    <3>2. Only(owner[l], l)'
      BY <1>3 DEF Only, Others
    <3> QED BY <2>2, <3>1, <3>2 DEF Recovered, Starting
  <2>4. Awaiting'
    <3>1. ASSUME pass \in {"checks", "pending", "reviews", "ready", "late"}, NEW u \in todo
          PROVE  u \in Tasks \ {t}
      BY <2>0, <3>1 DEF Listed, Awaiting, Apart
    <3> QED BY <1>1, <1>2, <2>0, <3>1 DEF Listed, Awaiting
  <2>5. Apart' /\ Recovering'
    BY <2>0 DEF Listed, Apart, Recovering, Handling
  <2> QED BY <2>1, <2>3, <2>4, <2>5 DEF Listed
<1> QED BY <1>4, <1>5, <1>6, <1>7, <1>8, <1>9 DEF Sole

LEMMA ReserveStageSole ==
  ASSUME Sound, Sole, NEW l \in Launches, ReserveStage(l)
  PROVE  Sole'
<1>0. PICK t \in Tasks : t = tgt
  BY Subject DEF ReserveStage
<1>1. Handling /\ Free(t) /\ Running(t) = {} /\ NoFinal(t) /\ pass # "orphans"
  BY <1>0, FreeIs DEF ReserveStage, Handling, Deciding, Sole, Handled
<1>2. CASE Throw
  BY <1>0, <1>1, <1>2, ThrowSole
<1>3. CASE ~Throw
  <2>1. /\ owner' = [owner EXCEPT ![l] = t] /\ kind' = [kind EXCEPT ![l] = want]
        /\ stage' = [stage EXCEPT ![W(l)] = "reserved"]
        /\ SetTask(t, taskStateForStage(want)) /\ cur' = l /\ pc' = "grant" /\ tgt' = t
        /\ UNCHANGED <<attempt, result, procTable, opc, oatt, pass, todo>>
    BY <1>0, <1>3 DEF ReserveStage, loop, procVars, opVars, hostVars, SetTask
  <2>2. owner[l] = None /\ attempt[l] = "none" /\ stage[F(l)] = "none" /\ pc = "reserve"
    BY DEF ReserveStage, Fresh, Sound, Data, Blank
  <2>3. taskStateForStage(want) \in {"RUNNING", "REVIEWING"}
    BY DEF taskStateForStage, Sound, Control, ControllerTyped, WORKER_STAGES
  <2>4. /\ \A m \in Launches : m # l => owner'[m] = owner[m] /\ kind'[m] = kind[m]
        /\ owner'[l] = t /\ W(l) \in StageIds
        /\ \A s \in StageIds : s # W(l) => stage'[s] = stage[s]
    BY <2>1, StageIdsOf DEF Sound, Data, RowsTyped
  <2>5. task'[t] \in {"RUNNING", "REVIEWING"} /\ \A u \in Tasks \ {t} : task'[u] = task[u] /\ parked'[u] = parked[u]
    BY <2>1, <2>3, SetTaskOnly
  <2>6. Only(t, l)
    BY <1>1 DEF Free, Only, Others
  <2> QED BY <1>0, <1>1, <2>1, <2>2, <2>4, <2>5, <2>6, LaunchBegins DEF Unsettled
<1> QED BY <1>2, <1>3

LEMMA StartAttemptSole ==
  ASSUME Sound, Sole, StartAttempt
  PROVE  Sole'
<1>0. PICK t \in Tasks, l \in Launches : t = tgt /\ l = cur /\ owner[l] = t
  BY Subject DEF StartAttempt, LaunchSteps
<1>1. /\ pc = "start" /\ Handling /\ pass # "orphans" /\ Only(t, l) /\ NoFinal(t) /\ attempt[l] = "none"
      /\ task[t] \in {"RUNNING", "REVIEWING", "CANCELLED"} /\ ~Unsettled(F(l))
  BY <1>0 DEF StartAttempt, Handling, Sole, Handled, Finals, Starting, NoFinal
<1>2. /\ attempt'[l] = "running" /\ \A m \in Launches : m # l => attempt'[m] = attempt[m]
      /\ pc' = "spec" /\ cur' = l /\ tgt' = t
      /\ UNCHANGED <<task, parked, owner, kind, stage, result, procTable, opc, oatt, pass, todo>>
  BY <1>0 DEF StartAttempt, Goto, locals, loop, taskVars, procVars, opVars, hostVars, Sound, Data, RowsTyped
<1> QED BY <1>0, <1>1, <1>2, LaunchBegins
-----------------------------------------------------------------------------
(* The steps of the passes.                                                *)

\* The pass takes x off its list: it is done with it, or hands its task to a handler.
LEMMA PassSole ==
  ASSUME Sound, Sole, pc = "pass", pass # "attempts", NEW x \in todo, todo' = todo \ {x},
         Calm, UNCHANGED <<attempt, pass, opc, oatt>>,
         \A u \in Tasks : Moves(u),
         \A u \in Tasks : task'[u] = task[u] \/ Free(u)' \/ task'[u] \in SLOT_HOLDING_STATES,
         \A u \in Tasks : u # x => stage'[C(u)] = stage[C(u)],
         pass = "reviews" => \A u \in Tasks : u # x => task'[u] = task[u],
         pass = "orphans" => \A m \in Launches : IF W(m) = x THEN ~Loose(m)' ELSE stage'[W(m)] = stage[W(m)],
         \/ pc' = "pass"
         \/ /\ Handled' /\ pc' \notin {"idle", "down"}
            /\ IF pass = "orphans" THEN cur' \in Launches /\ Unsettled(F(cur')) ELSE tgt' = x
  PROVE  Sole'
<1>1. Exclusive' /\ States' /\ Stopping'
  BY CalmExclusive, StatesMove, StoppingKeeps DEF Sole
<1>2. Finalizing'
  BY DEF Sole, Finalizing, Calm
<1>3. Handled'
  BY PassHandled
<1>4. ASSUME NEW m \in Launches, Loose(m)'
      PROVE  /\ Loose(m) /\ owner[m] \in Tasks /\ owner'[m] = owner[m]
             /\ Only(owner[m], m) => Only(owner[m], m)'
             /\ Dropped(m) => Dropped(m)'
  <2>1. Loose(m) /\ Under(m)
    BY <1>4 DEF Loose, Calm, Under
  <2>2. owner[m] \in Tasks /\ owner'[m] = owner[m]
    BY <2>1, UnderOwned DEF Calm
  <2>3. Only(owner[m], m) => Only(owner[m], m)'
    BY <2>2, CalmShrinks DEF Only, Others
  <2>4. ~Free(owner[m])'
    BY <1>4, <2>2 DEF Free, Under
  <2>5. Dropped(m) => Dropped(m)'
    BY <2>2, <2>4 DEF Dropped
  <2> QED BY <2>1, <2>2, <2>3, <2>5
<1>5. Recovering'
  <2>1. ASSUME pass = "orphans", NEW m \in Launches, Loose(m)'
        PROVE  \/ W(m) \in todo'
               \/ Dropped(m)' /\ Only(owner[m], m)' /\ ~Unsettled(F(m))' /\ (Handling' => cur' # m)
    <3>1. \/ W(m) \in todo
          \/ Dropped(m) /\ Only(owner[m], m) /\ ~Unsettled(F(m))
      BY <1>4, <2>1 DEF Sole, Listed, Recovering
    <3>2. ~Unsettled(F(m)) => ~Unsettled(F(m))' /\ (Handling' => cur' # m)
      BY <2>1 DEF Calm, Handling
    <3> QED BY <1>4, <2>1, <3>1, <3>2
  <2> QED BY <2>1 DEF Recovering
<1>6. Recovered'
  <2>1. ASSUME pass # "orphans", NEW m \in Launches, Loose(m)'
        PROVE  /\ Only(owner[m], m)'
               /\ pass = "late" \/ (pass = "ready" /\ owner'[m] \notin todo') \/ Dropped(m)'
    <3>1. /\ Only(owner[m], m)
          /\ pass = "late" \/ (pass = "ready" /\ owner[m] \notin todo) \/ Dropped(m)
      BY <1>4, <2>1 DEF Sole, Listed, Recovered, Starting, Started
    <3> QED BY <1>4, <2>1, <3>1
  <2> QED BY <2>1 DEF Recovered
<1>7. Awaiting'
  <2>1. pass \in {"checks", "pending", "reviews", "ready", "late"} => todo' \subseteq Tasks \ {x}
    BY DEF Sole, Listed, Awaiting
  <2>2. ASSUME pass = "reviews", NEW u \in todo'
        PROVE  Running(u)' = {} /\ task'[u] \in {"BLOCKED", "READY", "CANCELLED"}
    BY <2>1, <2>2, CalmShrinks DEF Sole, Listed, Awaiting
  <2>3. ASSUME pass \in {"checks", "late"}, NEW u \in todo'
        PROVE  Unsettled(C(u))' \/ stage'[C(u)] = "cancelled"
    BY <2>1, <2>3 DEF Sole, Listed, Awaiting, Unsettled
  <2>4. ASSUME pass = "orphans", NEW m \in Launches, W(m) \in todo'
        PROVE  Unsettled(W(m))' \/ stage'[W(m)] = "cancelled"
    BY <2>4 DEF Sole, Listed, Awaiting, Unsettled
  <2> QED BY <2>1, <2>2, <2>3, <2>4 DEF Awaiting
<1>8. Attending' /\ Apart'
  BY DEF Attending, Apart, Handling
<1> QED BY <1>1, <1>2, <1>3, <1>5, <1>6, <1>7, <1>8 DEF Sole, Listed

\* The pass is done with x, of which it changes at most the state of a free task.
LEMMA DropSole ==
  ASSUME Sound, Sole, NEW x, Drop(x), pass # "attempts",
         UNCHANGED <<owner, kind, stage, attempt, result, procTable, opc, oatt>>,
         pass = "orphans" => \A m \in Launches : W(m) = x => ~Loose(m),
         UNCHANGED taskVars \/ (x \in Tasks /\ Free(x) /\ \E to : SetTask(x, to))
  PROVE  Sole'
<1>1. Calm
  BY SameCalm DEF Sole
<1>2. pc = "pass" /\ x \in todo /\ todo' = todo \ {x} /\ pc' = "pass" /\ pass' = pass
  BY DEF Drop, Take
<1>3. x \in Tasks /\ Free(x) => Free(x)'
  BY <1>1, CalmShrinks
<1>4. /\ \A u \in Tasks : task'[u] = task[u] \/ Free(u)'
      /\ \A u \in Tasks : u # x => task'[u] = task[u]
      /\ \A u \in Tasks : Moves(u)
  <2>1. CASE UNCHANGED taskVars
    BY <2>1 DEF Moves, taskVars
  <2>2. CASE x \in Tasks /\ Free(x) /\ \E to : SetTask(x, to)
    BY <1>3, <2>2, SetTaskOnly DEF Moves
  <2> QED BY <2>1, <2>2
<1>5. \A m \in Launches : ~Loose(m) => ~Loose(m)'
  BY DEF Loose, Unsettled
<1> QED BY <1>1, <1>2, <1>4, <1>5, PassSole

LEMMA StrandedTaskSole ==
  ASSUME Sound, Sole, NEW t \in Tasks, StrandedTask(t)
  PROVE  Sole'
<1>0. pass = "stranded"
  BY DEF StrandedTask
<1>1. CASE Throw
  BY <1>0, <1>1, ThrowSole
<1>2. CASE Drop(t) /\ UNCHANGED taskVars /\ UNCHANGED <<rowVars, procVars, opVars, hostVars>>
  BY <1>0, <1>2, DropSole DEF rowVars, procVars, opVars, hostVars
<1>3. CASE /\ Running(t) = {} /\ ~\E s \in StageIds : TaskOf(s) = t /\ Active(s)
           /\ SetTask(t, "BLOCKED") /\ Drop(t)
           /\ UNCHANGED <<rowVars, procVars, opVars, hostVars>>
  <2>1. Free(t)
    <3>1. ~Unsettled(C(t))
      BY <1>3, StageIdsOf DEF TaskOf, C, Active, Unsettled, ACTIVE_STAGE_STATES
    <3>2. ASSUME NEW m \in Launches, owner[m] = t
          PROVE  ~Unsettled(W(m)) /\ ~Unsettled(F(m)) /\ attempt[m] # "running"
      BY <1>3, <3>2, StageIdsOf DEF TaskOf, W, F, Active, Unsettled, ACTIVE_STAGE_STATES, Running
    <3> QED BY <3>1, <3>2 DEF Free, Under, Loose
  <2> QED BY <1>0, <1>3, <2>1, DropSole DEF rowVars, procVars, opVars, hostVars
<1> QED BY <1>1, <1>2, <1>3 DEF StrandedTask

\* Recovery comes to a listed worker stage.
LEMMA OrphanWorkerStageSole ==
  ASSUME Sound, Sole, NEW l \in Launches, OrphanWorkerStage(l)
  PROVE  Sole'
<1>0. /\ pass = "orphans" /\ pc = "pass" /\ W(l) \in todo /\ todo' = todo \ {W(l)} /\ pc' = "pass"
      /\ UNCHANGED <<pass, owner, kind, attempt, result, procTable, opc, oatt>>
      /\ W(l) \in StageIds /\ TaskOf(W(l)) = owner[l]
  BY StageIdsOf DEF OrphanWorkerStage, Drop, Take, procVars, hostVars, opVars, TaskOf, W
<1>1. PICK t \in Tasks : t = owner[l]
  BY <1>0 DEF Sound, Control, Lists
<1>2. /\ \A m \in Launches : W(m) = W(l) <=> m = l
      /\ \A m \in Launches : F(m) # W(l) /\ W(m) \in StageIds
      /\ \A u \in Tasks : C(u) # W(l) /\ C(u) \in StageIds
  BY StageIdsOf, LaunchAssumption DEF W, F, C
<1>3. CASE attempt[l] = "running"
  <2>1. UNCHANGED <<taskVars, stage>> /\ \A m \in Launches : W(m) = W(l) => ~Loose(m)
    BY <1>2, <1>3 DEF OrphanWorkerStage, Loose
  <2> QED BY <1>0, <2>1, DropSole DEF OrphanWorkerStage
<1>4. ASSUME NEW st \in {"succeeded", "failed", "cancelled", "unknown"}, NEW to, finishStage(W(l), st, to),
             attempt[l] # "running", to = task[t] \/ attempt[l] = "none"
      PROVE  Sole'
  <2>1. Active(W(l)) /\ stage' = [stage EXCEPT ![W(l)] = st] /\ SetTask(t, to)
    BY <1>0, <1>1, <1>4 DEF finishStage, MayFinish
  <2>2. Calm /\ ~Unsettled(W(l))'
    BY <1>0, <1>2, <2>1, SettleCalm DEF Sole
  <2>3. \A m \in Launches : IF W(m) = W(l) THEN ~Loose(m)' ELSE stage'[W(m)] = stage[W(m)]
    BY <1>2, <2>1, <2>2 DEF Sound, Data, RowsTyped, Loose
  <2>4. \A u \in Tasks : stage'[C(u)] = stage[C(u)]
    BY <1>2, <2>1 DEF Sound, Data, RowsTyped
  <2>5. /\ task'[t] = to /\ parked'[t] = "none"
        /\ \A u \in Tasks : u # t => task'[u] = task[u] /\ parked'[u] = parked[u]
    BY <2>1, SetTaskOnly
  <2>6. CASE to = task[t]
    <3>1. \A u \in Tasks : task'[u] = task[u] /\ Moves(u)
      BY <2>5, <2>6 DEF Moves
    <3> QED BY <1>0, <2>2, <2>3, <2>4, <3>1, PassSole
  <2>7. CASE attempt[l] = "none"
    <3>1. Unsettled(W(l)) /\ Loose(l)
      BY <1>0, <2>1, <2>7 DEF Sole, Listed, Awaiting, Active, Unsettled, ACTIVE_STAGE_STATES, Loose
    <3>2. Others(t, l) /\ ~Unsettled(C(t)) /\ ~Unsettled(F(l))
      BY <1>1, <2>7, <3>1 DEF Sole, Exclusive, Under, Finalizing
    <3>3. ~Under(l)' /\ ~Unsettled(C(t))'
      BY <1>0, <1>4, <2>2, <2>3, <3>2 DEF Under, Calm
    <3>4. \A m \in Launches : Under(m)' => Under(m)
      BY <2>2, CalmShrinks
    <3>5. Free(t)'
      BY <1>0, <3>2, <3>3, <3>4 DEF Free, Others
    <3>6. \A u \in Tasks : Moves(u) /\ (task'[u] = task[u] \/ Free(u)')
      BY <2>5, <3>5 DEF Moves
    <3> QED BY <1>0, <2>2, <2>3, <2>4, <3>6, PassSole
  <2> QED BY <1>4, <2>6, <2>7
<1>5. AttemptOutcome(l) \in {"succeeded", "failed", "cancelled"}
  BY DEF AttemptOutcome
<1> QED BY <1>1, <1>3, <1>4, <1>5 DEF OrphanWorkerStage

\* Recovery comes to the finalize stage of a completed implementation.
LEMMA OrphanFinalizeStageSole ==
  ASSUME Sound, Sole, NEW l \in Launches, OrphanFinalizeStage(l)
  PROVE  Sole'
<1>0. pass = "orphans" /\ \A m \in Launches : W(m) # F(l)
  BY DEF OrphanFinalizeStage, W, F
<1>1. CASE Throw
  BY <1>0, <1>1, ThrowSole
<1>2. CASE Drop(F(l)) /\ UNCHANGED <<taskVars, rowVars, procVars, opVars, hostVars>>
  <2>1. /\ UNCHANGED <<taskVars, owner, kind, stage, attempt, result, procTable, opc, oatt>>
        /\ pass = "orphans" => \A m \in Launches : W(m) = F(l) => ~Loose(m)
    BY <1>0, <1>2 DEF rowVars, procVars, opVars, hostVars
  <2> QED BY <1>0, <1>2, <2>1, DropSole
<1>3. CASE /\ Take(F(l), "schedule", l, owner[l], kind[l])
           /\ finishStage(F(l), "succeeded", "CHECKING")
           /\ UNCHANGED <<owner, kind, attempt, pid, procVars, opVars, hostVars>>
  <2>0. /\ pc = "pass" /\ F(l) \in todo /\ todo' = todo \ {F(l)} /\ pc' = "schedule"
        /\ cur' = l /\ tgt' = owner[l]
        /\ UNCHANGED <<pass, owner, kind, attempt, result, procTable, opc, oatt>>
        /\ F(l) \in StageIds /\ TaskOf(F(l)) = owner[l]
    BY <1>3, StageIdsOf DEF Take, procVars, hostVars, opVars, TaskOf, F
  <2>1. PICK t \in Tasks : t = owner[l]
    BY <1>0, <2>0 DEF Sound, Control, Lists
  <2>2. /\ Active(F(l)) /\ stage' = [stage EXCEPT ![F(l)] = "succeeded"] /\ SetTask(t, "CHECKING")
        /\ Unsettled(F(l)) /\ Under(l)
    <3>1. Active(F(l)) /\ stage' = [stage EXCEPT ![F(l)] = "succeeded"] /\ SetTask(t, "CHECKING")
      BY <1>3, <2>0, <2>1 DEF finishStage, MayFinish
    <3> QED BY <3>1 DEF Sole, Finalizing, Active, Unsettled, ACTIVE_STAGE_STATES, Under
  <2>3. Calm /\ ~Unsettled(F(l))'
    BY <2>0, <2>2, SettleCalm DEF Sole
  <2>4. attempt[l] \notin {"none", "running"} /\ Only(t, l)
    BY <1>0, <2>0, <2>1, <2>2 DEF Sole, Finalizing, Exclusive, Only
  <2>5. /\ task'[t] = "CHECKING" /\ \A u \in Tasks : u # t => task'[u] = task[u] /\ parked'[u] = parked[u]
    BY <2>2, SetTaskOnly
  <2>6. Only(t, l)' /\ NoFinal(t)'
    <3>1. Only(t, l)'
      BY <2>3, <2>4, CalmShrinks
    <3> QED BY <2>3, <3>1 DEF Only, Others, NoFinal, Under
  <2>7. \A u \in Tasks : Moves(u) /\ (task'[u] = task[u] \/ task'[u] \in SLOT_HOLDING_STATES)
    BY <2>5, <2>6 DEF Moves, SLOT_HOLDING_STATES, Only
  <2>8. /\ \A u \in Tasks : stage'[C(u)] = stage[C(u)]
        /\ \A m \in Launches : stage'[W(m)] = stage[W(m)]
    BY <2>2, StageIdsOf DEF Sound, Data, RowsTyped, C, F, W
  <2>9. Handled'
    <3>1. Only(tgt, cur)' /\ NoFinal(tgt)'
      BY <2>0, <2>1, <2>6
    <3> QED BY <1>0, <2>0, <2>4, <3>1
         DEF Handled, Handling, Deciding, Finals, Collecting, Settling, Starting, Started
  <2> QED BY <1>0, <2>0, <2>2, <2>3, <2>7, <2>8, <2>9, PassSole
<1> QED BY <1>1, <1>2, <1>3 DEF OrphanFinalizeStage

\* A check that a pass comes to is settled where nothing else is under way.
LEMMA CheckSettles ==
  ASSUME Sound, Sole, NEW t \in todo, pc = "pass", pass \in {"checks", "late"}, todo' = todo \ {t},
         NEW st \in {"succeeded", "waiting", "unknown"}, NEW to, finishStage(C(t), st, to),
         UNCHANGED <<owner, kind, attempt, result, procTable, opc, oatt, pass>>,
         pc' = "pass" \/ (pc' = "decide" /\ tgt' = t)
  PROVE  Sole'
<1>1. t \in Tasks /\ C(t) \in StageIds /\ TaskOf(C(t)) = t
  BY StageIdsOf DEF Sole, Listed, Awaiting, C, TaskOf
<1>2. Active(C(t)) /\ stage' = [stage EXCEPT ![C(t)] = st] /\ SetTask(t, to)
  BY <1>1 DEF finishStage, MayFinish
<1>3. Unsettled(C(t))
  BY <1>2 DEF Sole, Listed, Awaiting, Active, Unsettled, ACTIVE_STAGE_STATES
<1>4. \A m \in Launches : owner[m] = t => ~Under(m)
  <2>1. SUFFICES ASSUME NEW m \in Launches, owner[m] = t, Under(m)
                 PROVE  FALSE
    OBVIOUS
  <2>2. Loose(m)
    BY <1>3, <2>1 DEF Sole, Exclusive, Under
  <2> QED BY <1>3, <2>1, <2>2 DEF Sole, Listed, Recovered, Only
<1>5. Calm /\ ~Unsettled(C(t))'
  <2>1. \A m \in Launches : C(t) # F(m)
    BY DEF C, F
  <2> QED BY <1>1, <1>2, <2>1, SettleCalm DEF Sole
<1>6. Free(t)'
  <2>1. \A m \in Launches : Under(m)' => Under(m)
    BY <1>5, CalmShrinks
  <2> QED BY <1>4, <1>5, <2>1 DEF Free
<1>7. /\ task'[t] = to /\ parked'[t] = "none"
      /\ \A u \in Tasks : u # t => task'[u] = task[u] /\ parked'[u] = parked[u]
  BY <1>1, <1>2, SetTaskOnly
<1>8. \A u \in Tasks : Moves(u) /\ (task'[u] = task[u] \/ Free(u)')
  BY <1>6, <1>7 DEF Moves
<1>9. \A u \in Tasks : u # t => stage'[C(u)] = stage[C(u)]
  BY <1>2, StageIdsOf DEF Sound, Data, RowsTyped, C
<1>10. pc' = "decide" => Handled'
  <2>1. pc' = "decide" => Free(tgt)'
    BY <1>6
  <2> QED BY <2>1
       DEF Free, NoFinal, Under, Only, Others, Handled, Handling, Deciding, Finals, Collecting, Settling, Starting, Started
<1> QED BY <1>5, <1>8, <1>9, <1>10, PassSole

LEMMA CheckPassSole ==
  ASSUME Sound, Sole, NEW t \in Tasks, CollectCheck(t) \/ CheckPending(t)
  PROVE  Sole'
<1>0. pass \in {"checks", "late"}
  BY DEF CollectCheck, CheckPending
<1>1. CASE Throw
  BY <1>0, <1>1, ThrowSole
<1>2. CASE Take(t, "decide", None, t, "implement") /\ CollectCheck(t) /\ ~Throw
  BY <1>0, <1>2, CheckSettles DEF CollectCheck, Take, procVars, hostVars, opVars
<1>3. CASE CheckPending(t)
  <2>1. CASE UNCHANGED <<taskVars, rowVars>>
    BY <1>0, <1>3, <2>1, DropSole DEF CheckPending, rowVars, procVars, hostVars, opVars
  <2>2. CASE \E st \in {"waiting", "unknown"} : finishStage(C(t), st, "BLOCKED")
    BY <1>0, <1>3, <2>2, CheckSettles DEF CheckPending, rowVars, Drop, Take, procVars, hostVars, opVars, finishStage
  <2> QED BY <1>3, <2>1, <2>2 DEF CheckPending
<1> QED BY <1>1, <1>2, <1>3 DEF CollectCheck

\* A task that waits for its dispatch, or for its work to be resumed, is free.
LEMMA WaitingFree ==
  ASSUME Sound, Sole, NEW t \in Tasks, pc = "pass", pass \in {"pending", "reviews", "ready"},
         task[t] \in {"READY", "BLOCKED"}, Running(t) = {}, pass = "ready" => t \in todo
  PROVE  Free(t)
<1>1. ~Unsettled(C(t)) /\ NoFinal(t)
  BY DEF Sole, States
<1>2. \A m \in Launches : owner[m] = t => ~Loose(m)
  BY DEF Sole, Listed, Recovered, Dropped, SLOT_HOLDING_STATES, Starting, Started
<1> QED BY <1>1, <1>2 DEF Free, Under, NoFinal, Running

\* The tick takes up a free task.
LEMMA TakenUpSole ==
  ASSUME Sound, Sole, NEW t \in Tasks, Free(t), pass \in {"pending", "reviews", "ready"},
         NEW k, Take(t, "admit", None, t, k), NEW to, SetTask(t, to),
         UNCHANGED <<owner, kind, stage, attempt, result, procTable, opc, oatt>>
  PROVE  Sole'
<1>1. Calm /\ Free(t)'
  BY SameCalm, CalmShrinks DEF Sole
<1>2. \A u \in Tasks : Moves(u) /\ (u # t => task'[u] = task[u]) /\ (task'[u] = task[u] \/ Free(u)')
  BY <1>1, SetTaskOnly DEF Moves
<1>3. pc = "pass" /\ t \in todo /\ todo' = todo \ {t} /\ pc' = "admit" /\ pass' = pass /\ tgt' = t
  BY DEF Take
<1>4. Handled'
  <2>1. Free(tgt)'
    BY <1>1, <1>3
  <2> QED BY <1>3, <2>1
       DEF Free, NoFinal, Under, Only, Others, Handled, Handling, Deciding, Finals, Collecting, Settling, Starting, Started
<1> QED BY <1>1, <1>2, <1>3, <1>4, PassSole

LEMMA DispatchSole ==
  ASSUME Sound, Sole, NEW t \in Tasks, Dispatch(t)
  PROVE  Sole'
<1>1. pass = "ready" /\ pc = "pass" /\ t \in todo
  BY DEF Dispatch, Take, Drop
<1>2. task[t] = "READY" => Free(t)
  BY <1>1, WaitingFree DEF Sole, States
<1>3. UNCHANGED <<owner, kind, stage, attempt, result, procTable, opc, oatt>>
  BY DEF Dispatch, rowVars, procVars, hostVars, opVars
<1>4. \/ task[t] = "READY" /\ SetTask(t, "RUNNING") /\ Take(t, "admit", None, t, "implement")
      \/ task[t] = "READY" /\ SetTask(t, "BLOCKED") /\ Drop(t)
      \/ Drop(t) /\ UNCHANGED taskVars
  BY DEF Dispatch
<1> QED BY <1>1, <1>2, <1>3, <1>4, TakenUpSole, DropSole

LEMMA ResumeParkedSole ==
  ASSUME Sound, Sole, NEW t \in Tasks, ResumeParked(t)
  PROVE  Sole'
<1>1. pass = "pending" /\ pc = "pass" /\ t \in todo
  BY DEF ResumeParked, Take, Drop
<1>2. task[t] = "BLOCKED" /\ parked[t] \in {"implement", "repair"} => Free(t)
  BY <1>1, WaitingFree DEF Sole, States
<1>3. UNCHANGED <<owner, kind, stage, attempt, result, procTable, opc, oatt>>
  BY DEF ResumeParked, rowVars, procVars, hostVars, opVars
<1>4. \/ /\ task[t] = "BLOCKED" /\ parked[t] \in {"implement", "repair"}
         /\ SetTask(t, "RUNNING") /\ Take(t, "admit", None, t, parked[t])
      \/ Drop(t) /\ UNCHANGED taskVars
  BY DEF ResumeParked
<1> QED BY <1>1, <1>2, <1>3, <1>4, TakenUpSole, DropSole

LEMMA ResumeReviewSole ==
  ASSUME Sound, Sole, NEW t \in Tasks, ResumeReview(t)
  PROVE  Sole'
<1>1. pass = "reviews" /\ pc = "pass" /\ t \in todo
  BY DEF ResumeReview, Take, Drop
<1>2. May(t, "REVIEWING") => Free(t)
  <2>1. Running(t) = {} /\ task[t] \in {"BLOCKED", "READY", "CANCELLED"}
    BY <1>1 DEF Sole, Listed, Awaiting
  <2>2. May(t, "REVIEWING") => task[t] = "BLOCKED"
    BY <2>1 DEF May, Reachable, canTransition, TRANSITIONS
  <2> QED BY <1>1, <2>1, <2>2, WaitingFree
<1>3. \/ /\ May(t, "REVIEWING") /\ SetTask(t, "REVIEWING") /\ Take(t, "admit", None, t, "review")
         /\ UNCHANGED <<rowVars, procVars, opVars, hostVars>>
      \/ Drop(t) /\ UNCHANGED <<taskVars, rowVars, procVars, opVars, hostVars>>
      \/ Throw
  BY DEF ResumeReview
<1> QED BY <1>1, <1>2, <1>3, TakenUpSole, DropSole, ThrowSole DEF rowVars, procVars, hostVars, opVars

LEMMA ResumeOperationalSole ==
  ASSUME Sound, Sole, NEW t \in Tasks, ResumeOperational(t)
  PROVE  Sole'
<1>1. pass = "ready" /\ pc = "pass" /\ t \in todo /\ task[t] = "READY"
  BY DEF ResumeOperational, Take, Drop
<1>2. Free(t) /\ NoFinal(t) /\ Running(t) = {}
  BY <1>1, WaitingFree, FreeIs DEF Sole, States
<1>3. UNCHANGED <<owner, kind, attempt, result, procTable, opc, oatt>>
  BY DEF ResumeOperational, procVars, hostVars, opVars
<1>4. CASE SetTask(t, "REVIEWING") /\ Take(t, "admit", None, t, "review") /\ UNCHANGED stage
  BY <1>1, <1>2, <1>3, <1>4, TakenUpSole
<1>5. CASE SetTask(t, "CHECKING") /\ Drop(t) /\ stage' = [stage EXCEPT ![C(t)] = "running"]
  <2>1. pc' = "pass" /\ UNCHANGED pass /\ todo' \subseteq todo
    BY <1>5 DEF Drop, Take
  <2>2. \A m \in Launches : owner[m] = t => ~Loose(m)
    BY <1>2 DEF Free, Under
  <2> QED BY <1>1, <1>2, <1>3, <1>5, <2>1, <2>2, CheckBegins
<1> QED BY <1>4, <1>5 DEF ResumeOperational

\* The step changes no row: the controller begins a tick, a pass or the next attempt.
LEMMA SameRows ==
  ASSUME Sound, Sole, UNCHANGED <<taskVars, rowVars, procVars, opVars, hostVars>>
  PROVE  /\ Exclusive' /\ States' /\ Stopping' /\ Calm
         /\ \A t \in Tasks : Moves(t)
         /\ \A m \in Launches : (Loose(m)' <=> Loose(m)) /\ (Unsettled(W(m))' <=> Unsettled(W(m)))
         /\ \A m \in Launches : owner[m] \in Tasks => (Only(owner[m], m) => Only(owner[m], m)')
<1>1. Calm /\ UNCHANGED <<opc, oatt>>
  BY SameCalm DEF Sole, rowVars, procVars, opVars, hostVars
<1>2. \A t \in Tasks : Moves(t)
  BY DEF Moves, taskVars
<1>3. \A m \in Launches : (Loose(m)' <=> Loose(m)) /\ (Unsettled(W(m))' <=> Unsettled(W(m)))
  BY DEF Loose, Unsettled, rowVars, hostVars
<1>4. \A m \in Launches : owner[m] \in Tasks => (Only(owner[m], m) => Only(owner[m], m)')
  <2>1. \A m \in Launches : owner'[m] = owner[m]
    BY <1>1 DEF Calm
  <2> QED BY <1>1, <2>1, CalmShrinks DEF Only, Others
<1> QED BY <1>1, <1>2, <1>3, <1>4, CalmExclusive, StatesMove, StoppingKeeps DEF Sole

LEMMA ProbeSole ==
  ASSUME Sound, Sole, NEW l \in Launches, Probe(l)
  PROVE  Sole'
<1>1. /\ pass = "attempts" /\ pass' = pass /\ pc = "pass" /\ l \in todo /\ todo' = todo \ {l}
      /\ pc' = IF result[l] # "none" THEN "collect" ELSE "verify"
      /\ cur' = l /\ tgt' = owner[l] /\ want' = kind[l]
      /\ UNCHANGED <<taskVars, rowVars, procVars, opVars, hostVars>>
      /\ UNCHANGED <<owner, kind, stage, attempt, result>>
  BY DEF Probe, Take, rowVars, procVars
<1>2. /\ owner[l] \in Tasks /\ attempt[l] # "none" /\ Only(owner[l], l)
      /\ \A x \in todo : x \in Launches /\ owner[x] \in Tasks /\ Only(owner[x], x) /\ attempt[x] # "none"
      /\ \A x, y \in todo : owner[x] = owner[y] => x = y
  BY <1>1 DEF Sole, Listed, Attending, Sound, Control, Lists
<1>3. /\ Exclusive' /\ States' /\ Stopping'
      /\ \A m \in Launches : owner[m] \in Tasks => (Only(owner[m], m) => Only(owner[m], m)')
  BY <1>1, SameRows
<1>4. Finalizing'
  BY <1>1 DEF Sole, Finalizing, Unsettled
<1>5. result[l] = "none" => NoFinal(owner[l])
  BY <1>1, <1>2 DEF Only, Others, NoFinal, Under, Sole, Finalizing
<1>6. Handled'
  <2>1. Only(tgt, cur)' /\ (pc' = "verify" => NoFinal(tgt)')
    <3>1. Only(owner[l], l)'
      BY <1>2, <1>3
    <3>2. Only(tgt, cur)'
      BY <1>1, <3>1 DEF Only, Others
    <3> QED BY <1>1, <1>5, <3>2 DEF NoFinal, Unsettled
  <2> QED BY <1>1, <1>2, <2>1
       DEF Handled, Handling, Deciding, Finals, Collecting, Settling, Starting, Started
<1>7. Attending'
  <2>1. \A x \in todo' : Only(owner[x], x)'
    BY <1>1, <1>2, <1>3
  <2> QED BY <1>1, <1>2, <2>1 DEF Attending
<1>8. Recovering' /\ Recovered' /\ Awaiting' /\ Apart'
  BY <1>1 DEF Recovering, Recovered, Awaiting, Apart
<1> QED BY <1>3, <1>4, <1>6, <1>7, <1>8 DEF Sole, Listed

LEMMA BeginTickSole ==
  ASSUME Sound, Sole, BeginTick
  PROVE  Sole'
<1>1. /\ pass = "attempts" /\ pass' = pass /\ pc = "idle" /\ pc' = "pass" /\ todo' = RunningAttempts
      /\ UNCHANGED <<taskVars, rowVars, procVars, opVars, hostVars>>
      /\ UNCHANGED <<owner, kind, stage, attempt, result>>
  BY DEF BeginTick, rowVars, procVars, Sound, Control, Lists
<1>2. /\ Exclusive' /\ States' /\ Stopping'
      /\ \A m \in Launches : owner[m] \in Tasks => (Only(owner[m], m) => Only(owner[m], m)')
  BY <1>1, SameRows
<1>3. Finalizing' /\ Handled'
  BY <1>1, PassHandled DEF Sole, Finalizing, Unsettled, RunningAttempts
<1>4. Attending'
  <2>1. ASSUME NEW x \in todo'
        PROVE  /\ attempt'[x] # "none" /\ Only(owner[x], x)' /\ \A y \in todo' : owner[x] = owner[y] => x = y
    <3>1. x \in Launches /\ attempt[x] = "running" /\ Under(x) /\ owner[x] \in Tasks
      BY <1>1, <2>1, UnderOwned DEF RunningAttempts, Under
    <3>2. Only(owner[x], x)
      BY <3>1 DEF Sole, Exclusive, Only
    <3> QED BY <1>1, <1>2, <3>1, <3>2 DEF Only, Others, RunningAttempts, Under
  <2> QED BY <1>1, <2>1 DEF Attending, Handling
<1>5. Recovering' /\ Recovered' /\ Awaiting' /\ Apart'
  BY <1>1 DEF Recovering, Recovered, Awaiting, Apart
<1> QED BY <1>2, <1>3, <1>4, <1>5 DEF Sole, Listed

LEMMA EndPassSole ==
  ASSUME Sound, Sole, EndPass
  PROVE  Sole'
<1>1. /\ pc = "pass" /\ todo = {} /\ UNCHANGED <<taskVars, rowVars, procVars, opVars, hostVars>>
      /\ UNCHANGED <<task, parked, owner, kind, stage, attempt, result>>
  BY DEF EndPass, taskVars, rowVars, procVars
<1>2. /\ Exclusive' /\ States' /\ Stopping' /\ Calm /\ (\A t \in Tasks : Moves(t))
      /\ \A m \in Launches : (Loose(m)' <=> Loose(m)) /\ (Unsettled(W(m))' <=> Unsettled(W(m)))
      /\ \A m \in Launches : owner[m] \in Tasks => (Only(owner[m], m) => Only(owner[m], m)')
  BY <1>1, SameRows
<1>3. CASE pass = "late"
  BY <1>1, <1>2, <1>3, Rests DEF EndPass, opVars
<1>4. CASE pass # "late"
  <2>1. /\ pc' = "pass" /\ todo' = Snapshot(pass') /\ pass' = nextPass[pass]
        /\ pass \in Passes /\ pass' \in Passes \ {"attempts"}
        /\ pass' \notin {"attempts", "orphans"} => pass # "attempts"
        /\ pass = "ready" => pass' = "late"
    BY <1>1, <1>4 DEF EndPass, nextPass, Passes, Sound, Control, ControllerTyped
  <2>2. Finalizing' /\ Handled' /\ Attending' /\ Apart'
    BY <1>1, <2>1, PassHandled DEF Sole, Finalizing, Unsettled, Attending, Apart, Handling
  <2>3. Recovering'
    <3>1. ASSUME pass' = "orphans", NEW l \in Launches, Loose(l)
          PROVE  W(l) \in todo'
      BY <2>1, <3>1 DEF Snapshot, Loose, W, StageIds
    <3> QED BY <1>2, <3>1 DEF Recovering
  <2>4. Recovered'
    <3>1. ASSUME pass' \notin {"attempts", "orphans"}, NEW l \in Launches, Loose(l)
          PROVE  Only(owner[l], l)' /\ (pass' = "late" \/ Dropped(l))
      <4>1. owner[l] \in Tasks
        BY <3>1, UnderOwned DEF Under
      <4>2. Only(owner[l], l) /\ (pass = "ready" \/ Dropped(l))
        BY <1>1, <1>4, <2>1, <3>1 DEF Sole, Listed, Recovered, Recovering, Starting, Started
      <4> QED BY <1>2, <2>1, <4>1, <4>2
    <3> QED BY <1>1, <1>2, <3>1 DEF Recovered, Dropped
  <2>5. Awaiting'
    <3>1. pass' = "orphans" => \A l \in Launches : W(l) \in todo' => Unsettled(W(l))
      BY <2>1 DEF Snapshot
    <3>2. pass' \in {"checks", "pending", "reviews", "ready", "late"} => todo' \subseteq Tasks
      BY <2>1 DEF Snapshot
    <3>3. pass' \in {"checks", "late"} => \A t \in todo' : Unsettled(C(t))
      BY <2>1 DEF Snapshot
    <3>4. pass' = "reviews" => \A t \in todo' : t \in Tasks /\ task[t] = "BLOCKED" /\ parked[t] # "none"
      BY <2>1 DEF Snapshot
    <3>5. pass' = "reviews" => \A t \in todo' : Running(t)' = {} /\ task'[t] = "BLOCKED"
      BY <1>1, <3>4 DEF Sole, States, Running
    <3>6. /\ pass' = "orphans" => \A l \in Launches : W(l) \in todo' => Unsettled(W(l))'
          /\ pass' \in {"checks", "late"} => \A t \in todo' : Unsettled(C(t))'
      BY <1>1, <3>1, <3>3 DEF Unsettled
    <3> QED BY <3>2, <3>5, <3>6 DEF Awaiting
  <2> QED BY <1>2, <2>2, <2>3, <2>4, <2>5 DEF Sole, Listed
<1> QED BY <1>3, <1>4
-----------------------------------------------------------------------------
(* The steps of the workers and of the operator, and the crashes.          *)

\* Beside the controller, attempts and stages are cancelled, and the task is cancelled or
\* retried. What becomes loose is what recovery had passed over.
LEMMA BesideSole ==
  ASSUME Sound, Sole, Calm, Stopping', UNCHANGED ctlVars,
         \A l \in Launches : attempt'[l] \in {attempt[l], "cancelled"},
         \A s \in StageIds : stage'[s] \in {stage[s], "cancelled"},
         \A t \in Tasks :
           \/ task'[t] = task[t] /\ parked'[t] \in {parked[t], "none"}
           \/ task'[t] = "CANCELLED"
           \/ task'[t] = "READY" /\ task[t] \in {"BLOCKED", "FAILED"} /\ Running(t) = {},
         UNCHANGED attempt \/ UNCHANGED task
  PROVE  Sole'
<1>1. Exclusive' /\ States'
  BY CalmExclusive, StatesMove DEF Moves, Sole
<1>2. Finalizing'
  BY DEF Sole, Finalizing, Calm, ctlVars
<1>3. Handled'
  <2>1. Handling =>
          /\ tgt \in Tasks /\ Only(tgt, cur)' /\ (NoFinal(tgt) => NoFinal(tgt)')
          /\ (Free(tgt) => Free(tgt)') /\ (Running(tgt) = {} => Running(tgt)' = {})
    BY Subject, GoesOn DEF Handling, ctlVars
  <2>2. pc \in LaunchSteps \union {"schedule"} => cur \in Launches
    BY Subject DEF Sole, Handled
  <2>3. /\ pc \in Starting \union Started \union Settling \union {"keepStage", "keepFinal", "brokenFinal", "brokenStage"}
             => pc \in LaunchSteps \union {"schedule"}
        /\ pc \in {"verify", "collect", "revise"} => pc \in LaunchSteps
    BY DEF Starting, Started, Settling, LaunchSteps
  <2>4. /\ pc \in {"verify", "collect", "revise"} => want' = kind'[cur] /\ attempt'[cur] # "none"
        /\ pc \in Settling \union {"keepStage", "keepFinal", "brokenFinal", "brokenStage"}
             => attempt'[cur] \notin {"none", "running"}
        /\ pc \in Starting => attempt'[cur] = "none"
        /\ pc = "unlaunch" => attempt'[cur] \in {"running", "cancelled"}
    BY <2>2, <2>3 DEF Sole, Handled, Calm, ctlVars, Started
  <2>5. pc \in Starting \union Started => Handling /\ task'[tgt] \in {"RUNNING", "REVIEWING", "CANCELLED"}
    BY <2>1 DEF Sole, Handled, Handling, Starting, Started
  <2>6. UNCHANGED <<pc, pass, todo, cur, tgt, procTable>>
    BY DEF ctlVars, Calm
  <2> QED BY <2>1, <2>4, <2>5, <2>6 DEF Sole, Handled, Handling, Deciding
<1>4. ASSUME NEW l \in Launches, owner[l] \in Tasks, Only(owner[l], l)
      PROVE  Only(owner[l], l)'
  BY <1>4, CalmShrinks DEF Only, Others, Calm
<1>5. ASSUME NEW l \in Launches, Loose(l)'
      PROVE  /\ owner[l] \in Tasks
             /\ Dropped(l) => Dropped(l)'
             /\ Loose(l) \/ (Dropped(l)' /\ Only(owner[l], l)' /\ attempt[l] = "running")
  <2>1. Under(l) /\ owner[l] \in Tasks
    BY <1>5, CalmShrinks, UnderOwned DEF Under
  <2>2. Dropped(l) => Dropped(l)'
    BY <2>1 DEF Dropped, Calm, SLOT_HOLDING_STATES
  <2>3. CASE attempt[l] = "running"
    <3>1. attempt'[l] = "cancelled" /\ procTable /\ task' = task
      BY <1>5, <2>3 DEF Loose, Calm
    <3>2. task[owner[l]] \in SLOT_HOLDING_STATES \union {"CANCELLED"}
      BY <2>1, <2>3, <3>1 DEF Sole, States, Running
    <3>3. Only(owner[l], l)
      BY <2>1, <2>3 DEF Sole, Exclusive, Only
    <3> QED BY <1>4, <2>1, <2>3, <3>1, <3>2, <3>3 DEF Dropped, Calm
  <2>4. CASE attempt[l] # "running"
    BY <1>5, <2>1, <2>2, <2>4, CalmShrinks
  <2> QED BY <2>1, <2>2, <2>3, <2>4
<1>6. Attending'
  <2>1. ASSUME pass = "attempts", NEW x \in todo
        PROVE  Only(owner[x], x)'
    BY <1>4, <2>1 DEF Sole, Listed, Attending, Sound, Control, Lists
  <2> QED BY <2>1 DEF Sole, Listed, Attending, ctlVars, Calm, Sound, Control, Lists, Handling
<1>7. Recovering'
  <2>1. ASSUME pass = "orphans", NEW l \in Launches, Loose(l)'
        PROVE  \/ W(l) \in todo
               \/ Dropped(l)' /\ Only(owner[l], l)' /\ ~Unsettled(F(l))' /\ (Handling => cur # l)
    <3>1. CASE Loose(l)
      BY <1>4, <1>5, <2>1, <3>1 DEF Sole, Listed, Recovering, Calm
    <3>2. CASE attempt[l] = "running" /\ Dropped(l)' /\ Only(owner[l], l)'
      <4>1. ~Unsettled(F(l))
        BY <2>1, <3>2 DEF Sole, Finalizing, Sound, Control, Lists
      <4>2. Handling => attempt[cur] # "running"
        BY <2>1 DEF Sole, Handled, Settling
      <4> QED BY <3>2, <4>1, <4>2 DEF Calm
    <3> QED BY <1>5, <2>1, <3>1, <3>2
  <2> QED BY <2>1 DEF Recovering, ctlVars, Handling
<1>8. Recovered'
  <2>1. ASSUME pc \notin {"idle", "down"}, pass \notin {"attempts", "orphans"}, NEW l \in Launches, Loose(l)'
        PROVE  /\ Only(owner[l], l)' /\ owner'[l] = owner[l]
               /\ \/ cur = l /\ pc \in Starting \union Started \union {"unlaunchStage"}
                  \/ pass = "late"
                  \/ pass = "ready" /\ owner[l] \notin todo
                  \/ Dropped(l)'
    BY <1>4, <1>5, <2>1 DEF Sole, Listed, Recovered, Calm
  <2> QED BY <2>1 DEF Recovered, ctlVars, Starting, Started
<1>9. Awaiting'
  <2>1. pass \in {"checks", "pending", "reviews", "ready", "late"} => todo \subseteq Tasks
    BY DEF Sole, Listed, Awaiting
  <2>2. pass = "orphans" => \A l \in Launches : W(l) \in todo => Unsettled(W(l))' \/ stage'[W(l)] = "cancelled"
    BY StageIdsOf DEF Sole, Listed, Awaiting, Unsettled
  <2>3. pass \in {"checks", "late"} => \A t \in todo : Unsettled(C(t))' \/ stage'[C(t)] = "cancelled"
    BY <2>1, StageIdsOf DEF Sole, Listed, Awaiting, Unsettled
  <2>4. pass = "reviews" => \A t \in todo : Running(t)' = {} /\ task'[t] \in {"BLOCKED", "READY", "CANCELLED"}
    BY <2>1, CalmShrinks DEF Sole, Listed, Awaiting
  <2> QED BY <2>1, <2>2, <2>3, <2>4 DEF Awaiting, ctlVars
<1>10. Apart'
  BY DEF Sole, Listed, Apart, ctlVars, Handling
<1> QED BY <1>1, <1>2, <1>3, <1>6, <1>7, <1>8, <1>9, <1>10 DEF Sole, Listed

\* A step beside the controller that changes no task, stage or attempt.
LEMMA AsideSole ==
  ASSUME Sound, Sole, Stopping', UNCHANGED ctlVars,
         UNCHANGED <<taskVars, owner, kind, stage, attempt, procTable>>,
         \A l \in Launches : result[l] # "none" => result'[l] = result[l]
  PROVE  Sole'
<1>1. Calm
  BY SameCalm DEF Sole
<1> QED BY <1>1, BesideSole DEF taskVars

LEMMA WorkerSole ==
  ASSUME Sound, Watched, Sole, NEW l \in Launches, WorkerMark(l) \/ WorkerComplete(l) \/ WorkerDie(l)
  PROVE  Sole'
<1>1. \A m \in Launches : result[m] # "none" => result'[m] = result[m]
  <2>1. CASE WorkerComplete(l)
    <3>1. \A m \in Launches \ {l} : result'[m] = result[m]
      BY <2>1 DEF WorkerComplete, Sound, Data, WorkersTyped
    <3>2. result[l] = "none"
      BY <2>1 DEF WorkerComplete, Watched, ResultLeft
    <3> QED BY <3>1, <3>2
  <2> QED BY <2>1 DEF WorkerMark, WorkerDie
<1>2. UNCHANGED <<opc, oatt, attempt>> => Stopping'
  BY DEF Sole, Stopping
<1> QED BY <1>1, <1>2, AsideSole DEF WorkerMark, WorkerComplete, WorkerDie, rowVars, opVars, hostVars, Crash

LEMMA CancelAttemptSole ==
  ASSUME Sound, Sole, CancelAttempt
  PROVE  Sole'
<1>1. PICK l \in Launches : l = oatt
  BY DEF CancelAttempt, Sound, Data, Targets
<1>2. attempt[l] # "none" /\ finishAttempt(l, "cancelled")
  BY <1>1 DEF CancelAttempt, Sole, Stopping, finishAttempt
<1>3. UNCHANGED <<owner, kind, stage, result, procTable, task, parked, ctlVars>>
  BY DEF CancelAttempt, procVars, hostVars, taskVars
<1>4. Calm /\ \A m \in Launches : attempt'[m] \in {attempt[m], "cancelled"}
  BY <1>2, <1>3, AttemptCalm DEF Sole
<1>5. Stopping'
  BY DEF CancelAttempt, Stopping
<1> QED BY <1>3, <1>4, <1>5, BesideSole

LEMMA CancelStageSole ==
  ASSUME Sound, Sole, CancelStage
  PROVE  Sole'
<1>1. UNCHANGED <<owner, kind, attempt, result, procTable, ctlVars>> /\ Stopping'
  BY DEF CancelStage, OpDone, Stopping, procVars, hostVars
<1>2. CASE UNCHANGED <<taskVars, stage>>
  BY <1>1, <1>2, AsideSole
<1>3. CASE /\ Active(ostage) /\ stage' = [stage EXCEPT ![ostage] = "cancelled"]
           /\ SetTask(otask, task[otask])
  <2>1. PICK s \in StageIds : s = ostage
    BY <1>3 DEF CancelStage, Sound, Data, Targets
  <2>2. Calm /\ \A r \in StageIds : stage'[r] \in {stage[r], "cancelled"}
    BY <1>1, <1>3, <2>1, SettleCalm DEF Sole, Sound, Data, RowsTyped
  <2>3. \A t \in Tasks : task'[t] = task[t] /\ parked'[t] \in {parked[t], "none"}
    BY <1>3 DEF SetTask, Sound, Data, RowsTyped
  <2> QED BY <1>1, <2>2, <2>3, BesideSole
<1> QED BY <1>2, <1>3 DEF CancelStage

LEMMA OperatorTaskSole ==
  ASSUME Sound, Sole, CancelTask \/ \E t \in Tasks : retryTask(t)
  PROVE  Sole'
<1>1. UNCHANGED <<owner, kind, stage, attempt, result, procTable, ctlVars>> /\ Calm
  <2>1. UNCHANGED <<owner, kind, stage, attempt, result, procTable, ctlVars>>
    BY DEF CancelTask, retryTask, rowVars, procVars, hostVars
  <2> QED BY <2>1, SameCalm DEF Sole
<1>2. Stopping'
  BY <1>1 DEF CancelTask, retryTask, OpDone, opVars, Sole, Stopping
<1>3. ASSUME NEW t \in Tasks
      PROVE  \/ task'[t] = task[t] /\ parked'[t] \in {parked[t], "none"}
             \/ task'[t] = "CANCELLED"
             \/ task'[t] = "READY" /\ task[t] \in {"BLOCKED", "FAILED"} /\ Running(t) = {}
  <2>1. CASE CancelTask
    BY <2>1 DEF CancelTask, SetTask, taskVars, Sound, Data, RowsTyped
  <2>2. ASSUME NEW u \in Tasks, retryTask(u)
        PROVE  \/ task'[t] = task[t] /\ parked'[t] \in {parked[t], "none"}
               \/ task'[t] = "READY" /\ task[t] \in {"BLOCKED", "FAILED"} /\ Running(t) = {}
    BY <2>2, SetTaskOnly DEF retryTask
  <2> QED BY <2>1, <2>2
<1> QED BY <1>1, <1>2, <1>3, BesideSole

LEMMA CancelSole ==
  ASSUME Sound, Sole, Cancel \/ OpCrash
  PROVE  Sole'
<1>1. CASE \/ \E t \in Tasks : CancelRead(t)
           \/ CancelKill \/ CancelList \/ OpCrash
           \/ \E s \in StageIds : CancelLease(s)
  <2>1. UNCHANGED <<taskVars, owner, kind, stage, attempt, procTable, result, ctlVars>>
    BY <1>1 DEF CancelRead, CancelKill, CancelList, OpCrash, CancelLease, rowVars, procVars, hostVars
  <2>2. Stopping'
    BY <1>1, <2>1 DEF CancelRead, CancelKill, CancelList, OpCrash, CancelLease, OpDone, Stopping, Sole, Running
  <2> QED BY <2>1, <2>2, AsideSole
<1> QED BY <1>1, CancelAttemptSole, CancelStageSole, OperatorTaskSole DEF Cancel

\* The controller or the host stops, and the controller starts again.
LEMMA StopSole ==
  ASSUME Sound, Sole, CtlCrash \/ CtlCrashFinishing \/ HostReboot \/ CtlRestart
  PROVE  Sole'
<1>1. UNCHANGED <<task, parked, owner, kind, stage, attempt, procTable, result>>
  BY DEF CtlCrash, CtlCrashFinishing, HostReboot, CtlRestart, Crash, taskVars, rowVars, procVars, hostVars
<1>2. Calm
  BY <1>1, SameCalm DEF Sole
<1>3. UNCHANGED <<opc, oatt>> \/ opc' = "idle"
  BY DEF CtlCrash, CtlCrashFinishing, HostReboot, CtlRestart, OpDone, opVars
<1>4. Rest("idle") \/ Rest("down")
  BY DEF CtlCrash, CtlCrashFinishing, HostReboot, CtlRestart, Rest, loop, Sound, Control, Lists
<1>5. \A t \in Tasks : Moves(t)
  BY <1>1 DEF Moves
<1> QED BY <1>2, <1>3, <1>4, <1>5, Rests

LEMMA SoleInit ==
  ASSUME Init
  PROVE  Sole
<1>1. \A s \in StageIds : stage[s] = "none"
  BY DEF Init
<1>2. /\ \A l \in Launches : ~Unsettled(W(l)) /\ ~Unsettled(F(l)) /\ stage[F(l)] = "none" /\ attempt[l] = "none"
      /\ \A t \in Tasks : ~Unsettled(C(t))
  BY <1>1, StageIdsOf DEF Init, Unsettled
<1>3. \A l \in Launches : ~Under(l) /\ ~Loose(l)
  BY <1>2 DEF Under, Loose
<1>4. Exclusive /\ Finalizing
  BY <1>2, <1>3 DEF Exclusive, Finalizing
<1>5. States
  BY <1>2, <1>3 DEF States, Free, NoFinal, Running
<1>6. Handled /\ Listed /\ Stopping
  BY <1>3 DEF Init, Handled, Handling, Deciding, Finals, Collecting, Settling, Starting, Started,
              Listed, Attending, Recovering, Recovered, Awaiting, Apart, Stopping
<1> QED BY <1>4, <1>5, <1>6 DEF Sole
-----------------------------------------------------------------------------
(* Every step.                                                             *)

LEMMA PassesSole ==
  ASSUME Sound, Watched, Sole, BeginTick \/ EndPass \/ BlockTask \/ Reconcile
  PROVE  Sole'
<1>1. ASSUME NEW l \in Launches, OrphanStageThrows(l)
      PROVE  Sole'
  BY <1>1, ThrowSole DEF OrphanStageThrows
<1> QED BY <1>1, BeginTickSole, EndPassSole, BlockTaskSole, ProbeSole, VerifySole, AdvanceSole, CollectedSole,
           OrphanWorkerStageSole, OrphanFinalizeStageSole, StrandedTaskSole DEF Reconcile

LEMMA CollectSole ==
  ASSUME Sound, Watched, Sole, Collect
  PROVE  Sole'
BY CollectedSole, CollectWorkSole, SettleStagesSole, SettlesSole, ScheduleNextCheckSole, DecidersSole,
   CheckPassSole DEF Collect

LEMMA LaunchSole ==
  ASSUME Sound, Watched, Sole, Launch
  PROVE  Sole'
BY DecidersSole, LaunchingSole, AdvanceSole, StartAttemptSole, CollectedSole, SettlesSole, ReserveStageSole,
   DispatchSole, ResumeOperationalSole, ResumeParkedSole, ResumeReviewSole DEF Launch

LEMMA SoleStep ==
  ASSUME Sound, Watched, Sole, [Next]_vars
  PROVE  Sole'
<1>1. CASE Controller
  BY <1>1, PassesSole, CollectSole, LaunchSole DEF Controller
<1>2. CASE Worker \/ Fault \/ CtlRestart
  BY <1>2, WorkerSole, StopSole, CancelSole DEF Worker, Fault
<1>3. CASE Cancel \/ \E t \in Tasks : retryTask(t)
  BY <1>3, CancelSole, OperatorTaskSole
<1>4. CASE UNCHANGED vars
  <2>1. Stopping'
    BY <1>4 DEF vars, opVars, rowVars, Sole, Stopping
  <2> QED BY <1>4, <2>1, AsideSole DEF vars, rowVars, procVars, hostVars
<1> QED BY <1>1, <1>2, <1>3, <1>4 DEF Next, Uncancelled

\* The three invariants together, and what they say of running attempts.
Held == Sound /\ Watched /\ Sole

LEMMA HeldInductive ==
  /\ Init => Held
  /\ Held /\ [Next]_vars => Held'
<1>1. Init => Held
  <2>1. Init => Watched
    BY DEF Init, Watched, NoWorkerLost, ResultLeft, Launching, Alive
  <2> QED BY <2>1, SoundInit, SoleInit DEF Held
<1> QED BY <1>1, SoundStep, WatchedStep, SoleStep DEF Held

LEMMA HeldAlways == Spec => []Held
BY HeldInductive, PTL DEF Spec

\* A task never has two running attempts: whatever path starts a worker, and wherever crashes,
\* cancellations and retries cut in, the attempt before it was finished.
THEOREM OneAttemptRuns == Spec => []OneRunningAttempt
<1>1. Held => OneRunningAttempt
  <2>1. SUFFICES ASSUME Held, NEW l \in Launches, NEW m \in Launches,
                        attempt[l] = "running", attempt[m] = "running", owner[l] = owner[m]
                 PROVE  l = m
    BY DEF OneRunningAttempt
  <2> QED BY <2>1 DEF Held, Sole, Exclusive, Under, Others
<1> QED BY <1>1, HeldAlways, PTL
-----------------------------------------------------------------------------
(* Ownership of the worktree.                                              *)

\* A launch keeps the task it was reserved for, and the host its process table.
LEMMA RowsStay ==
  ASSUME [Next]_vars, Sound
  PROVE  procTable' = procTable /\ \A l \in Launches : owner'[l] = owner[l] \/ owner[l] = None
<1>1. ASSUME NEW s, Throw \/ ThrowReleasing(s)
      PROVE  UNCHANGED <<owner, procTable>>
  BY <1>1 DEF Throw, ThrowReleasing, Unwind, rowVars, hostVars
<1>2. ASSUME NEW at, NEW outcome, NEW to, NEW next, NEW s,
             SettleStage(at, outcome, to, next) \/ Settle(at, s, outcome, to, next) \/ Skip(at, next)
      PROVE  UNCHANGED <<owner, procTable>>
  BY <1>1, <1>2 DEF SettleStage, Settle, Skip, rowVars, hostVars
<1>3. CASE BeginTick \/ EndPass \/ BlockTask \/ Reconcile
  BY <1>1, <1>3
  DEF BeginTick, EndPass, BlockTask, Reconcile, Probe, VerifyAlive, AdoptLaunchedAttempt, VerifyLaunching,
      VerifyAmbiguous, VerifyLost, OrphanWorkerStage, OrphanStageThrows, OrphanFinalizeStage, StrandedTask,
      rowVars, hostVars
<1>4. CASE Collect
  <2>1. CASE \/ CollectFailed \/ CollectYield \/ CollectWork \/ Revise \/ ScheduleNextCheck
             \/ \E t \in Tasks : CollectCheck(t) \/ CheckPending(t)
    BY <1>1, <2>1
    DEF CollectFailed, CollectYield, CollectWork, Revise, ScheduleNextCheck, CollectCheck, CheckPending,
        rowVars, hostVars
  <2>2. CASE \/ FailStage \/ YieldStage \/ StaleStage \/ ReviewStage
             \/ KeepStage \/ KeepFinal \/ BrokenFinal \/ BrokenStage
    BY <1>2, <2>2 DEF FailStage, YieldStage, StaleStage, ReviewStage, KeepStage, KeepFinal, BrokenFinal, BrokenStage
  <2>3. CASE CompleteChecks \/ ReviewVerdict \/ Rereview \/ HandleFailure
    BY <1>1, <2>3
    DEF CompleteChecks, ReviewVerdict, Rereview, HandleFailure, Accept, Block, Leave, Enter, Defer, rowVars, hostVars
  <2> QED BY <1>4, <2>1, <2>2, <2>3 DEF Collect
<1>5. CASE Launch
  <2>1. CASE \/ Admit \/ ReserveAdmission \/ ActivateAdmission \/ StartAttempt \/ WriteSpec \/ Spawn
             \/ SetAttemptProcess \/ RecordLaunchStarted \/ UnlaunchAttempt
    BY <1>1, <2>1
    DEF Admit, Block, Defer, ReserveAdmission, ActivateAdmission, StartAttempt, WriteSpec, Spawn,
        SetAttemptProcess, RecordLaunchStarted, UnlaunchAttempt, rowVars, hostVars
  <2>2. CASE BuildContext \/ UnlaunchStage
    BY <1>1, <1>2, <2>2 DEF BuildContext, UnlaunchStage, rowVars, hostVars
  <2>3. CASE \E t \in Tasks : Dispatch(t) \/ ResumeOperational(t) \/ ResumeParked(t) \/ ResumeReview(t)
    BY <1>1, <2>3 DEF Dispatch, ResumeOperational, ResumeParked, ResumeReview, rowVars, hostVars
  <2>4. ASSUME NEW l \in Launches, ReserveStage(l)
        PROVE  procTable' = procTable /\ \A m \in Launches : owner'[m] = owner[m] \/ owner[m] = None
    BY <1>1, <2>4 DEF ReserveStage, Fresh, hostVars, Sound, Data, RowsTyped
  <2> QED BY <1>5, <2>1, <2>2, <2>3, <2>4 DEF Launch
<1>6. CASE Worker \/ Fault \/ CtlRestart \/ \E t \in Tasks : retryTask(t)
  BY <1>6 DEF Worker, WorkerMark, WorkerComplete, Fault, CtlCrash, CtlCrashFinishing, OpCrash, HostReboot,
              WorkerDie, CtlRestart, retryTask, Crash, rowVars, hostVars
<1>7. CASE Cancel
  BY <1>7 DEF Cancel, CancelRead, CancelKill, CancelAttempt, CancelList, CancelTask, CancelStage, CancelLease,
              rowVars, hostVars
<1>8. CASE UNCHANGED vars
  BY <1>8 DEF vars, rowVars, hostVars
<1> QED BY <1>3, <1>4, <1>5, <1>6, <1>7, <1>8 DEF Next, Uncancelled, Controller

\* The handler settles the attempt in cur.
Settlement == /\ pc \in {"verify", "collect", "revise", "unlaunch"}
              /\ \E outcome \in {"succeeded", "failed"} : finishAttempt(cur, outcome)

\* An attempt changes its state only in these steps.
LEMMA AttemptMoves ==
  ASSUME [Next]_vars, Sound
  PROVE  UNCHANGED attempt \/ StartAttempt \/ (Cancel /\ CancelAttempt) \/ (Controller /\ Settlement)
<1>1. CASE Reconcile
  BY <1>1, PassesAway DEF Reconcile, Probe, VerifyLost, Settlement, rowVars, Controller
<1>2. CASE Collect
  BY <1>2, PassesAway, HandlersAway
  DEF Collect, CollectFailed, CollectYield, CollectWork, Revise, Settlement, Controller, Throw, rowVars
<1>3. CASE Launch
  <2>1. CASE \/ WriteSpec \/ Spawn \/ SetAttemptProcess \/ RecordLaunchStarted \/ ReserveAdmission
             \/ ActivateAdmission \/ \E l \in Launches : ReserveStage(l)
    BY <2>1 DEF WriteSpec, Spawn, SetAttemptProcess, RecordLaunchStarted, ReserveAdmission, ActivateAdmission,
                ReserveStage, Throw, rowVars
  <2>2. CASE BuildContext
    BY <2>2 DEF BuildContext, Settle, Throw, ThrowReleasing, rowVars
  <2>3. CASE UnlaunchAttempt
    BY <1>3, <2>3 DEF UnlaunchAttempt, Settlement, Controller
  <2> QED BY <1>3, <2>1, <2>2, <2>3, PassesAway, HandlersAway DEF Launch
<1>4. CASE BeginTick \/ EndPass \/ BlockTask
  BY <1>4, PassesAway
<1>5. CASE Worker \/ Fault \/ CtlRestart \/ \E t \in Tasks : retryTask(t)
  BY <1>5 DEF Worker, WorkerMark, WorkerComplete, Fault, CtlCrash, CtlCrashFinishing, OpCrash, HostReboot,
              WorkerDie, CtlRestart, retryTask, rowVars
<1>6. CASE Cancel
  BY <1>6 DEF Cancel, CancelRead, CancelKill, CancelList, CancelTask, CancelStage, CancelLease, rowVars
<1>7. CASE UNCHANGED vars
  BY <1>7 DEF vars, rowVars
<1> QED BY <1>1, <1>2, <1>3, <1>4, <1>5, <1>6, <1>7 DEF Next, Uncancelled, Controller

\* An attempt is settled: it was begun, it ends, and the others go on.
LEMMA AttemptEnds ==
  ASSUME Sound, Sole, CancelAttempt \/ Settlement
  PROVE  \E l \in Launches : /\ attempt[l] # "none" /\ attempt'[l] \in {"succeeded", "failed", "cancelled"}
                             /\ \A m \in Launches : m # l => attempt'[m] = attempt[m]
                             /\ Settlement => l = cur /\ attempt'[l] # "cancelled"
<1>1. ASSUME NEW l \in Launches, NEW outcome, finishAttempt(l, outcome)
      PROVE  attempt'[l] = outcome /\ \A m \in Launches : m # l => attempt'[m] = attempt[m]
  BY <1>1 DEF finishAttempt, Sound, Data, RowsTyped
<1>2. CASE Settlement
  <2>1. cur \in Launches /\ attempt[cur] # "none"
    BY <1>2, Subject DEF Settlement, LaunchSteps, Sole, Handled
  <2>2. PICK outcome \in {"succeeded", "failed"} : finishAttempt(cur, outcome)
    BY <1>2 DEF Settlement
  <2> QED BY <1>1, <2>1, <2>2
<1>3. CASE CancelAttempt /\ ~Settlement
  <2>1. oatt \in Launches /\ attempt[oatt] # "none" /\ finishAttempt(oatt, "cancelled")
    BY <1>3 DEF CancelAttempt, Sole, Stopping, Sound, Data, Targets
  <2> QED BY <1>1, <1>3, <2>1
<1> QED BY <1>2, <1>3

LEMMA AttemptBegins ==
  ASSUME Sound, Sole, StartAttempt
  PROVE  \E l \in Launches : /\ l = cur /\ owner[l] \in Tasks /\ Running(owner[l]) = {}
                             /\ attempt[l] = "none" /\ attempt'[l] = "running"
                             /\ \A m \in Launches : m # l => attempt'[m] = attempt[m]
<1>1. cur \in Launches /\ owner[cur] = tgt /\ tgt \in Tasks /\ attempt[cur] = "none" /\ Running(tgt) = {}
  BY Subject, Idle DEF StartAttempt, LaunchSteps, Sole, Handled, Starting
<1> QED BY <1>1 DEF StartAttempt, Sound, Data, RowsTyped

\* An attempt owns the worktree of its task from its start to its settlement.
THEOREM WorktreeOwned == Spec => OwnsWorktree
<1> DEFINE Writer(r) == IF r = {} THEN None ELSE CHOOSE l \in r : TRUE
<1>1. /\ Writer({}) = None
      /\ \A l : Writer({l}) = l
  OBVIOUS
<1> HIDE DEF Writer
<1>2. Init => Lock!Init
  <2>1. Init => \A t \in Tasks : Running(t) = {}
    BY DEF Init, Running
  <2> QED BY <2>1 DEF Init, Lock!Init, writerOf
<1>3. Held /\ [Next]_vars => [Lock!Next]_(Lock!vars)
  <2> SUFFICES ASSUME Held, [Next]_vars
               PROVE  [Lock!Next]_(Lock!vars)
    OBVIOUS
  <2>1. Sound /\ Sole
    BY DEF Held
  <2>2. \A l \in Launches : owner'[l] = owner[l] \/ (owner[l] = None /\ attempt[l] = "none")
    BY <2>1, RowsStay DEF Sound, Data, Blank
  <2>3. \A t \in Tasks : writerOf(t) = Writer(Running(t)) /\ writerOf(t)' = Writer(Running(t)')
    BY DEF writerOf, Writer
  <2>4. ASSUME \A t \in Tasks : Running(t)' = Running(t),
               \A l \in Launches : attempt'[l] = "none" <=> attempt[l] = "none"
        PROVE  UNCHANGED Lock!vars
    BY <2>3, <2>4 DEF Lock!vars
  <2>5. CASE UNCHANGED attempt
    <3>1. \A t \in Tasks : Running(t)' = Running(t)
      BY <2>2, <2>5 DEF Running
    <3> QED BY <2>4, <2>5, <3>1
  <2>6. CASE StartAttempt
    <3>1. PICK l \in Launches : /\ owner[l] \in Tasks /\ Running(owner[l]) = {}
                                /\ attempt[l] = "none" /\ attempt'[l] = "running"
                                /\ \A m \in Launches : m # l => attempt'[m] = attempt[m]
      BY <2>1, <2>6, AttemptBegins
    <3>2. owner' = owner
      BY <2>6 DEF StartAttempt
    <3>3. PICK t \in Tasks : t = owner[l]
      BY <3>1
    <3>4. Running(t)' = {l} /\ \A u \in Tasks : u # t => Running(u)' = Running(u)
      <4>1. Running(t)' = {l}
        BY <3>1, <3>2, <3>3 DEF Running
      <4>2. ASSUME NEW u \in Tasks, u # t
            PROVE  Running(u)' = Running(u)
        BY <3>1, <3>2, <3>3, <4>2 DEF Running
      <4> QED BY <4>1, <4>2
    <3>5. /\ writerOf(t) = None /\ writerOf(t)' = l
          /\ \A u \in Tasks : u # t => writerOf(u)' = writerOf(u)
      BY <1>1, <2>3, <3>1, <3>3, <3>4
    <3>6. [u \in Tasks |-> writerOf(u)]' = [[u \in Tasks |-> writerOf(u)] EXCEPT ![t] = l]
      BY <3>5
    <3>7. /\ l \notin {m \in Launches : attempt[m] # "none"}
          /\ {m \in Launches : attempt[m] # "none"}' = {m \in Launches : attempt[m] # "none"} \union {l}
      BY <3>1
    <3>8. Lock!Acquire(t, l)
      BY <3>5, <3>6, <3>7 DEF Lock!Acquire
    <3> QED BY <3>8 DEF Lock!Next
  <2>7. CASE CancelAttempt \/ Settlement
    <3>1. PICK l \in Launches : /\ attempt[l] # "none" /\ attempt'[l] \in {"succeeded", "failed", "cancelled"}
                                /\ \A m \in Launches : m # l => attempt'[m] = attempt[m]
      BY <2>1, <2>7, AttemptEnds
    <3>2. \A m \in Launches : attempt'[m] = "none" <=> attempt[m] = "none"
      BY <3>1
    <3>3. CASE attempt[l] # "running"
      <4>1. \A t \in Tasks : Running(t)' = Running(t)
        BY <2>2, <3>1, <3>3 DEF Running
      <4> QED BY <2>4, <3>2, <4>1
    <3>4. CASE attempt[l] = "running"
      <4>1. PICK t \in Tasks : t = owner[l]
        BY <2>1, <3>4, UnderOwned DEF Under
      <4>2. Running(t) = {l}
        BY <2>1, <3>4, <4>1 DEF Sole, Exclusive, Under, Others, Running
      <4>3. Running(t)' = {} /\ \A u \in Tasks : u # t => Running(u)' = Running(u)
        <5>1. Running(t)' = {}
          BY <2>2, <3>1, <4>1, <4>2 DEF Running
        <5>2. ASSUME NEW u \in Tasks, u # t
              PROVE  Running(u)' = Running(u)
          BY <2>2, <3>1, <3>4, <4>1, <5>2 DEF Running
        <5> QED BY <5>1, <5>2
      <4>4. /\ writerOf(t) = l /\ writerOf(t)' = None
            /\ \A u \in Tasks : u # t => writerOf(u)' = writerOf(u)
        BY <1>1, <2>3, <4>2, <4>3
      <4>5. [u \in Tasks |-> writerOf(u)]' = [[u \in Tasks |-> writerOf(u)] EXCEPT ![t] = None]
        BY <4>4
      <4>6. Lock!Release(t)
        BY <3>2, <4>4, <4>5, LaunchAssumption DEF Lock!Release
      <4> QED BY <4>6 DEF Lock!Next
    <3> QED BY <3>3, <3>4
  <2> QED BY <2>1, <2>5, <2>6, <2>7, AttemptMoves
<1> QED BY <1>2, <1>3, HeldAlways, PTL DEF Spec, OwnsWorktree, Lock!Spec

\* A DONE task has no running attempt and no unsettled stage, on a host with a process table:
\* acceptance waits for every worker, check and finalization, and nothing starts after it.
THEOREM QuietWhenDone == Spec /\ procTable => []DoneIsQuiet
<1>1. Held /\ procTable /\ [Next]_vars => procTable'
  BY RowsStay DEF Held
<1>2. Held /\ procTable => DoneIsQuiet
  <2> SUFFICES ASSUME Held, procTable, NEW t \in Tasks, task[t] = "DONE"
               PROVE  Running(t) = {} /\ \A s \in StageIds : TaskOf(s) = t => ~Unsettled(s)
    BY DEF DoneIsQuiet
  <2>1. Free(t) /\ Running(t) = {}
    BY FreeIs DEF Held, Sole, States
  <2>2. \A l \in Launches : owner[l] = t => ~Unsettled(W(l)) /\ ~Unsettled(F(l))
    BY <2>1 DEF Free, Under, Loose, Running
  <2>3. ASSUME NEW s \in StageIds, TaskOf(s) = t
        PROVE  ~Unsettled(s)
    <3>1. CASE s[2] = "check"
      <4>1. s = C(t)
        BY <2>3, <3>1 DEF StageIds, TaskOf, C
      <4> QED BY <2>1, <4>1 DEF Free
    <3>2. ASSUME NEW l \in Launches, s = W(l) \/ s = F(l)
          PROVE  ~Unsettled(s)
      <4>1. TaskOf(W(l)) = owner[l] /\ TaskOf(F(l)) = owner[l]
        BY DEF TaskOf, W, F
      <4> QED BY <2>2, <2>3, <3>2, <4>1
    <3> QED BY <3>1, <3>2 DEF StageIds, W, F
  <2> QED BY <2>1, <2>3
<1> QED BY <1>1, <1>2, HeldInductive, PTL DEF Spec
-----------------------------------------------------------------------------
(* Without a cancellation.                                                 *)

\* Nothing is cancelled, ...
Uncut == /\ \A t \in Tasks : task[t] # "CANCELLED"
         /\ \A s \in StageIds : stage[s] # "cancelled"
         /\ \A l \in Launches : attempt[l] # "cancelled"
         /\ seen # "CANCELLED" /\ opc = "idle"

\* ... what is reconciled and collected is a running attempt, ...
Current == /\ pass = "attempts" => \A x \in todo : attempt[x] = "running"
           /\ pc \in {"verify", "collect", "revise"} => attempt[cur] = "running"

\* ... and a launch that was admitted finds a place among them.
Admitting == {"reserve", "grant", "activate", "context", "start"}
Capped    == /\ IsFiniteSet(RunningAttempts)
             /\ procTable => Cardinality(RunningAttempts) <= WorkerLimit
             /\ procTable /\ pc \in Admitting => Cardinality(RunningAttempts) < WorkerLimit

LEMMA UncutFinish ==
  ASSUME Sound, Uncut, NEW s, NEW outcome, outcome # "cancelled", NEW to, to # "CANCELLED",
         finishStage(s, outcome, to), seen' \in {seen, "READY"}, UNCHANGED <<attempt, opc>>
  PROVE  Uncut'
BY DEF finishStage, SetTask, Uncut, Sound, Data, RowsTyped

\* The step changes the state of one task at most.
LEMMA UncutTask ==
  ASSUME Sound, Uncut, NEW t, NEW to, to # "CANCELLED", SetTask(t, to) \/ UNCHANGED task,
         NEW s, NEW st, st # "cancelled", stage' = [stage EXCEPT ![s] = st] \/ UNCHANGED stage,
         NEW l, NEW outcome, outcome # "cancelled",
         finishAttempt(l, outcome) \/ UNCHANGED attempt,
         seen' # "CANCELLED", opc' = "idle"
  PROVE  Uncut'
BY DEF SetTask, finishAttempt, Uncut, Sound, Data, RowsTyped

LEMMA UncutThrow ==
  ASSUME Sound, Uncut, NEW s, Throw \/ ThrowReleasing(s)
  PROVE  Uncut'
<1>1. UNCHANGED <<stage, attempt, opc>> /\ seen' = "READY"
  BY DEF Throw, ThrowReleasing, Unwind, rowVars, opVars, Forget
<1>2. UNCHANGED task \/ SetTask(tgt, "BLOCKED")
  BY DEF Throw, ThrowReleasing, Unwind, taskVars
<1> QED BY <1>1, <1>2, UncutTask DEF Uncut

LEMMA UncutSettle ==
  ASSUME Sound, Uncut, NEW at, NEW s, NEW outcome, outcome # "cancelled", NEW to, to # "CANCELLED", NEW next,
         SettleStage(at, outcome, to, next) \/ Settle(at, s, outcome, to, next) \/ Skip(at, next)
  PROVE  Uncut'
<1>1. ASSUME Goto(next)
      PROVE  seen' \in {seen, "READY"}
  BY <1>1 DEF Goto, Forget, locals
<1>2. ASSUME NEW r, finishStage(r, outcome, to), Goto(next), UNCHANGED <<attempt, opVars>>
      PROVE  Uncut'
  BY <1>1, <1>2, UncutFinish DEF opVars
<1>3. ASSUME Goto(next), UNCHANGED <<taskVars, rowVars, opVars>>
      PROVE  Uncut'
  BY <1>1, <1>3 DEF Uncut, taskVars, rowVars, opVars
<1> QED BY <1>2, <1>3, UncutThrow DEF SettleStage, Settle, Skip

LEMMA UncutHandler ==
  ASSUME Sound, Uncut, CompleteChecks \/ ReviewVerdict \/ Rereview \/ HandleFailure \/ Admit
  PROVE  Uncut'
<1>1. ASSUME NEW p, Goto(p)
      PROVE  seen' # "CANCELLED"
  BY <1>1 DEF Goto, Forget, locals, Uncut
<1>2. ASSUME UNCHANGED <<rowVars, opVars>>, seen' # "CANCELLED", NEW to, to # "CANCELLED",
             SetTask(tgt, to) \/ task' = [task EXCEPT ![tgt] = to] \/ UNCHANGED taskVars
      PROVE  Uncut'
  BY <1>2 DEF SetTask, taskVars, rowVars, opVars, Uncut, Sound, Data, RowsTyped
<1>3. ASSUME NEW k, NEW to, to # "CANCELLED", Enter(k, to) \/ Leave(to)
      PROVE  Uncut'
  <2>1. CASE Throw
    BY <2>1, UncutThrow
  <2>2. CASE SetTask(tgt, to) /\ UNCHANGED <<rowVars, opVars>> /\ seen' # "CANCELLED"
    BY <1>2, <1>3, <2>2
  <2> QED BY <1>1, <1>3, <2>1, <2>2 DEF Enter, Leave, Uncut
<1>4. ASSUME NEW k, Accept \/ Block \/ Defer(k) \/ (Goto("reserve") /\ UNCHANGED <<taskVars, rowVars, opVars>>)
      PROVE  Uncut'
  <2>1. CASE Throw
    BY <2>1, UncutThrow
  <2>2. CASE Accept /\ ~Throw
    BY <1>1, <1>2, <2>2 DEF Accept
  <2>3. CASE Block \/ (Goto("reserve") /\ UNCHANGED <<taskVars, rowVars, opVars>>)
    BY <1>1, <1>2, <2>3 DEF Block
  <2>4. CASE Defer(k)
    BY <1>1, <1>2, <2>4 DEF Defer
  <2> QED BY <1>4, <2>1, <2>2, <2>3, <2>4
<1> QED BY <1>3, <1>4, UncutThrow DEF CompleteChecks, ReviewVerdict, Rereview, HandleFailure, Admit

LEMMA UncutStep ==
  ASSUME Sound, Uncut, [Uncancelled]_vars
  PROVE  Uncut'
<1>1. ASSUME NEW p, Goto(p)
      PROVE  seen' # "CANCELLED"
  BY <1>1 DEF Goto, Forget, locals, Uncut
<1>2. ASSUME NEW x, NEW p, NEW l, NEW t \in Tasks, NEW k, Take(x, p, l, t, k) \/ Drop(x)
      PROVE  seen' # "CANCELLED"
  BY <1>2 DEF Drop, Take, locals, Uncut
<1>3. ASSUME UNCHANGED <<stage, attempt, opc>> \/ UNCHANGED <<rowVars, opVars>>, seen' # "CANCELLED",
             NEW t, NEW to, to # "CANCELLED", SetTask(t, to) \/ UNCHANGED taskVars
      PROVE  Uncut'
  BY <1>3, UncutTask DEF rowVars, opVars, Uncut, taskVars
<1>4. CASE BeginTick \/ EndPass \/ BlockTask
  <2>1. \/ Throw
        \/ /\ UNCHANGED <<rowVars, opVars>> /\ seen' # "CANCELLED"
           /\ SetTask(tgt, "BLOCKED") \/ UNCHANGED taskVars
    BY <1>1, <1>4 DEF BeginTick, EndPass, BlockTask, locals, Uncut
  <2> QED BY <1>3, <2>1, UncutThrow
<1>5. CASE Reconcile
  <2>1. ASSUME NEW l \in Launches, Probe(l)
        PROVE  Uncut'
    <3>1. owner[l] \in Tasks
      BY <2>1 DEF Probe, Take, Sound, Control, Lists
    <3>2. UNCHANGED <<taskVars, rowVars, opVars>> /\ seen' # "CANCELLED"
      BY <1>2, <2>1, <3>1 DEF Probe
    <3> QED BY <3>2 DEF Uncut, taskVars, rowVars, opVars
  <2>2. CASE VerifyAlive \/ VerifyLaunching \/ VerifyAmbiguous
    <3>1. UNCHANGED <<taskVars, stage, attempt, opVars>> /\ seen' # "CANCELLED"
      BY <1>1, <2>2 DEF VerifyAlive, VerifyLaunching, VerifyAmbiguous, rowVars
    <3> QED BY <3>1 DEF Uncut, taskVars, opVars
  <2>3. CASE AdoptLaunchedAttempt
    <3>1. /\ UNCHANGED <<task, attempt>> /\ seen' # "CANCELLED" /\ opc' = "idle"
          /\ stage' = [stage EXCEPT ![W(cur)] = "running"] \/ UNCHANGED stage
      BY <1>1, <2>3 DEF AdoptLaunchedAttempt, taskVars, opVars, Uncut
    <3> QED BY <3>1, UncutTask
  <2>4. CASE VerifyLost
    <3>1. /\ UNCHANGED <<task, stage>> /\ seen' # "CANCELLED" /\ opc' = "idle" /\ finishAttempt(cur, "failed")
      BY <1>1, <2>4 DEF VerifyLost, taskVars, opVars, Uncut
    <3> QED BY <3>1, UncutTask
  <2>5. ASSUME NEW l \in Launches, OrphanWorkerStage(l)
        PROVE  Uncut'
    <3>1. /\ seen' = seen /\ UNCHANGED <<attempt, opc>> /\ task[owner[l]] # "CANCELLED"
          /\ AttemptOutcome(l) # "cancelled"
      BY <2>5 DEF OrphanWorkerStage, Drop, Take, locals, opVars, Sound, Control, Lists, Uncut, AttemptOutcome
    <3>2. \/ UNCHANGED <<taskVars, stage>>
          \/ finishStage(W(l), "unknown", "BLOCKED")
          \/ finishStage(W(l), AttemptOutcome(l), task[owner[l]])
      BY <2>5 DEF OrphanWorkerStage
    <3> QED BY <3>1, <3>2, UncutFinish DEF Uncut, taskVars
  <2>6. ASSUME NEW l \in Launches, OrphanStageThrows(l)
        PROVE  Uncut'
    BY <2>6, UncutThrow DEF OrphanStageThrows
  <2>7. ASSUME NEW l \in Launches, OrphanFinalizeStage(l)
        PROVE  Uncut'
    <3>1. CASE Drop(F(l)) /\ UNCHANGED <<taskVars, rowVars, procVars, opVars, hostVars>>
      BY <3>1 DEF Drop, Take, locals, Uncut, taskVars, rowVars, opVars
    <3>2. CASE Take(F(l), "schedule", l, owner[l], kind[l]) /\ finishStage(F(l), "succeeded", "CHECKING")
               /\ UNCHANGED <<owner, kind, attempt, pid, procVars, opVars, hostVars>>
      <4>1. owner[l] \in Tasks
        BY <2>7, <3>2 DEF OrphanFinalizeStage, Take, Sound, Control, Lists
      <4>2. /\ seen' # "CANCELLED" /\ opc' = "idle" /\ SetTask(TaskOf(F(l)), "CHECKING")
            /\ stage' = [stage EXCEPT ![F(l)] = "succeeded"] /\ UNCHANGED attempt
        BY <1>2, <3>2, <4>1 DEF finishStage, opVars, Uncut
      <4> QED BY <4>2, UncutTask
    <3> QED BY <2>7, <3>1, <3>2, UncutThrow DEF OrphanFinalizeStage
  <2>8. ASSUME NEW t \in Tasks, StrandedTask(t)
        PROVE  Uncut'
    <3>1. \/ Throw
          \/ /\ UNCHANGED <<rowVars, opVars>> /\ seen' # "CANCELLED"
             /\ SetTask(t, "BLOCKED") \/ UNCHANGED taskVars
      BY <1>2, <2>8 DEF StrandedTask
    <3> QED BY <1>3, <3>1, UncutThrow
  <2> QED BY <1>5, <2>1, <2>2, <2>3, <2>4, <2>5, <2>6, <2>7, <2>8 DEF Reconcile
<1>6. CASE Collect
  <2>1. CASE CollectFailed \/ CollectYield \/ Revise
    <3>1. /\ UNCHANGED <<task, stage>> /\ seen' # "CANCELLED" /\ opc' = "idle"
          /\ \E outcome \in {"succeeded", "failed"} : finishAttempt(cur, outcome)
      BY <1>1, <2>1 DEF CollectFailed, CollectYield, Revise, taskVars, opVars, Uncut
    <3> QED BY <3>1, UncutTask
  <2>2. CASE CollectWork /\ ~Throw
    <3>1. /\ UNCHANGED attempt /\ seen' # "CANCELLED" /\ opc' = "idle"
          /\ stage' = [stage EXCEPT ![F(cur)] = "running"] \/ UNCHANGED stage
          /\ SetTask(tgt, "CHECKING") \/ UNCHANGED task
      BY <2>2 DEF CollectWork, taskVars, opVars, Uncut
    <3> QED BY <3>1, UncutTask
  <2>3. CASE FailStage \/ YieldStage \/ StaleStage \/ ReviewStage
    BY <2>3, UncutSettle DEF FailStage, YieldStage, StaleStage, ReviewStage, Uncut
  <2>4. CASE KeepStage \/ KeepFinal \/ BrokenFinal \/ BrokenStage
    BY <2>4, UncutSettle DEF KeepStage, KeepFinal, BrokenFinal, BrokenStage
  <2>5. CASE ScheduleNextCheck
    <3>1. \/ Throw
          \/ /\ UNCHANGED attempt /\ seen' # "CANCELLED" /\ opc' = "idle"
             /\ stage' = [stage EXCEPT ![C(tgt)] = "running"] \/ UNCHANGED stage
             /\ SetTask(tgt, "CHECKING") \/ UNCHANGED task
      BY <1>1, <2>5 DEF ScheduleNextCheck, taskVars, rowVars, opVars, Uncut
    <3> QED BY <3>1, UncutTask, UncutThrow
  <2>6. CASE CompleteChecks \/ ReviewVerdict \/ Rereview \/ HandleFailure
    BY <2>6, UncutHandler
  <2>7. ASSUME NEW t \in Tasks, CollectCheck(t)
        PROVE  Uncut'
    <3>1. \/ Throw
          \/ /\ UNCHANGED attempt /\ seen' # "CANCELLED" /\ opc' = "idle"
             /\ stage' = [stage EXCEPT ![C(t)] = "succeeded"]
             /\ SetTask(TaskOf(C(t)), "CHECKING")
      BY <1>2, <2>7 DEF CollectCheck, finishStage, opVars, Uncut
    <3> QED BY <3>1, UncutTask, UncutThrow
  <2>8. ASSUME NEW t \in Tasks, CheckPending(t)
        PROVE  Uncut'
    <3>1. seen' = seen /\ UNCHANGED opc
      BY <2>8 DEF CheckPending, Drop, Take, locals, opVars
    <3>2. CASE UNCHANGED <<taskVars, rowVars>>
      BY <3>1, <3>2 DEF Uncut, taskVars, rowVars
    <3>3. ASSUME NEW outcome \in {"waiting", "unknown"}, finishStage(C(t), outcome, "BLOCKED"), UNCHANGED attempt
          PROVE  Uncut'
      BY <3>1, <3>3, UncutFinish
    <3> QED BY <2>8, <3>2, <3>3 DEF CheckPending
  <2> QED BY <1>6, <2>1, <2>2, <2>3, <2>4, <2>5, <2>6, <2>7, <2>8, UncutThrow DEF Collect
<1>7. CASE Launch
  <2>1. CASE Admit
    BY <2>1, UncutHandler
  <2>2. CASE ReserveAdmission \/ ActivateAdmission \/ WriteSpec \/ Spawn \/ SetAttemptProcess \/ RecordLaunchStarted
    <3>1. \/ Throw
          \/ /\ UNCHANGED <<task, attempt>> /\ seen' # "CANCELLED" /\ opc' = "idle"
             /\ \/ stage' = [stage EXCEPT ![W(cur)] = "launching"]
                \/ stage' = [stage EXCEPT ![W(cur)] = "running"]
                \/ UNCHANGED stage
      BY <1>1, <2>2
      DEF ReserveAdmission, ActivateAdmission, WriteSpec, Spawn, SetAttemptProcess, RecordLaunchStarted,
          taskVars, rowVars, opVars, Uncut
    <3> QED BY <3>1, UncutTask, UncutThrow
  <2>3. CASE StartAttempt \/ UnlaunchAttempt
    <3>1. /\ UNCHANGED <<task, stage>> /\ seen' # "CANCELLED" /\ opc' = "idle"
          /\ finishAttempt(cur, "running") \/ finishAttempt(cur, "failed")
      BY <1>1, <2>3 DEF StartAttempt, UnlaunchAttempt, finishAttempt, taskVars, opVars, Uncut
    <3> QED BY <3>1, UncutTask
  <2>4. CASE BuildContext \/ UnlaunchStage
    <3>1. taskStateForStage(want) # "CANCELLED"
      BY DEF taskStateForStage
    <3>2. CASE Goto("start") /\ UNCHANGED <<taskVars, rowVars, procVars, opVars, hostVars>>
      BY <1>1, <3>2 DEF Uncut, taskVars, rowVars, opVars
    <3> QED BY <2>4, <3>1, <3>2, UncutSettle, UncutThrow DEF BuildContext, UnlaunchStage
  <2>5. ASSUME NEW l \in Launches, ReserveStage(l)
        PROVE  Uncut'
    <3>1. taskStateForStage(want) # "CANCELLED"
      BY DEF taskStateForStage
    <3>2. \/ Throw
          \/ /\ UNCHANGED <<attempt, seen>> /\ opc' = "idle" /\ SetTask(tgt, taskStateForStage(want))
             /\ stage' = [stage EXCEPT ![W(l)] = "reserved"]
      BY <2>5 DEF ReserveStage, opVars, Uncut
    <3> QED BY <3>1, <3>2, UncutTask, UncutThrow DEF Uncut
  <2>6. ASSUME NEW t \in Tasks, Dispatch(t) \/ ResumeOperational(t) \/ ResumeParked(t) \/ ResumeReview(t)
        PROVE  Uncut'
    <3>1. \/ Throw
          \/ /\ UNCHANGED attempt /\ seen' # "CANCELLED" /\ opc' = "idle"
             /\ stage' = [stage EXCEPT ![C(t)] = "running"] \/ UNCHANGED stage
             /\ \/ \E to \in {"RUNNING", "BLOCKED", "REVIEWING", "CHECKING"} : SetTask(t, to)
                \/ UNCHANGED task
      BY <1>2, <2>6 DEF Dispatch, ResumeOperational, ResumeParked, ResumeReview, taskVars, rowVars, opVars, Uncut
    <3> QED BY <3>1, UncutTask, UncutThrow
  <2> QED BY <1>7, <2>1, <2>2, <2>3, <2>4, <2>5, <2>6 DEF Launch
<1>8. CASE Worker \/ Fault \/ CtlRestart \/ UNCHANGED vars
  <2>1. UNCHANGED <<task, stage, attempt>> /\ opc' = "idle" /\ seen' # "CANCELLED"
    BY <1>8 DEF Worker, WorkerMark, WorkerComplete, Fault, CtlCrash, CtlCrashFinishing, OpCrash, HostReboot,
                WorkerDie, CtlRestart, vars, taskVars, rowVars, ctlVars, opVars, locals, Forget, OpDone, Uncut
  <2> QED BY <2>1 DEF Uncut
<1>9. ASSUME NEW t \in Tasks, retryTask(t)
      PROVE  Uncut'
  <2>1. UNCHANGED <<stage, attempt>> /\ seen' # "CANCELLED" /\ opc' = "idle" /\ SetTask(t, "READY")
    BY <1>9 DEF retryTask, rowVars, ctlVars, opVars, Uncut
  <2> QED BY <2>1, UncutTask
<1> QED BY <1>4, <1>5, <1>6, <1>7, <1>8, <1>9 DEF Uncancelled, Controller

\* How the controller comes to a list of attempts, to an attempt and to a launch.
LEMMA Flows ==
  ASSUME Sound, Controller
  PROVE  /\ pass' = "attempts" => BeginTick \/ (pass = "attempts" /\ todo' \subseteq todo) \/ todo' = {}
         /\ pc' \in {"verify", "collect"} => \E l \in Launches : Probe(l)
         /\ pc' = "revise" => pc = "collect" /\ cur' = cur /\ UNCHANGED attempt
         /\ pc' = "reserve" => pc = "admit" /\ Admitted(tgt) /\ UNCHANGED attempt
         /\ pc' \in Admitting \ {"reserve"} => pc \in Admitting \ {"start"} /\ UNCHANGED attempt
<1> DEFINE Plain == /\ pc' \notin {"verify", "collect", "revise"} \union Admitting
                    /\ pass' = "attempts" => (pass = "attempts" /\ todo' \subseteq todo) \/ todo' = {}
<1>0. ASSUME Unwind
      PROVE  Plain
  BY <1>0 DEF Unwind, Rest, loop, Admitting
<1>1. ASSUME NEW p, Goto(p), p \notin {"verify", "collect", "revise"} \union Admitting
      PROVE  Plain
  BY <1>1 DEF Goto, loop
<1>2. ASSUME NEW x, NEW p, NEW l, NEW t, NEW k, Take(x, p, l, t, k),
             p \notin {"verify", "collect", "revise"} \union Admitting
      PROVE  Plain
  BY <1>2 DEF Take
<1>3. ASSUME NEW x, Drop(x)
      PROVE  Plain
  BY <1>2, <1>3 DEF Drop, Admitting
<1>4. ASSUME NEW s, Throw \/ ThrowReleasing(s)
      PROVE  Plain
  BY <1>0, <1>4 DEF Throw, ThrowReleasing
<1>5. ASSUME NEW at, NEW outcome, NEW to, NEW s, NEW next,
             next \notin {"verify", "collect", "revise"} \union Admitting,
             SettleStage(at, outcome, to, next) \/ Settle(at, s, outcome, to, next) \/ Skip(at, next)
      PROVE  Plain
  BY <1>1, <1>4, <1>5 DEF SettleStage, Settle, Skip
<1>6. CASE BlockTask
  BY <1>1, <1>4, <1>6 DEF BlockTask, Admitting
<1>7. CASE BeginTick \/ EndPass
  BY <1>7 DEF BeginTick, EndPass, Rest, nextPass, Passes, Sound, Control, ControllerTyped, Admitting
<1>8. CASE Reconcile
  <2>1. CASE VerifyAlive \/ AdoptLaunchedAttempt \/ VerifyLaunching \/ VerifyAmbiguous \/ VerifyLost
    BY <1>1, <2>1 DEF VerifyAlive, AdoptLaunchedAttempt, VerifyLaunching, VerifyAmbiguous, VerifyLost, Admitting
  <2>2. ASSUME NEW l \in Launches, OrphanWorkerStage(l) \/ OrphanStageThrows(l) \/ OrphanFinalizeStage(l)
        PROVE  Plain
    BY <1>2, <1>3, <1>4, <2>2 DEF OrphanWorkerStage, OrphanStageThrows, OrphanFinalizeStage, Admitting
  <2>3. ASSUME NEW t \in Tasks, StrandedTask(t)
        PROVE  Plain
    BY <1>3, <1>4, <2>3 DEF StrandedTask
  <2>4. ASSUME NEW l \in Launches, Probe(l)
        PROVE  /\ pass = "attempts" /\ todo' \subseteq todo
               /\ pc' \in {"verify", "collect"}
    BY <2>4 DEF Probe, Take
  <2> QED BY <1>8, <2>1, <2>2, <2>3, <2>4 DEF Reconcile, Admitting
<1>9. CASE Collect
  <2>1. CASE CollectFailed \/ CollectYield
    BY <1>1, <2>1 DEF CollectFailed, CollectYield, Admitting
  <2>2. CASE CollectWork
    <3>1. CASE ~Throw
      BY <2>2, <3>1 DEF CollectWork, loop, Admitting
    <3> QED BY <1>4, <3>1 DEF Admitting
  <2>3. CASE FailStage \/ YieldStage \/ StaleStage \/ ReviewStage
    BY <1>5, <2>3 DEF FailStage, YieldStage, StaleStage, ReviewStage, Admitting
  <2>4. CASE KeepStage \/ KeepFinal \/ BrokenFinal \/ BrokenStage
    BY <1>0, <1>1, <2>4
    DEF KeepStage, KeepFinal, BrokenFinal, BrokenStage, Settle, Skip, ThrowReleasing, Admitting
  <2>5. CASE Revise \/ ScheduleNextCheck
    BY <1>1, <1>4, <2>5 DEF Revise, ScheduleNextCheck, Admitting
  <2>6. CASE CompleteChecks \/ ReviewVerdict \/ Rereview \/ HandleFailure
    BY <1>1, <1>4, <2>6
    DEF CompleteChecks, ReviewVerdict, Rereview, HandleFailure, Accept, Block, Leave, Enter, Defer, loop, Admitting
  <2>7. ASSUME NEW t \in Tasks, CollectCheck(t) \/ CheckPending(t)
        PROVE  Plain
    BY <1>2, <1>3, <1>4, <2>7 DEF CollectCheck, CheckPending, Admitting
  <2> QED BY <1>9, <2>1, <2>2, <2>3, <2>4, <2>5, <2>6, <2>7 DEF Collect, Admitting
<1>10. CASE Launch
  <2>1. CASE Admit
    <3>1. CASE Goto("reserve") /\ Admitted(tgt) /\ UNCHANGED rowVars
      BY <2>1, <3>1 DEF Admit, Goto, loop, rowVars, Admitting
    <3>2. CASE Block \/ Defer(want) \/ Throw
      BY <1>1, <1>4, <3>2 DEF Block, Defer, Admitting
    <3> QED BY <2>1, <3>1, <3>2 DEF Admit, Admitting
  <2>2. ASSUME NEW l \in Launches, ReserveStage(l)
        PROVE  \/ Plain
               \/ /\ pc = "reserve" /\ pc' = "grant" /\ UNCHANGED attempt
                  /\ pass' = "attempts" => pass = "attempts" /\ todo' \subseteq todo
    BY <1>4, <2>2 DEF ReserveStage, loop
  <2>3. CASE ReserveAdmission \/ ActivateAdmission
    <3>1. \/ Plain
          \/ /\ pc = "grant" /\ pc' = "activate" /\ UNCHANGED attempt
             /\ pass' = "attempts" => pass = "attempts" /\ todo' \subseteq todo
          \/ /\ pc = "activate" /\ pc' = "context" /\ UNCHANGED attempt
             /\ pass' = "attempts" => pass = "attempts" /\ todo' \subseteq todo
      BY <1>4, <2>3 DEF ReserveAdmission, ActivateAdmission, Goto, loop
    <3> QED BY <3>1 DEF Admitting
  <2>4. CASE BuildContext
    <3>1. \/ Plain
          \/ /\ pc = "context" /\ pc' = "start" /\ UNCHANGED attempt
             /\ pass' = "attempts" => pass = "attempts" /\ todo' \subseteq todo
      <4>1. CASE pc = "context" /\ Goto("start") /\ UNCHANGED rowVars
        BY <4>1 DEF Goto, loop, rowVars
      <4> QED BY <1>4, <1>5, <2>4, <4>1 DEF BuildContext, Admitting
    <3> QED BY <3>1 DEF Admitting
  <2>5. CASE StartAttempt \/ WriteSpec \/ Spawn \/ SetAttemptProcess \/ RecordLaunchStarted \/ UnlaunchAttempt
    BY <1>1, <2>5
    DEF StartAttempt, WriteSpec, Spawn, SetAttemptProcess, RecordLaunchStarted, UnlaunchAttempt, Admitting
  <2>6. CASE UnlaunchStage
    BY <1>5, <2>6 DEF UnlaunchStage, Admitting
  <2>7. ASSUME NEW t \in Tasks, Dispatch(t) \/ ResumeOperational(t) \/ ResumeParked(t) \/ ResumeReview(t)
        PROVE  Plain
    BY <1>2, <1>3, <1>4, <2>7 DEF Dispatch, ResumeOperational, ResumeParked, ResumeReview, Admitting
  <2> QED BY <1>10, <2>1, <2>2, <2>3, <2>4, <2>5, <2>6, <2>7 DEF Launch, Admitting
<1> QED BY <1>6, <1>7, <1>8, <1>9, <1>10 DEF Controller

\* The steps of the other processes, and the ends of the controller.
LEMMA Elsewhere ==
  ASSUME Uncut, [Uncancelled]_vars, ~Controller
  PROVE  /\ UNCHANGED attempt
         /\ \/ UNCHANGED ctlVars
            \/ pc' \in {"down", "idle"} /\ (UNCHANGED <<pass, todo>> \/ todo' = {})
BY DEF Uncut, Uncancelled, Worker, WorkerMark, WorkerComplete, Fault, CtlCrash, CtlCrashFinishing, OpCrash,
       HostReboot, WorkerDie, CtlRestart, retryTask, Rest, loop, vars, rowVars, ctlVars

\* Without a cancellation an attempt is settled by its handler only.
LEMMA UncutMoves ==
  ASSUME Sound, Uncut, [Uncancelled]_vars
  PROVE  UNCHANGED attempt \/ StartAttempt \/ (Controller /\ Settlement)
<1>1. ~CancelAttempt
  BY DEF Uncut, CancelAttempt
<1> QED BY <1>1, AttemptMoves DEF Next

\* What the handler settles is running.
LEMMA SettlesRunning ==
  ASSUME Held, Uncut, Current, Settlement
  PROVE  cur \in Launches /\ attempt[cur] = "running" /\ owner[cur] = tgt /\ Handling
<1>1. cur \in Launches /\ owner[cur] = tgt
  BY Subject DEF Settlement, LaunchSteps, Held
<1> QED BY <1>1 DEF Settlement, Current, Uncut, Held, Sole, Handled, Handling

LEMMA CurrentStep ==
  ASSUME Held, Uncut, Current, [Uncancelled]_vars
  PROVE  Current'
<1>0. Sound /\ Sole /\ Attending
  BY DEF Held, Sole, Listed
<1>1. CASE ~Controller
  BY <1>1, Elsewhere DEF Current, ctlVars
<1>2. CASE Controller
  <2>1. ASSUME pass = "attempts", NEW x \in todo
        PROVE  attempt'[x] = "running"
    <3>1. attempt[x] = "running" /\ x \in Launches
      BY <1>0, <2>1 DEF Current, Sound, Control, Lists
    <3>2. CASE StartAttempt
      <4>1. \E l \in Launches : attempt'[l] = "running" /\ \A m \in Launches : m # l => attempt'[m] = attempt[m]
        BY <1>0, <3>2, AttemptBegins
      <4> QED BY <3>1, <4>1
    <3>3. CASE Settlement
      <4>1. cur # x
        BY <1>0, <2>1, <3>3, SettlesRunning DEF Attending
      <4>2. \E l \in Launches : l = cur /\ \A m \in Launches : m # l => attempt'[m] = attempt[m]
        BY <1>0, <3>3, AttemptEnds
      <4> QED BY <3>1, <4>1, <4>2
    <3> QED BY <1>0, <3>1, <3>2, <3>3, UncutMoves
  <2>2. ASSUME pass' = "attempts", NEW x \in todo'
        PROVE  attempt'[x] = "running"
    <3>1. CASE BeginTick
      BY <2>2, <3>1 DEF BeginTick, RunningAttempts, rowVars
    <3> QED BY <1>0, <1>2, <2>1, <2>2, <3>1, Flows
  <2>3. ASSUME NEW l \in Launches, Probe(l)
        PROVE  attempt'[cur'] = "running"
    BY <2>3 DEF Probe, Take, Current, rowVars
  <2>4. CASE pc' = "revise"
    <3>1. pc = "collect" /\ cur' = cur /\ UNCHANGED attempt
      BY <1>0, <1>2, <2>4, Flows
    <3> QED BY <2>2, <2>4, <3>1 DEF Current
  <2>5. CASE pc' \in {"verify", "collect"}
    <3>1. attempt'[cur'] = "running"
      BY <1>0, <1>2, <2>3, <2>5, Flows
    <3> QED BY <2>2, <3>1 DEF Current
  <2> QED BY <2>2, <2>4, <2>5 DEF Current
<1> QED BY <1>1, <1>2

\* A free task apart, every running attempt counts against the limit.
LEMMA AllCounted ==
  ASSUME Held, Uncut, procTable, NEW t, Free(t)
  PROVE  ModelWork(t) = RunningAttempts
<1> SUFFICES ASSUME NEW l \in RunningAttempts
             PROVE  owner[l] # t /\ HoldsSlot(owner[l])
  BY DEF ModelWork
<1>1. l \in Launches /\ attempt[l] = "running" /\ owner[l] \in Tasks
  BY UnderOwned DEF RunningAttempts, Under, Held
<1>2. Running(owner[l]) # {}
  BY <1>1 DEF Running
<1>3. owner[l] # t
  BY <1>2, FreeIs
<1>4. task[owner[l]] \in SLOT_HOLDING_STATES
  BY <1>1, <1>2 DEF Held, Sole, States, Uncut
<1> QED BY <1>3, <1>4 DEF HoldsSlot

LEMMA CappedStep ==
  ASSUME Held, Uncut, Current, Capped, [Uncancelled]_vars
  PROVE  Capped'
<1>0. Sound /\ Sole /\ Cardinality(RunningAttempts) \in Nat /\ WorkerLimit \in Nat
  BY FS_CardinalityType, LaunchAssumption DEF Held, Capped
<1>1. procTable' = procTable
  BY <1>0, RowsStay DEF Next
<1>2. CASE UNCHANGED attempt
  <2>1. RunningAttempts' = RunningAttempts
    BY <1>2 DEF RunningAttempts
  <2>2. ASSUME procTable, pc' \in Admitting
        PROVE  Cardinality(RunningAttempts) < WorkerLimit
    <3>1. CASE ~Controller
      BY <2>2, <3>1, Elsewhere DEF Capped, Admitting, ctlVars
    <3>2. CASE Controller /\ pc' = "reserve"
      <4>1. pc = "admit" /\ Admitted(tgt)
        BY <1>0, <3>2, Flows
      <4>2. PICK t : t = tgt
        OBVIOUS
      <4>3. Free(t)
        BY <1>0, <4>1, <4>2 DEF Sole, Handled, Deciding
      <4> QED BY <2>2, <4>1, <4>2, <4>3, AllCounted DEF Admitted
    <3>3. CASE Controller /\ pc' # "reserve"
      <4>1. pc \in Admitting
        BY <1>0, <2>2, <3>3, Flows
      <4> QED BY <2>2, <4>1 DEF Capped
    <3> QED BY <3>1, <3>2, <3>3
  <2> QED BY <1>1, <2>1, <2>2 DEF Capped
<1>3. CASE StartAttempt
  <2>1. PICK l \in Launches : attempt'[l] = "running" /\ \A m \in Launches : m # l => attempt'[m] = attempt[m]
    BY <1>0, <1>3, AttemptBegins
  <2>2. RunningAttempts' = RunningAttempts \union {l}
    BY <2>1 DEF RunningAttempts
  <2>3. /\ IsFiniteSet(RunningAttempts \union {l})
        /\ Cardinality(RunningAttempts \union {l}) <= Cardinality(RunningAttempts) + 1
    BY <1>0, FS_AddElement DEF Capped
  <2>4. pc = "start" /\ pc' = "spec" /\ Cardinality(RunningAttempts \union {l}) \in Nat
    BY <1>3, <2>3, FS_CardinalityType DEF StartAttempt, Goto
  <2> QED BY <1>0, <1>1, <2>2, <2>3, <2>4 DEF Capped, Admitting
<1>4. CASE Controller /\ Settlement /\ attempt' # attempt
  <2>1. PICK l \in Launches : attempt'[l] # "running" /\ \A m \in Launches : m # l => attempt'[m] = attempt[m]
    BY <1>0, <1>4, AttemptEnds
  <2>2. RunningAttempts' \subseteq RunningAttempts
    BY <2>1 DEF RunningAttempts
  <2>3. PICK r : r = RunningAttempts'
    OBVIOUS
  <2>4. IsFiniteSet(r) /\ Cardinality(r) <= Cardinality(RunningAttempts) /\ Cardinality(r) \in Nat
    BY <2>2, <2>3, FS_Subset, FS_CardinalityType DEF Capped
  <2>5. pc' \notin Admitting
    BY <1>0, <1>4, Flows DEF Admitting
  <2> QED BY <1>0, <1>1, <2>3, <2>4, <2>5 DEF Capped
<1> QED BY <1>0, <1>2, <1>3, <1>4, UncutMoves

Kept == Held /\ Uncut /\ Current /\ Capped

LEMMA KeptInductive ==
  /\ Init => Kept
  /\ Kept /\ [Uncancelled]_vars => Kept'
<1>1. Init => Uncut /\ Current
  BY DEF Init, Uncut, Current
<1>2. Init => Capped
  <2>1. Init => RunningAttempts = {} /\ pc \notin Admitting
    BY DEF Init, RunningAttempts, Admitting
  <2> QED BY <2>1, FS_EmptySet, LaunchAssumption DEF Capped
<1> QED BY <1>1, <1>2, HeldInductive, UncutStep, CurrentStep, CappedStep DEF Kept, Held, Next

LEMMA KeptAlways == UncancelledSpec => []Kept
BY KeptInductive, PTL DEF UncancelledSpec

\* What is alive has a running attempt.
LEMMA AliveRuns ==
  ASSUME Kept, NEW l \in Launches, Alive(l)
  PROVE  attempt[l] = "running"
BY StageIdsOf DEF Kept, Held, Watched, NoWorkerLost, Uncut

\* Without a cancellation a task has at most one live worker process: its worktree is never
\* written by two workers, whatever crashes and restarts come between.
THEOREM OneWorkerLives == UncancelledSpec => []OneLiveWorker
<1>1. Kept => OneLiveWorker
  <2> SUFFICES ASSUME Kept, NEW l \in Launches, NEW m \in Launches, Alive(l), Alive(m), owner[l] = owner[m]
               PROVE  l = m
    BY DEF OneLiveWorker
  <2>1. attempt[l] = "running" /\ attempt[m] = "running"
    BY AliveRuns
  <2> QED BY <2>1 DEF Kept, Held, Sole, Exclusive, Under, Others
<1> QED BY <1>1, KeptAlways, PTL

\* Without a cancellation an attempt is started once and settled once: neither a repeated
\* reconciliation nor recovery changes the outcome of an attempt that has one.
THEOREM AttemptsSettle == UncancelledSpec => AttemptSettlesOnce
<1> DEFINE SettledOnce == \A l \in Launches : attempt[l] # attempt'[l] =>
                        \/ attempt[l] = "none" /\ attempt'[l] = "running"
                        \/ attempt[l] = "running" /\ attempt'[l] \notin {"none", "running"}
<1>1. Kept /\ [Uncancelled]_vars => [SettledOnce]_vars
  <2> SUFFICES ASSUME Kept, [Uncancelled]_vars
               PROVE  SettledOnce
    OBVIOUS
  <2>0. Sound /\ Sole /\ Held /\ Uncut /\ Current
    BY DEF Kept, Held
  <2>1. CASE StartAttempt
    <3>1. \E l \in Launches : /\ attempt[l] = "none" /\ attempt'[l] = "running"
                              /\ \A m \in Launches : m # l => attempt'[m] = attempt[m]
      BY <2>0, <2>1, AttemptBegins
    <3> QED BY <3>1
  <2>2. CASE Settlement
    <3>1. attempt[cur] = "running"
      BY <2>0, <2>2, SettlesRunning
    <3>2. \E l \in Launches : /\ l = cur /\ attempt'[l] \in {"succeeded", "failed", "cancelled"}
                              /\ \A m \in Launches : m # l => attempt'[m] = attempt[m]
      BY <2>0, <2>2, AttemptEnds
    <3> QED BY <3>1, <3>2
  <2> QED BY <2>0, <2>1, <2>2, UncutMoves
<1> QED BY <1>1, KeptAlways, PTL DEF UncancelledSpec, AttemptSettlesOnce

\* On a host with a process table, and without a cancellation, there are never more worker
\* processes than the limit: every running attempt counts in the admission of another one.
THEOREM WorkersCapped == UncancelledSpec => []WorkerCap
<1>1. Kept => WorkerCap
  <2> SUFFICES ASSUME Kept, procTable
               PROVE  Cardinality({l \in Launches : Alive(l)}) <= WorkerLimit
    BY DEF WorkerCap
  <2>1. {l \in Launches : Alive(l)} \subseteq RunningAttempts
    BY AliveRuns DEF RunningAttempts
  <2>2. /\ IsFiniteSet(RunningAttempts) /\ Cardinality(RunningAttempts) <= WorkerLimit
        /\ Cardinality(RunningAttempts) \in Nat /\ WorkerLimit \in Nat
    BY FS_CardinalityType, LaunchAssumption DEF Kept, Capped
  <2>3. PICK s : s = {l \in Launches : Alive(l)}
    OBVIOUS
  <2>4. Cardinality(s) <= Cardinality(RunningAttempts) /\ Cardinality(s) \in Nat
    BY <2>1, <2>2, <2>3, FS_Subset, FS_CardinalityType
  <2> QED BY <2>2, <2>3, <2>4
<1> QED BY <1>1, KeptAlways, PTL
=============================================================================
