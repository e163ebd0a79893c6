---------------------------- MODULE ExclusiveUse ----------------------------
(***************************************************************************)
(* What the maintenance lock promises (src/maintenance/lock.ts,            *)
(* src/maintenance/migrate.ts): a database is worked on by any number of   *)
(* users, or rewritten by one owner, never both.                           *)
(***************************************************************************)
CONSTANTS Users, Owners

VARIABLES using, owning
useVars == <<using, owning>>

Init == using = {} /\ owning = {}

Enter(u) == owning = {} /\ using' = using \union {u} /\ UNCHANGED owning
Leave(u) == using' = using \ {u} /\ UNCHANGED owning
Take(o)  == using = {} /\ owning = {} /\ owning' = {o} /\ UNCHANGED using
Drop(o)  == owning' = owning \ {o} /\ UNCHANGED using

Next == \/ \E u \in Users  : Enter(u) \/ Leave(u)
        \/ \E o \in Owners : Take(o) \/ Drop(o)

Spec == Init /\ [][Next]_useVars
=============================================================================
