------------------------------ MODULE Custody ------------------------------
(***************************************************************************)
(* What the resource lifecycle promises, without requests, replies or      *)
(* diagnostics: every block of the configuration has custody of at most    *)
(* one object of the router, keeps it until that object is gone, and two   *)
(* blocks never have custody of the same object.                           *)
(***************************************************************************)
CONSTANTS Block, Object, Nobody

VARIABLES custody,   \* the object a block manages, or Nobody
          alive      \* the objects the router has

vars == <<custody, alive>>

Init ==
    /\ custody = [b \in Block |-> Nobody]
    /\ alive = {}

Free(o) == \A b \in Block : custody[b] # o

Take(b, o) ==
    /\ custody[b] = Nobody
    /\ o \in alive' /\ Free(o)
    /\ custody' = [custody EXCEPT ![b] = o]

Release(b) ==
    /\ custody[b] \notin alive'
    /\ custody' = [custody EXCEPT ![b] = Nobody]

\* The router's objects come and go; a block's custody follows.
Next ==
    /\ alive' \subseteq Object
    /\ \/ \E b \in Block, o \in Object : Take(b, o)
       \/ \E b \in Block : Release(b)
       \/ UNCHANGED custody

Spec == Init /\ [][Next]_vars

=============================================================================
