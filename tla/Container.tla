------------------------------ MODULE Container ------------------------------
(***************************************************************************)
(* One container: the handlers of the resource, and the router, on which   *)
(* it is pulled, extracted, started and stopped in its own time.  What a   *)
(* start or a stop reports is dropped: the handler goes on, and only the   *)
(* refresh of a later run shows that the container is not as it should be. *)
(* A handler that waits for a status polls it; its process dies when the   *)
(* container is gone or the request fails.                                 *)
(***************************************************************************)
EXTENDS Integers

CONSTANT MaxTroubles  \* failures, and changes by the container or by others

ASSUME TroublesAssumption == MaxTroubles \in Nat

VARIABLES
    wanted,    \* the configuration: "running", "stopped" or "none"
    tagged,    \* the router reports a tag for the image
    status,    \* of the container, or "absent"
    known,     \* the state: there, tainted, running
    handler,   \* which one is under way: "none", "create", "update", "delete"
    stage,     \* where it is
    fresh,     \* the state was refreshed and not applied since
    troubles   \* so far

containerVars == <<wanted, tagged, status, known, handler, stage, fresh, troubles>>

Unknown == [there |-> FALSE, tainted |-> FALSE, running |-> FALSE]

Trouble == troubles < MaxTroubles /\ troubles' = troubles + 1
NoTrouble == UNCHANGED troubles

\* The plan: the container is as it should be.  (Another attribute may be
\* changed all the same.)
AsWanted ==
    IF wanted = "none" THEN ~known.there
    ELSE known.there /\ ~known.tainted /\ known.running = (wanted = "running")

-----------------------------------------------------------------------------
(* How a handler goes on.                                                  *)

Goto(s) == stage' = s /\ UNCHANGED <<wanted, tagged, known, handler, fresh>>

\* It returns: what is in the state then.
Returns(state) ==
    /\ known' = state /\ handler' = "none" /\ stage' = "none" /\ fresh' = FALSE
    /\ UNCHANGED <<wanted, tagged>>

\* It returns an error.  The planned values stay in the state; a container
\* that was just created is tainted.
ReturnsError ==
    Returns(CASE handler = "create" -> [Unknown EXCEPT !.there = TRUE, !.tainted = TRUE]
              [] handler = "update" -> [known EXCEPT !.running = (wanted = "running")]
              [] OTHER -> known)

\* After a start that is wanted, or none.
StartWanted == IF wanted = "running" THEN "awaits-image" ELSE "reads"
AfterStop == IF handler = "update" THEN "updates" ELSE "deletes"

-----------------------------------------------------------------------------
(* resCreate, resUpdate, resDelete.                                        *)

\* ResourceCreate.  A new container is pulled or extracted.
ContainerCreate ==
    /\ handler = "none" /\ fresh /\ ~known.there /\ wanted # "none"
    /\ handler' = "create" /\ stage' = StartWanted
    /\ \E s \in {"pulling", "extracting"} : status' = s
    /\ NoTrouble /\ UNCHANGED <<wanted, tagged, known, fresh>>

\* A stop is asked for: it fails when there is nothing to stop.
stopContainer(h) ==
    /\ handler' = h
    /\ \/ status = "running" /\ status' = "stopping" /\ stage' = "awaits-stop" /\ NoTrouble
       \/ /\ IF status = "running" THEN Trouble ELSE NoTrouble
          /\ stage' = (IF h = "update" THEN "updates" ELSE "deletes")
          /\ UNCHANGED status
    /\ UNCHANGED <<wanted, tagged, known, fresh>>

\* Also when only another attribute was changed.
ContainerUpdate ==
    /\ handler = "none" /\ fresh /\ known.there /\ ~known.tainted /\ wanted # "none"
    /\ stopContainer("update")

ContainerDelete ==
    /\ handler = "none" /\ fresh /\ known.there /\ (known.tainted \/ wanted = "none")
    /\ stopContainer("delete")

\* The wait ends when the container has stopped.
Stopped ==
    /\ stage = "awaits-stop" /\ status = "stopped"
    /\ Goto(AfterStop) /\ NoTrouble /\ UNCHANGED status

\* ResourceUpdate and what follows.
Updates ==
    /\ stage = "updates"
    /\ \/ status # "absent" /\ NoTrouble /\ Goto(StartWanted)
       \/ status # "absent" /\ Trouble /\ ReturnsError
       \/ status = "absent" /\ NoTrouble /\ ReturnsError
    /\ UNCHANGED status

\* ResourceDelete.  The router removes only what is stopped.
Deletes ==
    /\ stage = "deletes"
    /\ IF status \in {"running", "stopping", "starting"}
       THEN NoTrouble /\ ReturnsError /\ UNCHANGED status
       ELSE \/ status' = "absent" /\ NoTrouble /\ Returns(Unknown)
            \/ Trouble /\ ReturnsError /\ UNCHANGED status

\* startContainer: once the image is there, a start is asked for.
Starts ==
    /\ stage = "awaits-image" /\ status = "stopped"
    /\ \/ status' = "starting" /\ NoTrouble /\ Goto("awaits-start")
       \/ Trouble /\ Goto("reads") /\ UNCHANGED status

Started ==
    /\ stage = "awaits-start" /\ status = "running"
    /\ Goto("reads") /\ NoTrouble /\ UNCHANGED status

\* Any other status ends a wait at once.  (A container that is starting is
\* reported as stopped or as running.)
Awaited == CASE stage = "awaits-image" -> {"pulling", "extracting", "stopped"}
             [] stage = "awaits-start" -> {"stopped", "starting", "running"}
             [] OTHER -> {"stopping", "stopped"}

AfterWait == IF stage = "awaits-stop" THEN AfterStop ELSE "reads"
Waits == stage \in {"awaits-image", "awaits-start", "awaits-stop"}

WaitEnds ==
    /\ Waits /\ status # "absent" /\ status \notin Awaited
    /\ Goto(AfterWait) /\ NoTrouble /\ UNCHANGED status

\* Or it takes too long, as it does when nothing happens any more.
WaitGivesUp ==
    /\ Waits /\ status # "absent"
    /\ IF stage = "awaits-start" /\ status = "stopped" THEN NoTrouble ELSE Trouble
    /\ Goto(AfterWait) /\ UNCHANGED status

\* The status of the first of no containers: the provider dies, and the
\* state stays as it was.  A new container is nobody's then.
WaitPanics ==
    /\ Waits
    /\ IF status = "absent" THEN NoTrouble ELSE Trouble
    /\ Returns(known)
    /\ status' = IF handler = "create" THEN "absent" ELSE status

\* ResourceRead, which does not read whether the container is running.
Reads ==
    /\ stage = "reads"
    /\ \/ /\ NoTrouble
          /\ Returns(IF status = "absent" THEN Unknown
                     ELSE [there |-> TRUE, tainted |-> FALSE, running |-> wanted = "running"])
       \/ Trouble /\ ReturnsError
    /\ UNCHANGED status

-----------------------------------------------------------------------------
(* resRead, at the start of a run.  Without a tag it does not look whether *)
(* the container is running.                                               *)

\* A slip: the state says what was planned.
RunningAsBefore == known.running

RunningRead == IF tagged THEN status = "running" ELSE known.running

ContainerRefresh ==
    /\ handler = "none" /\ ~fresh /\ fresh' = TRUE /\ NoTrouble
    /\ known' = IF ~known.there THEN known
                ELSE IF status = "absent" THEN Unknown
                ELSE [known EXCEPT !.running = RunningRead]
    /\ UNCHANGED <<wanted, tagged, status, handler, stage>>

\* Nothing is to be done in this run.
RunEnds ==
    /\ handler = "none" /\ fresh /\ AsWanted /\ fresh' = FALSE
    /\ UNCHANGED <<wanted, tagged, status, known, handler, stage, troubles>>

Reconfigured ==
    /\ handler = "none" /\ ~fresh
    /\ \E w \in {"running", "stopped", "none"} : w # wanted /\ wanted' = w
    /\ Trouble
    /\ UNCHANGED <<tagged, status, known, handler, stage, fresh>>

-----------------------------------------------------------------------------
(* The router.                                                             *)

RouterWorks ==
    /\ \/ status = "pulling" /\ status' = "extracting"
       \/ status = "extracting" /\ status' = "stopped"
       \/ status = "starting" /\ status' = "running"
       \/ status = "stopping" /\ status' = "stopped"
    /\ UNCHANGED <<wanted, tagged, known, handler, stage, fresh, troubles>>

\* The image cannot be had, the container ends, others start or remove it.
RouterTroubles ==
    /\ Trouble
    /\ \/ status \in {"pulling", "extracting"} /\ status' = "error"
       \/ status \in {"starting", "running"} /\ status' = "stopped"
       \/ status = "stopped" /\ status' = "starting"
       \/ status \in {"stopped", "error"} /\ status' = "absent"
    /\ UNCHANGED <<wanted, tagged, known, handler, stage, fresh>>

ContainerInit ==
    /\ wanted \in {"running", "stopped"} /\ tagged \in BOOLEAN
    /\ status = "absent" /\ known = Unknown
    /\ handler = "none" /\ stage = "none" /\ fresh = FALSE /\ troubles = 0

HandlerSteps ==
    \/ Stopped \/ Updates \/ Deletes \/ Starts \/ Started
    \/ WaitEnds \/ WaitGivesUp \/ WaitPanics \/ Reads

\* Terraform is run again and again.
Runs ==
    \/ ContainerRefresh \/ RunEnds
    \/ ~AsWanted /\ (ContainerCreate \/ ContainerUpdate \/ ContainerDelete)

ContainerNext ==
    \/ HandlerSteps \/ Runs \/ ContainerUpdate \/ Reconfigured
    \/ RouterWorks \/ RouterTroubles

\* A handler that can go on does (its waits are bounded), the router works,
\* and Terraform is run again.
ContainerSpec ==
    /\ ContainerInit /\ [][ContainerNext]_containerVars
    /\ WF_containerVars(HandlerSteps) /\ WF_containerVars(Runs)
    /\ WF_containerVars(RouterWorks)

-----------------------------------------------------------------------------
(* Properties.                                                             *)

\* Where a handler can be: a create has nothing to stop, and a delete never
\* starts a container.
Stages(h) ==
    CASE h = "none" -> {"none"}
      [] h = "create" -> {"awaits-image", "awaits-start", "reads"}
      [] h = "update" -> {"awaits-stop", "updates", "awaits-image", "awaits-start", "reads"}
      [] OTHER -> {"awaits-stop", "deletes"}

ContainerTypeOK ==
    /\ wanted \in {"running", "stopped", "none"} /\ tagged \in BOOLEAN
    /\ status \in {"absent", "pulling", "extracting", "error", "stopped",
                   "starting", "running", "stopping"}
    /\ known \in [there : BOOLEAN, tainted : BOOLEAN, running : BOOLEAN]
    /\ handler \in {"none", "create", "update", "delete"}
    /\ stage \in Stages(handler)
    /\ fresh \in BOOLEAN /\ troubles \in 0 .. MaxTroubles

\* Whatever starts and stops were dropped, given up or died, and whatever the
\* container or others did, further runs of Terraform bring a container to run,
\* to stop or to go as it is configured, if the router has its image and
\* reports its tag.  (An update of another attribute restarts it.)
BroughtToState ==
    /\ <>[](wanted = "running" /\ tagged) => []<>(status \in {"running", "error"})
    /\ <>[](wanted = "stopped" /\ tagged) => <>[](status # "running")
    /\ <>[](wanted = "none") => <>[](~known.there)

=============================================================================
