---------------------------- MODULE SystemClock ----------------------------
(***************************************************************************)
(* The routeros_system_clock resource.  The router's clock runs, so what   *)
(* was written is never what is read; the Terraform state keeps the date   *)
(* and time last applied, and an apply writes only those that changed.     *)
(* An empty value in the state means that nothing has been applied.        *)
(*                                                                         *)
(* One request, with the local code around it, is one action.  The clock   *)
(* may show anything at any time: it runs, and people set it.  Terraform   *)
(* (it upgrades, refreshes, plans, applies and stores) is external.        *)
(***************************************************************************)
CONSTANTS Applied,      \* "date" and "time", the fields of a running clock
          Other,        \* the settings that stay, such as the time zone
          Value,        \* what the configuration may say
          Elsewhere,    \* a reading that no configuration names
          Null,         \* an attribute that is absent, or ""
          NoBlock,      \* no such block, in the configuration or the state
          FaultPoints   \* requests that may fail: "read", "create", "update"

ASSUME ClockAssumption ==
    /\ Applied \cap Other = {}
    /\ Elsewhere \notin Value /\ Null \notin Value \cup {Elsewhere}
    /\ FaultPoints \subseteq {"read", "create", "update"}
    /\ NoBlock \notin [Applied \cup Other -> Value \cup {Elsewhere, Null}]

VARIABLES
    router,    \* what the router shows for each attribute
    want,      \* the configuration
    record,    \* the Terraform state
    legacy,    \* the state was written with schema version 0
    pc,        \* where Terraform and the handler are
    result,    \* how the last run ended
    agreed,    \* history: the date and time the configuration has settled on
    given,     \* history: the last value of each the router had or was spared
    adopting,  \* history: imported or upgraded, and not applied since
    calm,      \* history: nobody else has changed a setting in this run
    settled    \* history: the last run succeeded, nothing changed since

stateVars == <<record, legacy>>
historyVars == <<agreed, given, adopting, calm, settled>>
vars == <<router, want, stateVars, pc, result, historyVars>>

Attr == Applied \cup Other
Reading == Value \cup {Elsewhere}
Shown == {r \in [Attr -> Reading] : \A a \in Other : r[a] \in Value}
Config == [Attr -> Value \cup {Null}]
Record == [Attr -> Reading \cup {Null}]

-----------------------------------------------------------------------------
(* What a request carries and what an operation leaves in the state.       *)

Create == record = NoBlock
Old(a) == IF Create THEN Null ELSE record[a]

\* The plan: a change to an attribute that the configuration leaves out is
\* suppressed.
HasChange(a) == want[a] # Null /\ want[a] # Old(a)
Planned(a) == IF want[a] # Null THEN want[a] ELSE Old(a)

\* A changed date or time of a resource that is not new.
NothingApplied(f) == ~Create /\ Old(f) = Null

\* A slip: the request carries the date and time whenever it carries anything.
IsAlwaysWritten(a) == Planned(a) # Null

\* A slip: attributes without a value are sent too.
IsSentEmpty(a) == a \in Applied => HasChange(a) /\ ~NothingApplied(a)

IsWritten(a) ==
    IF a \in Applied THEN HasChange(a) /\ ~NothingApplied(a)
    ELSE Planned(a) # Null

\* A slip: the router's clock replaces what was applied.
KeptReading(a) == router[a]

\* systemClockCapture and systemClockRestore around the read of an apply.
Kept(a) ==
    IF a \in Applied /\ Planned(a) # Null THEN Planned(a) ELSE router[a]

\* A slip: a refresh stores what the clock shows.
RefreshedReading(a) == router[a]

\* The same around the read of a refresh or an import: empty stays empty.
Refreshed(a) == IF a \in Applied THEN Old(a) ELSE router[a]

-----------------------------------------------------------------------------
(* The end of a run.                                                       *)

Asked(f) == IF want = NoBlock THEN Null ELSE want[f]

Succeed ==
    /\ pc' = "idle" /\ result' = "ok"
    /\ agreed' = [f \in Applied |-> Asked(f)]
    /\ adopting' = FALSE

\* What the run was asked to change is unsettled.
Fail ==
    /\ pc' = "idle" /\ result' = "error"
    /\ agreed' = [f \in Applied |->
                     IF Asked(f) = agreed[f] THEN agreed[f] ELSE Null]
    /\ adopting' = FALSE

Abort ==
    /\ "read" \in FaultPoints
    /\ pc' = "idle" /\ result' = "error"
    /\ UNCHANGED <<router, want, stateVars, historyVars>>

-----------------------------------------------------------------------------
(* State upgrade, refresh and import.                                      *)

\* systemClockForgetLegacyReading
Upgrade ==
    /\ pc = "upgrade"
    /\ record' = [a \in Attr |-> IF a \in Applied THEN Null ELSE record[a]]
    /\ legacy' = FALSE /\ pc' = "refresh"
    /\ UNCHANGED <<router, want, result, historyVars>>

Refresh ==
    /\ pc = "refresh"
    /\ record' = [a \in Attr |-> Refreshed(a)]
    /\ pc' = "plan"
    /\ UNCHANGED <<router, want, legacy, result, historyVars>>

Import ==
    /\ pc = "import"
    /\ record' = [a \in Attr |-> Refreshed(a)]
    /\ pc' = "plan" /\ adopting' = TRUE
    /\ UNCHANGED <<router, want, legacy, result, agreed, given, calm, settled>>

ReadFails == pc \in {"refresh", "import"} /\ Abort

-----------------------------------------------------------------------------
(* systemClockApply                                                        *)

Operation == IF Create THEN "create" ELSE "update"

NothingToDo ==
    /\ pc = "plan"
    /\ IF want = NoBlock THEN Create
       ELSE ~Create /\ \A a \in Attr : ~HasChange(a)
    /\ Succeed
    /\ UNCHANGED <<router, want, stateVars, given, calm, settled>>

\* DefaultSystemDelete: the clock goes on without the resource.
Delete ==
    /\ pc = "plan"
    /\ want = NoBlock /\ ~Create
    /\ record' = NoBlock
    /\ Succeed
    /\ UNCHANGED <<router, want, legacy, given, calm, settled>>

Plan ==
    /\ pc = "plan"
    /\ want # NoBlock
    /\ Create \/ \E a \in Attr : HasChange(a)
    /\ pc' = "set"
    /\ UNCHANGED <<router, want, stateVars, result, historyVars>>

Written(a) == IF IsWritten(a) THEN Planned(a) ELSE router[a]

\* A value with nothing applied before it is recorded instead.
Execute ==
    /\ router' = [a \in Attr |-> Written(a)]
    /\ given' = [f \in Applied |-> IF HasChange(f) THEN want[f] ELSE given[f]]

OnlyRecord ==
    /\ given' = [f \in Applied |->
                    IF HasChange(f) /\ NothingApplied(f) THEN want[f] ELSE given[f]]
    /\ UNCHANGED router

Set ==
    /\ pc = "set"
    /\ Execute
    /\ pc' = "reread"
    /\ UNCHANGED <<want, stateVars, result, agreed, adopting, calm, settled>>

\* What Terraform stores after an error: nothing for a resource that has no
\* id yet, the values it has planned otherwise.
Stored == IF Create THEN NoBlock ELSE [a \in Attr |-> Planned(a)]

SetFails ==
    /\ pc = "set"
    /\ Operation \in FaultPoints
    /\ Execute \/ OnlyRecord
    /\ record' = Stored
    /\ Fail
    /\ UNCHANGED <<want, legacy, calm, settled>>

\* The router's reading stands in for a field with no planned value.
Reread ==
    /\ pc = "reread"
    /\ record' = [a \in Attr |-> Kept(a)]
    /\ given' = [f \in Applied |->
                    IF Planned(f) = Null THEN router[f] ELSE given[f]]
    /\ Succeed
    /\ UNCHANGED <<router, want, legacy, calm, settled>>

RereadFails ==
    /\ pc = "reread"
    /\ "read" \in FaultPoints
    /\ record' = Stored
    /\ Fail
    /\ UNCHANGED <<router, want, legacy, given, calm, settled>>

-----------------------------------------------------------------------------

\* The user runs Terraform, after an edit or not; a clock that the state does
\* not have can be imported first.
Run ==
    /\ pc = "idle"
    /\ \E w \in Config \cup {NoBlock} :
          /\ want' = w
          /\ settled' = (w = want /\ result = "ok" /\ calm)
          /\ \/ ~Create /\ pc' = IF legacy THEN "upgrade" ELSE "refresh"
             \/ Create /\ pc' = "plan"
             \/ Create /\ w # NoBlock /\ pc' = "import"
    /\ calm' = TRUE
    /\ UNCHANGED <<router, stateVars, result, agreed, given, adopting>>

\* The clock runs, or is set by others.
Tick ==
    /\ \E f \in Applied, r \in Reading : router' = [router EXCEPT ![f] = r]
    /\ UNCHANGED <<want, stateVars, pc, result, historyVars>>

Outside ==
    /\ \E a \in Other, v \in Value : router' = [router EXCEPT ![a] = v]
    /\ calm' = FALSE /\ settled' = FALSE
    /\ UNCHANGED <<want, stateVars, pc, result, agreed, given, adopting>>

\* Nothing, or the state of a provider that stored the clock it had read.
Init ==
    /\ router \in Shown
    /\ want \in Config
    /\ \/ record = NoBlock /\ legacy = FALSE /\ adopting = FALSE
          /\ agreed = [f \in Applied |-> Null]
       \/ record \in Shown /\ legacy = TRUE /\ adopting = TRUE
          /\ agreed = [f \in Applied |-> want[f]]
    /\ given = [f \in Applied |-> Null]
    /\ pc = "idle" /\ result = "none" /\ calm = TRUE /\ settled = FALSE

Next ==
    \/ Run \/ Upgrade \/ Refresh \/ Import \/ ReadFails
    \/ NothingToDo \/ Delete \/ Plan \/ Set \/ SetFails
    \/ Reread \/ RereadFails \/ Tick \/ Outside

Spec == Init /\ [][Next]_vars

-----------------------------------------------------------------------------
(* Properties.                                                             *)

TypeOK ==
    /\ router \in Shown
    /\ want \in Config \cup {NoBlock}
    /\ record \in Record \cup {NoBlock}
    /\ legacy \in BOOLEAN
    /\ pc \in {"idle", "upgrade", "refresh", "import", "plan", "set", "reread"}
    /\ result \in {"none", "ok", "error"}
    /\ agreed \in [Applied -> Value \cup {Null}]
    /\ given \in [Applied -> Reading \cup {Null}]
    /\ adopting \in BOOLEAN /\ calm \in BOOLEAN
    /\ settled \in BOOLEAN

\* An apply sets the clock only to a date or time that the configuration has
\* not settled on before, and never in the run that takes over a clock from an
\* import or an older state: an edit of the time zone does not rewind it.
WritesAreAsked ==
    [][\A f \in Applied : pc = "set" /\ pc' # "set" /\ router'[f] # router[f]
           => want[f] # agreed[f] /\ ~adopting]_vars

\* A run that reports success has left no configured date or time that was
\* neither written, nor recorded when the clock was taken over, nor shown by
\* the router when it was stored: the state has the values last applied.
AskedIsDone ==
    pc = "idle" /\ result = "ok" /\ want # NoBlock =>
        \A f \in Applied : want[f] # Null => given[f] = want[f]

\* A clock that runs on is no change: after a successful run, with the same
\* configuration and no setting changed on the router, nothing is planned.
SecondPlanIsEmpty ==
    settled /\ pc = "plan" /\ want # NoBlock =>
        record # NoBlock /\ \A a \in Attr : ~HasChange(a)

=============================================================================
