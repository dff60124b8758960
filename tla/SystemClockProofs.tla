------------------------- MODULE SystemClockProofs -------------------------
(***************************************************************************)
(* What TLAPS proves of the system clock, for any fields and values and    *)
(* whichever requests fail: an apply writes only what is asked for, and,   *)
(* when no update fails, what is asked for is done.                        *)
(***************************************************************************)
EXTENDS SystemClock, TLAPS

LEMMA NoBlockIsNone == NoBlock \notin Config /\ NoBlock \notin Record
<1>1. Reading \cup {Null} = Value \cup {Elsewhere, Null}
  BY DEF Reading
<1>2. ASSUME NoBlock \in Config PROVE NoBlock \in Record
  BY <1>2 DEF Config, Record, Reading
<1> QED BY <1>1, <1>2, ClockAssumption DEF Record, Attr

LEMMA ShownIsRecord == Shown \subseteq Record
BY DEF Shown, Record

\* The stages of a run at which there is a configured block, and a stored one.
StageInv ==
    /\ pc \in {"set", "reread", "import"} => want # NoBlock
    /\ pc \in {"upgrade", "refresh"} => ~Create
    /\ pc = "import" => Create
    /\ legacy => ~Create /\ pc \in {"idle", "upgrade"} /\ result # "ok"

\* A date or time the configuration has settled on is in the state, or has
\* been cleared from it by the upgrade.
AgreedInv ==
    \A f \in Applied : agreed[f] # Null =>
        ~Create /\ (legacy \/ record[f] \in {agreed[f], Null})

\* A clock that is being taken over has nothing applied.
AdoptingInv ==
    adopting => ~Create /\ (legacy \/ \A f \in Applied : record[f] = Null)

\* The settings are never read as Elsewhere: what is planned for them comes
\* from the configuration or from an earlier reading of them.
SettingsInv ==
    ~Create => \A a \in Other : record[a] \in Value \cup {Null}

ClockInv == TypeOK /\ StageInv /\ SettingsInv /\ AgreedInv /\ AdoptingInv

-----------------------------------------------------------------------------
(* The helpers have the types of what they compute.                        *)

LEMMA ValuesTyped ==
    ASSUME TypeOK, want # NoBlock, NEW a \in Attr
    PROVE  /\ want[a] \in Value \cup {Null}
           /\ Old(a) \in Reading \cup {Null}
           /\ Planned(a) \in Reading \cup {Null}
BY DEF TypeOK, Config, Record, Old, Create, Planned, Reading

LEMMA StoredTyped ==
    ASSUME TypeOK, want # NoBlock PROVE Stored \in Record \cup {NoBlock}
BY ValuesTyped DEF Stored, Record

LEMMA KeptTyped ==
    ASSUME TypeOK, want # NoBlock PROVE [a \in Attr |-> Kept(a)] \in Record
<1>1. ASSUME NEW a \in Attr PROVE Kept(a) \in Reading \cup {Null}
  BY <1>1, ValuesTyped DEF Kept, TypeOK, Shown
<1> QED BY <1>1 DEF Record

LEMMA RefreshedTyped ==
    ASSUME TypeOK PROVE [a \in Attr |-> Refreshed(a)] \in Record
<1>1. ASSUME NEW a \in Attr PROVE Refreshed(a) \in Reading \cup {Null}
  BY <1>1 DEF Refreshed, Old, Create, TypeOK, Shown, Record
<1> QED BY <1>1 DEF Record

LEMMA ExecuteTyped ==
    ASSUME TypeOK, SettingsInv, want # NoBlock, Execute
    PROVE  router' \in Shown /\ given' \in [Applied -> Reading \cup {Null}]
<1>1. ASSUME NEW a \in Attr PROVE Written(a) \in Reading
  <2>1. CASE IsWritten(a)
    BY <1>1, <2>1, ValuesTyped DEF Written, IsWritten, HasChange, Planned
  <2>2. CASE ~IsWritten(a)
    BY <1>1, <2>2 DEF Written, TypeOK, Shown
  <2> QED BY <2>1, <2>2
<1>2. ASSUME NEW a \in Other PROVE Written(a) \in Value
  <2>1. a \in Attr /\ a \notin Applied
    BY <1>2, ClockAssumption DEF Attr
  <2>2. CASE IsWritten(a)
    BY <1>2, <2>1, <2>2, ValuesTyped
       DEF Written, IsWritten, Planned, Old, Create, SettingsInv
  <2>3. CASE ~IsWritten(a)
    BY <1>2, <2>1, <2>3 DEF Written, TypeOK, Shown
  <2> QED BY <2>2, <2>3
<1>3. router' \in Shown
  BY <1>1, <1>2 DEF Execute, Shown, Attr
<1>4. \A f \in Applied : f \in Attr
  BY DEF Attr
<1>5. ASSUME NEW f \in Applied
      PROVE  (IF HasChange(f) THEN want[f] ELSE given[f])
                 \in Reading \cup {Null}
  BY <1>4, <1>5, ValuesTyped DEF HasChange, Reading, TypeOK
<1> QED BY <1>3, <1>5 DEF Execute

LEMMA OnlyRecordTyped ==
    ASSUME TypeOK, want # NoBlock, OnlyRecord
    PROVE  router' \in Shown /\ given' \in [Applied -> Reading \cup {Null}]
<1>1. ASSUME NEW f \in Applied
      PROVE  (IF HasChange(f) /\ NothingApplied(f) THEN want[f] ELSE given[f])
                 \in Reading \cup {Null}
  <2>1. f \in Attr
    BY DEF Attr
  <2> QED BY <1>1, <2>1, ValuesTyped DEF Reading, TypeOK
<1> QED BY <1>1 DEF OnlyRecord, TypeOK

LEMMA SucceedTyped ==
    ASSUME TypeOK, Succeed
    PROVE  /\ agreed' \in [Applied -> Value \cup {Null}]
           /\ pc' = "idle" /\ result' = "ok" /\ adopting' = FALSE
<1>1. ASSUME NEW f \in Applied PROVE Asked(f) \in Value \cup {Null}
  BY <1>1 DEF Asked, TypeOK, Config, Attr
<1> QED BY <1>1 DEF Succeed

LEMMA FailTyped ==
    ASSUME TypeOK, Fail
    PROVE  /\ agreed' \in [Applied -> Value \cup {Null}]
           /\ pc' = "idle" /\ result' = "error" /\ adopting' = FALSE
<1>1. ASSUME NEW f \in Applied
      PROVE  (IF Asked(f) = agreed[f] THEN agreed[f] ELSE Null)
                 \in Value \cup {Null}
  BY <1>1 DEF TypeOK
<1> QED BY <1>1 DEF Fail

-----------------------------------------------------------------------------
(* One lemma for each step of a run.                                       *)

LEMMA InitEstablishes == Init => ClockInv
<1> SUFFICES ASSUME Init PROVE ClockInv
  OBVIOUS
<1>1. \A f \in Applied : f \in Attr
  BY DEF Attr
<1>2. TypeOK
  <2>1. agreed \in [Applied -> Value \cup {Null}]
    BY <1>1 DEF Init, Config
  <2> QED BY <2>1, ShownIsRecord DEF Init, TypeOK
<1>3. StageInv /\ AdoptingInv
  BY NoBlockIsNone, ShownIsRecord DEF Init, StageInv, AdoptingInv, Create
<1>4. SettingsInv
  BY DEF Init, SettingsInv, Create, Shown
<1>5. AgreedInv
  BY NoBlockIsNone, ShownIsRecord DEF Init, AgreedInv, Create
<1> QED BY <1>2, <1>3, <1>4, <1>5 DEF ClockInv

LEMMA RunKeeps == ASSUME ClockInv, Run PROVE ClockInv'
<1> USE DEF ClockInv
<1>1. TypeOK'
  BY DEF Run, TypeOK, stateVars
<1>2. StageInv'
  BY DEF Run, StageInv, Create, stateVars
<1> QED BY <1>1, <1>2
     DEF Run, SettingsInv, AgreedInv, AdoptingInv, Create, stateVars

LEMMA UpgradeKeepsInv == ASSUME ClockInv, Upgrade PROVE ClockInv'
<1> USE DEF ClockInv
<1>1. ~Create /\ record \in Record
  BY DEF Upgrade, StageInv, TypeOK, Create
<1>2. record' \in Record /\ record' # NoBlock
  BY <1>1, NoBlockIsNone DEF Upgrade, Record
<1>3. \A f \in Applied : record'[f] = Null
  BY DEF Upgrade, Attr
<1>4. \A a \in Other : a \in Attr /\ a \notin Applied
  BY ClockAssumption DEF Attr
<1>5. TypeOK'
  BY <1>2 DEF Upgrade, TypeOK, historyVars
<1>6. StageInv' /\ SettingsInv'
  BY <1>1, <1>2, <1>4 DEF Upgrade, StageInv, SettingsInv, Create, historyVars
<1>7. AgreedInv' /\ AdoptingInv'
  BY <1>2, <1>3 DEF Upgrade, AgreedInv, AdoptingInv, Create, historyVars
<1> QED BY <1>5, <1>6, <1>7

\* A refresh and an import keep what was applied, and read the rest.
LEMMA ReadsTheRest ==
    ASSUME TypeOK, record' = [a \in Attr |-> Refreshed(a)]
    PROVE  /\ record' \in Record /\ record' # NoBlock
           /\ \A f \in Applied : record'[f] = Old(f)
           /\ \A a \in Other : record'[a] = router[a] /\ router[a] \in Value
<1>1. record' \in Record /\ record' # NoBlock
  BY RefreshedTyped, NoBlockIsNone
<1>2. \A f \in Applied : record'[f] = Old(f)
  BY DEF Refreshed, Attr
<1>3. \A a \in Other : record'[a] = router[a] /\ router[a] \in Value
  BY ClockAssumption DEF Refreshed, Attr, TypeOK, Shown
<1> QED BY <1>1, <1>2, <1>3

LEMMA RefreshKeeps == ASSUME ClockInv, Refresh PROVE ClockInv'
<1> USE DEF ClockInv
<1>1. ~Create /\ ~legacy
  BY DEF Refresh, StageInv
<1>2. /\ record' \in Record /\ record' # NoBlock
      /\ \A f \in Applied : record'[f] = record[f]
      /\ \A a \in Other : record'[a] \in Value
  BY <1>1, ReadsTheRest DEF Refresh, Old
<1>3. TypeOK'
  BY <1>2 DEF Refresh, TypeOK, historyVars
<1>4. StageInv' /\ SettingsInv'
  BY <1>1, <1>2 DEF Refresh, StageInv, SettingsInv, Create
<1>5. AgreedInv' /\ AdoptingInv'
  BY <1>1, <1>2 DEF Refresh, AgreedInv, AdoptingInv, Create, historyVars
<1> QED BY <1>3, <1>4, <1>5

LEMMA ImportKeeps == ASSUME ClockInv, Import PROVE ClockInv'
<1> USE DEF ClockInv
<1>1. Create /\ ~legacy
  BY DEF Import, StageInv
<1>2. /\ record' \in Record /\ record' # NoBlock
      /\ \A f \in Applied : record'[f] = Null
      /\ \A a \in Other : record'[a] \in Value
  BY <1>1, ReadsTheRest DEF Import, Old
<1>3. TypeOK'
  BY <1>2 DEF Import, TypeOK
<1>4. StageInv' /\ SettingsInv'
  BY <1>1, <1>2 DEF Import, StageInv, SettingsInv, Create
<1>5. AgreedInv' /\ AdoptingInv'
  BY <1>1, <1>2 DEF Import, AgreedInv, AdoptingInv, Create
<1> QED BY <1>3, <1>4, <1>5

LEMMA ReadFailsKeeps == ASSUME ClockInv, ReadFails PROVE ClockInv'
<1> USE DEF ClockInv
<1>1. TypeOK'
  BY DEF ReadFails, Abort, TypeOK, stateVars, historyVars
<1>2. StageInv'
  BY DEF ReadFails, Abort, StageInv, Create, stateVars
<1> QED BY <1>1, <1>2 DEF ReadFails, Abort, SettingsInv, AgreedInv,
                         AdoptingInv, Create, stateVars, historyVars

LEMMA NothingToDoKeeps == ASSUME ClockInv, NothingToDo PROVE ClockInv'
<1> USE DEF ClockInv
<1>1. TypeOK' /\ adopting' = FALSE
  BY SucceedTyped DEF NothingToDo, TypeOK, stateVars
<1>2. StageInv' /\ SettingsInv' /\ AdoptingInv'
  BY <1>1 DEF NothingToDo, Succeed, StageInv, SettingsInv, AdoptingInv,
              Create, stateVars
<1>3. ASSUME NEW f \in Applied, agreed'[f] # Null
      PROVE  ~Create' /\ record'[f] = agreed'[f]
  <2>1. agreed'[f] = Asked(f) /\ f \in Attr
    BY <1>3 DEF NothingToDo, Succeed, Attr
  <2>2. want # NoBlock /\ want[f] # Null
    BY <1>3, <2>1 DEF Asked
  <2>3. ~Create /\ ~HasChange(f)
    BY <2>1, <2>2 DEF NothingToDo
  <2> QED BY <2>1, <2>2, <2>3 DEF Asked, HasChange, Old, NothingToDo, Create, stateVars
<1> QED BY <1>1, <1>2, <1>3 DEF AgreedInv

LEMMA DeleteKeeps == ASSUME ClockInv, Delete PROVE ClockInv'
<1> USE DEF ClockInv
<1>1. TypeOK' /\ adopting' = FALSE
  BY SucceedTyped DEF Delete, TypeOK
<1>2. ~legacy /\ legacy' = legacy
  BY DEF Delete, StageInv
<1>3. StageInv' /\ SettingsInv' /\ AdoptingInv'
  BY <1>1, <1>2 DEF Delete, Succeed, StageInv, SettingsInv, AdoptingInv, Create
<1>4. \A f \in Applied : agreed'[f] = Null
  BY DEF Delete, Succeed, Asked
<1> QED BY <1>1, <1>3, <1>4 DEF AgreedInv

LEMMA PlanKeeps == ASSUME ClockInv, Plan PROVE ClockInv'
<1> USE DEF ClockInv
<1>1. TypeOK'
  BY DEF Plan, TypeOK, stateVars, historyVars
<1> QED BY <1>1 DEF Plan, StageInv, SettingsInv, AgreedInv, AdoptingInv,
                    Create, stateVars, historyVars

LEMMA SetKeeps == ASSUME ClockInv, Set PROVE ClockInv'
<1> USE DEF ClockInv
<1>1. want # NoBlock
  BY DEF Set, StageInv
<1>2. TypeOK'
  BY <1>1, ExecuteTyped DEF Set, TypeOK, stateVars
<1> QED BY <1>1, <1>2 DEF Set, StageInv, SettingsInv, AgreedInv, AdoptingInv,
                          Create, stateVars

\* An operation on a configured block that ends in an error.
LEMMA FailKeeps ==
    ASSUME ClockInv, ~legacy, want # NoBlock, Fail, record' = Stored,
           router' \in Shown, given' \in [Applied -> Reading \cup {Null}],
           UNCHANGED <<want, legacy, calm, settled>>
    PROVE  ClockInv'
<1> USE DEF ClockInv
<1>1. TypeOK' /\ adopting' = FALSE
  BY FailTyped, StoredTyped DEF TypeOK
<1>2. StageInv' /\ AdoptingInv'
  BY <1>1 DEF Fail, StageInv, AdoptingInv
<1>3. SettingsInv'
  <2>1. ASSUME NEW a \in Other, ~Create' PROVE record'[a] \in Value \cup {Null}
    <3>1. ~Create /\ a \in Attr /\ record'[a] = Planned(a)
      BY <2>1 DEF Stored, Create, Attr
    <3> QED BY <3>1 DEF Planned, Old, SettingsInv, TypeOK, Config
  <2> QED BY <2>1 DEF SettingsInv
<1>4. ASSUME NEW f \in Applied, agreed'[f] # Null
      PROVE  ~Create' /\ record'[f] = agreed'[f]
  <2>1. agreed[f] # Null /\ agreed'[f] = want[f] /\ want[f] # Null /\ f \in Attr
    BY <1>4 DEF Fail, Asked, Attr
  <2>2. ~Create
    BY <2>1 DEF AgreedInv
  <2>3. record' \in Record /\ record'[f] = want[f]
    BY <2>1, <2>2, ValuesTyped DEF Stored, Planned, Record
  <2> QED BY <2>1, <2>3, NoBlockIsNone DEF Create
<1> QED BY <1>1, <1>2, <1>3, <1>4 DEF AgreedInv

LEMMA SetFailsKeeps == ASSUME ClockInv, SetFails PROVE ClockInv'
<1> USE DEF ClockInv
<1>1. want # NoBlock /\ ~legacy
  BY DEF SetFails, StageInv
<1>2. router' \in Shown /\ given' \in [Applied -> Reading \cup {Null}]
  BY <1>1, ExecuteTyped, OnlyRecordTyped DEF SetFails
<1> QED BY <1>1, <1>2, FailKeeps DEF SetFails

LEMMA RereadFailsKeeps == ASSUME ClockInv, RereadFails PROVE ClockInv'
<1> USE DEF ClockInv
<1>1. want # NoBlock /\ ~legacy
  BY DEF RereadFails, StageInv
<1> QED BY <1>1, FailKeeps DEF RereadFails, TypeOK

LEMMA RereadKeeps == ASSUME ClockInv, Reread PROVE ClockInv'
<1> USE DEF ClockInv
<1>1. want # NoBlock /\ ~legacy
  BY DEF Reread, StageInv
<1>2. record' \in Record /\ record' # NoBlock
  BY <1>1, KeptTyped, NoBlockIsNone DEF Reread
<1>3. given' \in [Applied -> Reading \cup {Null}]
  BY DEF Reread, TypeOK, Shown, Attr
<1>4. TypeOK' /\ adopting' = FALSE
  BY <1>2, <1>3, SucceedTyped DEF Reread, TypeOK
<1>5. StageInv' /\ AdoptingInv'
  BY <1>1, <1>2, <1>4 DEF Reread, Succeed, StageInv, AdoptingInv, Create
<1>6. SettingsInv'
  BY ClockAssumption DEF Reread, Kept, SettingsInv, Attr, TypeOK, Shown
<1>7. ASSUME NEW f \in Applied, agreed'[f] # Null
      PROVE  record'[f] = agreed'[f]
  BY <1>1, <1>7 DEF Reread, Succeed, Asked, Kept, Planned, Attr
<1> QED BY <1>2, <1>4, <1>5, <1>6, <1>7 DEF AgreedInv, Create

LEMMA OthersKeep == ASSUME ClockInv, Tick \/ Outside PROVE ClockInv'
<1> USE DEF ClockInv
<1>1. router' \in Shown
  BY ClockAssumption DEF Tick, Outside, TypeOK, Shown, Attr, Reading
<1>2. TypeOK'
  BY <1>1 DEF Tick, Outside, TypeOK, stateVars, historyVars
<1> QED BY <1>2 DEF Tick, Outside, StageInv, SettingsInv, AgreedInv,
                    AdoptingInv, Create, stateVars, historyVars

LEMMA ClockInvStep == ASSUME ClockInv, [Next]_vars PROVE ClockInv'
<1>1. CASE Next
  BY <1>1, RunKeeps, UpgradeKeepsInv, RefreshKeeps, ImportKeeps, ReadFailsKeeps,
     NothingToDoKeeps, DeleteKeeps, PlanKeeps, SetKeeps, SetFailsKeeps,
     RereadKeeps, RereadFailsKeeps, OthersKeep DEF Next
<1>2. CASE UNCHANGED vars
  BY <1>2 DEF vars, stateVars, historyVars, ClockInv, TypeOK, StageInv,
              SettingsInv, AgreedInv, AdoptingInv, Create
<1> QED BY <1>1, <1>2

\* What the configuration has settled on is in the Terraform state or was
\* cleared from it, and a clock that is taken over has nothing applied.
THEOREM ClockInvariant == Spec => []ClockInv
<1> QED BY InitEstablishes, ClockInvStep, PTL DEF Spec

\* Type correctness of the clock resource.
THEOREM ClockTypeCorrect == Spec => []TypeOK
<1>1. ClockInv => TypeOK
  BY DEF ClockInv
<1> QED BY <1>1, ClockInvariant, PTL

-----------------------------------------------------------------------------
(* An apply writes a date or time only when it is asked to.                *)

LEMMA OnlyChangesAreWritten ==
    ASSUME ClockInv, pc = "set", Execute, NEW f \in Applied,
           router'[f] # router[f]
    PROVE  want[f] # agreed[f] /\ ~adopting
<1> USE DEF ClockInv
<1>1. f \in Attr /\ ~legacy
  BY DEF StageInv, Attr
<1>2. HasChange(f) /\ ~NothingApplied(f)
  BY <1>1 DEF Execute, Written, IsWritten
<1>3. want[f] # agreed[f]
  BY <1>1, <1>2 DEF HasChange, NothingApplied, AgreedInv, Old
<1>4. ~adopting
  BY <1>1, <1>2 DEF NothingApplied, AdoptingInv, Old
<1> QED BY <1>3, <1>4

\* The date and time are set by no apply but one whose configuration names a
\* new value, and never in the run that takes over a clock, whichever requests
\* fail: systemClockApply never rewinds a clock.
THEOREM ClockWritesAreAsked == Spec => WritesAreAsked
<1> DEFINE A == \A f \in Applied :
                   pc = "set" /\ pc' # "set" /\ router'[f] # router[f]
                       => want[f] # agreed[f] /\ ~adopting
<1>1. ASSUME ClockInv, Next PROVE A
  <2> SUFFICES ASSUME pc = "set", pc' # "set"
               PROVE  \A f \in Applied : router'[f] # router[f]
                          => want[f] # agreed[f] /\ ~adopting
    OBVIOUS
  <2>1. Set \/ SetFails
    BY <1>1 DEF Next, Run, Upgrade, Refresh, Import, ReadFails, NothingToDo,
                Delete, Plan, Reread, RereadFails, Tick, Outside
  <2>2. Execute \/ UNCHANGED router
    BY <2>1 DEF Set, SetFails, OnlyRecord
  <2> QED BY <1>1, <2>2, OnlyChangesAreWritten
<1>2. ClockInv /\ [Next]_vars => [A]_vars
  BY <1>1
<1> QED BY <1>2, ClockInvariant, PTL DEF Spec, WritesAreAsked

-----------------------------------------------------------------------------
(* What is stored was written, recorded or read, unless an update failed.  *)

\* Between two operations for the values in the state, and after the request
\* for those that the operation has planned.
GivenInv ==
    /\ pc # "reread" /\ ~legacy /\ ~Create =>
           \A f \in Applied : record[f] # Null => given[f] = record[f]
    /\ pc = "reread" =>
           \A f \in Applied : Planned(f) # Null => given[f] = Planned(f)

DoneInv == ClockInv /\ GivenInv /\ AskedIsDone

LEMMA PlannedOrStored ==
    ASSUME ClockInv, want # NoBlock, NEW f \in Applied, ~HasChange(f)
    PROVE  Planned(f) = Old(f)
BY DEF HasChange, Planned

LEMMA DoneKeptAside ==
    ASSUME DoneInv,
           Run \/ Upgrade \/ Refresh \/ Import \/ ReadFails \/ Plan
              \/ Tick \/ Outside
    PROVE  GivenInv' /\ AskedIsDone'
<1> USE DEF DoneInv, ClockInv
<1>1. CASE Run
  BY <1>1 DEF Run, GivenInv, AskedIsDone, StageInv, Create, stateVars
<1>2. CASE Upgrade
  BY <1>2 DEF Upgrade, GivenInv, AskedIsDone, Attr, Create
<1>3. CASE Refresh \/ Import
  <2>1. \A f \in Applied : record'[f] = Old(f)
    BY <1>3, ReadsTheRest DEF Refresh, Import
  <2>2. given' = given /\ pc' = "plan" /\ pc # "reread" /\ ~legacy
    BY <1>3 DEF Refresh, Import, historyVars, StageInv
  <2> QED BY <2>1, <2>2 DEF GivenInv, AskedIsDone, Old, Create
<1>4. CASE ReadFails
  BY <1>4 DEF ReadFails, Abort, GivenInv, AskedIsDone, Create, stateVars,
              historyVars
<1>5. CASE Plan
  BY <1>5 DEF Plan, GivenInv, AskedIsDone, Create, stateVars, historyVars
<1>6. CASE Tick \/ Outside
  BY <1>6 DEF Tick, Outside, GivenInv, AskedIsDone, Planned, Old, Create,
              stateVars, historyVars
<1> QED BY <1>1, <1>2, <1>3, <1>4, <1>5, <1>6

LEMMA DoneNothingToDo ==
    ASSUME DoneInv, NothingToDo \/ Delete PROVE GivenInv' /\ AskedIsDone'
<1> USE DEF DoneInv, ClockInv
<1>1. CASE Delete
  BY <1>1 DEF Delete, Succeed, GivenInv, AskedIsDone, Create
<1>2. CASE NothingToDo
  <2>1. GivenInv'
    BY <1>2 DEF NothingToDo, Succeed, GivenInv, Create, stateVars
  <2>2. ASSUME NEW f \in Applied, want # NoBlock, want[f] # Null
        PROVE  given[f] = want[f]
    <3>1. ~Create /\ ~HasChange(f) /\ ~legacy /\ pc = "plan"
      BY <1>2, <2>2 DEF NothingToDo, StageInv, Attr
    <3> QED BY <2>2, <3>1 DEF HasChange, Old, GivenInv
  <2> QED BY <1>2, <2>1, <2>2 DEF NothingToDo, AskedIsDone
<1> QED BY <1>1, <1>2

LEMMA DoneSet == ASSUME DoneInv, Set PROVE GivenInv' /\ AskedIsDone'
<1> USE DEF DoneInv, ClockInv
<1>1. pc = "set" /\ pc' = "reread" /\ want # NoBlock /\ ~legacy
  BY DEF Set, StageInv
<1>2. ASSUME NEW f \in Applied, Planned(f) # Null
      PROVE  given'[f] = Planned(f)
  <2>1. CASE HasChange(f)
    BY <1>2, <2>1 DEF Set, Execute, HasChange, Planned
  <2>2. CASE ~HasChange(f)
    <3>1. Planned(f) = Old(f) /\ given'[f] = given[f]
      BY <1>1, <2>2, PlannedOrStored DEF Set, Execute
    <3>2. ~Create /\ record[f] # Null
      BY <1>2, <3>1 DEF Old
    <3> QED BY <1>1, <3>1, <3>2 DEF Old, GivenInv
  <2> QED BY <2>1, <2>2
<1>3. \A f \in Applied : Planned(f)' = Planned(f)
  BY DEF Set, Planned, Old, Create, stateVars
<1> QED BY <1>1, <1>2, <1>3 DEF GivenInv, AskedIsDone

LEMMA DoneSetFails ==
    ASSUME DoneInv, "update" \notin FaultPoints, SetFails
    PROVE  GivenInv' /\ AskedIsDone'
BY DEF SetFails, Operation, Stored, Create, Fail, GivenInv, AskedIsDone

LEMMA DoneReread ==
    ASSUME DoneInv, Reread \/ RereadFails PROVE GivenInv' /\ AskedIsDone'
<1> USE DEF DoneInv, ClockInv
<1>1. want # NoBlock /\ pc = "reread" /\ pc' = "idle"
      /\ \A f \in Applied : f \in Attr
  BY DEF Reread, RereadFails, StageInv, Succeed, Fail, Attr
<1>2. CASE RereadFails
  <2>1. result' = "error" /\ given' = given /\ record' = Stored
    BY <1>2 DEF RereadFails, Fail
  <2>2. ASSUME NEW f \in Applied, ~Create', record'[f] # Null
        PROVE  given[f] = record'[f]
    BY <1>1, <2>1, <2>2 DEF Stored, Create, GivenInv
  <2> QED BY <1>1, <2>1, <2>2 DEF GivenInv, AskedIsDone
<1>3. CASE Reread
  <2>1. ASSUME NEW f \in Applied PROVE given'[f] = record'[f]
    BY <1>1, <1>3, <2>1 DEF Reread, Kept, GivenInv
  <2>2. ASSUME NEW f \in Applied, want[f] # Null PROVE record'[f] = want[f]
    BY <1>1, <1>3, <2>2 DEF Reread, Kept, Planned
  <2>3. want' = want
    BY <1>3 DEF Reread
  <2> QED BY <1>1, <2>1, <2>2, <2>3 DEF GivenInv, AskedIsDone
<1> QED BY <1>2, <1>3

\* When no update fails, a run that succeeds has given every configured date
\* or time to the router, recorded it, or found it there: the state has the
\* values last applied.
THEOREM ClockAskedIsDone ==
    ASSUME "update" \notin FaultPoints PROVE Spec => []AskedIsDone
<1>1. Init => DoneInv
  BY InitEstablishes DEF Init, DoneInv, GivenInv, AskedIsDone, Create
<1>2. ASSUME DoneInv, [Next]_vars PROVE DoneInv'
  <2>1. ClockInv'
    BY <1>2, ClockInvStep DEF DoneInv
  <2>2. CASE Next
    BY <1>2, <2>1, <2>2, DoneKeptAside, DoneNothingToDo, DoneSet, DoneSetFails,
       DoneReread DEF Next, DoneInv
  <2>3. CASE UNCHANGED vars
    BY <1>2, <2>1, <2>3 DEF DoneInv, GivenInv, AskedIsDone, Planned, Old,
       Create, vars, stateVars, historyVars
  <2> QED BY <1>2, <2>2, <2>3
<1>3. DoneInv => AskedIsDone
  BY DEF DoneInv
<1> QED BY <1>1, <1>2, <1>3, PTL DEF Spec

-----------------------------------------------------------------------------
(* A clock that runs on is no change.                                      *)

\* The state and the settings of the router are as configured.
InSync ==
    want # NoBlock =>
        /\ ~Create /\ \A a \in Attr : ~HasChange(a)
        /\ \A a \in Other : want[a] # Null => router[a] = want[a]

SyncInv ==
    /\ pc = "idle" /\ result = "ok" /\ calm => InSync
    /\ settled /\ pc \in {"refresh", "import", "plan"} => InSync
    /\ pc = "upgrade" => legacy
    /\ legacy => ~settled
    /\ calm /\ pc = "plan" /\ ~Create => \A a \in Other : record[a] = router[a]
    /\ calm /\ pc = "reread" =>
           \A a \in Other : Planned(a) # Null => router[a] = Planned(a)

LEMMA SyncAside ==
    ASSUME ClockInv, SyncInv,
           Run \/ Upgrade \/ ReadFails \/ Plan \/ Delete \/ SetFails
              \/ RereadFails \/ Outside
    PROVE  SyncInv'
<1> USE DEF ClockInv
<1>1. CASE Run
  BY <1>1 DEF Run, SyncInv, StageInv, InSync, HasChange, Old, Create, stateVars
<1>2. CASE Upgrade
  BY <1>2 DEF Upgrade, SyncInv, historyVars
<1>3. CASE ReadFails
  BY <1>3 DEF ReadFails, Abort, SyncInv, stateVars, historyVars
<1>4. CASE Plan
  BY <1>4 DEF Plan, SyncInv, StageInv, stateVars, historyVars
<1>5. CASE Delete
  BY <1>5 DEF Delete, Succeed, SyncInv, InSync, Create
<1>6. CASE SetFails \/ RereadFails
  BY <1>6 DEF SetFails, RereadFails, Fail, SyncInv
<1>7. CASE Outside
  BY <1>7 DEF Outside, SyncInv, stateVars
<1> QED BY <1>1, <1>2, <1>3, <1>4, <1>5, <1>6, <1>7

LEMMA SyncTick == ASSUME ClockInv, SyncInv, Tick PROVE SyncInv'
<1>1. \A a \in Other : router'[a] = router[a]
  BY ClockAssumption DEF Tick, ClockInv, TypeOK, Shown, Attr
<1>2. InSync => InSync'
  BY <1>1 DEF Tick, InSync, HasChange, Old, Create, stateVars
<1>3. \A a \in Attr : Planned(a)' = Planned(a)
  BY DEF Tick, Planned, Old, Create, stateVars
<1>4. \A a \in Other : a \in Attr
  BY DEF Attr
<1> QED BY <1>1, <1>2, <1>3, <1>4 DEF Tick, SyncInv, Create, stateVars, historyVars

LEMMA SyncRead == ASSUME ClockInv, SyncInv, Refresh \/ Import PROVE SyncInv'
<1> USE DEF ClockInv
<1>1. /\ record' # NoBlock /\ \A f \in Applied : record'[f] = Old(f)
      /\ \A a \in Other : record'[a] = router[a] /\ router[a] \in Value
  BY ReadsTheRest DEF Refresh, Import
<1>2. /\ router' = router /\ want' = want /\ pc' = "plan" /\ legacy' = legacy
      /\ calm' = calm /\ settled' = settled
      /\ pc \in {"refresh", "import"} /\ ~legacy
  BY DEF Refresh, Import, historyVars, StageInv
<1>3. ASSUME InSync PROVE InSync'
  <2>1. ASSUME want # NoBlock, NEW a \in Attr PROVE ~HasChange(a)'
    <3>1. CASE a \in Applied
      BY <1>1, <1>2, <1>3, <2>1, <3>1 DEF InSync, HasChange, Old, Create
    <3>2. CASE a \in Other
      BY <1>1, <1>2, <1>3, <2>1, <3>2 DEF InSync, HasChange, Old, Create
    <3> QED BY <3>1, <3>2 DEF Attr
  <2> QED BY <1>1, <1>2, <1>3, <2>1 DEF InSync, Create
<1> QED BY <1>1, <1>2, <1>3 DEF SyncInv

LEMMA SyncNothingToDo == ASSUME ClockInv, SyncInv, NothingToDo PROVE SyncInv'
<1> USE DEF ClockInv
<1>1. pc = "plan" /\ pc' = "idle" /\ ~legacy
  BY DEF NothingToDo, Succeed, StageInv
<1>2. UNCHANGED <<router, want, record, legacy, calm, settled>>
  BY DEF NothingToDo, stateVars
<1>3. ASSUME calm, want # NoBlock
      PROVE  /\ ~Create /\ \A a \in Attr : ~HasChange(a)
             /\ \A a \in Other : want[a] # Null => router[a] = want[a]
  <2>1. ~Create /\ \A a \in Attr : ~HasChange(a)
    BY <1>3 DEF NothingToDo
  <2> QED BY <1>1, <1>3, <2>1 DEF SyncInv, HasChange, Old, Attr
<1>4. calm => InSync'
  BY <1>2, <1>3 DEF InSync, HasChange, Old, Create
<1> QED BY <1>1, <1>2, <1>4 DEF SyncInv

LEMMA SyncSet == ASSUME ClockInv, SyncInv, Set PROVE SyncInv'
<1> USE DEF ClockInv
<1>1. pc' = "reread" /\ UNCHANGED <<want, record, legacy, settled>> /\ ~legacy
  BY DEF Set, stateVars, StageInv
<1>2. \A a \in Other : Planned(a) # Null => router'[a] = Planned(a)
  BY ClockAssumption DEF Set, Execute, Written, IsWritten, Attr
<1>3. \A a \in Other : Planned(a)' = Planned(a)
  BY <1>1 DEF Planned, Old, Create
<1> QED BY <1>1, <1>2, <1>3 DEF SyncInv

LEMMA SyncReread == ASSUME ClockInv, SyncInv, Reread PROVE SyncInv'
<1> USE DEF ClockInv
<1>1. pc = "reread" /\ pc' = "idle" /\ want # NoBlock /\ ~legacy
      /\ UNCHANGED <<router, want, legacy, calm, settled>>
  BY DEF Reread, Succeed, StageInv
<1>2. record' # NoBlock /\ \A a \in Attr : record'[a] = Kept(a)
  BY <1>1, KeptTyped, NoBlockIsNone DEF Reread
<1>3. ASSUME calm, NEW a \in Attr, want[a] # Null PROVE record'[a] = want[a]
  <2>1. CASE a \in Applied
    BY <1>2, <1>3, <2>1 DEF Kept, Planned
  <2>2. CASE a \in Other
    BY <1>1, <1>2, <1>3, <2>2 DEF Kept, Planned, SyncInv
  <2> QED BY <2>1, <2>2 DEF Attr
<1>4. ASSUME calm, NEW a \in Other, want[a] # Null PROVE router[a] = want[a]
  BY <1>1, <1>4 DEF SyncInv, Planned
<1>5. calm => InSync'
  BY <1>1, <1>2, <1>3, <1>4 DEF InSync, HasChange, Old, Create
<1> QED BY <1>1, <1>5 DEF SyncInv

\* Apply twice and the second plan is empty, however long the clock has run
\* in between and whichever requests failed before.
THEOREM ClockSecondPlanIsEmpty == Spec => []SecondPlanIsEmpty
<1>1. Init => ClockInv /\ SyncInv
  BY InitEstablishes DEF Init, SyncInv
<1>2. ASSUME ClockInv, SyncInv, [Next]_vars PROVE ClockInv' /\ SyncInv'
  <2>1. CASE Next
    <3>1. SyncInv'
      BY <1>2, <2>1, SyncAside, SyncTick, SyncRead, SyncNothingToDo, SyncSet,
         SyncReread DEF Next
    <3> QED BY <1>2, <3>1, ClockInvStep
  <2>2. CASE UNCHANGED vars
    <3>1. SyncInv'
      BY <1>2, <2>2 DEF SyncInv, InSync, HasChange, Planned, Old, Create, vars,
         stateVars, historyVars
    <3> QED BY <1>2, <3>1, ClockInvStep
  <2> QED BY <1>2, <2>1, <2>2
<1>3. SyncInv => SecondPlanIsEmpty
  BY DEF SyncInv, InSync, SecondPlanIsEmpty, Create
<1> QED BY <1>1, <1>2, <1>3, PTL DEF Spec

=============================================================================
