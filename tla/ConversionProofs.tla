-------------------------- MODULE ConversionProofs --------------------------
(***************************************************************************)
(* What TLAPS proves of the conversion of one attribute, of any kind that  *)
(* the assumptions allow: also of kinds that no schema has today.          *)
(***************************************************************************)
EXTENDS Conversion, TLAPS

Value == {Zero, A, B, Default, Mask, Respelt, Blank}
StateType == [there : BOOLEAN, block : BOOLEAN, value : Value]
RouterValue == {Nowhere, Zero, A, B, Default, Respelt}

USE DEF Zero, A, B, Default, Mask, Respelt, Blank, Null, Nowhere, Nothing, Clear

\* A list of one empty text is a list; the mask is in a state only if the
\* router shows it, and never on the router.
MaskInv ==
    /\ ConversionTypeOK
    /\ state.value = Blank => kind.type = "list"
    /\ state.value = Mask => habit.set = "masked"
    /\ SecretsSurvive

LEMMA MaskInvInit == ConversionInit => MaskInv
<1> SUFFICES ASSUME ConversionInit PROVE MaskInv
  OBVIOUS
<1>1. state = NoState /\ NoState \in StateType /\ state.value = Zero
  BY DEF ConversionInit, NoState, StateType, Value
<1>2. config \in {Null, Zero, A, B}
  BY DEF ConversionInit, Settings
<1> QED BY <1>1, <1>2 DEF ConversionInit, MaskInv, ConversionTypeOK, SecretsSurvive,
       StateType, Value

\* What the router answers.
LEMMA ReportedValue ==
    ASSUME habit \in Habit, NEW v \in RouterValue
    PROVE  /\ Reported(v) \in {Nowhere, Zero, A, B, Default, Mask, Respelt}
           /\ Reported(v) = Mask => habit.set = "masked"
BY DEF Reported, Habit, TheDefault, RouterValue

\* What is read keeps the state well formed.
LEMMA ReadValue ==
    ASSUME kind.nested \in BOOLEAN, NEW s \in StateType,
           NEW answer \in {Nowhere, Zero, A, B, Default, Mask, Respelt}
    PROVE  /\ Read(s, answer) \in StateType
           /\ Read(s, answer).value \in {s.value, answer, Zero, A, Blank}
           /\ Read(s, answer).value = Blank => s.value = Blank \/ kind.type = "list"
BY DEF Read, StateType, Value

\* What is planned is well formed.
LEMMA PlannedValue ==
    ASSUME kind \in Kind, config \in {Null, Zero, A, B}, NEW s \in StateType
    PROVE  /\ Planned(s) \in StateType /\ Planned(s).there
           /\ Planned(s).value \in {s.value, Zero, A, B, Default}
<1>1. kind.nested \in BOOLEAN
  BY KindAssumption
<1>2. Asked(s.value) \in {s.value, Zero, A, B, Default}
  BY DEF Asked, TheDefault
<1> DEFINE new == Asked(s.value)
           value == IF new # s.value /\ Suppressed(s.value, new) THEN s.value ELSE new
<1>3. value \in {s.value, Zero, A, B, Default}
  BY <1>2
<1>4. Planned(s) =
          IF kind.nested /\ ~declared
          THEN IF kind.computedBlock THEN [s EXCEPT !.there = TRUE]
               ELSE [NoState EXCEPT !.there = TRUE]
          ELSE [there |-> TRUE, block |-> kind.nested,
                value |-> IF Settable THEN value ELSE s.value]
  BY DEF Planned
<1> HIDE DEF value
<1>5. /\ [s EXCEPT !.there = TRUE] \in StateType
      /\ [s EXCEPT !.there = TRUE].there /\ [s EXCEPT !.there = TRUE].value = s.value
  BY DEF StateType
<1>6. /\ [NoState EXCEPT !.there = TRUE] \in StateType
      /\ [NoState EXCEPT !.there = TRUE].there
      /\ [NoState EXCEPT !.there = TRUE].value = Zero
  BY DEF StateType, NoState, Value
<1>7. [there |-> TRUE, block |-> kind.nested,
       value |-> IF Settable THEN value ELSE s.value] \in StateType
  BY <1>1, <1>3 DEF StateType, Value
<1> QED BY <1>3, <1>4, <1>5, <1>6, <1>7

\* The plan has the mask only for a secret that the configuration does not
\* have, and leaves as it is.
LEMMA PlannedMask ==
    ASSUME MaskInv, NEW s \in StateType, s.value = Mask => habit.set = "masked",
           Planned(s).value = Mask
    PROVE  /\ s.value = Mask /\ "secret" \in kind.traits
           /\ Settable /\ (kind.nested => declared) => config = Null /\ ~kind.nested
<1>1. s.value = Mask /\ "secret" \in kind.traits
  BY PlannedValue DEF MaskInv, ConversionTypeOK, Fits, StateType
<1>2. ASSUME Settable, kind.nested => declared, config # Null \/ kind.nested PROVE FALSE
  <2> DEFINE new == Asked(s.value)
  <2>1. Mask = IF new # Mask /\ Suppressed(Mask, new) THEN Mask ELSE new
    BY <1>1, <1>2 DEF Planned, StateType
  <2>2. config \in {Null, Zero, A, B} /\ (kind.nested => "computed" \notin kind.traits)
    BY <1>2, KindAssumption DEF MaskInv, ConversionTypeOK, Settable, Has
  <2>3. new \in {Zero, A, B, Default}
    <3>1. CASE config # Null
      BY <2>2, <3>1 DEF Asked, Has, TheDefault
    <3>2. CASE config = Null
      BY <1>2, <2>2, <3>2 DEF Asked, Has, TheDefault
    <3> QED BY <3>1, <3>2
  <2>4. ~Same(Mask, new) /\ ~Longer(new, Mask) /\ ~NotUserProvided
    BY <1>2, <2>3 DEF Same, Spoken, Longer, NotUserProvided
  <2>5. ~Suppressed(Mask, new)
    BY <2>4 DEF Suppressed
  <2> QED BY <2>1, <2>3, <2>5
<1> QED BY <1>1, <1>2

\* No request has the mask.
LEMMA MaskIsNotWritten ==
    ASSUME MaskInv, NEW old \in StateType, old.value = Mask => habit.set = "masked",
           old.value = Blank => kind.type = "list"
    PROVE  /\ Written(old, Planned(old)) \in
                  {Nothing, Clear, Zero, A, B, Default, Respelt, Blank}
           /\ Written(old, Planned(old)) = Blank => kind.type = "list"
<1> DEFINE new == Planned(old)
<1>1. new \in StateType /\ new.value \in {old.value, Zero, A, B, Default}
  BY PlannedValue DEF MaskInv, ConversionTypeOK
<1>2. new.value = Mask =>
          /\ old.value = Mask /\ "secret" \in kind.traits
          /\ Settable /\ (kind.nested => declared) => config = Null /\ ~kind.nested
  BY PlannedMask
<1> HIDE DEF new
<1>3. Written(old, new) \in {Nothing, Clear, new.value}
  BY DEF Written, unsetRemovedBlock
<1>4. ASSUME new.value = Mask, Written(old, new) = new.value PROVE FALSE
  <2>1. Settable /\ (kind.nested => declared)
    BY <1>4 DEF Written, unsetRemovedBlock
  <2>2. config = Null /\ ~kind.nested /\ "secret" \in kind.traits /\ old.value = new.value
    BY <1>2, <1>4, <2>1
  <2>3. "required" \notin kind.traits
    BY <2>2 DEF MaskInv, ConversionTypeOK, Valid, Has
  <2>4. SecretToKeep(old, new)
    BY <2>2, <2>3 DEF SecretToKeep, Has
  <2> QED BY <1>4, <2>4 DEF Written, unsetRemovedBlock
<1> QED BY <1>1, <1>3, <1>4 DEF new, StateType, Value

\* What a request leaves on the router.
LEMMA ExecutedValue ==
    ASSUME NEW v \in RouterValue,
           NEW request \in {Nothing, Clear, Zero, A, B, Default, Respelt, Blank},
           request = Blank => kind.type = "list"
    PROVE  Executed(request, v) \in RouterValue
BY DEF Executed, Stored, RouterValue

LEMMA MaskInvStep == MaskInv /\ [ConversionNext]_conversionVars => MaskInv'
<1> SUFFICES ASSUME MaskInv, [ConversionNext]_conversionVars PROVE MaskInv'
  OBVIOUS
<1>1. /\ kind \in Kind /\ kind.nested \in BOOLEAN /\ habit \in Habit /\ Fits(kind, habit)
      /\ state \in StateType /\ router \in RouterValue
      /\ config \in {Null, Zero, A, B} /\ declared \in BOOLEAN /\ Valid(config, declared)
      /\ state.value = Blank => kind.type = "list"
      /\ state.value = Mask => habit.set = "masked"
  BY KindAssumption DEF MaskInv, ConversionTypeOK, SecretsSurvive, StateType, Value, RouterValue
<1>2. \A s \in {state, NoState} : /\ s \in StateType
                                  /\ s.value = Blank => kind.type = "list"
                                  /\ s.value = Mask => habit.set = "masked"
  <2>1. NoState \in StateType /\ NoState.value = Zero
    BY DEF NoState, StateType, Value
  <2> QED BY <1>1, <2>1
\* What is to be shown, of the variables that the steps change.
<1>3. SUFFICES /\ UNCHANGED <<kind, habit>>
               /\ config' \in {Null, Zero, A, B} /\ declared' \in BOOLEAN
               /\ Valid(config, declared)'
               /\ state' \in StateType
               /\ state'.value = Blank => kind.type = "list"
               /\ state'.value = Mask => habit.set = "masked"
               /\ router' \in RouterValue
               /\ last' \in {"edited", "refreshed", "applied", "adopted", "overtaken",
                             "failed", "crashed", "outside"}
               /\ trusted' \in BOOLEAN
  BY <1>1 DEF MaskInv, ConversionTypeOK, SecretsSurvive, StateType, Value, RouterValue, Fits
<1>4. UNCHANGED <<kind, config, declared>> => Valid(config, declared)'
  BY <1>1 DEF Valid, Has, Settable
<1>5. /\ last \in {"edited", "refreshed", "applied", "adopted", "overtaken",
                   "failed", "crashed", "outside"}
      /\ trusted \in BOOLEAN
  BY DEF MaskInv, ConversionTypeOK
\* A state that is read, from one that is well formed.
<1>6. ASSUME NEW s \in StateType, s.value = Blank => kind.type = "list",
             s.value = Mask => habit.set = "masked", NEW v \in RouterValue,
             state' = Read(s, Reported(v))
      PROVE  /\ state' \in StateType
             /\ state'.value = Blank => kind.type = "list"
             /\ state'.value = Mask => habit.set = "masked"
  BY <1>1, <1>6, ReportedValue, ReadValue
\* What is planned and requested from such a state.
<1>7. ASSUME NEW s \in {state, NoState}
      PROVE  /\ Planned(s) \in StateType
             /\ Planned(s).value = Blank => kind.type = "list"
             /\ Planned(s).value = Mask => habit.set = "masked"
             /\ \A v \in RouterValue : Executed(Written(s, Planned(s)), v) \in RouterValue
  BY <1>1, <1>2, PlannedValue, MaskIsNotWritten, ExecutedValue
<1>8. Before(state) \in {state, NoState} /\ Start(state) \subseteq RouterValue
  BY <1>1 DEF Before, Start, RouterValue
<1>9. CASE Edit
  <2>1. PICK c \in Settings \cup {Null}, d \in BOOLEAN :
            Valid(c, d) /\ config' = c /\ declared' = d
    BY <1>9 DEF Edit
  <2>2. Valid(config, declared)'
    BY <1>9, <2>1 DEF Edit, Valid, Has, Settable
  <2> QED BY <1>1, <1>5, <1>9, <2>1, <2>2 DEF Edit, Settings
<1>10. CASE Refresh
  BY <1>1, <1>4, <1>5, <1>6, <1>10 DEF Refresh
<1>11. CASE Import
  <2> DEFINE s == [NoState EXCEPT !.there = TRUE]
  <2>1. s \in StateType /\ s.value = Zero
    BY DEF NoState, StateType, Value
  <2>2. state' = Read(s, Reported(router))
    BY <1>11 DEF Import
  <2> HIDE DEF s
  <2> QED BY <1>1, <1>4, <1>5, <1>6, <1>11, <2>1, <2>2 DEF Import
<1>12. CASE Apply
  <2> DEFINE old == Before(state)
             new == Planned(old)
  <2>1. PICK v \in Start(state) :
            /\ router' = Executed(Written(old, new), v)
            /\ trusted' = (trusted \/ Written(old, new) # Nothing \/ (~old.there /\ v = Nowhere))
            /\ last' = IF last = "outside" THEN "overtaken"
                       ELSE IF ~old.there /\ v # Nowhere THEN "adopted"
                       ELSE "applied"
    BY <1>12 DEF Apply
  <2>2. state' = Read(new, Reported(router')) /\ UNCHANGED <<kind, habit, config, declared>>
    BY <1>12 DEF Apply
  <2>3. router' \in RouterValue
    BY <1>7, <1>8, <2>1
  <2>4. last' \in {"overtaken", "adopted", "applied"} /\ trusted' \in BOOLEAN
    BY <2>1
  <2> QED BY <1>1, <1>4, <1>6, <1>7, <1>8, <2>2, <2>3, <2>4
<1>13. CASE ApplyFails
  <2> DEFINE old == Before(state)
             new == Planned(old)
  <2>1. /\ router' = router \/ \E v \in Start(state) : router' = Executed(Written(old, new), v)
        /\ state' \in {new, NoState}
        /\ UNCHANGED <<kind, habit, config, declared>> /\ last' = "failed" /\ trusted' = FALSE
    BY <1>13 DEF ApplyFails
  <2>2. router' \in RouterValue
    BY <1>1, <1>7, <1>8, <2>1
  <2> QED BY <1>1, <1>2, <1>4, <1>7, <1>8, <2>1, <2>2
<1>14. CASE Crash
  BY <1>1, <1>4, <1>5, <1>14 DEF Crash
<1>15. CASE Outside
  <2>1. router' \in RouterValue
    BY <1>15 DEF Outside, Settings, RouterValue
  <2> QED BY <1>1, <1>4, <1>5, <1>15, <2>1 DEF Outside
<1>16. CASE UNCHANGED conversionVars
  BY <1>1, <1>4, <1>5, <1>16 DEF conversionVars
<1> QED BY <1>9, <1>10, <1>11, <1>12, <1>13, <1>14, <1>15, <1>16 DEF ConversionNext

\* The mask that the router shows instead of a secret is never sent to it as
\* the secret, whatever sequence of refreshes, imports, edits and applies,
\* failed ones among them, the attribute goes through.
THEOREM SecretsAlwaysSurvive == ConversionSpec => []SecretsSurvive
<1>1. MaskInv => SecretsSurvive
  BY DEF MaskInv
<1> QED BY <1>1, MaskInvInit, MaskInvStep, PTL DEF ConversionSpec

-----------------------------------------------------------------------------
(* The facts about kinds and habits, one trait at a time.                  *)

LEMMA KindFacts ==
    ASSUME kind \in Kind
    PROVE  /\ kind.type \in {"text", "number", "flag", "list", "map"}
           /\ kind.nested \in BOOLEAN /\ kind.computedBlock \in BOOLEAN
           /\ Has("computed") => ~Has("zero-default")
           /\ kind.nested /\ Has("computed") => ~Has("optional") /\ ~Has("force-new")
           /\ Has("secret") => ~Has("default")
           /\ kind.type = "map" => ~kind.nested /\ Has("kept")
           /\ Has("countdown") => /\ kind.type = "text"
                                  /\ ~Has("kept") /\ ~Has("respelled") /\ ~Has("computed")
           /\ Has("dropped") => ~kind.nested
           /\ Has("dropped") /\ kind.type = "number" =>
                  ~Has("kept") /\ ~Has("respelled") /\ ~Has("granted") /\ ~Has("computed")
BY KindAssumption DEF Has

LEMMA HabitFacts ==
    ASSUME habit \in Habit, Fits(kind, habit)
    PROVE  /\ habit.unset \in {Nowhere, Zero, Default} /\ habit.beside \in BOOLEAN
           /\ habit.set \in {"plain", "masked", "respelt", "never"}
           /\ habit.unset = Default =>
                  \/ kind.nested \/ (kind.type = "text" /\ Has("dropped"))
                  \/ Has("kept") \/ Has("respelled") \/ Has("computed")
                  \/ Has("default") \/ Has("granted")
           /\ habit.set = "masked" => Has("secret")
           /\ habit.set = "respelt" =>
                  /\ kind.type # "flag"
                  /\ Has("respelled") \/ Has("alike") \/ Has("countdown") \/ Has("granted")
           /\ Has("countdown") => habit.set = "respelt"
           /\ habit.beside => kind.nested \/ kind.type = "map"
           /\ Has("unset") /\ kind.type = "flag" => habit.unset = Nowhere
           /\ habit.set = "never" => ~kind.nested /\ kind.type # "map" /\ habit.unset = Nowhere
BY DEF Habit, Fits, Has

-----------------------------------------------------------------------------
(* Reading, one field at a time.                                           *)

Unread(s, answer) ==
    \/ Has("skipped")
    \/ kind.nested /\ ~kind.computedBlock /\ ~s.block
    \/ Has("dropped") /\ answer = Default
    \/ answer = Nowhere /\ ~habit.beside

Taken(answer) ==
    IF answer = Nowhere THEN Zero
    ELSE IF Has("unset") /\ kind.type = "flag" THEN A
    ELSE IF kind.nested /\ kind.type = "list" /\ answer = Zero THEN Blank
    ELSE answer

LEMMA ReadFields ==
    ASSUME kind.nested \in BOOLEAN, NEW s \in StateType, NEW answer
    PROVE  /\ Unread(s, answer) => Read(s, answer) = s
           /\ ~Unread(s, answer) =>
                  Read(s, answer) =
                      [there |-> s.there, block |-> kind.nested, value |-> Taken(answer)]
BY DEF Read, Unread, Taken, StateType

\* What was read is read again as it is.
LEMMA ReadAgain ==
    ASSUME kind.nested \in BOOLEAN, NEW s \in StateType,
           NEW answer \in {Nowhere, Zero, A, B, Default, Mask, Respelt}
    PROVE  Read(Read(s, answer), answer) = Read(s, answer)
<1> DEFINE t == [there |-> s.there, block |-> kind.nested, value |-> Taken(answer)]
<1>1. t \in StateType
  BY DEF Taken, StateType, Value
<1>2. /\ Unread(t, answer) => Read(t, answer) = t
      /\ ~Unread(t, answer) =>
             Read(t, answer) =
                 [there |-> t.there, block |-> kind.nested, value |-> Taken(answer)]
  BY <1>1, ReadFields
<1>3. Read(t, answer) = t
  BY <1>2
<1> QED BY <1>3, ReadFields

-----------------------------------------------------------------------------
(* The invariant that relates the state and the router.                    *)

\* Values of the type, and of a block that the state does not have.
StateShape(s) ==
    /\ s.block => kind.nested
    /\ kind.nested /\ ~s.block => s.value = Zero
    /\ kind.type = "flag" => s.value \in {Zero, A, Mask}
    /\ s.value = Blank => kind.nested /\ kind.type = "list"
    /\ s.value = Mask => habit.set = "masked"

RouterShape(r) ==
    /\ kind.type = "flag" => r \in {Nowhere, Zero, A}
    /\ kind.type = "flag" /\ Has("unset") => r # Zero
    /\ kind.type \in {"text", "list"} => r # Zero

\* The value in the state is the one on the router, but for the ways in which
\* the two may differ although all is well.
Known(v, r) ==
    \/ Spoken(v) = Spoken(Effective(r))
    \/ v = Mask
    \/ v = Blank /\ r = Nowhere
    \/ v = Zero /\ kind.type \in {"text", "list"} /\ r = Nowhere
    \/ v = Zero /\ kind.type = "map"
    \/ v = Respelt /\ Has("countdown")

\* Of a block that the state does not have, the router has nothing that was
\* sent.
Agree(s, r) ==
    /\ Has("skipped") => r = Nowhere
    /\ Settable /\ ~Has("skipped") =>
           IF s.block = kind.nested THEN Known(s.value, r)
           ELSE kind.computedBlock \/ r \in {Nowhere, Zero}

LEMMA ReadShape ==
    ASSUME kind \in Kind, habit \in Habit, Fits(kind, habit),
           NEW s \in StateType, StateShape(s), NEW r \in RouterValue, RouterShape(r)
    PROVE  StateShape(Read(s, Reported(r)))
<1> DEFINE t == [there |-> s.there, block |-> kind.nested, value |-> Taken(Reported(r))]
<1>1. StateShape(t)
  BY KindFacts, HabitFacts, ReportedValue
  DEF StateShape, RouterShape, Taken, Reported, RouterValue, TheDefault
<1> QED BY <1>1, ReadFields, KindFacts

\* What is read agrees, whatever the state was.
LEMMA ReadAgrees ==
    ASSUME kind \in Kind, habit \in Habit, Fits(kind, habit),
           NEW s \in StateType, NEW r \in RouterValue, RouterShape(r),
           ~Unread(s, Reported(r)) \/ Agree(s, r)
    PROVE  Agree(Read(s, Reported(r)), r)
<1> DEFINE t == [there |-> s.there, block |-> kind.nested, value |-> Taken(Reported(r))]
<1>1. ASSUME ~Unread(s, Reported(r)) PROVE Agree(t, r)
  <2>1. t.block = kind.nested /\ t.value = Taken(Reported(r)) /\ ~Has("skipped")
    BY <1>1 DEF Unread
  <2>2. Known(Taken(Reported(r)), r)
    BY <1>1, KindFacts, HabitFacts
    DEF Unread, Known, RouterShape, Taken, Reported, RouterValue, TheDefault, Effective, Spoken
  <2> QED BY <2>1, <2>2 DEF Agree
<1> QED BY <1>1, ReadFields, KindFacts

-----------------------------------------------------------------------------
(* Planning, one field at a time.                                          *)

Undeclared == kind.nested /\ ~declared

PlanValue(v) ==
    IF Asked(v) # v /\ Suppressed(v, Asked(v)) THEN v ELSE Asked(v)

LEMMA PlannedFields ==
    ASSUME kind.nested \in BOOLEAN, NEW s \in StateType
    PROVE  /\ Undeclared /\ kind.computedBlock =>
                  Planned(s) = [there |-> TRUE, block |-> s.block, value |-> s.value]
           /\ Undeclared /\ ~kind.computedBlock =>
                  Planned(s) = [there |-> TRUE, block |-> FALSE, value |-> Zero]
           /\ ~Undeclared =>
                  Planned(s) = [there |-> TRUE, block |-> kind.nested,
                                value |-> IF Settable THEN PlanValue(s.value) ELSE s.value]
BY DEF Planned, Undeclared, PlanValue, StateType, NoState

\* What is asked for is a value of the type.
LEMMA AskedShape ==
    ASSUME kind \in Kind, config \in Settings \cup {Null}, NEW v
    PROVE  /\ Asked(v) \in {v, Zero, A, B, Default}
           /\ kind.type = "flag" => Asked(v) \in {v, Zero, A}
BY KindFacts DEF Asked, Settings, TheDefault

LEMMA PlannedShape ==
    ASSUME MaskInv, config \in Settings \cup {Null}, NEW s \in StateType, StateShape(s)
    PROVE  StateShape(Planned(s))
<1>1. /\ PlanValue(s.value) \in {s.value, Zero, A, B, Default}
      /\ kind.type = "flag" => PlanValue(s.value) \in {s.value, Zero, A}
  BY AskedShape DEF PlanValue, MaskInv, ConversionTypeOK
<1>2. kind \in Kind
  BY DEF MaskInv, ConversionTypeOK
<1>3. CASE Undeclared /\ kind.computedBlock
  BY <1>2, <1>3, PlannedFields, KindFacts DEF StateShape
<1>4. CASE Undeclared /\ ~kind.computedBlock
  BY <1>2, <1>4, PlannedFields, KindFacts DEF StateShape
<1>5. CASE ~Undeclared
  BY <1>1, <1>2, <1>5, PlannedFields, KindFacts DEF StateShape
<1> QED BY <1>3, <1>4, <1>5

\* What is written is a value of the type, too.
LEMMA ExecutedShape ==
    ASSUME MaskInv, config \in Settings \cup {Null}, NEW old \in StateType, StateShape(old),
           NEW v \in RouterValue, RouterShape(v)
    PROVE  RouterShape(Executed(Written(old, Planned(old)), v))
<1> DEFINE new == Planned(old)
           request == Written(old, new)
<1>1. new \in StateType /\ StateShape(new)
  BY PlannedShape, PlannedValue DEF MaskInv, ConversionTypeOK
<1>2. request \in {Nothing, Clear, Zero, A, B, Default, Respelt, Blank}
  BY MaskIsNotWritten DEF StateShape
<1> HIDE DEF new
<1>3. /\ request \in {Nothing, Clear, new.value}
      /\ Has("unset") /\ kind.type = "flag" => request # Zero
  BY DEF Written, unsetRemovedBlock
<1> HIDE DEF request
<1> QED BY <1>1, <1>2, <1>3 DEF RouterShape, StateShape, Executed, Stored, new, request

\* What was written, or needed no writing, agrees if it is not read back.
LEMMA WrittenAgrees ==
    ASSUME MaskInv, config \in Settings \cup {Null}, NEW old \in StateType, StateShape(old),
           old.there \/ old = NoState, NEW v \in RouterValue, RouterShape(v),
           \/ Written(old, Planned(old)) # Nothing
           \/ ~old.there /\ v = Nowhere
           \/ old.there /\ Agree(old, v),
           NEW r, r = Executed(Written(old, Planned(old)), v),
           Unread(Planned(old), Reported(r))
    PROVE  Agree(Planned(old), r)
<1> DEFINE new == Planned(old)
           request == Written(old, new)
<1>1. kind \in Kind /\ habit \in Habit /\ Fits(kind, habit)
  BY DEF MaskInv, ConversionTypeOK
<1>2. new \in StateType /\ StateShape(new)
  BY PlannedShape, PlannedValue DEF MaskInv, ConversionTypeOK
<1>3. request \in {Nothing, Clear, Zero, A, B, Default, Respelt, Blank}
  BY MaskIsNotWritten DEF StateShape
<1>4. NoState.there = FALSE /\ NoState.block = FALSE /\ NoState.value = Zero
  BY DEF NoState
<1>5. CASE Has("skipped")
  <2>1. request = Nothing /\ r = v
    BY <1>5 DEF Written, Executed
  <2> QED BY <1>5, <2>1 DEF Agree
<1>6. CASE ~Settable /\ ~Has("skipped")
  BY <1>6 DEF Agree
<1>7. CASE Settable /\ ~Has("skipped") /\ Undeclared /\ kind.computedBlock
  <2>1. request = Nothing /\ r = v
    BY <1>7 DEF Written, Executed, Undeclared
  <2>2. new = [there |-> TRUE, block |-> old.block, value |-> old.value]
    BY <1>1, <1>7, PlannedFields, KindFacts
  <2> HIDE DEF new
  <2>3. new.block = old.block /\ new.value = old.value
    BY <2>2
  <2>4. CASE old.there /\ Agree(old, v)
    BY <1>7, <2>1, <2>3, <2>4 DEF Agree, new
  <2>5. CASE ~old.there /\ v = Nowhere
    BY <1>4, <1>7, <2>1, <2>3, <2>5 DEF Agree, Undeclared, new
  <2> QED BY <2>1, <2>4, <2>5 DEF new
<1>8. CASE Settable /\ ~Has("skipped") /\ Undeclared /\ ~kind.computedBlock
  <2>1. new = [there |-> TRUE, block |-> FALSE, value |-> Zero]
    BY <1>1, <1>8, PlannedFields, KindFacts
  <2>2. request = IF old.block /\ old.value # Zero THEN Clear ELSE Nothing
    BY <1>8 DEF Written, unsetRemovedBlock, Undeclared
  <2>3. ASSUME old.block, old.value = Zero, Agree(old, v) PROVE v \in {Nowhere, Zero}
    BY <1>1, <1>8, <2>3, KindFacts DEF Agree, Known, Spoken, Effective, Undeclared, RouterValue,
       StateShape
  <2>4. ASSUME ~old.block, old.there, Agree(old, v) PROVE v \in {Nowhere, Zero}
    BY <1>8, <2>4 DEF Agree, Undeclared
  <2>5. r \in {Nowhere, Zero}
    BY <1>4, <2>2, <2>3, <2>4 DEF Executed, StateType
  <2> QED BY <1>8, <2>1, <2>5 DEF Agree, Undeclared
<1>9. CASE Settable /\ ~Has("skipped") /\ ~Undeclared
  <2>1. new = [there |-> TRUE, block |-> kind.nested, value |-> PlanValue(old.value)]
    BY <1>1, <1>9, PlannedFields, KindFacts
  <2> SUFFICES Known(new.value, r)
    BY <1>9, <2>1 DEF Agree
  <2>2. CASE request = Clear
    <3>1. new.value = Zero /\ r = Nowhere /\ (kind.type = "text" \/ (kind.type = "flag" /\ Has("unset")))
      BY <1>9, <2>2, <1>3, <1>2 DEF Written, Executed, Undeclared, StateType, Value
    <3> QED BY <1>1, <3>1, HabitFacts DEF Known, Effective, Spoken
  <2>3. CASE request \notin {Clear, Nothing}
    <3>1. request = new.value /\ r = Stored(new.value)
      BY <1>9, <2>3 DEF Written, Executed, Undeclared
    <3> HIDE DEF new
    <3> QED BY <1>1, <1>2, <3>1, HabitFacts DEF Known, Effective, Spoken, Stored, StateType, Value
  <2>4. CASE request = Nothing
    <3>1. \/ old.value = new.value
          \/ kind.type = "map" /\ new.value = Zero
      BY <1>9, <1>2, <2>4 DEF Written, SecretToKeep, Undeclared, StateType, Value
    <3>2. r = v
      BY <2>4 DEF Executed
    <3>3. CASE old.there /\ old.block = kind.nested
      BY <1>9, <2>4, <3>1, <3>2, <3>3 DEF Agree, Known
    <3>4. CASE old.there /\ old.block # kind.nested
      <4>1. kind.nested /\ old.value = Zero /\ new.value = Zero
        BY <1>1, <3>1, <3>4, KindFacts DEF StateShape, StateType
      <4>2. Reported(v) = Nowhere
        BY <1>1, <1>9, <2>1, <3>2, <4>1, KindFacts DEF Unread
      <4>3. v = Nowhere /\ habit.unset # Default
        BY <1>1, <4>1, <4>2, HabitFacts DEF Reported, TheDefault
      <4> QED BY <3>2, <4>1, <4>3 DEF Known, Effective
    <3>5. CASE ~old.there
      <4>1. v = Nowhere /\ old.value = Zero /\ new.value = Zero
        BY <1>4, <2>4, <3>1, <3>5
      <4>2. ASSUME habit.unset = Default, kind.type \notin {"text", "list", "map"} PROVE FALSE
        <5>1. Reported(v) = TheDefault
          BY <1>1, <4>1, <4>2, HabitFacts DEF Reported
        <5>2. kind.type = "number" /\ ~kind.nested /\ Has("dropped")
          BY <1>1, <1>9, <2>1, <3>2, <4>2, <5>1, KindFacts DEF Unread, TheDefault
        <5>3. /\ Has("default") /\ ~Has("kept") /\ ~Has("respelled") /\ ~Has("granted")
              /\ ~Has("countdown")
          BY <1>1, <4>2, <5>2, KindFacts, HabitFacts
        <5>4. Asked(Zero) = Zero
          BY <2>1, <4>1, <5>3 DEF PlanValue, Suppressed, Same, Spoken, Asked, TheDefault, Settings
        <5>5. config = Zero
          BY <5>2, <5>3, <5>4 DEF Asked, TheDefault
        <5> QED BY <1>9, <2>4, <4>1, <5>2, <5>5 DEF Written, isEmpty, SecretToKeep, Undeclared
      <4> QED BY <1>1, <3>2, <4>1, <4>2, HabitFacts DEF Known, Effective
    <3> QED BY <2>4, <3>3, <3>4, <3>5
  <2> QED BY <2>2, <2>3, <2>4
<1> QED BY <1>5, <1>6, <1>7, <1>8, <1>9

-----------------------------------------------------------------------------
\* The inductive invariant: the values have their types, what was read last
\* is what a reading gives again, and while the history is without failures
\* and without changes by others, the state and the router agree.
ConversionInv ==
    /\ MaskInv
    /\ config \in Settings \cup {Null}
    /\ StateShape(state) /\ RouterShape(router)
    /\ state.there \/ state = NoState
    /\ last \in {"refreshed", "applied", "adopted", "overtaken"} =>
           state = Read(state, Reported(router))
    /\ trusted => state.there /\ Agree(state, router)

LEMMA ConversionInvInit == ConversionInit => ConversionInv
<1> SUFFICES ASSUME ConversionInit PROVE ConversionInv
  OBVIOUS
<1>1. MaskInv
  BY MaskInvInit
<1>2. state = NoState /\ state.block = FALSE /\ state.value = Zero
  BY DEF ConversionInit, NoState
<1>3. StateShape(state) /\ RouterShape(router)
  BY <1>2 DEF ConversionInit, StateShape, RouterShape
<1> QED BY <1>1, <1>2, <1>3 DEF ConversionInit, ConversionInv

\* The kind and the habit never change, nor what depends on them only.
LEMMA Frame ==
    ASSUME ConversionInv, [ConversionNext]_conversionVars
    PROVE  /\ kind' = kind /\ habit' = habit
           /\ (config \in Settings \cup {Null})' <=> config' \in Settings \cup {Null}
           /\ StateShape(state)' <=> StateShape(state')
           /\ RouterShape(router)' <=> RouterShape(router')
           /\ Agree(state, router)' <=> Agree(state', router')
           /\ (state = Read(state, Reported(router)))' <=>
                  state' = Read(state', Reported(router'))
<1>1. kind' = kind /\ habit' = habit
  BY DEF ConversionNext, Edit, Refresh, Import, Apply, ApplyFails, Crash, Outside, conversionVars
<1>2. (config \in Settings \cup {Null})' <=> config' \in Settings \cup {Null}
  BY <1>1 DEF Settings
<1>3. StateShape(state)' <=> StateShape(state')
  BY <1>1 DEF StateShape
<1>4. RouterShape(router)' <=> RouterShape(router')
  BY <1>1 DEF RouterShape, Has
<1>5. Agree(state, router)' <=> Agree(state', router')
  BY <1>1 DEF Agree, Known, Spoken, Effective, TheDefault, Settable, Has
<1>6. (state = Read(state, Reported(router)))' <=> state' = Read(state', Reported(router'))
  BY <1>1 DEF Read, Reported, TheDefault, Has
<1> QED BY <1>1, <1>2, <1>3, <1>4, <1>5, <1>6

\* An apply that succeeds: from an old state and an old value, the request,
\* what it leaves, and what is read then.
LEMMA ApplySteps ==
    ASSUME ConversionInv, Apply
    PROVE  \E old \in {state, NoState}, v \in RouterValue :
              /\ old = Before(state) /\ v \in Start(state)
              /\ old \in StateType /\ StateShape(old) /\ RouterShape(v)
              /\ old.there \/ old = NoState
              /\ router' = Executed(Written(old, Planned(old)), v)
              /\ router' \in RouterValue /\ RouterShape(router')
              /\ Planned(old) \in StateType /\ StateShape(Planned(old)) /\ Planned(old).there
              /\ state' = Read(Planned(old), Reported(router'))
              /\ trusted' => \/ Written(old, Planned(old)) # Nothing
                             \/ ~old.there /\ v = Nowhere
                             \/ old.there /\ v = router /\ Agree(old, v)
              /\ last' = "applied" =>
                     IF old.there THEN v = router /\ old = Read(old, Reported(router))
                     ELSE v = Nowhere
              /\ ~Panics(old, Planned(old))
<1> DEFINE old == Before(state)
           new == Planned(old)
<1>1. PICK v \in Start(state) :
          /\ router' = Executed(Written(old, new), v)
          /\ trusted' = (trusted \/ Written(old, new) # Nothing \/ (~old.there /\ v = Nowhere))
          /\ last' = IF last = "outside" THEN "overtaken"
                     ELSE IF ~old.there /\ v # Nowhere THEN "adopted"
                     ELSE "applied"
  BY DEF Apply
<1>2. state' = Read(new, Reported(router')) /\ ~Panics(old, new)
  BY DEF Apply
<1>3. /\ NoState \in StateType /\ StateShape(NoState)
      /\ ~NoState.there /\ NoState.value = Zero
  BY DEF NoState, StateType, Value, StateShape
<1>4. /\ kind \in Kind /\ config \in {Null, Zero, A, B}
      /\ state \in StateType /\ StateShape(state) /\ router \in RouterValue /\ RouterShape(router)
      /\ state.there \/ state = NoState
      /\ MaskInv /\ config \in Settings \cup {Null}
  BY DEF ConversionInv, MaskInv, ConversionTypeOK, SecretsSurvive, RouterValue, StateType, Value
<1>5. v \in RouterValue /\ RouterShape(v)
  BY <1>4 DEF Start, RouterValue, RouterShape
<1>6. old \in {state, NoState} /\ old \in StateType /\ StateShape(old) /\ (old.there \/ old = NoState)
  BY <1>3, <1>4 DEF Before
<1>7. new \in StateType /\ StateShape(new) /\ new.there
  BY <1>4, <1>6, PlannedValue, PlannedShape
<1>8. router' \in RouterValue /\ RouterShape(router')
  <2>1. RouterShape(router')
    BY <1>1, <1>4, <1>5, <1>6, ExecutedShape
  <2> QED BY <1>1, <1>4, <1>5, <1>6, <2>1, MaskIsNotWritten, ExecutedValue DEF StateShape
<1>9. ASSUME trusted
      PROVE  \/ ~old.there /\ v = Nowhere
             \/ old.there /\ v = router /\ Agree(old, v)
  BY <1>3, <1>9 DEF Before, Start, ConversionInv
<1>10. ASSUME last' = "applied"
       PROVE  IF old.there THEN v = router /\ old = Read(old, Reported(router))
              ELSE v = Nowhere
  <2>1. last # "outside" /\ (old.there \/ v = Nowhere)
    BY <1>1, <1>10
  <2>2. ASSUME old.there PROVE v = router /\ old = Read(old, Reported(router))
    <3>1. state.there /\ old = state /\ v = router
      BY <1>3, <2>2 DEF Before, Start
    <3> QED BY <2>1, <3>1 DEF Apply, Applying, ConversionInv
  <2> QED BY <2>1, <2>2
<1> HIDE DEF old
<1> QED BY <1>1, <1>2, <1>5, <1>6, <1>7, <1>8, <1>9, <1>10 DEF old

LEMMA ConversionInvStep ==
    ConversionInv /\ [ConversionNext]_conversionVars => ConversionInv'
<1> SUFFICES ASSUME ConversionInv, [ConversionNext]_conversionVars PROVE ConversionInv'
  OBVIOUS
<1>1. /\ kind \in Kind /\ kind.nested \in BOOLEAN /\ habit \in Habit /\ Fits(kind, habit)
      /\ state \in StateType /\ StateShape(state) /\ router \in RouterValue /\ RouterShape(router)
      /\ state.there \/ state = NoState
      /\ MaskInv /\ config \in Settings \cup {Null}
      /\ last \in {"refreshed", "applied", "adopted", "overtaken"} =>
             state = Read(state, Reported(router))
      /\ trusted => state.there /\ Agree(state, router)
  BY KindAssumption
  DEF ConversionInv, MaskInv, ConversionTypeOK, SecretsSurvive, RouterValue, StateType, Value
<1>2. MaskInv'
  BY <1>1, MaskInvStep
<1>3. SUFFICES /\ config' \in Settings \cup {Null}
               /\ StateShape(state') /\ RouterShape(router')
               /\ state'.there \/ state' = NoState
               /\ last' \in {"refreshed", "applied", "adopted", "overtaken"} =>
                      state' = Read(state', Reported(router'))
               /\ trusted' => state'.there /\ Agree(state', router')
  <2>1. NoState' = NoState
    BY DEF NoState
  <2> QED BY <1>2, <1>3, <2>1, Frame DEF ConversionInv
\* A reading, from a well-formed state.
<1>4. ASSUME NEW s \in StateType, StateShape(s), s.there, NEW r \in RouterValue,
             RouterShape(r), state' = Read(s, Reported(r))
      PROVE  /\ StateShape(state') /\ state'.there
             /\ state' = Read(state', Reported(r))
             /\ ~Unread(s, Reported(r)) \/ Agree(s, r) => Agree(state', r)
  <2>1. Reported(r) \in {Nowhere, Zero, A, B, Default, Mask, Respelt}
    BY <1>1, ReportedValue
  <2>2. StateShape(state') /\ state' = Read(state', Reported(r))
    BY <1>1, <1>4, <2>1, ReadShape, ReadAgain
  <2>3. state'.there
    BY <1>1, <1>4, ReadFields
  <2>4. ~Unread(s, Reported(r)) \/ Agree(s, r) => Agree(state', r)
    BY <1>1, <1>4, ReadAgrees
  <2> QED BY <2>2, <2>3, <2>4
<1>5. CASE Edit
  BY <1>1, <1>5 DEF Edit
<1>6. CASE Refresh
  BY <1>1, <1>4, <1>6 DEF Refresh
<1>7. CASE Import
  <2> DEFINE s == [NoState EXCEPT !.there = TRUE]
  <2>1. s \in StateType /\ s.there /\ s.block = FALSE /\ s.value = Zero
    BY DEF NoState, StateType, Value
  <2>2. StateShape(s)
    BY <2>1 DEF StateShape
  <2>3. state' = Read(s, Reported(router))
    BY <1>7 DEF Import
  <2> HIDE DEF s
  <2> QED BY <1>1, <1>4, <1>7, <2>1, <2>2, <2>3 DEF Import
<1>8. CASE Apply
  <2>1. PICK old \in {state, NoState}, v \in RouterValue :
          /\ old \in StateType /\ StateShape(old) /\ RouterShape(v)
          /\ old.there \/ old = NoState
          /\ router' = Executed(Written(old, Planned(old)), v)
          /\ router' \in RouterValue /\ RouterShape(router')
          /\ Planned(old) \in StateType /\ StateShape(Planned(old)) /\ Planned(old).there
          /\ state' = Read(Planned(old), Reported(router'))
          /\ trusted' => \/ Written(old, Planned(old)) # Nothing
                         \/ ~old.there /\ v = Nowhere
                         \/ old.there /\ v = router /\ Agree(old, v)
    BY <1>8, ApplySteps
  <2>2. trusted' => ~Unread(Planned(old), Reported(router')) \/ Agree(Planned(old), router')
    BY <1>1, <2>1, WrittenAgrees
  <2>3. config' = config
    BY <1>8 DEF Apply
  <2> QED BY <1>1, <1>4, <2>1, <2>2, <2>3
<1>9. CASE ApplyFails
  <2> DEFINE old == Before(state)
             new == Planned(old)
  <2>1. /\ NoState \in StateType /\ StateShape(NoState)
        /\ ~NoState.there
    BY DEF NoState, StateType, Value, StateShape
  <2>2. old \in StateType /\ StateShape(old)
    BY <1>1, <2>1 DEF Before
  <2>3. new \in StateType /\ StateShape(new) /\ new.there
    BY <1>1, <2>2, PlannedValue, PlannedShape DEF MaskInv, ConversionTypeOK
  <2>4. /\ router' = router \/ \E v \in Start(state) : router' = Executed(Written(old, new), v)
        /\ state' \in {new, NoState}
        /\ config' = config /\ last' = "failed" /\ trusted' = FALSE
    BY <1>9 DEF ApplyFails
  <2>5. \A v \in Start(state) : v \in RouterValue /\ RouterShape(v)
    BY <1>1 DEF Start, RouterValue, RouterShape
  <2>6. RouterShape(router')
    BY <1>1, <2>2, <2>4, <2>5, ExecutedShape
  <2> HIDE DEF new
  <2> QED BY <1>1, <2>1, <2>3, <2>4, <2>6
<1>10. CASE Crash
  BY <1>1, <1>10 DEF Crash
<1>11. CASE Outside
  <2>1. RouterShape(router')
    BY <1>1, <1>11, KindFacts DEF Outside, Settings, RouterShape
  <2> QED BY <1>1, <1>11, <2>1 DEF Outside
<1>12. CASE UNCHANGED conversionVars
  BY <1>1, <1>12 DEF conversionVars
<1> QED BY <1>5, <1>6, <1>7, <1>8, <1>9, <1>10, <1>11, <1>12 DEF ConversionNext

LEMMA ConversionInvariant == ConversionSpec => []ConversionInv
BY ConversionInvInit, ConversionInvStep, PTL DEF ConversionSpec

-----------------------------------------------------------------------------
\* "No changes" is true: when a plan after a refresh or an apply is empty, the
\* router has what the configuration sets, for every kind of attribute and
\* every way in which the router may report it.
THEOREM NoChangesIsAlwaysTrue == ConversionSpec => []NoChangesIsTrue
<1>1. ASSUME ConversionInv PROVE NoChangesIsTrue
  <2> SUFFICES ASSUME last \in {"refreshed", "applied"}, state.there, Planned(state) = state,
                      config # Null, ~Has("skipped"), ~Has("countdown"), Visible \/ trusted
               PROVE  Same(Effective(router), config)
    BY DEF NoChangesIsTrue, NothingToDo
  <2>1. /\ kind \in Kind /\ habit \in Habit /\ Fits(kind, habit)
        /\ state \in StateType /\ router \in RouterValue /\ RouterShape(router)
        /\ config \in Settings \cup {Null} /\ Valid(config, declared)
        /\ state = Read(state, Reported(router))
        /\ trusted => Agree(state, router)
    BY <1>1 DEF ConversionInv, MaskInv, ConversionTypeOK, SecretsSurvive, RouterValue,
       StateType, Value
  <2>2. ~Undeclared /\ Settable
    BY <2>1 DEF Valid, Undeclared
  <2>3. state.block = kind.nested /\ PlanValue(state.value) = state.value
    <3>1. state = [there |-> TRUE, block |-> kind.nested, value |-> PlanValue(state.value)]
      BY <2>1, <2>2, PlannedFields, KindFacts
    <3> QED BY <3>1
  <2>4. Spoken(state.value) = Spoken(config)
    BY <2>3 DEF PlanValue, Asked, Suppressed, NotUserProvided, Same
  <2>5. Agree(state, router)
    <3>1. CASE trusted
      BY <2>1, <3>1
    <3>2. CASE Visible
      <4>1. ~Unread(state, Reported(router))
        BY <3>2 DEF Visible, NotRead, Unread
      <4> QED BY <2>1, <4>1, ReadAgrees
    <3> QED BY <3>1, <3>2
  <2>6. Known(state.value, router)
    BY <2>2, <2>3, <2>5 DEF Agree
  <2> QED BY <2>1, <2>4, <2>6, KindFacts DEF Known, Same, Spoken, Settings
<1> QED BY <1>1, ConversionInvariant, PTL

\* An apply with which all that is written and read is known: what the proofs
\* of the properties of an apply start from.
LEMMA ApplyFacts ==
    ASSUME ConversionInv
    PROVE  /\ kind \in Kind /\ habit \in Habit /\ Fits(kind, habit)
           /\ MaskInv /\ config \in Settings \cup {Null} /\ Valid(config, declared)
           /\ state \in StateType /\ router \in RouterValue /\ RouterShape(router)
BY DEF ConversionInv, MaskInv, ConversionTypeOK, SecretsSurvive, RouterValue, StateType, Value

\* Nothing of the configuration, the kind and the habit changes when it is
\* applied, nor what depends on them only.
LEMMA ApplyFrame ==
    ASSUME Apply \/ ApplyFails
    PROVE  /\ kind' = kind /\ habit' = habit /\ config' = config /\ declared' = declared
           /\ Unsaid' <=> Unsaid
           /\ NothingToDo(state)' <=> Planned(state') = state'
           /\ Effective(router)' = Effective(router')
           /\ Restless' <=> Restless
<1>1. kind' = kind /\ habit' = habit /\ config' = config /\ declared' = declared
  BY DEF Apply, ApplyFails
<1>2. Unsaid' <=> Unsaid
  BY <1>1 DEF Unsaid, Has
<1>3. Effective(router)' = Effective(router')
  BY <1>1 DEF Effective, TheDefault
<1>4. Restless' <=> Restless
  BY <1>1 DEF Restless
<1>5. NothingToDo(state)' <=> Planned(state') = state'
  BY <1>1 DEF NothingToDo, Planned, Asked, Suppressed, NotUserProvided, Same, Spoken,
     Longer, TheDefault, Settable, Has, NoState
<1> QED BY <1>1, <1>2, <1>3, <1>4, <1>5

\* What is removed from the configuration is cleared on the router by the apply
\* that removes it, whatever the state knew of it before.
LEMMA RemovedStep ==
    ASSUME ConversionInv, Apply PROVE RemovedIsCleared'
<1> SUFFICES ASSUME last' = "applied", Unsaid, ~kind.computedBlock,
                    ~Has("kept"), ~Has("respelled"), ~Has("computed"), ~Has("granted"),
                    \/ trusted'
                    \/ /\ ~kind.nested /\ ~Has("skipped")
                       /\ habit.set \notin {"masked", "never"}
                       /\ Reported(router') # Nowhere \/ habit.beside
                       /\ ~(Has("dropped") /\ Reported(router') = Default)
             PROVE  router' \in {Nowhere, Zero}
  <2>1. kind' = kind /\ habit' = habit /\ (Unsaid' <=> Unsaid)
    BY ApplyFrame
  <2>2. Visible' => /\ ~Has("skipped") /\ habit.set \notin {"masked", "never"}
                    /\ Reported(router') # Nowhere \/ habit.beside
                    /\ ~(Has("dropped") /\ Reported(router') = Default)
    BY <2>1 DEF Visible, NotRead, Reported, Has, TheDefault
  <2> QED BY <2>1, <2>2 DEF RemovedIsCleared, Has
<1>1. PICK old \in {state, NoState}, v \in RouterValue :
        /\ old \in StateType /\ StateShape(old) /\ RouterShape(v)
        /\ old.there \/ old = NoState
        /\ router' = Executed(Written(old, Planned(old)), v)
        /\ router' \in RouterValue /\ RouterShape(router')
        /\ Planned(old) \in StateType
        /\ trusted' => \/ Written(old, Planned(old)) # Nothing
                       \/ ~old.there /\ v = Nowhere
                       \/ old.there /\ v = router /\ Agree(old, v)
        /\ last' = "applied" =>
               IF old.there THEN v = router /\ old = Read(old, Reported(router))
               ELSE v = Nowhere
  BY ApplySteps
<1>2. /\ kind \in Kind /\ habit \in Habit /\ Fits(kind, habit)
      /\ MaskInv /\ config \in Settings \cup {Null}
  BY ApplyFacts
<1>3. Settable /\ config = Null /\ ~Has("default") /\ ~Has("zero-default")
  BY DEF Settable, Unsaid
<1>4. CASE Undeclared
  <2>1. Planned(old) = [there |-> TRUE, block |-> FALSE, value |-> Zero]
    BY <1>1, <1>2, <1>4, PlannedFields, KindFacts
  <2>2. Unread(Planned(old), Reported(router')) /\ trusted'
    BY <1>4, <2>1 DEF Unread, Undeclared
  <2>3. Agree(Planned(old), router')
    BY <1>1, <1>2, <2>2, WrittenAgrees
  <2> QED BY <1>3, <1>4, <2>1, <2>3 DEF Agree, Undeclared
<1>5. CASE ~Undeclared /\ Has("skipped")
  <2>1. router' = v /\ trusted' /\ Written(old, Planned(old)) = Nothing
    BY <1>1, <1>5 DEF Written, Executed
  <2> QED BY <1>1, <1>5, <2>1 DEF Agree
<1>6. CASE ~Undeclared /\ ~Has("skipped")
  <2>1. Asked(old.value) = Zero
    BY <1>3 DEF Asked
  <2>2. PlanValue(old.value) = Zero
    BY <2>1 DEF PlanValue, Suppressed, Same, Spoken
  <2>3. Planned(old) = [there |-> TRUE, block |-> kind.nested, value |-> Zero]
    BY <1>1, <1>2, <1>3, <1>6, <2>2, PlannedFields, KindFacts
  <2>4. Planned(old).value = Zero
    BY <2>3
  <2>5. Written(old, Planned(old)) \in {Nothing, Clear, Zero}
    BY <1>6, <2>4 DEF Written, Undeclared
  <2>6. CASE Written(old, Planned(old)) \in {Clear, Zero}
    BY <1>1, <2>6 DEF Executed, Stored
  <2>7. CASE Written(old, Planned(old)) = Nothing
    <3>1. router' = v /\ kind.type # "map"
      BY <1>1, <1>2, <2>7, KindFacts DEF Executed
    <3>2. old.value = Zero
      BY <1>3, <1>6, <2>4, <2>7, <3>1 DEF Written, SecretToKeep, Undeclared
    <3>3. CASE ~old.there
      BY <1>1, <3>1, <3>3
    <3>4. CASE old.there /\ trusted'
      BY <1>1, <1>2, <1>3, <1>6, <2>7, <3>1, <3>2, <3>4, KindFacts
      DEF Agree, Known, Spoken, Effective, RouterValue
    <3>5. CASE old.there /\ ~trusted'
      <4>1. v = router /\ old = Read(old, Reported(v))
        BY <1>1, <3>5
      <4>2. ~Unread(old, Reported(v))
        BY <1>6, <3>1, <3>5 DEF Unread
      <4>3. Zero = Taken(Reported(v))
        BY <1>1, <1>2, <3>2, <4>1, <4>2, ReadFields, KindFacts
      <4> QED BY <1>2, <3>1, <3>5, <4>3, HabitFacts DEF Taken, Reported, RouterValue, TheDefault
    <3> QED BY <3>3, <3>4, <3>5
  <2> QED BY <2>5, <2>6, <2>7
<1> QED BY <1>4, <1>5, <1>6

\* What is removed from the configuration is cleared on the router by the
\* apply, for every kind that does not leave its value to the router.
THEOREM RemovedIsAlwaysCleared == ConversionSpec => []RemovedIsCleared
<1>1. ConversionInit => RemovedIsCleared
  BY DEF ConversionInit, RemovedIsCleared
<1>2. ASSUME ConversionInv, RemovedIsCleared, [ConversionNext]_conversionVars
      PROVE  RemovedIsCleared'
  <2>1. CASE Apply
    BY <1>2, <2>1, RemovedStep
  <2>2. CASE Edit \/ Refresh \/ Import \/ ApplyFails \/ Crash \/ Outside
    <3>1. last' # "applied"
      BY <2>2 DEF Edit, Refresh, Import, ApplyFails, Crash, Outside
    <3> QED BY <3>1 DEF RemovedIsCleared
  <2>3. CASE UNCHANGED conversionVars
    BY <1>2, <2>3 DEF RemovedIsCleared, conversionVars, Unsaid, Visible, NotRead, Reported,
       TheDefault, Has
  <2> QED BY <1>2, <2>1, <2>2, <2>3 DEF ConversionNext
<1> QED BY <1>1, <1>2, ConversionInvariant, PTL DEF ConversionSpec

\* What is left to the router and was read is planned as it is, and written,
\* if at all, as it is.
LEMMA UnconfiguredStep ==
    ASSUME ConversionInv, Apply \/ ApplyFails, last = "refreshed", Unsaid, Visible,
           state.there, LeftToRouter
    PROVE  Spoken(Effective(router')) = Spoken(Effective(router))
<1>1. /\ kind \in Kind /\ habit \in Habit /\ Fits(kind, habit)
      /\ MaskInv /\ config \in Settings \cup {Null} /\ Valid(config, declared)
      /\ state \in StateType /\ router \in RouterValue /\ RouterShape(router)
      /\ state = Read(state, Reported(router))
  BY ApplyFacts DEF ConversionInv
<1>2. config = Null /\ ~Has("default") /\ ~Has("zero-default")
  BY DEF Unsaid
<1>3. CASE kind.nested
  <2>1. Has("computed") /\ ~Settable /\ ~Has("force-new")
    BY <1>1, <1>3, KindFacts DEF LeftToRouter, Settable
  <2>2. Before(state) = state /\ Start(state) = {router}
    BY <2>1 DEF Before, Start, Replacing
  <2>3. Written(state, Planned(state)) = Nothing
    BY <2>1 DEF Written
  <2>4. router' = router
    BY <2>2, <2>3 DEF Apply, ApplyFails, Executed
  <2> QED BY <2>4
<1>4. CASE ~kind.nested
  <2> DEFINE n == state.value
  <2>1. ~Undeclared /\ ~Has("required")
    BY <1>1, <1>2, <1>4 DEF Undeclared, Valid
  <2>2. Has("kept") \/ Has("respelled") \/ Has("granted") \/ Has("computed")
    <3>1. kind.traits \cap {"kept", "respelled", "granted", "computed"} # {}
      BY <1>4 DEF LeftToRouter
    <3> QED BY <3>1 DEF Has
  <2>3. Asked(n) \in {n, Zero} /\ (Has("computed") => Asked(n) = n)
    BY <1>2 DEF Asked
  <2>4. PlanValue(n) = n
    BY <1>2, <1>4, <2>2, <2>3 DEF PlanValue, Suppressed, NotUserProvided
  <2>5. Planned(state) = [there |-> TRUE, block |-> FALSE, value |-> n]
    BY <1>1, <1>4, <2>1, <2>4, PlannedFields, KindFacts
  <2>6. ~Unread(state, Reported(router))
    BY DEF Visible, NotRead, Unread
  <2>7. /\ n = Taken(Reported(router)) /\ state.block = FALSE
        /\ state = [there |-> TRUE, block |-> FALSE, value |-> n]
    BY <1>1, <1>4, <2>6, ReadFields, KindFacts
  <2>8. Planned(state) = state
    BY <2>5, <2>7
  <2>9. Before(state) = state /\ Start(state) = {router}
    BY <2>8 DEF Before, Start, Replacing, NothingToDo
  <2>10. \/ router' = router
         \/ router' = Executed(Written(state, state), router) /\ ~Panics(state, state)
    BY <2>8, <2>9 DEF Apply, ApplyFails
  <2>11. ASSUME router' = Executed(Written(state, state), router), ~Panics(state, state)
         PROVE  Spoken(Effective(router')) = Spoken(Effective(router))
    <3>1. CASE Written(state, state) = Nothing
      BY <2>11, <3>1 DEF Executed
    <3>2. CASE Written(state, state) # Nothing
      <4>1. ~Has("skipped") /\ Settable /\ ~isEmpty(n)
        BY <1>4, <2>1, <3>2 DEF Written
      <4>2. ~Has("granted")
        BY <1>2, <2>11, <4>1 DEF Panics
      <4>3. n # Zero /\ kind.type # "number"
        BY <1>1, <1>2, <4>1, KindFacts DEF isEmpty
      <4>4. Written(state, state) = n
        BY <3>2, <4>3, <1>4 DEF Written, Undeclared
      <4>5. n # Blank /\ n \in Value
        BY <1>1, <1>4, <2>7 DEF ConversionInv, StateShape, StateType
      <4>6. n # Mask
        BY <1>1, <2>7, ReportedValue DEF Visible, ConversionInv, StateShape
      <4>7. router' = n
        BY <2>11, <4>3, <4>4, <4>5 DEF Executed, Stored, Value
      <4>8. ~Has("countdown") /\ habit.set \in {"plain", "respelt"}
        BY <1>1, <2>2, <4>2, KindFacts, HabitFacts DEF Visible
      <4>9. Reported(router) = n
        BY <1>1, <1>4, <2>7, <4>3, <4>8, KindFacts, HabitFacts
        DEF Taken, Visible, Reported, RouterShape, RouterValue
      <4>10. \/ router = Nowhere /\ habit.unset = Default /\ n = TheDefault
             \/ router = n
             \/ router = A /\ n = Respelt
        BY <1>1, <4>3, <4>8, <4>9, HabitFacts DEF Reported
      <4> QED BY <4>3, <4>5, <4>7, <4>8, <4>10 DEF Effective, Spoken, Value
    <3> QED BY <3>1, <3>2
  <2> QED BY <2>10, <2>11
<1> QED BY <1>3, <1>4

\* What the configuration says nothing of, and the schema leaves to the router,
\* is what it was after an apply that was made because of another attribute, or
\* that failed, for every kind of attribute.
THEOREM UnconfiguredIsAlwaysKept == ConversionSpec => UnconfiguredKept
<1>1. ASSUME ConversionInv, [ConversionNext]_conversionVars
      PROVE  [last = "refreshed" /\ last' \in {"applied", "failed"} /\ Unsaid
                /\ Visible /\ state.there /\ LeftToRouter
               => Same(Effective(router'), Effective(router))]_conversionVars
  <2>1. CASE Apply \/ ApplyFails
    BY <1>1, <2>1, UnconfiguredStep DEF Same
  <2>2. CASE Edit \/ Refresh \/ Import \/ Crash \/ Outside
    BY <2>2 DEF Edit, Refresh, Import, Crash, Outside
  <2>3. CASE UNCHANGED conversionVars
    BY <2>3
  <2> QED BY <1>1, <2>1, <2>2, <2>3 DEF ConversionNext
<1> QED BY <1>1, ConversionInvariant, PTL DEF ConversionSpec, UnconfiguredKept

\* A value that the next plan leaves as it is.
Steady(v) == PlanValue(v) = v

\* What is read back after an apply is planned as it is.
LEMMA ReadBackIsSteady ==
    ASSUME ConversionInv, ~Undeclared, Settable, ~Restless,
           ~(habit.set = "masked" /\ config # Null),
           NEW old \in StateType, StateShape(old), NEW v \in RouterValue, RouterShape(v),
           NEW n, n = PlanValue(old.value), n \in Value, n = Blank => kind.nested,
           NEW new, new = [there |-> TRUE, block |-> kind.nested, value |-> n],
           IF old.there THEN old = Read(old, Reported(v)) ELSE old = NoState /\ v = Nowhere,
           NEW r, r = Executed(Written(old, new), v), r \in RouterValue, RouterShape(r),
           ~Panics(old, new), ~Unread(new, Reported(r)),
           kind.nested => \/ Written(old, new) # Nothing
                          \/ ~old.there
                          \/ Agree(old, v)
    PROVE  Steady(Taken(Reported(r)))
<1> DEFINE w == Taken(Reported(r))
           request == Written(old, new)
<1>1. /\ kind \in Kind /\ habit \in Habit /\ Fits(kind, habit)
      /\ config \in Settings \cup {Null} /\ Valid(config, declared)
  BY ApplyFacts
<1>2. new.value = n /\ new.block = kind.nested
  OBVIOUS
<1>3. ~Has("skipped")
  BY DEF Unread
\* The value asked for, if it does not depend on the state.
<1>4. ASSUME NEW c, \A x : Asked(x) = c, w = c \/ Suppressed(w, c) PROVE Steady(w)
  BY <1>4 DEF Steady, PlanValue
<1>5. ASSUME NEW c, \A x : Asked(x) = c
      PROVE  n = c \/ (n = old.value /\ Suppressed(n, c))
  BY <1>5 DEF PlanValue
<1>6. CASE config # Null
  <2>1. \A x : Asked(x) = config
    BY <1>6 DEF Asked
  <2>2. config \in {Zero, A, B} /\ (config = Zero => kind.type \in {"flag", "number"})
        /\ (kind.type = "flag" => config \in {Zero, A})
    BY <1>1, <1>6, KindFacts DEF Settings
  <2>3. \/ n = config
        \/ n # Zero /\ Same(n, config) /\ (Has("respelled") \/ Has("alike") \/ Has("granted"))
        \/ n # Zero /\ config # Zero /\ Longer(config, n) /\ Has("countdown")
    BY <1>5, <1>6, <2>1, <2>2 DEF Suppressed, NotUserProvided, Same, Spoken
  <2>4. request # Nothing
    BY <1>1, <1>2, <1>3, <1>6, <2>2, <2>3, KindFacts
    DEF Written, Undeclared, isEmpty, SecretToKeep, Value
  <2>5. \/ r = n /\ n # Blank
        \/ r = Nowhere /\ n = Zero /\ config = Zero /\ kind.type = "flag" /\ Has("unset")
    BY <1>1, <1>2, <1>3, <2>2, <2>3, <2>4, KindFacts
    DEF Written, Undeclared, Executed, Stored, Value, Same, Spoken, Longer
  <2>6. w = config \/ Suppressed(w, config)
    BY <1>1, <1>6, <2>2, <2>3, <2>5, KindFacts, HabitFacts
    DEF Taken, Reported, Suppressed, Same, Spoken, Longer, Unread, TheDefault, RouterShape, Value
  <2> QED BY <1>4, <2>1, <2>6
<1>7. CASE config = Null /\ Has("default")
  <2>1. \A x : Asked(x) = TheDefault
    BY <1>7 DEF Asked
  <2>2. CASE ~kind.nested /\ (Has("kept") \/ Has("granted"))
    BY <1>4, <1>7, <2>1, <2>2 DEF Suppressed, NotUserProvided
  <2>3. CASE ~(~kind.nested /\ (Has("kept") \/ Has("granted")))
    <3>1. \/ n = TheDefault
          \/ n # Zero /\ Has("respelled") /\ ~kind.nested
          \/ n = Respelt /\ Has("countdown")
      BY <1>1, <1>5, <1>7, <2>1, <2>3, KindFacts
      DEF Suppressed, NotUserProvided, Same, Spoken, Longer, TheDefault, StateShape
    <3>2. request = n
      BY <1>1, <1>2, <1>3, <1>7, <3>1, KindFacts
      DEF Written, Undeclared, isEmpty, SecretToKeep, TheDefault, Value
    <3>3. r = n /\ n \notin {Zero, Blank}
      BY <3>1, <3>2 DEF Executed, Stored, TheDefault, Value
    <3>4. ~Has("secret") /\ habit.set # "masked"
      BY <1>1, <1>7, KindFacts, HabitFacts
    <3>5. w = TheDefault \/ Suppressed(w, TheDefault)
      BY <1>1, <1>7, <3>1, <3>3, <3>4, KindFacts, HabitFacts
      DEF Taken, Reported, Suppressed, NotUserProvided, Longer, Unread, TheDefault, RouterShape, Value
    <3> QED BY <1>4, <2>1, <3>5
  <2> QED BY <2>2, <2>3
<1>8. CASE config = Null /\ ~Has("default") /\ (Has("zero-default") \/ ~Has("computed"))
  <2>1. \A x : Asked(x) = Zero
    BY <1>8 DEF Asked
  <2>2. CASE ~kind.nested /\ (Has("kept") \/ Has("granted") \/ (Has("respelled") /\ w # Zero))
    BY <1>4, <1>8, <2>1, <2>2 DEF Suppressed, NotUserProvided
  <2>3. CASE ~kind.nested /\ Has("respelled") /\ w = Zero
    BY <1>4, <2>1, <2>3
  <2>4. CASE kind.nested \/ (~Has("kept") /\ ~Has("granted") /\ ~Has("respelled"))
    <3>1. n = Zero /\ kind.type # "map"
      BY <1>1, <1>5, <1>8, <2>1, <2>4, KindFacts
      DEF Suppressed, NotUserProvided, Same, Spoken, Longer
    \* What a reading makes of no value.
    <3>2. ASSUME r \in {Nowhere, Zero} PROVE w = Zero
      BY <1>1, <1>8, <2>4, <3>1, <3>2, KindFacts, HabitFacts
      DEF Taken, Reported, Unread, RouterShape, TheDefault, Restless
    <3>3. CASE request # Nothing
      <4>1. r \in {Nowhere, Zero}
        BY <1>2, <3>1, <3>3, <1>3 DEF Written, Undeclared, Executed, Stored
      <4> QED BY <1>4, <2>1, <3>2, <4>1
    <3>4. CASE request = Nothing
      <4>1. r = v /\ old.value = Zero
        BY <1>2, <1>3, <3>1, <3>4 DEF Written, Undeclared, Executed, SecretToKeep
      <4>2. CASE ~old.there
        BY <1>4, <2>1, <3>2, <4>1, <4>2
      <4>3. CASE old.there /\ ~kind.nested
        <5>1. ~Unread(old, Reported(v))
          BY <4>1, <4>3 DEF Unread
        <5>2. old.value = w
          BY <1>1, <4>1, <4>3, <5>1, ReadFields, KindFacts
        <5> QED BY <1>4, <2>1, <4>1, <5>2
      <4>4. CASE old.there /\ kind.nested
        <5>1. Agree(old, v)
          BY <3>4, <4>4
        <5>2. CASE old.block
          BY <1>1, <1>3, <1>4, <2>1, <3>1, <3>2, <4>1, <4>4, <5>1, <5>2, KindFacts
          DEF Agree, Known, Spoken, Effective, RouterValue
        <5>3. CASE ~old.block /\ ~kind.computedBlock
          BY <1>3, <1>4, <2>1, <3>2, <4>1, <4>4, <5>1, <5>3 DEF Agree
        <5>4. CASE ~old.block /\ kind.computedBlock
          <6>1. ~Unread(old, Reported(v))
            BY <4>1, <5>4 DEF Unread
          <6>2. Read(old, Reported(v)) = [there |-> old.there, block |-> kind.nested,
                                          value |-> Taken(Reported(v))]
            BY <1>1, <6>1, ReadFields, KindFacts
          <6>3. old = Read(old, Reported(v))
            BY <4>4
          <6>4. old.block = kind.nested
            BY <6>2, <6>3
          <6> QED BY <4>4, <5>4, <6>4
        <5> QED BY <5>2, <5>3, <5>4
      <4> QED BY <4>2, <4>3, <4>4
    <3> QED BY <3>3, <3>4
  <2> QED BY <2>2, <2>3, <2>4
<1>9. CASE config = Null /\ ~Has("default") /\ ~Has("zero-default") /\ Has("computed")
  <2>1. Asked(w) = w
    BY <1>9 DEF Asked
  <2> QED BY <2>1 DEF Steady, PlanValue
<1> QED BY <1>6, <1>7, <1>8, <1>9

\* What was planned, if it is not read back, is planned again.
LEMMA PlanIsSteady ==
    ASSUME kind \in Kind, NEW v PROVE Steady(PlanValue(v))
<1>1. CASE config = Null /\ ~Has("default") /\ ~Has("zero-default") /\ Has("computed")
  BY <1>1 DEF Steady, PlanValue, Asked
<1>2. CASE ~(config = Null /\ ~Has("default") /\ ~Has("zero-default") /\ Has("computed"))
  <2>1. PICK c : \A x : Asked(x) = c
    BY <1>2 DEF Asked
  <2> QED BY <2>1 DEF Steady, PlanValue
<1> QED BY <1>1, <1>2

LEMMA SecondPlanStep ==
    ASSUME ConversionInv, Apply PROVE SecondPlanIsEmpty'
<1> SUFFICES ASSUME last' = "applied", ~Restless, kind.nested => trusted',
                    ~(habit.set = "masked" /\ config # Null)
             PROVE  Planned(state') = state'
  BY ApplyFrame DEF SecondPlanIsEmpty
<1>1. PICK old \in {state, NoState}, v \in RouterValue :
        /\ old \in StateType /\ StateShape(old) /\ RouterShape(v)
        /\ old.there \/ old = NoState
        /\ router' = Executed(Written(old, Planned(old)), v)
        /\ router' \in RouterValue /\ RouterShape(router')
        /\ Planned(old) \in StateType /\ StateShape(Planned(old)) /\ Planned(old).there
        /\ state' = Read(Planned(old), Reported(router'))
        /\ trusted' => \/ Written(old, Planned(old)) # Nothing
                       \/ ~old.there /\ v = Nowhere
                       \/ old.there /\ v = router /\ Agree(old, v)
        /\ last' = "applied" =>
               IF old.there THEN v = router /\ old = Read(old, Reported(router))
               ELSE v = Nowhere
        /\ ~Panics(old, Planned(old))
  BY ApplySteps
<1>2. kind \in Kind /\ kind.nested \in BOOLEAN
  BY ApplyFacts, KindFacts
<1> DEFINE new == Planned(old)
           t == [there |-> TRUE, block |-> kind.nested, value |-> Taken(Reported(router'))]
<1>3. /\ Unread(new, Reported(router')) => state' = new
      /\ ~Unread(new, Reported(router')) => state' = t
  BY <1>1, <1>2, ReadFields
<1>4. state' \in StateType /\ state'.there
  <2>1. Reported(router') \in {Nowhere, Zero, A, B, Default, Mask, Respelt}
    BY <1>1, ApplyFacts, ReportedValue
  <2> QED BY <1>1, <1>2, <1>3, <2>1, ReadValue
<1>5. CASE Undeclared /\ kind.computedBlock
  <2>1. Planned(state') = [there |-> TRUE, block |-> state'.block, value |-> state'.value]
    BY <1>2, <1>4, <1>5, PlannedFields
  <2> QED BY <1>4, <2>1 DEF StateType
<1>6. CASE Undeclared /\ ~kind.computedBlock
  <2>1. new = [there |-> TRUE, block |-> FALSE, value |-> Zero]
    BY <1>1, <1>2, <1>6, PlannedFields
  <2>2. state' = new
    BY <1>3, <1>6, <2>1 DEF Unread, Undeclared
  <2>3. Planned(state') = [there |-> TRUE, block |-> FALSE, value |-> Zero]
    BY <1>2, <1>4, <1>6, PlannedFields
  <2> QED BY <2>1, <2>2, <2>3
<1>7. CASE ~Undeclared
  <2> DEFINE n == IF Settable THEN PlanValue(old.value) ELSE old.value
             w == state'.value
  <2>1. new = [there |-> TRUE, block |-> kind.nested, value |-> n]
    BY <1>1, <1>2, <1>7, PlannedFields
  <2>2. state' = [there |-> TRUE, block |-> kind.nested, value |-> w]
    BY <1>3, <2>1
  <2>3. Planned(state') = [there |-> TRUE, block |-> kind.nested,
                           value |-> IF Settable THEN PlanValue(w) ELSE w]
    BY <1>2, <1>4, <1>7, PlannedFields
  <2>4. ASSUME Settable PROVE Steady(w)
    <3>1. CASE Unread(new, Reported(router'))
      <4>1. w = PlanValue(old.value)
        BY <1>3, <2>1, <2>4, <3>1
      <4> QED BY <1>2, <4>1, PlanIsSteady
    <3>2. CASE ~Unread(new, Reported(router'))
      <4>1. w = Taken(Reported(router'))
        BY <1>3, <3>2
      <4>2. new.value = n /\ n \in Value /\ (n = Blank => kind.nested)
        BY <1>1, <2>1 DEF StateShape, StateType
      <4>3. IF old.there THEN old = Read(old, Reported(v)) ELSE old = NoState /\ v = Nowhere
        BY <1>1
      <4>4. kind.nested => \/ Written(old, new) # Nothing
                           \/ ~old.there
                           \/ Agree(old, v)
        BY <1>1
      <4>5. router' = Executed(Written(old, new), v) /\ ~Panics(old, new)
        BY <1>1
      <4>6. n = PlanValue(old.value)
        BY <2>4
      <4> HIDE DEF new, n
      <4>7. Steady(Taken(Reported(router')))
        BY <1>1, <1>7, <2>1, <2>4, <3>2, <4>2, <4>3, <4>4, <4>5, <4>6, ReadBackIsSteady
      <4> QED BY <4>1, <4>7
    <3> QED BY <3>1, <3>2
  <2>5. (IF Settable THEN PlanValue(w) ELSE w) = w
    BY <2>4 DEF Steady
  <2> QED BY <2>2, <2>3, <2>5
<1> QED BY <1>5, <1>6, <1>7

\* An apply leaves nothing to plan: what the router reports of the values sent,
\* in its spelling and with its defaults, is what was planned, for every kind of
\* attribute and every way of reporting that the kind is meant for.
THEOREM SecondPlanIsAlwaysEmpty == ConversionSpec => []SecondPlanIsEmpty
<1>1. ConversionInit => SecondPlanIsEmpty
  BY DEF ConversionInit, SecondPlanIsEmpty
<1>2. ASSUME ConversionInv, SecondPlanIsEmpty, [ConversionNext]_conversionVars
      PROVE  SecondPlanIsEmpty'
  <2>1. CASE Apply
    BY <1>2, <2>1, SecondPlanStep
  <2>2. CASE Edit \/ Refresh \/ Import \/ ApplyFails \/ Crash \/ Outside
    <3>1. last' # "applied"
      BY <2>2 DEF Edit, Refresh, Import, ApplyFails, Crash, Outside
    <3> QED BY <3>1 DEF SecondPlanIsEmpty
  <2>3. CASE UNCHANGED conversionVars
    BY <1>2, <2>3 DEF SecondPlanIsEmpty, conversionVars, Restless, NothingToDo, Planned, Asked,
       Suppressed, NotUserProvided, Same, Spoken, Longer, TheDefault, Settable, Has, NoState
  <2> QED BY <1>2, <2>1, <2>2, <2>3 DEF ConversionNext
<1> QED BY <1>1, <1>2, ConversionInvariant, PTL DEF ConversionSpec

=============================================================================
