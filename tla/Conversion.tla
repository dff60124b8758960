----------------------------- MODULE Conversion -----------------------------
(***************************************************************************)
(* TerraformResourceDataToMikrotik and MikrotikResourceDataToTerraform for *)
(* one attribute of one resource, with what happens on both sides of them: *)
(* Terraform refreshes, plans and applies; the router reports some values  *)
(* in a way of its own; other people change them.                          *)
(*                                                                         *)
(* The attribute is of any kind that the schemas have.  How the router     *)
(* reports it (its habit) is any way that the traits of the kind are meant *)
(* for.  How Terraform and its SDK plan (what the new value is, when the   *)
(* rules for a difference are asked, what is stored when an update fails)  *)
(* is external, and so is the router.                                      *)
(***************************************************************************)
EXTENDS Schemas

CONSTANT Kind  \* of attributes: [type, traits, nested, computedBlock]

\* What the schemas never combine.  An attribute whose value the router may
\* choose has no default (the SDK refuses both), and one of a block is only
\* read then; a secret has no default either.  A map is never in a block, and
\* keeps what the router has; a countdown is a text that does not.  Answers are
\* dropped for no attribute of a block, and no number that is left to the
\* router.
ASSUME KindAssumption ==
    /\ Kind \subseteq [type : {"text", "number", "flag", "list", "map"},
                       traits : SUBSET STRING, nested : BOOLEAN, computedBlock : BOOLEAN]
    /\ \A k \in Kind :
          /\ "computed" \in k.traits => "zero-default" \notin k.traits
          /\ k.nested /\ "computed" \in k.traits =>
                k.traits \cap {"optional", "force-new"} = {}
          /\ "secret" \in k.traits => "default" \notin k.traits
          /\ k.type = "map" => ~k.nested /\ "kept" \in k.traits
          /\ "countdown" \in k.traits =>
                k.type = "text" /\ k.traits \cap {"kept", "respelled", "computed"} = {}
          /\ "dropped" \in k.traits =>
                /\ ~k.nested
                /\ k.type = "number" =>
                      k.traits \cap {"kept", "respelled", "granted", "computed"} = {}

\* Values: the zero value of the type, two others, the default, the mask
\* shown for a secret, another spelling of the first value (of a countdown,
\* less time than was set), and a list of one empty text.
Zero == "zero"
A == "a"
B == "b"
Default == "default"
Mask == "mask"
Respelt == "respelt"
Blank == "blank"

Null == "null"        \* not in the configuration
Nowhere == "nowhere"  \* not set on the router, or not in its answer

VARIABLES
    kind, habit,  \* of the attribute; they never change
    config,       \* its value in the configuration, or Null
    declared,     \* the configuration has the block it is in
    state,        \* Terraform's: the resource, the block, the value
    router,       \* the value on the router
    last,         \* what happened last
    trusted       \* history: since the value was last sent, no update has
                  \* failed and nobody else has changed it

conversionVars ==
    <<kind, habit, config, declared, state, router, last, trusted>>

NoState == [there |-> FALSE, block |-> FALSE, value |-> Zero]

Has(trait) == trait \in kind.traits
Settable == ~(Has("computed") /\ ~Has("optional"))

\* A flag has two values.
TheDefault == IF kind.type = "flag" THEN A ELSE Default

Settings ==
    (IF kind.type = "flag" THEN {A} ELSE {A, B}) \cup
    (IF kind.type \in {"flag", "number"} THEN {Zero} ELSE {})

-----------------------------------------------------------------------------
(* The router.  It may report an attribute that is not set, as empty or    *)
(* with a default of its own; it may mask, respell or never show one that  *)
(* is set; and it may report others of the same block or map.              *)

Habit == [unset : {Nowhere, Zero, Default}, beside : BOOLEAN,
          set : {"plain", "masked", "respelt", "never"}]

\* What the traits are meant for: a default of the router's own needs a rule
\* that leaves it alone, another spelling one that accepts it.
Fits(k, h) ==
    /\ h.unset = Default =>
           \/ k.nested \/ (k.type = "text" /\ "dropped" \in k.traits)
           \/ k.traits \cap {"kept", "respelled", "computed", "default", "granted"} # {}
    /\ h.set = "masked" => "secret" \in k.traits
    /\ h.set = "respelt" => k.type # "flag" /\ k.traits \cap
           {"respelled", "alike", "countdown", "granted"} # {}
    /\ "countdown" \in k.traits => h.set = "respelt"
    /\ h.beside => k.nested \/ k.type = "map"
    /\ "unset" \in k.traits /\ k.type = "flag" => h.unset = Nowhere
    /\ h.set = "never" => ~k.nested /\ k.type # "map" /\ h.unset = Nowhere

\* An empty text or list is no value.
Stored(v) ==
    IF v \in {Zero, Blank} /\ kind.type \in {"text", "list"} THEN Nowhere ELSE v

Reported(v) ==
    IF habit.set = "never" THEN Nowhere
    ELSE IF v = Nowhere THEN IF habit.unset = Default THEN TheDefault ELSE habit.unset
    ELSE IF v # Zero /\ habit.set = "masked" THEN Mask
    ELSE IF habit.set = "respelt" /\ (v = A \/ Has("countdown")) THEN Respelt
    ELSE v

-----------------------------------------------------------------------------
(* MikrotikResourceDataToTerraform.  An attribute that the answer does not *)
(* have keeps its value; a block or a map is set as a whole from what the  *)
(* answer has of it, a block that is not Computed only if the resource     *)
(* data has it already.                                                    *)

NotRead ==
    \/ Has("skipped")
    \/ kind.nested /\ ~kind.computedBlock /\ ~state.block

Read(s, answer) ==
    LET Set(v) == [s EXCEPT !.value = v, !.block = kind.nested]
    IN  IF \/ Has("skipped")
           \/ kind.nested /\ ~kind.computedBlock /\ ~s.block
           \/ Has("dropped") /\ answer = Default
           \/ answer = Nowhere /\ ~habit.beside
        THEN s
        ELSE IF answer = Nowhere THEN Set(Zero)
        ELSE IF Has("unset") /\ kind.type = "flag" THEN Set(A)
        ELSE IF kind.nested /\ kind.type = "list" /\ answer = Zero THEN Set(Blank)
        ELSE Set(answer)

-----------------------------------------------------------------------------
(* The plan: what the configuration, a default or the state says, unless a *)
(* rule suppresses the difference.                                         *)

Spoken(v) == IF v = Respelt /\ ~Has("countdown") THEN A ELSE v
\* A slip: the texts are compared.
SameText(v, w) == v = w

Same(v, w) == Spoken(v) = Spoken(w)

\* Slips: the configuration is not looked at, and nothing is kept.
AnyValueIsKept == ~kind.nested
NothingIsKept == FALSE

\* AlwaysPresentNotUserProvided does not look into a list, so it says
\* nothing of an attribute of a block.
NotUserProvided == config = Null /\ ~kind.nested

\* The remaining time is less than any other.
Longer(v, w) == w = Respelt \/ (w = A /\ v = B)

Suppressed(old, new) ==
    \/ Has("kept") /\ NotUserProvided
    \/ Has("respelled") /\ old # Zero /\ (NotUserProvided \/ Same(old, new))
    \/ Has("alike") /\ Same(old, new)
    \/ Has("countdown") /\ old # Zero /\ new # Zero /\ Longer(new, old)
    \/ Has("granted") /\ (NotUserProvided \/ Same(old, new))

Asked(old) ==
    IF config # Null THEN config
    ELSE IF Has("default") THEN TheDefault
    ELSE IF ~Has("zero-default") /\ Has("computed") THEN old
    ELSE Zero

Planned(s) ==
    LET new == Asked(s.value)
        value == IF new # s.value /\ Suppressed(s.value, new) THEN s.value ELSE new
    IN  IF kind.nested /\ ~declared
        THEN IF kind.computedBlock THEN [s EXCEPT !.there = TRUE]
             ELSE [NoState EXCEPT !.there = TRUE]
        ELSE [there |-> TRUE, block |-> kind.nested,
              value |-> IF Settable THEN value ELSE s.value]

NothingToDo(s) == Planned(s) = s

\* A change of a ForceNew attribute replaces the resource.
Replacing(s) == s.there /\ Has("force-new") /\ ~NothingToDo(s)
Before(s) == IF Replacing(s) THEN NoState ELSE s

-----------------------------------------------------------------------------
(* TerraformResourceDataToMikrotik.                                        *)

isEmpty(new) ==
    LET none == config = Null /\ ~Has("default") /\ ~Has("zero-default")
    IN  CASE kind.type = "text" ->
                 new = Zero /\ ~Has("default") /\ (config = Null \/ Has("zero-default"))
          [] kind.type = "number" -> none
          [] kind.type = "flag" -> new = Zero /\ none
          [] kind.type = "list" -> new = Zero /\ config = Null
          [] kind.type = "map" -> new = Zero

\* A request sets the value, clears it ("!name"), or does not have it.
Nothing == "nothing"
Clear == "clear"

\* A slip: a removed block is left as it is.
NoUnset(old) == Nothing

\* For one attribute of the block: what the state knows to be set.
unsetRemovedBlock(old) == IF old.value # Zero THEN Clear ELSE Nothing

\* A slip: secrets are sent like anything else.
NotASecret(old, new) == FALSE

SecretToKeep(old, new) ==
    ~kind.nested /\ ~Has("required") /\ Has("secret")
        /\ old.value = new.value /\ config = Null

Written(old, new) ==
    IF Has("skipped") \/ ~Settable THEN Nothing
    ELSE IF kind.nested /\ ~declared
         THEN IF ~kind.computedBlock /\ old.block THEN unsetRemovedBlock(old) ELSE Nothing
    ELSE IF \/ ~Has("required") /\ old.value = new.value /\ isEmpty(new.value)
            \/ SecretToKeep(old, new)
            \/ kind.type = "map" /\ new.value = Zero
         THEN Nothing
    ELSE IF Has("unset") /\ kind.type \in {"text", "flag"} /\ new.value = Zero THEN Clear
    ELSE new.value

\* The policies of a user group are taken from the raw configuration, where
\* a null value is not expected.
Panics(old, new) ==
    Has("granted") /\ config = Null /\ ~(old.value = new.value /\ isEmpty(new.value))

\* A slip: the text that asks to clear the value is taken for a value.
ClearedLiterally(request, v) == IF request = Nothing THEN v ELSE request

Executed(request, v) ==
    CASE request = Nothing -> v
      [] request = Clear -> Nowhere
      [] OTHER -> Stored(request)

-----------------------------------------------------------------------------
(* Steps.                                                                  *)

\* The configuration is edited.  A block is declared or not, and only in a
\* declared block can its attributes have a value.
Valid(c, d) ==
    /\ ~kind.nested => d
    /\ c # Null => d /\ Settable
    /\ d /\ Has("required") => c \in {A, B}

Edit ==
    /\ \E c \in Settings \cup {Null}, d \in BOOLEAN :
          /\ Valid(c, d) /\ <<c, d>> # <<config, declared>>
          /\ config' = c /\ declared' = d
    /\ last' = "edited"
    /\ UNCHANGED <<kind, habit, state, router, trusted>>

\* ResourceRead: at the start of a run, and after an import.
Refresh ==
    /\ state.there
    /\ state' = Read(state, Reported(router))
    /\ last' = "refreshed"
    /\ UNCHANGED <<kind, habit, config, declared, router, trusted>>

Import ==
    /\ ~state.there
    /\ state' = Read([NoState EXCEPT !.there = TRUE], Reported(router))
    /\ last' = "refreshed" /\ trusted' = FALSE
    /\ UNCHANGED <<kind, habit, config, declared, router>>

\* A handler creates or updates the resource, because of this attribute or
\* of another.  A new object starts without the value; a setting, and an
\* object that is there, with what it has.
Start(s) == IF Replacing(s) THEN {Nowhere}
            ELSE IF s.there THEN {router} ELSE {Nowhere, router}

Applying == state.there => last \in {"refreshed", "outside"}

Apply ==
    /\ Applying
    /\ LET old == Before(state)
           new == Planned(old)
           request == Written(old, new)
       IN  /\ ~Panics(old, new)
           /\ \E v \in Start(state) :
                 /\ router' = Executed(request, v)
                 /\ trusted' = (trusted \/ request # Nothing \/ (~old.there /\ v = Nowhere))
                 /\ last' = IF last = "outside" THEN "overtaken"
                            ELSE IF ~old.there /\ v # Nowhere THEN "adopted"
                            ELSE "applied"
           /\ state' = Read(new, Reported(router'))
    /\ UNCHANGED <<kind, habit, config, declared>>

\* The request, or the reading after it, fails.  A failed update leaves the
\* planned values in the state, a failed creation nothing.
ApplyFails ==
    /\ Applying
    /\ LET old == Before(state)
           new == Planned(old)
       IN  /\ ~Panics(old, new)
           /\ \/ UNCHANGED router
              \/ \E v \in Start(state) : router' = Executed(Written(old, new), v)
           /\ state' = IF old.there THEN new ELSE NoState
    /\ last' = "failed" /\ trusted' = FALSE
    /\ UNCHANGED <<kind, habit, config, declared>>

\* The provider dies before it has sent the request.
Crash ==
    /\ Applying
    /\ Panics(Before(state), Planned(Before(state)))
    /\ last' = "crashed"
    /\ UNCHANGED <<kind, habit, config, declared, state, router, trusted>>

\* Somebody else changes or clears the value.
Outside ==
    /\ \E v \in (Settings \ {Zero}) \cup {Nowhere} :
          v # router /\ router' = v
    /\ last' = "outside" /\ trusted' = FALSE
    /\ UNCHANGED <<kind, habit, config, declared, state>>

ConversionInit ==
    /\ kind \in Kind
    /\ habit \in {h \in Habit : Fits(kind, h)}
    /\ config \in Settings \cup {Null} /\ declared \in BOOLEAN
    /\ Valid(config, declared)
    /\ state = NoState
    /\ router \in {Nowhere, A}
    /\ last = "edited" /\ trusted = FALSE

ConversionNext ==
    \/ Edit \/ Refresh \/ Import \/ Apply \/ ApplyFails \/ Crash \/ Outside

ConversionSpec == ConversionInit /\ [][ConversionNext]_conversionVars

-----------------------------------------------------------------------------
\* Values of the variables.
ConversionTypeOK ==
    /\ kind \in Kind /\ habit \in Habit /\ Fits(kind, habit)
    /\ config \in {Null, Zero, A, B} /\ declared \in BOOLEAN
    /\ Valid(config, declared)
    /\ state \in [there : BOOLEAN, block : BOOLEAN,
                  value : {Zero, A, B, Default, Mask, Respelt, Blank}]
    /\ router \in {Nowhere, Zero, A, B, Default, Mask, Respelt}
    /\ last \in {"edited", "refreshed", "applied", "adopted", "overtaken",
                 "failed", "crashed", "outside"}
    /\ trusted \in BOOLEAN

-----------------------------------------------------------------------------
(* What the conversions promise.  The exceptions are deviations that the   *)
(* code has; the README lists them.                                        *)

\* What the router does with the value that it has.
Effective(v) ==
    IF v # Nowhere THEN v ELSE IF habit.unset = Default THEN TheDefault ELSE Zero

\* The state has read what the router has.
Visible ==
    /\ ~NotRead /\ habit.set \notin {"masked", "never"}
    /\ Reported(router) # Nowhere \/ habit.beside
    /\ ~(Has("dropped") /\ Reported(router) = Default)

\* Nothing says what an attribute is that the configuration leaves out.
Unsaid == config = Null /\ ~Has("default") /\ ~Has("zero-default")

\* "No changes" is true: when a plan after a refresh or an apply is empty, the
\* router has what the configuration sets.  What it does not show must have
\* been sent without a failure since.  A skipped attribute is never sent to a
\* setting, and a longer countdown counts as no change.
NoChangesIsTrue ==
    last \in {"refreshed", "applied"} /\ state.there /\ NothingToDo(state)
        /\ config # Null /\ ~Has("skipped") /\ ~Has("countdown")
        /\ (Visible \/ trusted)
        => Same(Effective(router), config)

\* Attributes of a declared block that the configuration leaves out: the
\* rules that keep the router's value do not look into blocks, and an empty
\* list is read as a list of one empty text.
Restless ==
    /\ kind.nested /\ config = Null
    /\ habit.unset = Default \/ (habit.unset = Zero /\ kind.type = "list")

\* An apply leaves nothing to plan: the values read back, in the spelling of
\* the router, with its defaults, and with what belongs to a block or a map,
\* are the ones that were planned.  A declared secret that is read back as a
\* mask is planned for ever, and a block that the state did not have is known
\* only once it was read.
SecondPlanIsEmpty ==
    last = "applied" /\ ~Restless /\ (kind.nested => trusted)
        /\ ~(habit.set = "masked" /\ config # Null)
        => NothingToDo(state)

\* The mask that the router shows instead of a secret never becomes the
\* secret, through any sequence of refreshes, imports, edits and applies.
SecretsSurvive == router # Mask

\* The schema leaves the value to the router.  The rules for a difference do
\* not look into a block.
LeftToRouter ==
    IF kind.nested THEN Has("computed")
    ELSE kind.traits \cap {"kept", "respelled", "granted", "computed"} # {}

\* What the configuration says nothing of, and the schema leaves to the router,
\* is what it was after an apply that was made because of another attribute, or
\* that failed.
UnconfiguredKept ==
    [][last = "refreshed" /\ last' \in {"applied", "failed"} /\ Unsaid
         /\ Visible /\ state.there /\ LeftToRouter
        => Same(Effective(router'), Effective(router))]_conversionVars

\* What is removed from the configuration, an attribute or the block it is
\* in, is cleared on the router by the apply, unless the schema leaves the
\* value to the router.  What a block has is known only from what was sent.
RemovedIsCleared ==
    last = "applied" /\ Unsaid /\ ~kind.computedBlock
        /\ kind.traits \cap {"kept", "respelled", "computed", "granted"} = {}
        /\ (trusted \/ (Visible /\ ~kind.nested))
        => router \in {Nowhere, Zero}

=============================================================================
