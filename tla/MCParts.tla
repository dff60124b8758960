------------------------------ MODULE MCParts ------------------------------
(***************************************************************************)
(* The parts of the provider that share nothing but the schemas, checked   *)
(* side by side: a behaviour is one of one part, and the others rest in a  *)
(* state of theirs.                                                        *)
(***************************************************************************)
EXTENDS Conversion, AttributeNames, RuleOrder, Reply, StateUpgrade, Container,
        CertificateImport, BuiltIns, Durations, AddressRanges

VARIABLE part

partsVars ==
    <<part, conversionVars, namesVars, rulesVars, replyVars, upgradeVars,
      containerVars, certificateVars, builtInVars, durationVars,
      rangeVars>>

-----------------------------------------------------------------------------
(* Values of the constants.                                                *)

AllKinds == {k \in Kinds : TRUE}  \* enumerated once
AllMenus == Resources \cup DataSource

\* A version before, at and after every change of a name, one that is short
\* and one with a part at its limit.
Versions == {<<6, 49, 18>>, <<7, 1>>, <<7, 17>>, <<7, 19, 4>>, <<7, 20>>,
             <<7, 23, 255>>, <<7, 24, 1>>}

\* r1 goes anywhere, r2 before it, r3 before a rule of somebody else.
Places == [r \in {"r1", "r2", "r3"} |->
              CASE r = "r1" -> "none" [] r = "r2" -> "r1" [] OTHER -> "s1"]
ListedRules == <<"r2", "r3", "s1">>

\* A field of every class, and of those that are parsed a bad one.
F(name, class, good) == [name |-> name, class |-> class, good |-> good]
Fields ==
    {F(".id", "service", TRUE), F("dummy", "unknown", TRUE), F("skip", "skipped", TRUE),
     F("comment", "text", TRUE), F("in.a", "part", TRUE), F("in.x", "lost part", TRUE),
     F("ch.a", "key", TRUE), F("ch.b", "key", TRUE)}
    \cup {F("mtu", "number", good) : good \in BOOLEAN}
    \cup {F("vids", "numbers", good) : good \in BOOLEAN}
    \cup {F("in.b", "number part", good) : good \in BOOLEAN}
    \cup {F("in.c", "set part", good) : good \in BOOLEAN}

-----------------------------------------------------------------------------
(* Where a part rests.                                                     *)

ConversionRests ==
    /\ kind = [type |-> "text", traits |-> Optional, nested |-> FALSE, computedBlock |-> FALSE]
    /\ habit = [unset |-> Nowhere, beside |-> FALSE, set |-> "plain"]
    /\ config = Null /\ declared = TRUE /\ state = NoState /\ router = Nowhere
    /\ last = "edited" /\ trusted = FALSE

NamesRest ==
    /\ routerOf = [c \in Client |-> <<7, 1>>] /\ given = [c \in Client |-> NoVersion]
    /\ NamesInit

RulesRest == order = <<>> /\ RulesInit

ReplyRests ==
    /\ reader = "resource" /\ reply = {} /\ left = {}
    /\ err = FALSE /\ diags = {} /\ gathered = {} /\ values = {}

UpgradeRests ==
    /\ upgrade = NameToId(ResourceInterfaceBridgeV0)
    /\ objects = [o \in Object |-> Gone] /\ knows = FALSE
    /\ UpgradeInit

ContainerRests == wanted = "stopped" /\ tagged = FALSE /\ ContainerInit

CertificateRests ==
    /\ making = [how |-> "template", cert |-> "none", key |-> "none", trust |-> FALSE]
    /\ CertificateInit

BuiltInsRest ==
    /\ family = "w60g" /\ wish = [there |-> TRUE, label |-> "c", value |-> 0, on |-> FALSE]
    /\ BuiltInInit

RangeRests == range = [first |-> 0, last |-> 0] /\ RangeInit

PartsInit ==
    /\ part \in {"conversion", "names", "rules", "reply", "upgrade", "container",
                 "certificate", "built-ins", "duration", "range"}
    /\ IF part = "conversion" THEN ConversionInit ELSE ConversionRests
    /\ IF part = "names" THEN NamesInit ELSE NamesRest
    /\ IF part = "rules" THEN RulesInit ELSE RulesRest
    /\ IF part = "reply" THEN ReplyInit ELSE ReplyRests
    /\ IF part = "upgrade" THEN UpgradeInit ELSE UpgradeRests
    /\ IF part = "container" THEN ContainerInit ELSE ContainerRests
    /\ IF part = "certificate" THEN CertificateInit ELSE CertificateRests
    /\ IF part = "built-ins" THEN BuiltInInit ELSE BuiltInsRest
    /\ DurationInit
    /\ IF part = "range" THEN RangeInit ELSE RangeRests

-----------------------------------------------------------------------------
(* A step of the part.                                                     *)

ConversionSteps ==
    /\ part = "conversion" /\ ConversionNext
    /\ UNCHANGED <<part, namesVars, rulesVars, replyVars, upgradeVars, containerVars,
                   certificateVars, durationVars, builtInVars, rangeVars>>

NamesSteps ==
    /\ part = "names" /\ NamesNext
    /\ UNCHANGED <<part, conversionVars, rulesVars, replyVars, upgradeVars, containerVars,
                   certificateVars, durationVars, builtInVars, rangeVars>>

RulesSteps ==
    /\ part = "rules" /\ RulesNext
    /\ UNCHANGED <<part, conversionVars, namesVars, replyVars, upgradeVars, containerVars,
                   certificateVars, durationVars, builtInVars, rangeVars>>

ReplySteps ==
    /\ part = "reply" /\ ReplyNext
    /\ UNCHANGED <<part, conversionVars, namesVars, rulesVars, upgradeVars, containerVars,
                   certificateVars, durationVars, builtInVars, rangeVars>>

UpgradeSteps ==
    /\ part = "upgrade" /\ UpgradeNext
    /\ UNCHANGED <<part, conversionVars, namesVars, rulesVars, replyVars, containerVars,
                   certificateVars, durationVars, builtInVars, rangeVars>>

InContainer(steps) ==
    /\ part = "container" /\ steps
    /\ UNCHANGED <<part, conversionVars, namesVars, rulesVars, replyVars, upgradeVars,
                   certificateVars, durationVars, builtInVars, rangeVars>>

ContainerSteps == InContainer(ContainerNext)

CertificateSteps ==
    /\ part = "certificate" /\ CertificateNext
    /\ UNCHANGED <<part, conversionVars, namesVars, rulesVars, replyVars, upgradeVars,
                   containerVars, durationVars, builtInVars, rangeVars>>

DurationSteps ==
    /\ part = "duration" /\ DurationNext
    /\ UNCHANGED <<part, conversionVars, namesVars, rulesVars, replyVars, upgradeVars,
                   containerVars, certificateVars, builtInVars, rangeVars>>

RangeSteps ==
    /\ part = "range" /\ RangeNext
    /\ UNCHANGED <<part, conversionVars, namesVars, rulesVars, replyVars, upgradeVars,
                   containerVars, certificateVars, builtInVars, durationVars>>

InBuiltIns(steps) ==
    /\ part = "built-ins" /\ steps
    /\ UNCHANGED <<part, conversionVars, namesVars, rulesVars, replyVars, upgradeVars,
                   containerVars, certificateVars, durationVars, rangeVars>>

BuiltInSteps == InBuiltIns(BuiltInNext)

PartsNext ==
    \/ ConversionSteps \/ NamesSteps \/ RulesSteps \/ ReplySteps \/ UpgradeSteps
    \/ ContainerSteps \/ CertificateSteps \/ BuiltInSteps \/ DurationSteps \/ RangeSteps

\* The fairness of ContainerSpec and of BuiltInSpec: a behaviour is one of one
\* part, so that a disjunction asks of it what its own part does.  Nothing else
\* is promised in the end.
PartsSpec ==
    /\ PartsInit /\ [][PartsNext]_partsVars
    /\ WF_partsVars(InContainer(HandlerSteps) \/ InBuiltIns(BuiltInRequests))
    /\ WF_partsVars(InContainer(Runs) \/ InBuiltIns(BuiltInRuns))
    /\ WF_partsVars(InContainer(RouterWorks) \/ InBuiltIns(KeyIsReady))

\* Values of the variables of all parts.
TypesOK ==
    /\ ConversionTypeOK /\ NamesTypeOK /\ RulesTypeOK /\ ReplyTypeOK /\ UpgradeTypeOK
    /\ ContainerTypeOK /\ CertificateTypeOK /\ BuiltInTypeOK
    /\ DurationTypeOK /\ RangeTypeOK

=============================================================================
