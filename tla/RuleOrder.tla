----------------------------- MODULE RuleOrder -----------------------------
(***************************************************************************)
(* The order of rules.  A rule that is created may ask to be placed before *)
(* another one (place_before); an update must not ask again.  The list of  *)
(* fields to skip is in a schema that all calls of the resource share, so  *)
(* an update extends a copy of it.  routeros_move_items puts listed rules  *)
(* in order.  Terraform runs the handlers of different rules concurrently; *)
(* other people add, remove and move rules.  The router is external.       *)
(***************************************************************************)
EXTENDS Integers, SequencesExt

CONSTANTS
    Rule,      \* rules of the configuration
    Stranger,  \* rules of other people
    MaxMoves   \* moves by other people

\* In the configuration: where each rule wants to be, and the listed order.
CONSTANTS PlaceBefore, Sequence

VARIABLES
    order,     \* the rules on the router, in order
    skipList,  \* the default of MetaSkipFields in the shared schema
    call,      \* of each rule: the handler under way and the fields it skips
    request,   \* the last request for a rule
    recorded,  \* the sequence in the state of move_items
    move,      \* move_items: "none", "moved", "overtaken" by other people,
               \* "read" or "failed"
    moves      \* how often other people moved a rule

rulesVars == <<order, skipList, call, request, recorded, move, moves>>

ASSUME RulesAssumption ==
    /\ Rule \cap Stranger = {}
    /\ PlaceBefore \in [Rule -> Rule \cup Stranger \cup {"none"}]
    /\ Sequence \in Seq(Rule \cup Stranger) /\ Len(Sequence) >= 2
    /\ IsInjective(Sequence) /\ MaxMoves \in Nat

Idle == [handler |-> "none", skips |-> {}]
NoRequest == [handler |-> "none", rule |-> "none", placeBefore |-> FALSE]

OnRouter == ToSet(order)

\* Of a list the rules that are in a set, in the order that they have.  (By
\* their positions: the provers know nothing of SelectSeq.)
Among(rules, some) ==
    LET kept == {i \in DOMAIN rules : rules[i] \in some}
        Position(k) == CHOOSE i \in kept : Cardinality({j \in kept : j <= i}) = k
    IN  [k \in 1 .. Cardinality(kept) |-> rules[Position(k)]]

-----------------------------------------------------------------------------
(* The router: it adds, removes and moves.                                 *)

Index(rule) == CHOOSE i \in 1 .. Len(order) : order[i] = rule

\* These rules, in this order, right before another one.
PutBefore(rules, destination) ==
    LET others == Among(order, OnRouter \ ToSet(rules))
        at == CHOOSE i \in 1 .. Len(others) : others[i] = destination
    IN  SubSeq(others, 1, at - 1) \o rules \o SubSeq(others, at, Len(others))

-----------------------------------------------------------------------------
(* Rules: create and update.                                               *)

\* The list of the copy that an update uses.
schemaWithSkipFields(list, fields) == list \cup fields

\* A slip: the list is not copied.
ListWrittenInPlace(list) == list \cup {"place_before"}

\* The shared list after that.
SharedAfter(list) == list

CreateCalled(r) ==
    /\ call[r] = Idle /\ r \notin OnRouter
    /\ call' = [call EXCEPT ![r] = [handler |-> "create", skips |-> {}]]
    /\ UNCHANGED <<order, skipList, request, recorded, move, moves>>

UpdateCalled(r) ==
    /\ call[r] = Idle /\ r \in OnRouter
    /\ call' = [call EXCEPT ![r] =
           [handler |-> "update",
            skips |-> schemaWithSkipFields(skipList, {"place_before"})]]
    /\ skipList' = SharedAfter(skipList)
    /\ UNCHANGED <<order, request, recorded, move, moves>>

\* The resource is converted with the list as it is now.
Request(r, skips) ==
    [handler |-> call[r].handler, rule |-> r,
     placeBefore |-> PlaceBefore[r] # "none" /\ "place_before" \notin skips]

\* A new rule goes last, or before the one that it names, which must exist.
CreateSent(r) ==
    /\ call[r].handler = "create"
    /\ request' = Request(r, skipList)
    /\ order' = IF ~request'.placeBefore THEN Append(order, r)
                ELSE IF PlaceBefore[r] \in OnRouter THEN PutBefore(<<r>>, PlaceBefore[r])
                ELSE order
    /\ call' = [call EXCEPT ![r] = Idle]
    /\ UNCHANGED <<skipList, recorded, move, moves>>

\* A set does not know place-before and fails; otherwise no rule moves.
UpdateSent(r) ==
    /\ call[r].handler = "update"
    /\ request' = Request(r, call[r].skips)
    /\ call' = [call EXCEPT ![r] = Idle]
    /\ UNCHANGED <<order, skipList, recorded, move, moves>>

-----------------------------------------------------------------------------
(* routeros_move_items: ResourceMoveItems.                                 *)

\* A slip: all but the first are moved before the first.
LastFirst == [numbers |-> Tail(Sequence), destination |-> Head(Sequence)]

\* All but the last are moved before the last.
MoveRequest == [numbers |-> Front(Sequence), destination |-> Last(Sequence)]

\* One request; the router refuses a rule that it does not have.  A creation
\* that failed leaves no state.
resCreateUpdate ==
    /\ move \notin {"moved", "overtaken"}
    /\ IF ToSet(Sequence) \subseteq OnRouter
       THEN /\ order' = PutBefore(MoveRequest.numbers, MoveRequest.destination)
            /\ move' = "moved"
       ELSE move' = (IF move = "none" THEN "none" ELSE "failed") /\ UNCHANGED order
    /\ UNCHANGED <<skipList, call, request, recorded, moves>>

\* The sequence in the resource data: what was planned, until it was read.
KnownOrder == IF move = "read" THEN recorded ELSE Sequence

\* Of all rules those that are in it, in the order that they have.
Listed(rules) == Among(rules, ToSet(KnownOrder))

resRead ==
    /\ move # "none"
    /\ recorded' = IF order = <<>> THEN <<>> ELSE Listed(order)
    /\ move' = IF order = <<>> THEN "none" ELSE "read"
    /\ UNCHANGED <<order, skipList, call, request, moves>>

-----------------------------------------------------------------------------
\* Other people add, remove or move a rule, maybe before it is read.
Overtaking ==
    /\ moves < MaxMoves /\ moves' = moves + 1
    /\ move' = IF move = "moved" THEN "overtaken" ELSE move
    /\ UNCHANGED <<skipList, call, request, recorded>>

OutsideAdds == \E r \in Stranger :
    /\ Overtaking
    /\ r \notin OnRouter /\ order' = Append(order, r)

OutsideRemoves == \E r \in OnRouter :
    /\ Overtaking
    /\ order' = Among(order, OnRouter \ {r})

OutsideMoves == \E r, s \in OnRouter :
    /\ Overtaking
    /\ r # s /\ order' = PutBefore(<<r>>, s)

RulesInit ==
    /\ order \in {<<>>} \cup {<<s>> : s \in Stranger}
    /\ skipList = {}
    /\ call = [r \in Rule |-> Idle]
    /\ request = NoRequest
    /\ recorded = <<>> /\ move = "none" /\ moves = 0

RulesNext ==
    \/ \E r \in Rule : CreateCalled(r) \/ UpdateCalled(r) \/ CreateSent(r) \/ UpdateSent(r)
    \/ resCreateUpdate \/ resRead
    \/ OutsideAdds \/ OutsideRemoves \/ OutsideMoves

RulesSpec == RulesInit /\ [][RulesNext]_rulesVars

-----------------------------------------------------------------------------
(* Properties.                                                             *)

RulesTypeOK ==
    /\ order \in Seq(Rule \cup Stranger) /\ IsInjective(order)
    /\ skipList \subseteq {"place_before"}
    /\ call \in [Rule -> [handler : {"none", "create", "update"},
                          skips : SUBSET {"place_before"}]]
    /\ request \in [handler : {"none", "create", "update"},
                    rule : Rule \cup {"none"}, placeBefore : BOOLEAN]
    /\ recorded \in Seq(Rule \cup Stranger)
    /\ move \in {"none", "moved", "overtaken", "read", "failed"}
    /\ moves \in 0 .. MaxMoves

\* A rule asks for its place when it is created, and only then, whatever
\* creations and updates of other rules run at the same time.
PlacedOnceAndForAll ==
    request.handler # "none" =>
        (request.placeBefore <=>
            request.handler = "create" /\ PlaceBefore[request.rule] # "none")

\* When rules were put in order and nobody else has interfered, reading them
\* finds the order that is configured, so that the next plan is empty.
OrderSettles ==
    [][move = "moved" /\ move' = "read" => recorded' = Sequence]_rulesVars

=============================================================================
