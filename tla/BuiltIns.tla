------------------------------ MODULE BuiltIns ------------------------------
(***************************************************************************)
(* Items that a router has out of the box, which are set and never created *)
(* or removed: the handlers that find such an item and set it, those that  *)
(* set one of a kind, and those that first look whether an item is there.  *)
(* With them, the creation that is awaited (ResourceCreateAndWait).        *)
(*                                                                         *)
(* One block, and the items of one menu.  Items *1 and *2 are there from   *)
(* the beginning, *3 is what a handler may create.  A request fails before *)
(* or after the router has executed it.                                    *)
(***************************************************************************)
EXTENDS Integers, FiniteSets

CONSTANT MaxMishaps  \* failures, changes by others and edits

ASSUME MishapsAssumption == MaxMishaps \in Nat

\* The handlers, by a resource that has them.
Family == {"w60g",      \* DefaultCreateUpdate: found by name, set by id
         "ethernet",  \* found by its factory name, then updated
         "service",   \* known by name, set
         "system",    \* one of a kind: the System* handlers
         "dns",       \* the same, and a delete that resets it
         "sniffer",   \* the same, started or stopped after it is set
         "wireless",  \* set if there is such a physical interface, or created
         "logging",   \* set if the action is built in, or created
         "key"}       \* created, awaited, and then default handlers

VARIABLES
    family,   \* of handlers
    wish,     \* the configuration
    items,    \* the router
    entry,    \* the state
    doing,    \* the handler under way: "nothing", "create", "update", "delete"
    at,       \* its next request
    aim,      \* the item it has looked up
    seen,     \* the state was refreshed and not applied since
    mishaps   \* so far

builtInVars == <<family, wish, items, entry, doing, at, aim, seen, mishaps>>

Label == {"a", "b", "c"}
\* Internal ids.
BuiltIn == {"*1", "*2"}
Made == "*3"
Slot == BuiltIn \cup {Made}
None == ""

Free == [there |-> FALSE]
AnItem(label, value, on) ==
    [there |-> TRUE, label |-> label, value |-> value, on |-> on]
\* The router is still making it.
Coming(value) == [AnItem("c", value, FALSE) EXCEPT !.there = FALSE]

OneOfAKind == {"system", "dns", "sniffer"}
Creating == {"wireless", "logging", "key"}

\* What may be configured.
Labels(m) == CASE m \in OneOfAKind -> {"a"}
               [] m = "key" -> {"c"}
               [] m \in {"ethernet", "service"} -> {"a", "b"}
               [] OTHER -> {"a", "c"}
Wishes(m) ==
    [there : BOOLEAN, label : Labels(m), value : {0, 1},
     on : IF m = "sniffer" THEN BOOLEAN ELSE {FALSE}]

NoEntry == [id |-> None, tainted |-> FALSE, label |-> "a", value |-> 0,
            on |-> FALSE, virtual |-> FALSE]

Mishap == mishaps < MaxMishaps /\ mishaps' = mishaps + 1
NoMishap == UNCHANGED mishaps

-----------------------------------------------------------------------------
(* The router.                                                             *)

Bearing(label) == {i \in Slot : items[i].there /\ items[i].label = label}

\* What a request for an id, or for a name in the menu of services, finds.
Identified(id) ==
    CASE family \in OneOfAKind -> {"*1"}
      [] family = "service" -> Bearing(id)
      [] OTHER -> {i \in Slot : i = id /\ items[i].there}

\* A factory name and the name of a service stay as they are.
Renames == family \in {"w60g", "wireless"}

Target == IF family = "service" THEN CHOOSE i \in Bearing(wish.label) : TRUE
          ELSE IF family \in OneOfAKind THEN "*1" ELSE aim

Accepted == /\ items[Target].there
            /\ Renames => Bearing(wish.label) \subseteq {Target}

AsSet == [items EXCEPT ![Target].value = wish.value,
                         ![Target].label = IF Renames THEN wish.label ELSE @]

-----------------------------------------------------------------------------
(* The resource data of a handler, and how it ends.                        *)

Then(s) == at' = s /\ UNCHANGED <<doing, seen>>
Stays == UNCHANGED <<family, wish>>

\* Terraform stores what there is under an id.
Stores(e) ==
    /\ entry' = IF e.id = None THEN NoEntry ELSE e
    /\ doing' = "nothing" /\ at' = "none" /\ aim' = None /\ seen' = FALSE

Succeeds(e) == Stores([e EXCEPT !.tainted = FALSE])

\* After an error as well; what was being created is tainted.
FailsWith(e) ==
    Stores(IF doing = "create" THEN [e EXCEPT !.tainted = TRUE] ELSE e)
Fails == FailsWith(entry)

\* The attributes as planned.
PlannedEntry(id) ==
    [id |-> id, tainted |-> FALSE, label |-> wish.label, value |-> wish.value,
     on |-> wish.on, virtual |-> entry.virtual]

\* What a read makes of an item.  Neither a factory name nor "numbers" is
\* reported, and whether a sniffer runs is read on a refresh only.
ReadEntry(i) ==
    [entry EXCEPT !.id = IF family = "service" THEN items[i].label
                         ELSE IF family \in OneOfAKind THEN "*1" ELSE i,
                  !.label = IF family \in {"ethernet", "service"} THEN @
                            ELSE items[i].label,
                  !.value = items[i].value,
                  !.virtual = (i = Made)]

-----------------------------------------------------------------------------
(* Create.                                                                 *)

BuiltInAction == family = "logging" /\ wish.label = "a"

\* A slip: the name is left as the id of a built-in action.
IdStaysName(i) == IF family = "logging" THEN wish.label ELSE i

\* The id of what was found by its name.
FoundId(i) == i

FirstRequest ==
    IF family \in {"w60g", "ethernet", "wireless"} \/ BuiltInAction THEN "find"
    ELSE IF family \in {"logging", "key"} THEN "create" ELSE "set"

CreateBuiltIn ==
    /\ doing = "nothing" /\ seen /\ entry = NoEntry /\ wish.there
    /\ entry' = PlannedEntry(IF family = "service" \/ BuiltInAction
                             THEN wish.label ELSE None)
    /\ doing' = "create" /\ at' = FirstRequest
    /\ NoMishap /\ Stays /\ UNCHANGED <<items, aim, seen>>

\* ReadItems by the name, or by the factory name.  DefaultCreateUpdate does
\* so for an update as well, and then sets what has that name now.
FindItem ==
    /\ at = "find"
    /\ \/ Mishap /\ Fails
       \/ /\ NoMishap /\ Bearing(wish.label) = {}
          /\ IF family = "wireless"
             THEN Then("create") /\ UNCHANGED <<entry, aim>>
             ELSE FailsWith([entry EXCEPT !.id = None])
       \/ /\ NoMishap
          /\ \E i \in Bearing(wish.label) :
                IF family = "wireless" /\ i = Made
                THEN Fails
                ELSE /\ entry' = [entry EXCEPT !.id = FoundId(i)]
                     /\ aim' = i
                     /\ Then(IF family = "w60g" THEN "set" ELSE "look-up")
    /\ Stays /\ UNCHANGED items

\* ResourceCreate.  An item made by a request that failed is nobody's.  The
\* making of a key may take longer than its request, which is forgiven.
CreateItemOf ==
    /\ at = "create"
    /\ LET possible == items[Made] = Free /\ Bearing(wish.label) = {}
           made == [items EXCEPT ![Made] = AnItem(wish.label, wish.value, FALSE)]
           coming == [items EXCEPT ![Made] = Coming(wish.value)]
       IN \/ /\ possible /\ items' = made /\ NoMishap
             /\ entry' = [entry EXCEPT !.id = IF family = "key" THEN None ELSE Made]
             /\ Then(IF family = "key" THEN "await" ELSE "read")
             /\ UNCHANGED aim
          \/ /\ possible /\ items' \in {items, made} /\ Mishap /\ Fails
          \/ /\ possible /\ family = "key" /\ items' \in {items, coming} /\ Mishap
             /\ Then("await") /\ UNCHANGED <<entry, aim>>
          \/ ~possible /\ NoMishap /\ Fails /\ UNCHANGED items
    /\ Stays

\* The new item is looked for by its name until the time is up.  Failures
\* are not minded meanwhile.
AwaitItem ==
    /\ at = "await"
    /\ \/ /\ NoMishap
          /\ \E i \in Bearing(wish.label) :
                entry' = [entry EXCEPT !.id = i] /\ Then("read") /\ UNCHANGED aim
       \/ /\ IF items[Made] = Free THEN NoMishap ELSE Mishap
          /\ Bearing(wish.label) = {} /\ Fails
    /\ Stays /\ UNCHANGED items

-----------------------------------------------------------------------------
(* Update, and what a create has in common with it.                        *)

Differs ==
    \/ entry.label # wish.label \/ entry.value # wish.value
    \/ family = "sniffer" /\ entry.on # wish.on

\* The size of a key is not set but made anew.
Replaces == family = "key" /\ wish.there /\ entry.id # None /\ Differs

UpdateBuiltIn ==
    /\ doing = "nothing" /\ seen /\ wish.there /\ ~Replaces
    /\ entry.id # None /\ ~entry.tainted /\ Differs
    /\ entry' = PlannedEntry(IF family = "service" THEN wish.label ELSE entry.id)
    /\ doing' = "update"
    /\ at' = CASE family = "w60g" -> "find"
               [] family = "sniffer" -> "stop"
               [] family \in {"service", "system", "dns"} -> "set"
               [] OTHER -> "look-up"
    /\ NoMishap /\ Stays /\ UNCHANGED <<items, aim, seen>>

\* dynamicIdLookup
LookUpItem ==
    /\ at = "look-up"
    /\ \/ Mishap /\ Fails
       \/ NoMishap /\ Identified(entry.id) = {} /\ FailsWith([entry EXCEPT !.id = None])
       \/ /\ NoMishap
          /\ \E i \in Identified(entry.id) : aim' = i
          /\ Then("set") /\ UNCHANGED entry
    /\ Stays /\ UNCHANGED items

\* The default update ends here, and that of a built-in action.
ReadsAfterSet ==
    \/ family \in OneOfAKind \cup {"w60g", "ethernet", "service"}
    \/ family = "wireless" /\ doing = "create"

SetItemOf ==
    /\ at = "set"
    /\ \/ /\ Accepted /\ items' = AsSet /\ NoMishap
          /\ IF ReadsAfterSet THEN Then("read") /\ UNCHANGED <<entry, aim>>
             ELSE Succeeds(entry)
       \/ Accepted /\ items' \in {items, AsSet} /\ Mishap /\ Fails
       \/ ~Accepted /\ NoMishap /\ Fails /\ UNCHANGED items
    /\ Stays

\* What starting or stopping a sniffer reports is dropped.
SnifferIs(on) ==
    \/ items' = [items EXCEPT !["*1"].on = on] /\ NoMishap
    \/ UNCHANGED items /\ Mishap

StopSniffer ==
    /\ at = "stop" /\ SnifferIs(FALSE)
    /\ IF doing = "delete" THEN Succeeds(NoEntry)
       ELSE Then("set") /\ UNCHANGED <<entry, aim>>
    /\ Stays

SetSnifferState ==
    /\ at = "switch" /\ SnifferIs(wish.on)
    /\ Then("read-again") /\ Stays /\ UNCHANGED <<entry, aim>>

\* The read that ends a handler, and the one before a sniffer is switched.
ReadItem ==
    /\ at \in {"read", "read-again"}
    /\ \/ Mishap /\ Fails
       \/ /\ NoMishap /\ Identified(entry.id) = {}
          /\ IF family \in Creating THEN Fails ELSE Succeeds(NoEntry)
       \/ /\ NoMishap
          /\ \E i \in Identified(entry.id) :
                IF family = "sniffer" /\ at = "read"
                THEN entry' = ReadEntry(i) /\ Then("switch") /\ UNCHANGED aim
                ELSE Succeeds(ReadEntry(i))
    /\ Stays /\ UNCHANGED items

-----------------------------------------------------------------------------
(* Delete.                                                                 *)

\* Whether there is an item to remove, as the state has it.
Removable ==
    \/ family = "wireless" /\ entry.virtual
    \/ family = "logging" /\ entry.label = "c"
    \/ family = "key"

\* The entry is gone; a block that is replaced is created in the same run.
EntryGone == /\ entry' = NoEntry /\ doing' = "nothing" /\ at' = "none" /\ aim' = None
        /\ seen' = wish.there

\* SystemResourceDelete forgets what it cannot remove.
DeleteBuiltIn ==
    /\ doing = "nothing" /\ seen
    /\ entry.id # None /\ (entry.tainted \/ ~wish.there \/ Replaces)
    /\ IF Removable \/ family \in {"dns", "sniffer"}
       THEN /\ doing' = "delete"
            /\ at' = CASE family = "dns" -> "reset" [] family = "sniffer" -> "stop"
                       [] OTHER -> "look-up-to-remove"
            /\ UNCHANGED <<entry, aim, seen>>
       ELSE EntryGone
    /\ NoMishap /\ Stays /\ UNCHANGED items

ResetDns ==
    /\ at = "reset"
    /\ \/ items' = [items EXCEPT !["*1"].value = 0] /\ NoMishap /\ EntryGone
       \/ items' \in {items, [items EXCEPT !["*1"].value = 0]} /\ Mishap /\ Fails
    /\ Stays

LookUpToRemove ==
    /\ at = "look-up-to-remove"
    /\ \/ Mishap /\ Fails
       \/ NoMishap /\ Identified(entry.id) = {} /\ EntryGone
       \/ /\ NoMishap
          /\ \E i \in Identified(entry.id) : aim' = i
          /\ Then("remove") /\ UNCHANGED entry
    /\ Stays /\ UNCHANGED items

\* The router refuses to remove what is built in.
RemoveItem ==
    /\ at = "remove"
    /\ LET removed == [items EXCEPT ![aim] = Free]
           possible == items[aim].there /\ aim = Made
       IN \/ possible /\ items' = removed /\ NoMishap /\ EntryGone
          \/ possible /\ items' \in {items, removed} /\ Mishap /\ Fails
          \/ ~possible /\ NoMishap /\ Fails /\ UNCHANGED items
    /\ Stays

-----------------------------------------------------------------------------
(* Terraform and others.                                                   *)

\* Nothing is applied when the refresh failed.
RefreshBuiltIn ==
    /\ doing = "nothing" /\ ~seen
    /\ \/ entry = NoEntry /\ seen' = TRUE /\ NoMishap /\ UNCHANGED entry
       \/ /\ entry.id # None /\ Identified(entry.id) = {} /\ NoMishap
          /\ seen' = TRUE /\ entry' = NoEntry
       \/ /\ entry.id # None /\ NoMishap /\ seen' = TRUE
          /\ \E i \in Identified(entry.id) :
                entry' = [ReadEntry(i) EXCEPT !.on = items[i].on]
    /\ Stays /\ UNCHANGED <<items, doing, at, aim>>

UpToDate == IF wish.there THEN entry.id # None /\ ~entry.tainted /\ ~Differs
            ELSE entry = NoEntry

RunOver ==
    /\ doing = "nothing" /\ seen /\ UpToDate /\ seen' = FALSE
    /\ NoMishap /\ Stays /\ UNCHANGED <<items, entry, doing, at, aim>>

\* The name of a logging action is not edited: the router would refuse.
Edited ==
    /\ doing = "nothing" /\ ~seen /\ Mishap
    /\ \E w \in Wishes(family) \ {wish} :
          /\ family = "logging" => w.label = wish.label
          /\ wish' = w
    /\ UNCHANGED <<family, items, entry, doing, at, aim, seen>>

\* Others set, rename, start or stop an item, or remove the one that was made.
OthersChange ==
    /\ Mishap
    /\ \E i \in Slot :
          /\ items[i].there
          /\ \/ family # "key" /\ items' = [items EXCEPT ![i].value = 1 - @]
             \/ family = "sniffer" /\ items' = [items EXCEPT ![i].on = ~@]
             \/ /\ Renames
                /\ \E l \in Label : /\ Bearing(l) = {}
                                    /\ items' = [items EXCEPT ![i].label = l]
             \/ i = Made /\ items' = [items EXCEPT ![i] = Free]
    /\ Stays /\ UNCHANGED <<entry, doing, at, aim, seen>>

KeyIsReady ==
    /\ items[Made] # Free
    /\ ~items[Made].there
    /\ items' = [items EXCEPT ![Made].there = TRUE]
    /\ Stays /\ UNCHANGED <<entry, doing, at, aim, seen, mishaps>>

BuiltInInit ==
    /\ family \in Family
    /\ wish \in {w \in Wishes(family) : w.there}
    /\ items = [i \in Slot |-> CASE i = "*1" -> AnItem("a", 0, FALSE)
                                 [] i = "*2" -> AnItem("b", 0, FALSE)
                                 [] OTHER -> Free]
    /\ entry = NoEntry /\ doing = "nothing" /\ at = "none" /\ aim = None
    /\ seen = FALSE /\ mishaps = 0

BuiltInRequests ==
    \/ FindItem \/ CreateItemOf \/ AwaitItem \/ LookUpItem \/ SetItemOf
    \/ StopSniffer \/ SetSnifferState \/ ReadItem
    \/ ResetDns \/ LookUpToRemove \/ RemoveItem

BuiltInRuns ==
    \/ RefreshBuiltIn \/ RunOver
    \/ CreateBuiltIn \/ UpdateBuiltIn \/ DeleteBuiltIn

BuiltInNext ==
    BuiltInRequests \/ BuiltInRuns \/ Edited \/ OthersChange \/ KeyIsReady

\* A handler goes on, since its requests have deadlines; Terraform is run
\* again and again; a key is made in the end.
BuiltInSpec ==
    /\ BuiltInInit /\ [][BuiltInNext]_builtInVars
    /\ WF_builtInVars(BuiltInRequests) /\ WF_builtInVars(BuiltInRuns)
    /\ WF_builtInVars(KeyIsReady)

-----------------------------------------------------------------------------
(* Properties.                                                             *)

BuiltInTypeOK ==
    /\ family \in Family /\ wish \in Wishes(family)
    /\ \A i \in BuiltIn : items[i].there
    /\ items[Made] \in {Free}
                       \cup [there : {FALSE}, label : {"c"}, value : {0, 1}, on : {FALSE}]
                       \cup [there : {TRUE}, label : Label, value : {0, 1}, on : {FALSE}]
    /\ entry.id \in Slot \cup Label \cup {None}
    /\ doing = "nothing" /\ ~entry.tainted =>
           entry.id \in {None} \cup (IF family = "service" THEN Label ELSE Slot)
    /\ doing \in {"nothing", "create", "update", "delete"}
    /\ (doing = "nothing") = (at = "none")
    /\ mishaps \in 0 .. MaxMishaps

\* The item is as configured and the state says so.
InOrder ==
    IF wish.there
    THEN /\ entry.id # None /\ ~entry.tainted /\ ~Differs
         /\ \E i \in Identified(entry.id) :
               /\ items[i].value = wish.value
               /\ items[i].label = wish.label
               /\ family = "sniffer" => items[i].on = wish.on
    ELSE entry = NoEntry

\* What takes a person: no item has the name; the block of an Ethernet port
\* was given the factory name of another, which an update does not look for;
\* an item has the name whose creation was not answered; or another one does.
TakesAPerson ==
    /\ wish.there
    /\ \/ family = "w60g" /\ Bearing(wish.label) = {}
       \/ family = "ethernet" /\ entry.id \notin {None} \cup Bearing(wish.label)
       \/ family \in Creating /\ Made \in Bearing(wish.label) \ {entry.id}
       \/ family = "wireless" /\ entry.id # None /\ Bearing(wish.label) \ {entry.id} # {}

\* Whatever failed, was dropped or changed by others, further runs of
\* Terraform set the item that is configured, with the id under which it is
\* found again, and forget or remove it when the block is removed.
BuiltInsComeTrue == <>[](InOrder \/ TakesAPerson)

=============================================================================
