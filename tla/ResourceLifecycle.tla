------------------------- MODULE ResourceLifecycle -------------------------
(***************************************************************************)
(* The operations every declarative resource is built from: ResourceCreate,*)
(* ResourceRead, ResourceUpdate, ResourceDelete and                        *)
(* ImportStateCustomContext, with the CRUD helpers below them, for the     *)
(* blocks of one configuration and one menu of the router.                 *)
(*                                                                         *)
(* One request to the router, with the local code up to the next request,  *)
(* is one action: a handler keeps nothing but its own ResourceData in      *)
(* between, while other blocks and other people change the router.  A      *)
(* request fails before or after the router has executed it.  Over REST    *)
(* the body of a 200 answer can also be cut off before its first byte:     *)
(* SendRequest ignores the error of io.ReadAll and sees an empty answer.   *)
(*                                                                         *)
(* What Terraform does around the handlers (it refreshes, plans, applies,  *)
(* stores the state, taints what failed after its creation) is external.   *)
(***************************************************************************)
EXTENDS Naturals, FiniteSets

CONSTANTS Block,         \* resource blocks, by address
          Name, Value,   \* an object is a name and all its other settings
          NoItem, NoId,  \* no object, no block; d.Id() = ""
          Transport,     \* "API" or "REST"
          IdType,        \* "Id" or "Name", the MetaId of the schema
          UniqueNames,   \* the router refuses a name that is taken
          Importing,     \* blocks the user imports instead of creating
          MaxObjects,    \* bound: objects ever created
          MaxFaults,     \* bound: requests that fail
          MaxOutside,    \* bound: changes made outside Terraform
          MaxEdits       \* bound: edits of the configuration

ASSUME LifecycleAssumption ==
    /\ Transport \in {"API", "REST"}
    /\ IdType \in {"Id", "Name"}
    /\ UniqueNames \in BOOLEAN
    /\ Importing \subseteq Block
    /\ MaxObjects \in Nat /\ MaxFaults \in Nat
    /\ MaxOutside \in Nat /\ MaxEdits \in Nat
    /\ NoItem \notin [name : Name, value : Value]
    /\ NoId \notin Name \cup Nat

VARIABLES
    router,      \* the objects, by their internal id, which is never reused
    born,        \* how many there have been
    want,        \* the configuration
    record,      \* the Terraform state of each block
    pc,          \* what is being done for each block
    target,      \* the internal id a handler has looked up or been given
    result,      \* the diagnostics of a block's operation
    custody,     \* history: the object a block's record was last made from
    left,        \* history: objects a block gave up that were still there
    cut,         \* history: objects of which an answer has been cut off
    made,        \* history: the object created for the block in this run
    calm,        \* history: nobody else has changed the router in this run
    settled,     \* history: the last run succeeded, nothing changed since
    faults, outsides, edits

routerVars == <<router, born>>
stateVars == <<record, custody, left>>
historyVars == <<calm, settled>>
faultVars == <<faults, cut>>
boundVars == <<faultVars, outsides, edits>>
vars == <<routerVars, want, stateVars, pc, target, result, made, historyVars,
          boundVars>>

Object == 1..MaxObjects
Nobody == 0
Item == [name : Name, value : Value]
Id == Object \cup Name

NoRecord == [id |-> NoId, item |-> NoItem, tainted |-> FALSE]
Record == [id : Id, item : Item \cup {NoItem}, tainted : BOOLEAN]
              \cup {NoRecord}

PC == {"refresh", "importFind", "importRead", "plan", "aborted", "create",
       "lookup", "reread", "findUpdate", "update", "findDelete", "delete",
       "done"}

-----------------------------------------------------------------------------
(* Requests.                                                               *)

Alive == {o \in Object : router[o] # NoItem}

Taken(name, o) ==
    UniqueNames /\ \E p \in Alive \ {o} : router[p].name = name

\* GetID: the id of an item that was read, or the one the request carried.
GetID(type, o, item) == IF type = "Id" THEN o ELSE item.name

Matching(type, id) == {o \in Alive : GetID(type, o, router[o]) = id}

Fault == faults < MaxFaults /\ faults' = faults + 1 /\ UNCHANGED cut

\* The answer to a read, which spoke of the objects "seen", is cut off.
CutOff(seen) ==
    /\ Transport = "REST"
    /\ faults < MaxFaults /\ faults' = faults + 1
    /\ cut' = cut \cup seen

\* A read that answers, in three ways: an error, nothing, or some item; the
\* callers that expect one item take the first.
ReadFails == Fault
ReadFindsNothing(type, id) ==
    \/ Matching(type, id) = {} /\ UNCHANGED faultVars
    \/ CutOff(Matching(type, id))
ReadFinds(type, id, o) == o \in Matching(type, id) /\ UNCHANGED faultVars

\* A look-up by name that finds several items.
Ambiguous(name) ==
    Cardinality(Matching("Name", name)) > 1 /\ UNCHANGED faultVars

-----------------------------------------------------------------------------
(* The Terraform state and the end of an operation.                        *)

Goto(b, where) == pc' = [pc EXCEPT ![b] = where]

Proceed(b, where, o) ==
    /\ Goto(b, where)
    /\ target' = [target EXCEPT ![b] = o]
    /\ UNCHANGED result

Finish(b, outcome) ==
    /\ Goto(b, "done")
    /\ target' = [target EXCEPT ![b] = Nobody]
    /\ result' = [result EXCEPT ![b] = outcome]

\* The object of a block's record is from now on "o".
Keep(b, o) ==
    /\ custody' = [custody EXCEPT ![b] = o]
    /\ left' = left \cup (({custody[b]} \cap Alive') \ {o})

\* d.SetId(id), with the attributes the resource data then holds.
SetId(b, id, item, o) ==
    /\ record' = [record EXCEPT ![b] =
                     [id |-> id, item |-> item, tainted |-> FALSE]]
    /\ Keep(b, o)

\* The id stays.
SetItem(b, item) ==
    /\ record' = [record EXCEPT ![b].item = item]
    /\ UNCHANGED <<custody, left>>

Taint(b) ==
    /\ record' = [record EXCEPT ![b].tainted = TRUE]
    /\ UNCHANGED <<custody, left>>

\* A slip: the id goes, the attributes stay.
ForgetIdOnly(b) ==
    /\ record' = [record EXCEPT ![b].id = NoId]
    /\ Keep(b, Nobody)

\* d.SetId("")
Forget(b) ==
    /\ record' = [record EXCEPT ![b] = NoRecord]
    /\ Keep(b, Nobody)

Put(o, item) == router' = [router EXCEPT ![o] = item]

NothingMade == UNCHANGED <<router, born, made>>
Aside == UNCHANGED <<want, historyVars, outsides, edits>>

-----------------------------------------------------------------------------
(* ResourceRead, for the refresh and for the second half of an import.     *)

ReadOrAbort(b, where) ==
    /\ pc' = [pc EXCEPT ![b] = where]
    /\ NothingMade /\ Aside /\ UNCHANGED <<target, result>>

\* A slip: a router that does not answer has lost the object.
RefreshErrorForgets(b) ==
    /\ pc[b] = "refresh"
    /\ ReadOrAbort(b, "plan")
    /\ ReadFails
    /\ Forget(b)

RefreshFails(b) ==
    /\ pc[b] = "refresh"
    /\ ReadFails
    /\ UNCHANGED stateVars
    /\ ReadOrAbort(b, "aborted")

RefreshFindsNothing(b) ==
    /\ pc[b] = "refresh"
    /\ ReadOrAbort(b, "plan")
    /\ ReadFindsNothing(IdType, record[b].id)
    /\ Forget(b)

\* A slip: what was stored by the last apply is kept.
RefreshKeepsStored(b) ==
    /\ pc[b] = "refresh"
    /\ \E o \in Alive : ReadFinds(IdType, record[b].id, o)
    /\ UNCHANGED stateVars
    /\ ReadOrAbort(b, "plan")

\* The taint of the record is Terraform's, a refresh keeps it.
RefreshFinds(b) ==
    /\ pc[b] = "refresh"
    /\ ReadOrAbort(b, "plan")
    /\ \E o \in Alive :
          /\ ReadFinds(IdType, record[b].id, o)
          /\ record' = [record EXCEPT ![b].id = GetID(IdType, o, router[o]),
                                      ![b].item = router[o]]
          /\ Keep(b, o)

\* ImportStateCustomContext: an id that starts with an asterisk is taken as
\* it is; anything else is a field and the value to look for.  Terraform
\* then reads the resource under that id, and imports nothing that is gone.
ImportFails(b) ==
    /\ pc[b] = "importFind"
    /\ \/ ReadFails
       \/ ReadFindsNothing("Name", want[b].name)
       \/ Ambiguous(want[b].name)
    /\ UNCHANGED stateVars
    /\ ReadOrAbort(b, "aborted")

Identify(b, id, o) ==
    /\ record' = [record EXCEPT ![b].id = id]
    /\ Keep(b, o)

ImportGiven(b) ==
    /\ pc[b] = "importFind"
    /\ ReadOrAbort(b, "importRead")
    /\ \E o \in 1..born : Identify(b, o, o) /\ UNCHANGED faultVars

\* A slip: the value that was looked for becomes the id.
ImportFindsByValue(b) ==
    /\ pc[b] = "importFind"
    /\ ReadOrAbort(b, "importRead")
    /\ \E o \in Alive :
          /\ Matching("Name", want[b].name) = {o} /\ UNCHANGED faultVars
          /\ Identify(b, want[b].name, o)

ImportFinds(b) ==
    /\ pc[b] = "importFind"
    /\ ReadOrAbort(b, "importRead")
    /\ \E o \in Alive :
          /\ Matching("Name", want[b].name) = {o} /\ UNCHANGED faultVars
          /\ Identify(b, o, o)

ImportReadFails(b) ==
    /\ pc[b] = "importRead"
    /\ ReadOrAbort(b, "aborted")
    /\ ReadFails \/ ReadFindsNothing(IdType, record[b].id)
    /\ Forget(b)

ImportReadFinds(b) ==
    /\ pc[b] = "importRead"
    /\ ReadOrAbort(b, "plan")
    /\ \E o \in Alive :
          /\ ReadFinds(IdType, record[b].id, o)
          /\ SetId(b, GetID(IdType, o, router[o]), router[o], o)

-----------------------------------------------------------------------------
(* ResourceCreate.                                                         *)

Born(b) ==
    /\ born < MaxObjects
    /\ ~Taken(want[b].name, Nobody)
    /\ born' = born + 1
    /\ Put(born + 1, want[b])
    /\ made' = [made EXCEPT ![b] = born + 1]

\* A slip: the name is stored where the schema says the internal id.
CreatedByName(b, o, item) ==
    /\ SetId(b, want[b].name, item, o)
    /\ IF Transport = "API" THEN Proceed(b, "reread", o) ELSE Finish(b, "ok")

\* A slip: over the API no id is set before the item has been read again.
CreatedLate(b, o, item) ==
    IF Transport = "API" THEN UNCHANGED stateVars /\ Proceed(b, "reread", o)
    ELSE SetId(b, GetID(IdType, o, want[b]), item, o) /\ Finish(b, "ok")

\* The id is set; over the API the item is then read again.
Created(b, o, item) ==
    /\ SetId(b, GetID(IdType, o, want[b]), item, o)
    /\ IF Transport = "API" THEN Proceed(b, "reread", o) ELSE Finish(b, "ok")

CreateFails(b) ==
    /\ pc[b] = "create"
    /\ \/ Fault /\ NothingMade
       \/ Fault /\ Born(b)
       \/ Taken(want[b].name, Nobody) /\ NothingMade /\ UNCHANGED faultVars
    /\ Finish(b, "error")
    /\ UNCHANGED stateVars /\ Aside

CreateAnswered(b) ==
    /\ pc[b] = "create"
    /\ Born(b) /\ Created(b, born', want[b])
    /\ UNCHANGED faultVars /\ Aside

\* No id in the answer: the new item is looked for by its name.
CreateAnswerEmpty(b) ==
    /\ pc[b] = "create"
    /\ Transport = "REST" /\ Fault
    /\ Born(b) /\ Proceed(b, "lookup", Nobody)
    /\ UNCHANGED stateVars /\ Aside

\* A slip: the first item found is taken, however many there are.
LookupFindsFirst(b) ==
    /\ pc[b] = "lookup"
    /\ NothingMade /\ UNCHANGED faultVars /\ Aside
    /\ \E o \in Matching("Name", want[b].name) : Created(b, o, router[o])

LookupFinds(b) ==
    /\ pc[b] = "lookup"
    /\ NothingMade /\ UNCHANGED faultVars /\ Aside
    /\ \E o \in Alive : /\ Matching("Name", want[b].name) = {o}
                        /\ Created(b, o, router[o])

LookupFails(b) ==
    /\ pc[b] = "lookup"
    /\ \/ ReadFails
       \/ ReadFindsNothing("Name", want[b].name)
       \/ Ambiguous(want[b].name)
    /\ Finish(b, "error")
    /\ UNCHANGED stateVars /\ NothingMade /\ Aside

RereadFinds(b) ==
    /\ pc[b] = "reread"
    /\ ReadFinds("Id", target[b], target[b])
    /\ SetItem(b, router[target[b]])
    /\ Finish(b, "ok")
    /\ NothingMade /\ Aside

\* A creation that fails with an id set: Terraform keeps it, tainted.
RereadFails(b) ==
    /\ pc[b] = "reread"
    /\ ReadFails \/ ReadFindsNothing("Id", target[b])
    /\ Taint(b)
    /\ Finish(b, "error")
    /\ NothingMade /\ Aside

-----------------------------------------------------------------------------
(* ResourceUpdate and ResourceDelete look the internal id up first.        *)

\* A slip: the object is looked for by the name it had.
FindsByName(b, then) ==
    /\ \E o \in Alive : /\ ReadFinds("Name", record[b].item.name, o)
                        /\ Proceed(b, then, o)
    /\ UNCHANGED stateVars

\* dynamicIdLookup
Finds(b, then) ==
    /\ \E o \in Alive : /\ ReadFinds(IdType, record[b].id, o)
                        /\ Proceed(b, then, o)
    /\ UNCHANGED stateVars

NoLongerExists(b) == ReadFindsNothing(IdType, record[b].id) /\ Forget(b)

FindUpdate(b) ==
    /\ pc[b] = "findUpdate"
    /\ NothingMade /\ Aside
    /\ \/ Finds(b, "update")
       \/ NoLongerExists(b) /\ Finish(b, "error")
       \/ ReadFails /\ SetItem(b, want[b]) /\ Finish(b, "error")

Executed(b, item) ==
    /\ router[target[b]] # NoItem
    /\ Put(target[b], item)

\* A slip: what the router refused is stored as done.
UpdateFailsSilently(b) ==
    /\ pc[b] = "update"
    /\ \/ Fault /\ UNCHANGED router
       \/ Fault /\ ~Taken(want[b].name, target[b]) /\ Executed(b, want[b])
       \/ /\ router[target[b]] = NoItem \/ Taken(want[b].name, target[b])
          /\ UNCHANGED <<router, faultVars>>
    /\ SetItem(b, want[b])
    /\ Finish(b, "ok")
    /\ UNCHANGED <<born, made>> /\ Aside

\* After an error too Terraform stores the attributes it has asked for.
UpdateFails(b) ==
    /\ pc[b] = "update"
    /\ \/ Fault /\ UNCHANGED router
       \/ Fault /\ ~Taken(want[b].name, target[b]) /\ Executed(b, want[b])
       \/ /\ router[target[b]] = NoItem \/ Taken(want[b].name, target[b])
          /\ UNCHANGED <<router, faultVars>>
    /\ SetItem(b, want[b])
    /\ Finish(b, "error")
    /\ UNCHANGED <<born, made>> /\ Aside

\* The id is not set again, not even that of a renamed "Name" resource.
Updated(b) ==
    /\ pc[b] = "update"
    /\ ~Taken(want[b].name, target[b]) /\ Executed(b, want[b])
    /\ SetItem(b, want[b])
    /\ Finish(b, "ok")
    /\ UNCHANGED <<born, made, faultVars>> /\ Aside

\* A block that is replaced goes on to its creation.
AfterDelete(b) ==
    IF want[b] = NoItem THEN Finish(b, "ok") ELSE Proceed(b, "create", Nobody)

FindDelete(b) ==
    /\ pc[b] = "findDelete"
    /\ NothingMade /\ Aside
    /\ \/ Finds(b, "delete")
       \/ NoLongerExists(b) /\ AfterDelete(b)
       \/ ReadFails /\ UNCHANGED stateVars /\ Finish(b, "error")

DeleteFails(b) ==
    /\ pc[b] = "delete"
    /\ \/ Fault /\ UNCHANGED router
       \/ Fault /\ Executed(b, NoItem)
       \/ router[target[b]] = NoItem /\ UNCHANGED <<router, faultVars>>
    /\ Finish(b, "error")
    /\ UNCHANGED <<born, made>> /\ UNCHANGED stateVars /\ Aside

Deleted(b) ==
    /\ pc[b] = "delete"
    /\ Executed(b, NoItem)
    /\ Forget(b) /\ AfterDelete(b)
    /\ UNCHANGED <<born, made, faultVars>> /\ Aside

-----------------------------------------------------------------------------
(* Terraform, and everybody else.                                          *)

\* What the plan of a block is.
Operation(b) ==
    CASE record[b] = NoRecord -> IF want[b] = NoItem THEN "done" ELSE "create"
      [] OTHER -> IF want[b] = NoItem \/ record[b].tainted THEN "findDelete"
                  ELSE IF record[b].item = want[b] THEN "done"
                  ELSE "findUpdate"

\* Nothing is applied before everything is read, nor if that failed.
Planned == \A b \in Block :
               pc[b] \notin {"refresh", "importFind", "importRead", "aborted"}

Apply(b) ==
    /\ pc[b] = "plan" /\ Planned
    /\ Goto(b, Operation(b))
    /\ UNCHANGED <<target, result, faultVars>> /\ UNCHANGED stateVars
    /\ NothingMade /\ Aside

AllDone == \A b \in Block : pc[b] = "done"
RunOver ==
    \/ AllDone
    \/ /\ \E b \in Block : pc[b] = "aborted"
       /\ \A b \in Block : pc[b] \in {"plan", "aborted"}

Succeeded == AllDone /\ \A b \in Block : result[b] = "ok"

Configuration == {w \in [Block -> Item \cup {NoItem}] :
    \A b, c \in Block : b # c /\ w[b] # NoItem /\ w[c] # NoItem
                            => w[b].name # w[c].name}

FirstStep(b, w) ==
    IF record[b] # NoRecord THEN "refresh"
    ELSE IF b \in Importing /\ w[b] # NoItem THEN "importFind" ELSE "plan"

NextRun ==
    /\ RunOver
    /\ \E w \in Configuration :
          /\ \/ w = want /\ UNCHANGED edits
             \/ w # want /\ edits < MaxEdits /\ edits' = edits + 1
          /\ want' = w
          /\ pc' = [b \in Block |-> FirstStep(b, w)]
          /\ settled' = (w = want /\ Succeeded /\ calm)
    /\ result' = [b \in Block |-> "ok"]
    /\ made' = [b \in Block |-> Nobody]
    /\ calm' = TRUE
    /\ UNCHANGED <<routerVars, stateVars, target, faultVars, outsides>>

\* Somebody adds, changes or removes an object by other means.
Outside ==
    /\ outsides < MaxOutside /\ outsides' = outsides + 1
    /\ \E item \in Item \cup {NoItem}, o \in Object :
          /\ o \in Alive \/ (o = born + 1 /\ item # NoItem)
          /\ item # NoItem => ~Taken(item.name, o)
          /\ Put(o, item)
          /\ born' = IF o > born THEN o ELSE born
    /\ calm' = FALSE /\ settled' = FALSE
    /\ UNCHANGED <<want, stateVars, pc, target, result, made, faultVars>>
    /\ UNCHANGED edits

Init ==
    /\ router = [o \in Object |-> NoItem]
    /\ born = 0
    /\ want \in Configuration
    /\ record = [b \in Block |-> NoRecord]
    /\ pc = [b \in Block |-> FirstStep(b, want)]
    /\ target = [b \in Block |-> Nobody]
    /\ result = [b \in Block |-> "ok"]
    /\ custody = [b \in Block |-> Nobody]
    /\ made = [b \in Block |-> Nobody]
    /\ left = {} /\ cut = {}
    /\ calm = TRUE /\ settled = FALSE
    /\ faults = 0 /\ outsides = 0 /\ edits = 0

Handle(b) ==
    \/ RefreshFails(b) \/ RefreshFindsNothing(b) \/ RefreshFinds(b)
    \/ ImportFails(b) \/ ImportGiven(b) \/ ImportFinds(b)
    \/ ImportReadFails(b) \/ ImportReadFinds(b)
    \/ CreateFails(b) \/ CreateAnswered(b) \/ CreateAnswerEmpty(b)
    \/ LookupFinds(b) \/ LookupFails(b) \/ RereadFinds(b) \/ RereadFails(b)
    \/ FindUpdate(b) \/ UpdateFails(b) \/ Updated(b)
    \/ FindDelete(b) \/ DeleteFails(b) \/ Deleted(b)
    \/ Apply(b)

Next == (\E b \in Block : Handle(b)) \/ NextRun \/ Outside

Spec == Init /\ [][Next]_vars

\* Every operation goes on, and Terraform is run again and again.
FairSpec ==
    /\ Spec
    /\ \A b \in Block : WF_vars(Handle(b))
    /\ WF_vars(NextRun)

-----------------------------------------------------------------------------
(* Properties.                                                             *)

TypeOK ==
    /\ router \in [Object -> Item \cup {NoItem}]
    /\ born \in 0..MaxObjects
    /\ want \in Configuration
    /\ record \in [Block -> Record]
    /\ pc \in [Block -> PC]
    /\ target \in [Block -> Object \cup {Nobody}]
    /\ result \in [Block -> {"ok", "error"}]
    /\ custody \in [Block -> Object \cup {Nobody}]
    /\ made \in [Block -> Object \cup {Nobody}]
    /\ left \in SUBSET Object /\ cut \in SUBSET Object
    /\ calm \in BOOLEAN /\ settled \in BOOLEAN
    /\ faults \in 0..MaxFaults
    /\ outsides \in 0..MaxOutside
    /\ edits \in 0..MaxEdits

\* An object a creation left on the router is in the Terraform state, or the
\* user was told that the creation failed: ResourceCreate returns no success
\* without an id, and no id but that of its own object.  Where it reads the
\* new object again it has set the id before: if that read fails, the object
\* is in the state all the same.
CreatedIsRecorded ==
    \A b \in Block :
        /\ pc[b] = "done" /\ made[b] # Nobody
               => result[b] = "error" \/ custody[b] = made[b]
        /\ pc[b] = "reread" => custody[b] = made[b] /\ record[b] # NoRecord

\* An object that has been in the Terraform state and no longer is is not on
\* the router either, unless the answer to a read of it was cut off.
NothingLeft == left \cap Alive \subseteq cut

\* An apply that reports success, and was alone, has made the router what the
\* configuration says: every block's object is there with its settings, the
\* state of a block that is gone from the configuration is empty, and of the
\* objects that have been in the state no other is on the router.  Two kinds
\* of objects are outside this: those of creations that were reported as
\* failed, which never were in the state, and over REST those of which an
\* answer was cut off, which a delete or a refresh takes for gone.
SuccessIsTrue ==
    Succeeded /\ calm =>
        /\ NothingLeft
        /\ \A b \in Block :
              IF want[b] = NoItem THEN custody[b] = Nobody
              ELSE custody[b] # Nobody /\ router[custody[b]] = want[b]

\* Apply twice and the second plan is empty: what was stored after a run that
\* succeeded is what the next refresh finds, unless somebody changed it.
SecondPlanIsEmpty ==
    settled => \A b \in Block : pc[b] = "plan" => Operation(b) = "done"

\* Only the objects a block has custody of are changed or deleted for it,
\* whatever happened on the router between the lookup and the change.
OnlyOwnObjects ==
    [][\A o \in Object : (outsides' = outsides /\ router[o] # router'[o])
           => \/ o > born
              \/ \E b \in Block : custody[b] = o /\ pc[b] \in {"update", "delete"}]_vars

\* A block forgets its object only when the router no longer has it: "resource
\* not found" means that it is gone.
ForgottenOnlyWhenGone ==
    [][\A b \in Block : custody[b] # Nobody /\ custody'[b] = Nobody
           => router'[custody[b]] = NoItem]_vars

\* The custody of objects is what the abstract specification says.
ImplementsCustody == INSTANCE Custody WITH alive <- Alive
CustodySpec == ImplementsCustody!Spec

\* An import that finds its object, alone and without a failing request, ends
\* with the object in the Terraform state.
ImportSucceeds ==
    [][\A b \in Block : pc[b] = "importRead" /\ pc'[b] = "aborted"
           => faults' > faults \/ router[custody[b]] = NoItem]_vars

\* When people and failures let it be, Terraform run again and again ends with
\* every block's object on the router as configured, with an empty state for
\* the blocks that are gone and none of their objects left, but for those of
\* which an answer was cut off, and stays there.
Converges ==
    <>[](/\ NothingLeft
         /\ \A b \in Block :
               IF want[b] = NoItem THEN record[b] = NoRecord
               ELSE custody[b] # Nobody /\ router[custody[b]] = want[b])

=============================================================================
