---------------------- MODULE ResourceLifecycleProofs ----------------------
(***************************************************************************)
(* What TLAPS proves of the resource lifecycle, for any blocks, names and  *)
(* values and any number of failures, edits and changes by others.         *)
(***************************************************************************)
EXTENDS ResourceLifecycle, TLAPS

\* TypeOK, by the parts of a handler that write the variables.
RouterType ==
    /\ router \in [Object -> Item \cup {NoItem}]
    /\ born \in 0..MaxObjects
    /\ made \in [Block -> Object \cup {Nobody}]
RecordType ==
    /\ record \in [Block -> Record]
    /\ custody \in [Block -> Object \cup {Nobody}]
    /\ left \in SUBSET Object
FlowType ==
    /\ pc \in [Block -> PC]
    /\ target \in [Block -> Object \cup {Nobody}]
    /\ result \in [Block -> {"ok", "error"}]
AsideType ==
    /\ want \in Configuration
    /\ calm \in BOOLEAN /\ settled \in BOOLEAN
    /\ outsides \in 0..MaxOutside
    /\ edits \in 0..MaxEdits
FaultType == faults \in 0..MaxFaults /\ cut \in SUBSET Object

\* Where an operation works on a record, and where on a configured item.
RecordPC == {"refresh", "importRead", "reread", "findUpdate", "update",
             "findDelete", "delete"}
ItemPC == {"importFind", "create", "lookup", "findUpdate", "update"}

Consistent(b) ==
    /\ pc[b] \in RecordPC => record[b] # NoRecord
    /\ pc[b] \in ItemPC => want[b] # NoItem

TypeInv == TypeOK /\ \A b \in Block : Consistent(b)

LEMMA TypeParts ==
    TypeOK <=> RouterType /\ RecordType /\ FlowType /\ AsideType /\ FaultType
BY DEF TypeOK, RouterType, RecordType, FlowType, AsideType, FaultType

-----------------------------------------------------------------------------
(* What the parts of a handler do.                                         *)

\* Every other block is where it was.
Elsewhere(b) == \A c \in Block \ {b} : pc'[c] = pc[c]
RecordsElsewhere(b) == \A c \in Block \ {b} : record'[c] = record[c]

LEMMA GotoTyped ==
    ASSUME FlowType, NEW b \in Block, NEW where \in PC, Goto(b, where)
    PROVE  pc' \in [Block -> PC] /\ pc'[b] = where /\ Elsewhere(b)
BY DEF FlowType, Goto, Elsewhere

LEMMA FinishTyped ==
    ASSUME FlowType, NEW b \in Block, NEW outcome \in {"ok", "error"},
           Finish(b, outcome)
    PROVE  FlowType' /\ pc'[b] = "done" /\ Elsewhere(b)
<1>1. pc' \in [Block -> PC] /\ pc'[b] = "done" /\ Elsewhere(b)
  BY GotoTyped DEF Finish, PC
<1> QED BY <1>1 DEF FlowType, Finish

LEMMA ProceedTyped ==
    ASSUME FlowType, NEW b \in Block, NEW where \in PC,
           NEW o \in Object \cup {Nobody}, Proceed(b, where, o)
    PROVE  FlowType' /\ pc'[b] = where /\ Elsewhere(b)
<1>1. pc' \in [Block -> PC] /\ pc'[b] = where /\ Elsewhere(b)
  BY GotoTyped DEF Proceed
<1> QED BY <1>1 DEF FlowType, Proceed

\* A record of an item is not NoRecord: its id is an id.
LEMMA IdIsAnId == ASSUME NEW id \in Id PROVE id # NoId
BY LifecycleAssumption DEF Id, Object

LEMMA KeepTyped ==
    ASSUME RecordType, NEW b \in Block, NEW o \in Object \cup {Nobody}, Keep(b, o)
    PROVE  /\ custody' \in [Block -> Object \cup {Nobody}]
           /\ left' \in SUBSET Object
<1>1. custody' \in [Block -> Object \cup {Nobody}]
  BY DEF Keep, RecordType
<1>2. left \in SUBSET Object
  BY DEF RecordType
<1>3. Alive' \subseteq Object /\ left' \subseteq left \cup Alive'
  BY DEF Keep, Alive, Object
<1> QED BY <1>1, <1>2, <1>3

LEMMA SetIdTyped ==
    ASSUME RecordType, NEW b \in Block, NEW id \in Id,
           NEW item \in Item \cup {NoItem}, NEW o \in Object,
           SetId(b, id, item, o)
    PROVE  RecordType' /\ record'[b] # NoRecord /\ RecordsElsewhere(b)
<1>1. [id |-> id, item |-> item, tainted |-> FALSE] \in Record
  BY DEF Record
<1>2. record'[b] = [id |-> id, item |-> item, tainted |-> FALSE]
  BY DEF SetId, RecordType
<1>3. record'[b].id # NoRecord.id
  BY <1>2, IdIsAnId DEF NoRecord
<1>4. /\ custody' \in [Block -> Object \cup {Nobody}]
      /\ left' \in SUBSET Object
  BY KeepTyped DEF SetId
<1> QED BY <1>1, <1>3, <1>4 DEF SetId, RecordType, RecordsElsewhere

LEMMA ForgetTyped ==
    ASSUME RecordType, NEW b \in Block, Forget(b)
    PROVE  RecordType' /\ RecordsElsewhere(b)
<1>1. /\ custody' \in [Block -> Object \cup {Nobody}]
      /\ left' \in SUBSET Object
  BY KeepTyped DEF Forget
<1> QED BY <1>1 DEF Forget, RecordType, RecordsElsewhere, Record

\* A record keeps its shape when one field of it is set.
LEMMA RecordFields ==
    ASSUME NEW r \in Record, NEW item \in Item \cup {NoItem}, NEW id \in Id,
           NEW t \in BOOLEAN
    PROVE  /\ [r EXCEPT !.id = id] \in Record
           /\ [r EXCEPT !.id = id] # NoRecord
           /\ [r EXCEPT !.id = id, !.item = item] \in Record
           /\ [r EXCEPT !.id = id, !.item = item] # NoRecord
           /\ r # NoRecord => /\ [r EXCEPT !.item = item] \in Record
                              /\ [r EXCEPT !.tainted = t] \in Record
<1>1. r \in [id : Id \cup {NoId}, item : Item \cup {NoItem}, tainted : BOOLEAN]
  <2>1. CASE r = NoRecord
    BY <2>1 DEF NoRecord
  <2>2. CASE r # NoRecord
    BY <2>2 DEF Record
  <2> QED BY <2>1, <2>2
<1>2. /\ [r EXCEPT !.id = id] \in [id : Id, item : Item \cup {NoItem}, tainted : BOOLEAN]
      /\ [r EXCEPT !.id = id, !.item = item]
            \in [id : Id, item : Item \cup {NoItem}, tainted : BOOLEAN]
  BY <1>1
<1>3. /\ [r EXCEPT !.id = id].id = id
      /\ [r EXCEPT !.id = id, !.item = item].id = id
  BY <1>1
<1>4. /\ [r EXCEPT !.id = id].id # NoRecord.id
      /\ [r EXCEPT !.id = id, !.item = item].id # NoRecord.id
  BY <1>3, IdIsAnId DEF NoRecord
<1>5. ASSUME r # NoRecord
      PROVE  /\ [r EXCEPT !.item = item] \in Record
             /\ [r EXCEPT !.tainted = t] \in Record
  BY <1>5 DEF Record
<1> QED BY <1>2, <1>4, <1>5 DEF Record

LEMMA SetItemTyped ==
    ASSUME RecordType, NEW b \in Block, NEW item \in Item \cup {NoItem},
           record[b] # NoRecord, SetItem(b, item)
    PROVE  RecordType' /\ RecordsElsewhere(b)
<1>1. record[b] \in Record /\ [record[b] EXCEPT !.item = item] \in Record
  <2>1. PICK id \in Id : TRUE
    BY DEF RecordType, Record
  <2> QED BY <2>1, RecordFields DEF RecordType
<1> QED BY <1>1 DEF SetItem, RecordType, RecordsElsewhere

LEMMA TaintTyped ==
    ASSUME RecordType, NEW b \in Block, record[b] # NoRecord, Taint(b)
    PROVE  RecordType' /\ RecordsElsewhere(b)
<1>1. record[b] \in Record /\ [record[b] EXCEPT !.tainted = TRUE] \in Record
  <2>1. PICK id \in Id : TRUE
    BY DEF RecordType, Record
  <2>2. PICK item \in Item \cup {NoItem} : TRUE
    OBVIOUS
  <2> QED BY <2>1, <2>2, RecordFields DEF RecordType
<1> QED BY <1>1 DEF Taint, RecordType, RecordsElsewhere

LEMMA IdentifyTyped ==
    ASSUME RecordType, NEW b \in Block, NEW o \in Object, Identify(b, o, o)
    PROVE  RecordType' /\ record'[b] # NoRecord /\ RecordsElsewhere(b)
<1>1. record[b] \in Record /\ o \in Id
  BY DEF RecordType, Id
<1>2. PICK item \in Item \cup {NoItem} : TRUE
  OBVIOUS
<1>3. [record[b] EXCEPT !.id = o] \in Record \ {NoRecord}
  BY <1>1, <1>2, RecordFields
<1>4. /\ custody' \in [Block -> Object \cup {Nobody}]
      /\ left' \in SUBSET Object
  BY KeepTyped DEF Identify
<1> QED BY <1>3, <1>4 DEF Identify, RecordType, RecordsElsewhere

LEMMA UnchangedRecord ==
    ASSUME RecordType, NEW b \in Block, UNCHANGED stateVars
    PROVE  RecordType' /\ record' = record /\ RecordsElsewhere(b)
BY DEF RecordType, stateVars, RecordsElsewhere

LEMMA UnchangedRouter ==
    ASSUME RouterType, NothingMade PROVE RouterType' /\ UNCHANGED router
BY DEF RouterType, NothingMade

LEMMA BornTyped ==
    ASSUME RouterType, NEW b \in Block, want[b] \in Item, Born(b)
    PROVE  RouterType' /\ born' \in Object /\ born' = born + 1
BY LifecycleAssumption DEF RouterType, Born, Put, Object

LEMMA ExecutedTyped ==
    ASSUME RouterType, NEW b \in Block, NEW item \in Item \cup {NoItem},
           Executed(b, item), UNCHANGED <<born, made>>
    PROVE  RouterType'
BY DEF RouterType, Executed, Put

LEMMA IdsAreIds ==
    ASSUME RouterType, NEW type, NEW o \in Object, NEW item \in Item
    PROVE  GetID(type, o, item) \in Id
BY DEF GetID, Id, Item

LEMMA AliveHasItem ==
    ASSUME RouterType, NEW o \in Alive
    PROVE  o \in Object /\ router[o] \in Item
BY DEF RouterType, Alive

\* The bounds of a handler's step: faults are counted, all else stands.
FaultStep ==
    \/ Fault
    \/ \E seen \in SUBSET Object : CutOff(seen)
    \/ UNCHANGED faultVars

LEMMA ReadsAreFaultSteps ==
    ASSUME NEW type, NEW id
    PROVE  /\ ReadFails => FaultStep
           /\ ReadFindsNothing(type, id) => FaultStep
           /\ \A o : ReadFinds(type, id, o) => FaultStep /\ o \in Alive
<1>1. Matching(type, id) \in SUBSET Object
  BY DEF Matching, Alive
<1> QED BY <1>1 DEF ReadFails, ReadFindsNothing, ReadFinds, FaultStep, Matching

LEMMA HandlerStep ==
    ASSUME TypeInv, NEW b \in Block, FaultStep, Aside,
           RouterType', RecordType', FlowType',
           Elsewhere(b), RecordsElsewhere(b), Consistent(b)'
    PROVE  TypeInv'
<1>1. FaultType'
  <2>1. FaultType
    BY TypeParts DEF TypeInv
  <2>2. CASE Fault
    BY <2>1, <2>2, LifecycleAssumption DEF FaultType, Fault
  <2>3. CASE \E seen \in SUBSET Object : CutOff(seen)
    BY <2>1, <2>3, LifecycleAssumption DEF FaultType, CutOff
  <2>4. CASE UNCHANGED faultVars
    BY <2>1, <2>4 DEF FaultType, faultVars
  <2> QED BY <2>2, <2>3, <2>4 DEF FaultStep
<1>2. AsideType' /\ want' = want
  <2>1. AsideType
    BY TypeParts DEF TypeInv
  <2> QED BY <2>1 DEF AsideType, Aside, historyVars
<1>3. TypeOK'
  <2>1. RouterType' /\ RecordType' /\ FlowType' /\ AsideType' /\ FaultType'
    BY <1>1, <1>2
  <2> QED BY <2>1 DEF TypeOK, RouterType, RecordType, FlowType, AsideType,
                      FaultType
<1>4. ASSUME NEW c \in Block PROVE Consistent(c)'
  <2>1. CASE c = b
    BY <2>1
  <2>2. CASE c # b
    <3>1. pc'[c] = pc[c] /\ record'[c] = record[c] /\ want'[c] = want[c]
      BY <2>2, <1>2 DEF Elsewhere, RecordsElsewhere
    <3> QED BY <3>1 DEF TypeInv, Consistent
  <2> QED BY <2>1, <2>2
<1> QED BY <1>3, <1>4 DEF TypeInv

-----------------------------------------------------------------------------
(* One lemma per handler, one step per action.                             *)

\* What a handler may assume of its own block.
LEMMA BeforeStep ==
    ASSUME TypeInv, NEW b \in Block
    PROVE  /\ RouterType /\ RecordType /\ FlowType
           /\ want[b] \in Item \cup {NoItem}
           /\ pc[b] \in RecordPC => record[b] # NoRecord
           /\ pc[b] \in ItemPC => want[b] \in Item
<1>1. TypeOK /\ Consistent(b)
  BY DEF TypeInv
<1>2. want[b] \in Item \cup {NoItem}
  BY <1>1 DEF TypeOK, Configuration
<1> QED BY <1>1, <1>2, TypeParts DEF Consistent

LEMMA ReadOrAbortTyped ==
    ASSUME RouterType, FlowType, NEW b \in Block, NEW where \in PC,
           ReadOrAbort(b, where)
    PROVE  RouterType' /\ FlowType' /\ pc'[b] = where /\ Elsewhere(b) /\ Aside
<1>1. RouterType' /\ Aside
  BY UnchangedRouter DEF ReadOrAbort
<1>2. pc' \in [Block -> PC] /\ pc'[b] = where /\ Elsewhere(b)
  BY GotoTyped DEF ReadOrAbort, Goto
<1> QED BY <1>1, <1>2 DEF ReadOrAbort, FlowType

\* A record that is read: the id of the item and the item.
LEMMA RefreshedRecord ==
    ASSUME RecordType, RouterType, NEW b \in Block, NEW o \in Alive,
           record' = [record EXCEPT ![b].id = GetID(IdType, o, router[o]),
                                    ![b].item = router[o]],
           Keep(b, o)
    PROVE  RecordType' /\ record'[b] # NoRecord /\ RecordsElsewhere(b)
<1>1. o \in Object /\ router[o] \in Item
  BY AliveHasItem
<1>2. GetID(IdType, o, router[o]) \in Id
  BY <1>1, IdsAreIds
<1>3. record[b] \in Record
  BY DEF RecordType
<1>4. [record[b] EXCEPT !.id = GetID(IdType, o, router[o]), !.item = router[o]]
        \in Record \ {NoRecord}
  BY <1>1, <1>2, <1>3, RecordFields
<1>5. /\ custody' \in [Block -> Object \cup {Nobody}]
      /\ left' \in SUBSET Object
  BY <1>1, KeepTyped
<1> QED BY <1>1, <1>4, <1>5 DEF RecordType, RecordsElsewhere

LEMMA RefreshKeepsType ==
    ASSUME TypeInv, NEW b \in Block,
           RefreshFails(b) \/ RefreshFindsNothing(b) \/ RefreshFinds(b)
    PROVE  TypeInv'
<1> USE BeforeStep, ReadsAreFaultSteps
<1>1. CASE RefreshFails(b)
  <2>1. ReadOrAbort(b, "aborted") /\ UNCHANGED stateVars /\ FaultStep
    BY <1>1 DEF RefreshFails
  <2>2. RouterType' /\ FlowType' /\ pc'[b] = "aborted" /\ Elsewhere(b) /\ Aside
    BY <2>1, ReadOrAbortTyped DEF PC
  <2>3. RecordType' /\ RecordsElsewhere(b)
    BY <2>1, UnchangedRecord
  <2>4. Consistent(b)'
    BY <2>2 DEF Consistent, RecordPC, ItemPC
  <2> QED BY <2>1, <2>2, <2>3, <2>4, HandlerStep
<1>2. CASE RefreshFindsNothing(b)
  <2>1. ReadOrAbort(b, "plan") /\ Forget(b) /\ FaultStep
    BY <1>2 DEF RefreshFindsNothing
  <2>2. RouterType' /\ FlowType' /\ pc'[b] = "plan" /\ Elsewhere(b) /\ Aside
    BY <2>1, ReadOrAbortTyped DEF PC
  <2>3. RecordType' /\ RecordsElsewhere(b)
    BY <2>1, ForgetTyped
  <2>4. Consistent(b)'
    BY <2>2 DEF Consistent, RecordPC, ItemPC
  <2> QED BY <2>1, <2>2, <2>3, <2>4, HandlerStep
<1>3. CASE RefreshFinds(b)
  <2>1. ReadOrAbort(b, "plan") /\ FaultStep
    BY <1>3 DEF RefreshFinds
  <2>2. RouterType' /\ FlowType' /\ pc'[b] = "plan" /\ Elsewhere(b) /\ Aside
    BY <2>1, ReadOrAbortTyped DEF PC
  <2>3. RecordType' /\ RecordsElsewhere(b)
    BY <1>3, RefreshedRecord DEF RefreshFinds
  <2>4. Consistent(b)'
    BY <2>2 DEF Consistent, RecordPC, ItemPC
  <2> QED BY <2>1, <2>2, <2>3, <2>4, HandlerStep
<1> QED BY <1>1, <1>2, <1>3

LEMMA ImportKeepsType ==
    ASSUME TypeInv, NEW b \in Block,
           \/ ImportFails(b) \/ ImportGiven(b) \/ ImportFinds(b)
           \/ ImportReadFails(b) \/ ImportReadFinds(b)
    PROVE  TypeInv'
<1> USE BeforeStep, ReadsAreFaultSteps
<1>1. CASE ImportFails(b)
  <2>1. ReadOrAbort(b, "aborted") /\ UNCHANGED stateVars /\ FaultStep
    BY <1>1 DEF ImportFails, Ambiguous, FaultStep
  <2>2. RouterType' /\ FlowType' /\ pc'[b] = "aborted" /\ Elsewhere(b) /\ Aside
    BY <2>1, ReadOrAbortTyped DEF PC
  <2>3. RecordType' /\ RecordsElsewhere(b)
    BY <2>1, UnchangedRecord
  <2>4. Consistent(b)'
    BY <2>2 DEF Consistent, RecordPC, ItemPC
  <2> QED BY <2>1, <2>2, <2>3, <2>4, HandlerStep
<1>2. CASE ImportGiven(b) \/ ImportFinds(b)
  <2>1. ReadOrAbort(b, "importRead")
    BY <1>2 DEF ImportGiven, ImportFinds
  <2>2. PICK o \in Object : Identify(b, o, o) /\ FaultStep
    BY <1>2, AliveHasItem, LifecycleAssumption
       DEF ImportGiven, ImportFinds, FaultStep, RouterType, Object
  <2>3. RouterType' /\ FlowType' /\ pc'[b] = "importRead" /\ Elsewhere(b) /\ Aside
    BY <2>1, ReadOrAbortTyped DEF PC
  <2>4. RecordType' /\ record'[b] # NoRecord /\ RecordsElsewhere(b)
    BY <2>2, IdentifyTyped
  <2>5. Consistent(b)'
    BY <2>3, <2>4 DEF Consistent, ItemPC
  <2> QED BY <2>2, <2>3, <2>4, <2>5, HandlerStep
<1>3. CASE ImportReadFails(b)
  <2>1. ReadOrAbort(b, "aborted") /\ Forget(b) /\ FaultStep
    BY <1>3 DEF ImportReadFails
  <2>2. RouterType' /\ FlowType' /\ pc'[b] = "aborted" /\ Elsewhere(b) /\ Aside
    BY <2>1, ReadOrAbortTyped DEF PC
  <2>3. RecordType' /\ RecordsElsewhere(b)
    BY <2>1, ForgetTyped
  <2>4. Consistent(b)'
    BY <2>2 DEF Consistent, RecordPC, ItemPC
  <2> QED BY <2>1, <2>2, <2>3, <2>4, HandlerStep
<1>4. CASE ImportReadFinds(b)
  <2>1. ReadOrAbort(b, "plan")
    BY <1>4 DEF ImportReadFinds
  <2>2. PICK o \in Alive : /\ ReadFinds(IdType, record[b].id, o)
                           /\ SetId(b, GetID(IdType, o, router[o]), router[o], o)
    BY <1>4 DEF ImportReadFinds
  <2>3. RouterType' /\ FlowType' /\ pc'[b] = "plan" /\ Elsewhere(b) /\ Aside
    BY <2>1, ReadOrAbortTyped DEF PC
  <2>4. RecordType' /\ RecordsElsewhere(b)
    BY <2>2, AliveHasItem, IdsAreIds, SetIdTyped
  <2>5. Consistent(b)'
    BY <2>3 DEF Consistent, RecordPC, ItemPC
  <2>6. FaultStep
    BY <2>2
  <2> QED BY <2>3, <2>4, <2>5, <2>6, HandlerStep
<1> QED BY <1>1, <1>2, <1>3, <1>4

\* After Created the block is read again, or done.
LEMMA CreatedTyped ==
    ASSUME RecordType, FlowType, NEW b \in Block, NEW o \in Object,
           NEW item \in Item, want[b] \in Item, Created(b, o, item)
    PROVE  /\ RecordType' /\ RecordsElsewhere(b) /\ record'[b] # NoRecord
           /\ FlowType' /\ Elsewhere(b) /\ pc'[b] \in {"reread", "done"}
<1>1. GetID(IdType, o, want[b]) \in Id
  BY DEF GetID, Id, Item
<1>2. RecordType' /\ RecordsElsewhere(b) /\ record'[b] # NoRecord
  BY <1>1, SetIdTyped DEF Created
<1>3. FlowType' /\ Elsewhere(b) /\ pc'[b] \in {"reread", "done"}
  BY ProceedTyped, FinishTyped DEF Created, PC
<1> QED BY <1>2, <1>3

\* What ends an operation leaves nothing to be consistent with.
LEMMA FinishedIsConsistent ==
    ASSUME NEW b \in Block, pc'[b] = "done" PROVE Consistent(b)'
BY DEF Consistent, RecordPC, ItemPC

LEMMA CreateKeepsType ==
    ASSUME TypeInv, NEW b \in Block,
           \/ CreateFails(b) \/ CreateAnswered(b) \/ CreateAnswerEmpty(b)
    PROVE  TypeInv'
<1>1. want[b] \in Item /\ pc[b] = "create"
  BY BeforeStep DEF CreateFails, CreateAnswered, CreateAnswerEmpty, ItemPC
<1>2. RouterType /\ RecordType /\ FlowType
  BY BeforeStep
<1>3. CASE CreateFails(b)
  <2>1. FaultStep /\ UNCHANGED stateVars /\ Aside /\ Finish(b, "error")
    BY <1>3 DEF CreateFails, FaultStep
  <2>2. RouterType'
    BY <1>1, <1>2, <1>3, BornTyped, UnchangedRouter DEF CreateFails
  <2>3. RecordType' /\ RecordsElsewhere(b)
    BY <1>2, <2>1, UnchangedRecord
  <2>4. FlowType' /\ Elsewhere(b) /\ Consistent(b)'
    BY <1>2, <2>1, FinishTyped, FinishedIsConsistent
  <2> QED BY <2>1, <2>2, <2>3, <2>4, HandlerStep
<1>4. CASE CreateAnswered(b)
  <2>1. Born(b) /\ Created(b, born', want[b]) /\ FaultStep /\ Aside
    BY <1>4 DEF CreateAnswered, FaultStep
  <2>2. RouterType' /\ born' \in Object
    BY <1>1, <1>2, <2>1, BornTyped
  <2>3. /\ RecordType' /\ RecordsElsewhere(b) /\ record'[b] # NoRecord
        /\ FlowType' /\ Elsewhere(b) /\ pc'[b] \in {"reread", "done"}
    BY <1>1, <1>2, <2>1, <2>2, CreatedTyped
  <2>4. Consistent(b)'
    BY <2>3 DEF Consistent, ItemPC
  <2> QED BY <2>1, <2>2, <2>3, <2>4, HandlerStep
<1>5. CASE CreateAnswerEmpty(b)
  <2>1. /\ Born(b) /\ Proceed(b, "lookup", Nobody) /\ FaultStep
        /\ UNCHANGED stateVars /\ Aside
    BY <1>5 DEF CreateAnswerEmpty, FaultStep
  <2>2. RouterType'
    BY <1>1, <1>2, <2>1, BornTyped
  <2>3. RecordType' /\ RecordsElsewhere(b)
    BY <1>2, <2>1, UnchangedRecord
  <2>4. FlowType' /\ Elsewhere(b) /\ pc'[b] = "lookup"
    BY <1>2, <2>1, ProceedTyped DEF PC
  <2>5. want'[b] # NoItem
    BY <1>1, <2>1, LifecycleAssumption DEF Aside, Item
  <2>6. Consistent(b)'
    BY <2>4, <2>5 DEF Consistent, RecordPC
  <2> QED BY <2>1, <2>2, <2>3, <2>4, <2>6, HandlerStep
<1> QED BY <1>3, <1>4, <1>5

LEMMA LookupKeepsType ==
    ASSUME TypeInv, NEW b \in Block, LookupFinds(b) \/ LookupFails(b)
    PROVE  TypeInv'
<1>1. want[b] \in Item
  BY BeforeStep DEF LookupFinds, LookupFails, ItemPC
<1>2. RouterType /\ RecordType /\ FlowType
  BY BeforeStep
<1>3. RouterType' /\ Aside
  BY <1>2, UnchangedRouter DEF LookupFinds, LookupFails
<1>4. CASE LookupFinds(b)
  <2>1. PICK o \in Alive : Created(b, o, router[o])
    BY <1>4 DEF LookupFinds
  <2>2. o \in Object /\ router[o] \in Item
    BY <1>2, AliveHasItem
  <2>3. /\ RecordType' /\ RecordsElsewhere(b) /\ record'[b] # NoRecord
        /\ FlowType' /\ Elsewhere(b) /\ pc'[b] \in {"reread", "done"}
    BY <1>1, <1>2, <2>1, <2>2, CreatedTyped
  <2>4. Consistent(b)'
    BY <2>3 DEF Consistent, ItemPC
  <2>5. FaultStep
    BY <1>4 DEF LookupFinds, FaultStep
  <2> QED BY <1>3, <2>3, <2>4, <2>5, HandlerStep
<1>5. CASE LookupFails(b)
  <2>1. FaultStep /\ UNCHANGED stateVars /\ Finish(b, "error")
    BY <1>5, ReadsAreFaultSteps DEF LookupFails, Ambiguous, FaultStep
  <2>2. RecordType' /\ RecordsElsewhere(b)
    BY <1>2, <2>1, UnchangedRecord
  <2>3. FlowType' /\ Elsewhere(b) /\ Consistent(b)'
    BY <1>2, <2>1, FinishTyped, FinishedIsConsistent
  <2> QED BY <1>3, <2>1, <2>2, <2>3, HandlerStep
<1> QED BY <1>4, <1>5

LEMMA RereadKeepsType ==
    ASSUME TypeInv, NEW b \in Block, RereadFinds(b) \/ RereadFails(b)
    PROVE  TypeInv'
<1>1. RouterType /\ RecordType /\ FlowType /\ record[b] # NoRecord
  BY BeforeStep DEF RereadFinds, RereadFails, RecordPC
<1>2. RouterType' /\ Aside /\ FaultStep
  BY <1>1, UnchangedRouter, ReadsAreFaultSteps DEF RereadFinds, RereadFails
<1>3. RecordType' /\ RecordsElsewhere(b)
  <2>1. CASE RereadFinds(b)
    <3>1. target[b] \in Alive
      BY <2>1, ReadsAreFaultSteps DEF RereadFinds
    <3> QED BY <1>1, <2>1, <3>1, AliveHasItem, SetItemTyped DEF RereadFinds
  <2>2. CASE RereadFails(b)
    BY <1>1, <2>2, TaintTyped DEF RereadFails
  <2> QED BY <2>1, <2>2
<1>4. FlowType' /\ Elsewhere(b) /\ Consistent(b)'
  BY <1>1, FinishTyped, FinishedIsConsistent DEF RereadFinds, RereadFails
<1> QED BY <1>2, <1>3, <1>4, HandlerStep

LEMMA FindUpdateKeepsType ==
    ASSUME TypeInv, NEW b \in Block, FindUpdate(b)
    PROVE  TypeInv'
<1>1. /\ RouterType /\ RecordType /\ FlowType
      /\ record[b] # NoRecord /\ want[b] \in Item
  BY BeforeStep DEF FindUpdate, RecordPC, ItemPC
<1>2. RouterType' /\ Aside
  BY <1>1, UnchangedRouter DEF FindUpdate
<1>3. CASE Finds(b, "update")
  <2>1. PICK o \in Alive : ReadFinds(IdType, record[b].id, o)
                           /\ Proceed(b, "update", o)
    BY <1>3 DEF Finds
  <2>2. FlowType' /\ Elsewhere(b) /\ pc'[b] = "update"
    BY <1>1, <2>1, AliveHasItem, ProceedTyped DEF PC
  <2>3. RecordType' /\ RecordsElsewhere(b) /\ record' = record
    BY <1>1, <1>3, UnchangedRecord DEF Finds
  <2>4. want'[b] # NoItem
    BY <1>1, <1>2, LifecycleAssumption DEF Aside, Item
  <2>5. Consistent(b)'
    BY <1>1, <2>3, <2>4 DEF Consistent
  <2> QED BY <1>2, <2>1, <2>2, <2>3, <2>5, ReadsAreFaultSteps, HandlerStep
<1>4. CASE NoLongerExists(b) /\ Finish(b, "error")
  <2>1. FaultStep /\ RecordType' /\ RecordsElsewhere(b)
    BY <1>1, <1>4, ForgetTyped, ReadsAreFaultSteps DEF NoLongerExists
  <2>2. FlowType' /\ Elsewhere(b) /\ Consistent(b)'
    BY <1>1, <1>4, FinishTyped, FinishedIsConsistent
  <2> QED BY <1>2, <2>1, <2>2, HandlerStep
<1>5. CASE ReadFails /\ SetItem(b, want[b]) /\ Finish(b, "error")
  <2>1. FaultStep /\ RecordType' /\ RecordsElsewhere(b)
    BY <1>1, <1>5, SetItemTyped, ReadsAreFaultSteps
  <2>2. FlowType' /\ Elsewhere(b) /\ Consistent(b)'
    BY <1>1, <1>5, FinishTyped, FinishedIsConsistent
  <2> QED BY <1>2, <2>1, <2>2, HandlerStep
<1> QED BY <1>3, <1>4, <1>5 DEF FindUpdate

LEMMA UpdateKeepsType ==
    ASSUME TypeInv, NEW b \in Block, UpdateFails(b) \/ Updated(b)
    PROVE  TypeInv'
<1>1. /\ RouterType /\ RecordType /\ FlowType
      /\ record[b] # NoRecord /\ want[b] \in Item
  BY BeforeStep DEF UpdateFails, Updated, RecordPC, ItemPC
<1>2. FaultStep /\ Aside
  BY DEF UpdateFails, Updated, FaultStep
<1>3. RouterType'
  <2>1. UNCHANGED <<born, made>> /\ (UNCHANGED router \/ Executed(b, want[b]))
    BY DEF UpdateFails, Updated
  <2>2. CASE UNCHANGED router
    BY <1>1, <2>1, <2>2 DEF RouterType
  <2>3. CASE Executed(b, want[b])
    BY <1>1, <2>1, <2>3, ExecutedTyped
  <2> QED BY <2>1, <2>2, <2>3
<1>4. RecordType' /\ RecordsElsewhere(b)
  BY <1>1, SetItemTyped DEF UpdateFails, Updated
<1>5. FlowType' /\ Elsewhere(b) /\ Consistent(b)'
  BY <1>1, FinishTyped, FinishedIsConsistent DEF UpdateFails, Updated
<1> QED BY <1>2, <1>3, <1>4, <1>5, HandlerStep

\* A deletion ends the operation or goes on to the creation of a block that
\* the configuration still has.
LEMMA AfterDeleteTyped ==
    ASSUME FlowType, NEW b \in Block, AfterDelete(b), UNCHANGED want
    PROVE  FlowType' /\ Elsewhere(b) /\ Consistent(b)'
<1>1. CASE want[b] = NoItem
  <2>1. Finish(b, "ok")
    BY <1>1 DEF AfterDelete
  <2> QED BY <2>1, FinishTyped, FinishedIsConsistent
<1>2. CASE want[b] # NoItem
  <2>1. Proceed(b, "create", Nobody)
    BY <1>2 DEF AfterDelete
  <2>2. FlowType' /\ Elsewhere(b) /\ pc'[b] = "create"
    BY <2>1, ProceedTyped DEF PC
  <2> QED BY <1>2, <2>2 DEF Consistent, RecordPC
<1> QED BY <1>1, <1>2

LEMMA FindDeleteKeepsType ==
    ASSUME TypeInv, NEW b \in Block, FindDelete(b)
    PROVE  TypeInv'
<1>1. RouterType /\ RecordType /\ FlowType /\ record[b] # NoRecord
  BY BeforeStep DEF FindDelete, RecordPC
<1>2. RouterType' /\ Aside /\ UNCHANGED want
  BY <1>1, UnchangedRouter DEF FindDelete, Aside
<1>3. CASE Finds(b, "delete")
  <2>1. PICK o \in Alive : ReadFinds(IdType, record[b].id, o)
                           /\ Proceed(b, "delete", o)
    BY <1>3 DEF Finds
  <2>2. FlowType' /\ Elsewhere(b) /\ pc'[b] = "delete"
    BY <1>1, <2>1, AliveHasItem, ProceedTyped DEF PC
  <2>3. RecordType' /\ RecordsElsewhere(b) /\ record' = record
    BY <1>1, <1>3, UnchangedRecord DEF Finds
  <2>4. Consistent(b)'
    BY <1>1, <2>2, <2>3 DEF Consistent, ItemPC
  <2> QED BY <1>2, <2>1, <2>2, <2>3, <2>4, ReadsAreFaultSteps, HandlerStep
<1>4. CASE NoLongerExists(b) /\ AfterDelete(b)
  <2>1. FaultStep /\ RecordType' /\ RecordsElsewhere(b)
    BY <1>1, <1>4, ForgetTyped, ReadsAreFaultSteps DEF NoLongerExists
  <2>2. FlowType' /\ Elsewhere(b) /\ Consistent(b)'
    BY <1>1, <1>2, <1>4, AfterDeleteTyped
  <2> QED BY <1>2, <2>1, <2>2, HandlerStep
<1>5. CASE ReadFails /\ UNCHANGED stateVars /\ Finish(b, "error")
  <2>1. FaultStep /\ RecordType' /\ RecordsElsewhere(b)
    BY <1>1, <1>5, UnchangedRecord, ReadsAreFaultSteps
  <2>2. FlowType' /\ Elsewhere(b) /\ Consistent(b)'
    BY <1>1, <1>5, FinishTyped, FinishedIsConsistent
  <2> QED BY <1>2, <2>1, <2>2, HandlerStep
<1> QED BY <1>3, <1>4, <1>5 DEF FindDelete

LEMMA DeleteKeepsType ==
    ASSUME TypeInv, NEW b \in Block, DeleteFails(b) \/ Deleted(b)
    PROVE  TypeInv'
<1>1. RouterType /\ RecordType /\ FlowType
  BY BeforeStep
<1>2. FaultStep /\ Aside /\ UNCHANGED want
  BY DEF DeleteFails, Deleted, FaultStep, Aside
<1>3. RouterType'
  <2>1. UNCHANGED <<born, made>> /\ (UNCHANGED router \/ Executed(b, NoItem))
    BY DEF DeleteFails, Deleted
  <2>2. CASE UNCHANGED router
    BY <1>1, <2>1, <2>2 DEF RouterType
  <2>3. CASE Executed(b, NoItem)
    BY <1>1, <2>1, <2>3, ExecutedTyped
  <2> QED BY <2>1, <2>2, <2>3
<1>4. RecordType' /\ RecordsElsewhere(b)
  BY <1>1, UnchangedRecord, ForgetTyped DEF DeleteFails, Deleted
<1>5. FlowType' /\ Elsewhere(b) /\ Consistent(b)'
  BY <1>1, <1>2, FinishTyped, FinishedIsConsistent, AfterDeleteTyped
     DEF DeleteFails, Deleted
<1> QED BY <1>2, <1>3, <1>4, <1>5, HandlerStep

-----------------------------------------------------------------------------
(* Terraform's own steps, and the changes of others.                       *)

LEMMA OperationTyped ==
    ASSUME NEW b \in Block
    PROVE  /\ Operation(b) \in {"done", "create", "findDelete", "findUpdate"}
           /\ Operation(b) = "create" => want[b] # NoItem
           /\ Operation(b) = "findUpdate" => want[b] # NoItem
           /\ Operation(b) \in {"findDelete", "findUpdate"} => record[b] # NoRecord
<1>1. CASE record[b] = NoRecord
  BY <1>1 DEF Operation
<1>2. CASE record[b] # NoRecord
  BY <1>2 DEF Operation
<1> QED BY <1>1, <1>2

LEMMA ApplyKeepsType ==
    ASSUME TypeInv, NEW b \in Block, Apply(b) PROVE TypeInv'
<1>1. RouterType /\ RecordType /\ FlowType
  BY BeforeStep
<1>2. /\ RouterType' /\ RecordType' /\ RecordsElsewhere(b)
      /\ record' = record /\ want' = want /\ FaultStep /\ Aside
  BY <1>1, UnchangedRouter, UnchangedRecord DEF Apply, FaultStep, Aside
<1>3. Operation(b) \in PC
  BY OperationTyped DEF PC
<1>4. pc' \in [Block -> PC] /\ pc'[b] = Operation(b) /\ Elsewhere(b)
  BY <1>1, <1>3, GotoTyped DEF Apply
<1>5. FlowType'
  BY <1>1, <1>4 DEF Apply, FlowType
<1>6. Consistent(b)'
  <2>1. pc'[b] \in RecordPC => pc'[b] \in {"findDelete", "findUpdate"}
    BY <1>4, OperationTyped DEF RecordPC
  <2>2. pc'[b] \in ItemPC => pc'[b] \in {"create", "findUpdate"}
    BY <1>4, OperationTyped DEF ItemPC
  <2> QED BY <1>2, <1>4, <2>1, <2>2, OperationTyped DEF Consistent
<1> QED BY <1>2, <1>4, <1>5, <1>6, HandlerStep

LEMMA FirstStepTyped ==
    ASSUME NEW b \in Block, NEW w
    PROVE  /\ FirstStep(b, w) \in {"refresh", "importFind", "plan"}
           /\ FirstStep(b, w) = "refresh" => record[b] # NoRecord
           /\ FirstStep(b, w) = "importFind" => w[b] # NoItem
BY DEF FirstStep

LEMMA NextRunKeepsType ==
    ASSUME TypeInv, NextRun PROVE TypeInv'
<1>1. TypeOK
  BY DEF TypeInv
<1>2. PICK w \in Configuration :
          /\ \/ w = want /\ UNCHANGED edits
             \/ w # want /\ edits < MaxEdits /\ edits' = edits + 1
          /\ want' = w
          /\ pc' = [b \in Block |-> FirstStep(b, w)]
          /\ settled' = (w = want /\ Succeeded /\ calm)
  BY DEF NextRun
<1>3. /\ result' = [b \in Block |-> "ok"] /\ made' = [b \in Block |-> Nobody]
      /\ calm' = TRUE
      /\ UNCHANGED <<routerVars, stateVars, target, faultVars, outsides>>
  BY DEF NextRun
<1>4. TypeOK'
  <2>1. pc' \in [Block -> PC]
    BY <1>2, FirstStepTyped DEF PC
  <2>2. edits' \in 0..MaxEdits
    BY <1>1, <1>2, LifecycleAssumption DEF TypeOK
  <2>3. want' \in Configuration
    BY <1>2
  <2>4. settled' \in BOOLEAN
    BY <1>2
  <2>5. /\ UNCHANGED <<router, born, record, custody, left>>
        /\ UNCHANGED <<target, faults, cut, outsides>>
    BY <1>3 DEF routerVars, stateVars, faultVars
  <2> QED BY <1>1, <1>3, <2>1, <2>2, <2>3, <2>4, <2>5 DEF TypeOK
<1>5. ASSUME NEW b \in Block PROVE Consistent(b)'
  <2>1. pc'[b] = FirstStep(b, want') /\ record' = record
    BY <1>2, <1>3 DEF stateVars
  <2> QED BY <2>1, FirstStepTyped DEF Consistent, RecordPC, ItemPC
<1> QED BY <1>4, <1>5 DEF TypeInv

LEMMA OutsideKeepsType ==
    ASSUME TypeInv, Outside PROVE TypeInv'
<1>1. TypeOK
  BY DEF TypeInv
<1>2. /\ UNCHANGED <<want, record, custody, left, pc, target, result, made>>
      /\ UNCHANGED <<faults, cut, edits>>
  BY DEF Outside, stateVars, faultVars
<1>3. PICK item \in Item \cup {NoItem}, o \in Object :
         Put(o, item) /\ born' = IF o > born THEN o ELSE born
  BY DEF Outside
<1>4. router' \in [Object -> Item \cup {NoItem}]
  BY <1>1, <1>3 DEF Put, TypeOK
<1>5. born' \in 0..MaxObjects
  BY <1>1, <1>3, LifecycleAssumption DEF TypeOK, Object
<1>6. outsides' \in 0..MaxOutside /\ calm' \in BOOLEAN /\ settled' \in BOOLEAN
  <2>1. /\ outsides < MaxOutside /\ outsides' = outsides + 1
        /\ calm' = FALSE /\ settled' = FALSE
    BY DEF Outside
  <2>2. calm' \in BOOLEAN /\ settled' \in BOOLEAN
    BY <2>1
  <2>3. outsides' \in 0..MaxOutside
    BY <1>1, <2>1, LifecycleAssumption DEF TypeOK
  <2> QED BY <2>2, <2>3
<1>7. TypeOK'
  BY <1>1, <1>2, <1>4, <1>5, <1>6 DEF TypeOK
<1>8. ASSUME NEW b \in Block PROVE Consistent(b)'
  BY <1>2 DEF TypeInv, Consistent
<1> QED BY <1>7, <1>8 DEF TypeInv

LEMMA HandleKeepsType ==
    ASSUME TypeInv, NEW b \in Block, Handle(b) PROVE TypeInv'
BY RefreshKeepsType, ImportKeepsType, CreateKeepsType, LookupKeepsType,
   RereadKeepsType, FindUpdateKeepsType, UpdateKeepsType, FindDeleteKeepsType,
   DeleteKeepsType, ApplyKeepsType DEF Handle

LEMMA InitHasType == Init => TypeInv
<1> SUFFICES ASSUME Init PROVE TypeInv
  OBVIOUS
<1>1. TypeOK
  <2>1. pc \in [Block -> PC]
    <3>1. \A b \in Block : FirstStep(b, want) \in PC
      BY FirstStepTyped DEF PC
    <3> QED BY <3>1 DEF Init
  <2>2. record \in [Block -> Record]
    BY DEF Init, Record
  <2>3. calm \in BOOLEAN /\ settled \in BOOLEAN
    BY DEF Init
  <2>4. /\ faults \in 0..MaxFaults /\ outsides \in 0..MaxOutside
        /\ edits \in 0..MaxEdits /\ born \in 0..MaxObjects
    BY LifecycleAssumption DEF Init
  <2>5. /\ router \in [Object -> Item \cup {NoItem}] /\ want \in Configuration
        /\ target \in [Block -> Object \cup {Nobody}]
        /\ result \in [Block -> {"ok", "error"}]
        /\ custody \in [Block -> Object \cup {Nobody}]
        /\ made \in [Block -> Object \cup {Nobody}]
        /\ left \in SUBSET Object /\ cut \in SUBSET Object
    BY DEF Init
  <2> QED BY <2>1, <2>2, <2>3, <2>4, <2>5 DEF TypeOK
<1>2. ASSUME NEW b \in Block PROVE Consistent(b)
  BY FirstStepTyped DEF Init, Consistent, RecordPC, ItemPC
<1> QED BY <1>1, <1>2 DEF TypeInv

LEMMA TypeInvStep ==
    ASSUME TypeInv, [Next]_vars PROVE TypeInv'
<1>1. CASE Next
  BY <1>1, HandleKeepsType, NextRunKeepsType, OutsideKeepsType DEF Next
<1>2. CASE UNCHANGED vars
  BY <1>2 DEF vars, routerVars, stateVars, historyVars, boundVars,
              faultVars, TypeInv,
              TypeOK, Consistent
<1> QED BY <1>1, <1>2

\* The variables have their types, an operation on a record has one, and an
\* operation for a configured item has that: in every reachable state.
THEOREM LifecycleTypeInvariant == Spec => []TypeInv
<1>1. TypeInv /\ [Next]_vars => TypeInv'
  BY TypeInvStep
<1> QED BY <1>1, InitHasType, PTL DEF Spec

\* Type correctness of ResourceCreate, Read, Update, Delete and the import,
\* whatever the transport and the kind of id.
THEOREM LifecycleTypeCorrect == Spec => []TypeOK
<1>1. TypeInv => TypeOK
  BY DEF TypeInv
<1> QED BY <1>1, LifecycleTypeInvariant, PTL

=============================================================================
