-------------------- MODULE ResourceLifecycleRefinement --------------------
(***************************************************************************)
(* Over the API, for resources identified by the internal id and created   *)
(* by Terraform, the lifecycle implements Custody: a block keeps its       *)
(* object until it is gone, and no two blocks have the same one.           *)
(***************************************************************************)
EXTENDS ResourceLifecycleProofs

ApiById == Transport = "API" /\ IdType = "Id" /\ Importing = {}

\* The record of a block names the object it has custody of.
RecordNamesCustody(b) ==
    IF custody[b] = Nobody THEN record[b] = NoRecord
                           ELSE record[b].id = custody[b]

\* What a handler has in its hands is that object.
Mine(b) ==
    /\ RecordNamesCustody(b)
    /\ pc[b] \in {"update", "delete", "reread"} => target[b] = custody[b]
    /\ pc[b] = "create" => record[b] = NoRecord
    /\ pc[b] \notin {"importFind", "importRead", "lookup"}
    /\ custody[b] <= born

\* The router has no object it has not given an id to.
NothingUnborn == \A o \in Object : o > born => router[o] = NoItem

CustodyInv == TypeInv /\ NothingUnborn /\ \A b \in Block : Mine(b)

-----------------------------------------------------------------------------

LEMMA IdOfRecord ==
    ASSUME TypeInv, NEW b \in Block, Mine(b), record[b] # NoRecord
    PROVE  custody[b] \in Object /\ record[b].id = custody[b]
BY DEF TypeInv, TypeOK, Mine, RecordNamesCustody

\* Only the object with the recorded id is found, and only when there is one.
LEMMA FindsOwn ==
    ASSUME ApiById, TypeInv, NEW b \in Block, Mine(b), record[b] # NoRecord
    PROVE  /\ \A o : ReadFinds(IdType, record[b].id, o) => o = custody[b]
           /\ ReadFindsNothing(IdType, record[b].id) => custody[b] \notin Alive
BY IdOfRecord DEF ApiById, ReadFinds, ReadFindsNothing, CutOff, Matching, GetID

\* The step of one block on its own variables.
OthersStand(b) ==
    \A c \in Block \ {b} : /\ record'[c] = record[c] /\ custody'[c] = custody[c]
                           /\ pc'[c] = pc[c] /\ target'[c] = target[c]

CustodyStep(b) ==
    \/ \E o \in Object : ImplementsCustody!Take(b, o)
    \/ ImplementsCustody!Release(b)
    \/ UNCHANGED custody

\* What a handler's step must come to.
Kept(b) ==
    /\ Mine(b)' /\ OthersStand(b) /\ CustodyStep(b)
    /\ born' \in Nat /\ born' >= born /\ NothingUnborn'

LEMMA KeptIsEnough ==
    ASSUME CustodyInv, TypeInv', NEW b \in Block, Kept(b)
    PROVE  CustodyInv'
<1>1. ASSUME NEW c \in Block PROVE Mine(c)'
  <2>1. CASE c = b
    BY <2>1 DEF Kept
  <2>2. CASE c # b
    <3>1. /\ record'[c] = record[c] /\ custody'[c] = custody[c]
          /\ pc'[c] = pc[c] /\ target'[c] = target[c]
      BY <2>2 DEF Kept, OthersStand
    <3>2. custody'[c] <= born'
      <4>1. custody[c] \in Nat /\ born \in Nat /\ custody[c] <= born
        BY LifecycleAssumption
           DEF CustodyInv, Mine, TypeInv, TypeOK, Object, Nobody
      <4> QED BY <3>1, <4>1 DEF Kept
    <3> QED BY <3>1, <3>2 DEF CustodyInv, Mine, RecordNamesCustody
  <2> QED BY <2>1, <2>2
<1> QED BY <1>1 DEF CustodyInv, Kept

LEMMA NothingMadeKeeps ==
    ASSUME CustodyInv, NothingMade
    PROVE  /\ born' \in Nat /\ born' >= born /\ NothingUnborn'
           /\ Alive' = Alive /\ born' = born
BY LifecycleAssumption
   DEF CustodyInv, TypeInv, TypeOK, NothingMade, NothingUnborn, Alive

LEMMA ForgetStands ==
    ASSUME TypeInv, NEW b \in Block, Forget(b)
    PROVE  /\ record'[b] = NoRecord /\ custody'[b] = Nobody
           /\ \A c \in Block \ {b} : record'[c] = record[c] /\ custody'[c] = custody[c]
           /\ RecordNamesCustody(b)'
BY DEF TypeInv, TypeOK, Forget, Keep, RecordNamesCustody

LEMMA FlowStands ==
    ASSUME TypeInv, NEW b \in Block, NEW where, NEW o, NEW outcome,
           Proceed(b, where, o) \/ Finish(b, outcome) \/ ReadOrAbort(b, where)
    PROVE  \A c \in Block \ {b} : pc'[c] = pc[c] /\ target'[c] = target[c]
BY DEF TypeInv, TypeOK, Proceed, Finish, ReadOrAbort, Goto

LEMMA FinishLands ==
    ASSUME TypeInv, NEW b \in Block, NEW outcome, Finish(b, outcome)
    PROVE  pc'[b] = "done"
BY DEF TypeInv, TypeOK, Finish, Goto

LEMMA ProceedLands ==
    ASSUME TypeInv, NEW b \in Block, NEW where, NEW o, Proceed(b, where, o)
    PROVE  pc'[b] = where /\ target'[b] = o
BY DEF TypeInv, TypeOK, Proceed, Goto

LEMMA SetItemStands ==
    ASSUME TypeInv, NEW b \in Block, NEW item,
           SetItem(b, item) \/ Taint(b), record[b] # NoRecord, Mine(b)
    PROVE  /\ custody' = custody /\ record'[b].id = record[b].id
           /\ \A c \in Block \ {b} : record'[c] = record[c]
           /\ RecordNamesCustody(b)'
<1>1. record[b] \in [id : Id, item : Item \cup {NoItem}, tainted : BOOLEAN]
  BY DEF TypeInv, TypeOK, Record
<1>2. /\ custody' = custody /\ record'[b].id = record[b].id
      /\ \A c \in Block \ {b} : record'[c] = record[c]
  BY <1>1 DEF TypeInv, TypeOK, SetItem, Taint
<1> QED BY <1>2, IdOfRecord DEF RecordNamesCustody, Nobody, Object

-----------------------------------------------------------------------------
(* One lemma per handler.                                                  *)

\* A step that ends somewhere harmless, with record and custody in agreement.
LEMMA LandsWell ==
    ASSUME CustodyInv, NEW b \in Block, RecordNamesCustody(b)',
           custody'[b] = custody[b] \/ custody'[b] = Nobody,
           pc'[b] \in {"done", "plan", "aborted"},
           born' \in Nat, born' >= born
    PROVE  Mine(b)'
<1>1. custody'[b] <= born'
  BY LifecycleAssumption DEF CustodyInv, Mine, TypeInv, TypeOK, Object, Nobody
<1> QED BY <1>1 DEF Mine

LEMMA RefreshKeeps ==
    ASSUME ApiById, CustodyInv, NEW b \in Block,
           RefreshFails(b) \/ RefreshFindsNothing(b) \/ RefreshFinds(b)
    PROVE  Kept(b)
<1>1. TypeInv /\ Mine(b) /\ record[b] # NoRecord
  BY DEF CustodyInv, TypeInv, Consistent, RecordPC, RefreshFails,
         RefreshFindsNothing, RefreshFinds
<1>2. PICK where \in {"aborted", "plan"} : ReadOrAbort(b, where)
  BY DEF RefreshFails, RefreshFindsNothing, RefreshFinds
<1>3. /\ pc'[b] \in {"aborted", "plan"}
      /\ \A c \in Block \ {b} : pc'[c] = pc[c] /\ target'[c] = target[c]
      /\ NothingMade
  BY <1>1, <1>2, FlowStands DEF ReadOrAbort, TypeInv, TypeOK
<1>4. /\ born' \in Nat /\ born' >= born /\ NothingUnborn'
      /\ Alive' = Alive
  BY <1>3, NothingMadeKeeps
<1>5. /\ RecordNamesCustody(b)'
      /\ \A c \in Block \ {b} : record'[c] = record[c] /\ custody'[c] = custody[c]
      /\ custody'[b] = custody[b] \/ custody'[b] = Nobody
      /\ CustodyStep(b)
  <2>1. CASE RefreshFails(b)
    BY <1>1, <2>1 DEF RefreshFails, stateVars, RecordNamesCustody, Mine,
                      CustodyStep
  <2>2. CASE RefreshFindsNothing(b)
    <3>1. Forget(b) /\ custody[b] \notin Alive
      BY <1>1, <2>2, FindsOwn DEF RefreshFindsNothing
    <3>2. ImplementsCustody!Release(b)
      BY <1>4, <3>1 DEF Forget, Keep, ImplementsCustody!Release
    <3> QED BY <1>1, <3>1, <3>2, ForgetStands DEF CustodyStep
  <2>3. CASE RefreshFinds(b)
    <3>1. PICK o \in Alive :
             /\ ReadFinds(IdType, record[b].id, o)
             /\ record' = [record EXCEPT ![b].id = GetID(IdType, o, router[o]),
                                         ![b].item = router[o]]
             /\ custody' = [custody EXCEPT ![b] = o]
      BY <2>3 DEF RefreshFinds, Keep
    <3>2. o = custody[b] /\ o # Nobody /\ GetID(IdType, o, router[o]) = o
      <4>1. o = custody[b] /\ custody[b] \in Object
        BY <1>1, <3>1, FindsOwn, IdOfRecord
      <4> QED BY <4>1 DEF ApiById, GetID, Object, Nobody
    <3>3. custody' = custody
      BY <3>1, <3>2 DEF CustodyInv, TypeInv, TypeOK
    <3>4. record[b] \in [id : Id, item : Item \cup {NoItem}, tainted : BOOLEAN]
      BY <1>1 DEF TypeInv, TypeOK, Record
    <3>5. /\ record'[b].id = custody[b]
          /\ \A c \in Block \ {b} : record'[c] = record[c]
      BY <1>1, <3>1, <3>2, <3>4 DEF TypeInv, TypeOK
    <3> QED BY <3>2, <3>3, <3>5 DEF RecordNamesCustody, CustodyStep
  <2> QED BY <2>1, <2>2, <2>3
<1>6. Mine(b)'
  BY <1>3, <1>4, <1>5, LandsWell
<1> QED BY <1>3, <1>4, <1>5, <1>6 DEF Kept, OthersStand

LEMMA CreateKeeps ==
    ASSUME ApiById, CustodyInv, NEW b \in Block,
           CreateFails(b) \/ CreateAnswered(b) \/ CreateAnswerEmpty(b)
    PROVE  Kept(b)
<1>1. /\ TypeInv /\ Mine(b) /\ pc[b] = "create" /\ record[b] = NoRecord
      /\ ~CreateAnswerEmpty(b)
  BY DEF CustodyInv, Mine, CreateFails, CreateAnswered, CreateAnswerEmpty, ApiById
<1>2. custody[b] = Nobody
  <2>1. \A id \in Object : NoRecord.id # id
    BY LifecycleAssumption DEF NoRecord, Object
  <2> QED BY <1>1, <2>1 DEF Mine, RecordNamesCustody, TypeInv, TypeOK
<1>3. /\ born' \in Nat /\ born' >= born /\ NothingUnborn'
      /\ Born(b) => born' \in Object /\ born' = born + 1 /\ born' \in Alive'
  <2>1. CASE NothingMade /\ ~Born(b)
    BY <2>1, NothingMadeKeeps
  <2>2. CASE Born(b)
    <3>1. RouterType /\ want[b] \in Item
      BY <1>1, BeforeStep DEF ItemPC
    <3>2. born' = born + 1 /\ born' \in Object
      BY <2>2, <3>1, BornTyped
    <3>3. router' = [router EXCEPT ![born + 1] = want[b]]
      BY <2>2 DEF Born, Put
    <3>4. router'[born'] # NoItem
      BY <3>1, <3>2, <3>3, LifecycleAssumption DEF RouterType, Item
    <3>5. NothingUnborn'
      BY <3>1, <3>2, <3>3, LifecycleAssumption
         DEF CustodyInv, NothingUnborn, RouterType, Object
    <3> QED BY <3>1, <3>2, <3>4, <3>5, LifecycleAssumption
            DEF Alive, RouterType, Object
  <2> QED BY <1>1, <2>1, <2>2 DEF CreateFails, CreateAnswered
<1>4. CASE CreateFails(b)
  <2>1. UNCHANGED stateVars /\ Finish(b, "error")
    BY <1>4 DEF CreateFails
  <2>2. /\ record' = record /\ custody' = custody /\ pc'[b] = "done"
        /\ \A c \in Block \ {b} : pc'[c] = pc[c] /\ target'[c] = target[c]
    BY <1>1, <2>1, FinishLands, FlowStands DEF stateVars
  <2>3. Mine(b)'
    BY <1>1, <1>3, <2>2, LandsWell DEF RecordNamesCustody, Mine
  <2> QED BY <1>3, <2>2, <2>3 DEF Kept, OthersStand, CustodyStep
<1>5. CASE CreateAnswered(b)
  <2>1. /\ Born(b) /\ SetId(b, born', want[b], born')
        /\ Proceed(b, "reread", born')
    BY <1>5 DEF CreateAnswered, Created, ApiById, GetID
  <2>2. /\ pc'[b] = "reread" /\ target'[b] = born'
        /\ \A c \in Block \ {b} : pc'[c] = pc[c] /\ target'[c] = target[c]
    BY <1>1, <2>1, ProceedLands, FlowStands
  <2>3. /\ record'[b].id = born' /\ custody' = [custody EXCEPT ![b] = born']
        /\ custody'[b] = born'
        /\ \A c \in Block \ {b} : record'[c] = record[c] /\ custody'[c] = custody[c]
    BY <1>1, <2>1 DEF SetId, Keep, TypeInv, TypeOK
  <2>4. Mine(b)'
    BY <1>3, <2>1, <2>2, <2>3 DEF Mine, RecordNamesCustody, Object, Nobody
  <2>5. ImplementsCustody!Take(b, born')
    <3>1. \A c \in Block : custody[c] # born'
      BY <1>3, <2>1, LifecycleAssumption
         DEF CustodyInv, Mine, TypeInv, TypeOK, Object, Nobody
    <3> QED BY <1>2, <1>3, <2>1, <2>3, <3>1
            DEF ImplementsCustody!Take, ImplementsCustody!Free
  <2> QED BY <1>3, <2>1, <2>2, <2>3, <2>4, <2>5 DEF Kept, OthersStand, CustodyStep
<1> QED BY <1>1, <1>4, <1>5

LEMMA RereadKeeps ==
    ASSUME ApiById, CustodyInv, NEW b \in Block,
           RereadFinds(b) \/ RereadFails(b)
    PROVE  Kept(b)
<1>1. TypeInv /\ Mine(b) /\ record[b] # NoRecord
  BY DEF CustodyInv, TypeInv, Consistent, RecordPC, RereadFinds, RereadFails
<1>2. PICK outcome, item : Finish(b, outcome) /\ NothingMade
                           /\ (SetItem(b, item) \/ Taint(b))
  BY DEF RereadFinds, RereadFails
<1>3. /\ pc'[b] = "done"
      /\ \A c \in Block \ {b} : pc'[c] = pc[c] /\ target'[c] = target[c]
  BY <1>1, <1>2, FinishLands, FlowStands
<1>4. born' \in Nat /\ born' >= born /\ NothingUnborn'
  BY <1>2, NothingMadeKeeps
<1>5. /\ custody' = custody /\ RecordNamesCustody(b)'
      /\ \A c \in Block \ {b} : record'[c] = record[c]
  BY <1>1, <1>2, SetItemStands
<1>6. Mine(b)'
  BY <1>3, <1>4, <1>5, LandsWell
<1> QED BY <1>3, <1>4, <1>5, <1>6 DEF Kept, OthersStand, CustodyStep

\* A lookup leaves the records alone and hands over the block's own object.
LEMMA FindsKeeps ==
    ASSUME ApiById, CustodyInv, NEW b \in Block, record[b] # NoRecord,
           NEW then \in {"update", "delete"}, Finds(b, then), NothingMade
    PROVE  Kept(b)
<1>1. TypeInv /\ Mine(b)
  BY DEF CustodyInv
<1>2. PICK o \in Alive : ReadFinds(IdType, record[b].id, o) /\ Proceed(b, then, o)
  BY DEF Finds
<1>3. o = custody[b]
  BY <1>1, <1>2, FindsOwn
<1>4. /\ pc'[b] = then /\ target'[b] = custody[b]
      /\ \A c \in Block \ {b} : pc'[c] = pc[c] /\ target'[c] = target[c]
  BY <1>1, <1>2, <1>3, ProceedLands, FlowStands
<1>5. record' = record /\ custody' = custody
  BY DEF Finds, stateVars
<1>6. born' \in Nat /\ born' = born /\ born' >= born /\ NothingUnborn'
  BY NothingMadeKeeps
<1>7. Mine(b)'
  BY <1>1, <1>4, <1>5, <1>6 DEF Mine, RecordNamesCustody
<1> QED BY <1>4, <1>5, <1>6, <1>7 DEF Kept, OthersStand, CustodyStep

LEMMA NoLongerExistsReleases ==
    ASSUME ApiById, CustodyInv, NEW b \in Block, record[b] # NoRecord,
           NoLongerExists(b), NothingMade
    PROVE  /\ RecordNamesCustody(b)' /\ CustodyStep(b)
           /\ record'[b] = NoRecord /\ custody'[b] = Nobody
           /\ \A c \in Block \ {b} : record'[c] = record[c] /\ custody'[c] = custody[c]
<1>1. Forget(b) /\ custody[b] \notin Alive
  BY FindsOwn DEF CustodyInv, NoLongerExists
<1>2. ImplementsCustody!Release(b)
  BY <1>1, NothingMadeKeeps DEF Forget, Keep, ImplementsCustody!Release
<1> QED BY <1>1, <1>2, ForgetStands DEF CustodyInv, CustodyStep

LEMMA FindUpdateKeeps ==
    ASSUME ApiById, CustodyInv, NEW b \in Block, FindUpdate(b)
    PROVE  Kept(b)
<1>1. TypeInv /\ Mine(b) /\ record[b] # NoRecord /\ NothingMade
  BY DEF CustodyInv, TypeInv, Consistent, RecordPC, FindUpdate
<1>2. born' \in Nat /\ born' >= born /\ NothingUnborn'
  BY <1>1, NothingMadeKeeps
<1>3. CASE Finds(b, "update")
  BY <1>1, <1>3, FindsKeeps
<1>4. CASE NoLongerExists(b) /\ Finish(b, "error")
  <2>1. /\ pc'[b] = "done"
        /\ \A c \in Block \ {b} : pc'[c] = pc[c] /\ target'[c] = target[c]
    BY <1>1, <1>4, FinishLands, FlowStands
  <2>2. Mine(b)'
    BY <1>1, <1>2, <1>4, <2>1, NoLongerExistsReleases, LandsWell
  <2> QED BY <1>1, <1>2, <1>4, <2>1, <2>2, NoLongerExistsReleases
          DEF Kept, OthersStand
<1>5. CASE ReadFails /\ SetItem(b, want[b]) /\ Finish(b, "error")
  <2>1. /\ pc'[b] = "done"
        /\ \A c \in Block \ {b} : pc'[c] = pc[c] /\ target'[c] = target[c]
    BY <1>1, <1>5, FinishLands, FlowStands
  <2>2. /\ custody' = custody /\ RecordNamesCustody(b)'
        /\ \A c \in Block \ {b} : record'[c] = record[c]
    BY <1>1, <1>5, SetItemStands
  <2>3. Mine(b)'
    BY <1>2, <2>1, <2>2, LandsWell
  <2> QED BY <1>2, <2>1, <2>2, <2>3 DEF Kept, OthersStand, CustodyStep
<1> QED BY <1>3, <1>4, <1>5 DEF FindUpdate

\* A change or removal of a living object makes no new one.
LEMMA ExecutedKeeps ==
    ASSUME CustodyInv, NEW b \in Block, NEW item, target[b] \in Object,
           UNCHANGED router \/ Executed(b, item), UNCHANGED born
    PROVE  born' \in Nat /\ born' >= born /\ NothingUnborn'
BY LifecycleAssumption
   DEF CustodyInv, TypeInv, TypeOK, Executed, Put, NothingUnborn

LEMMA OwnTarget ==
    ASSUME CustodyInv, NEW b \in Block, pc[b] \in {"update", "delete"}
    PROVE  /\ TypeInv /\ Mine(b) /\ record[b] # NoRecord
           /\ target[b] = custody[b] /\ target[b] \in Object
<1>1. TypeInv /\ Mine(b) /\ record[b] # NoRecord
  BY DEF CustodyInv, TypeInv, Consistent, RecordPC
<1> QED BY <1>1, IdOfRecord DEF Mine

LEMMA UpdateKeeps ==
    ASSUME CustodyInv, NEW b \in Block, UpdateFails(b) \/ Updated(b)
    PROVE  Kept(b)
<1>1. PICK outcome : /\ SetItem(b, want[b]) /\ Finish(b, outcome)
                     /\ UNCHANGED router \/ Executed(b, want[b])
                     /\ UNCHANGED born
  BY DEF UpdateFails, Updated
<1>2. /\ TypeInv /\ Mine(b) /\ record[b] # NoRecord /\ target[b] \in Object
  BY OwnTarget DEF UpdateFails, Updated
<1>3. born' \in Nat /\ born' >= born /\ NothingUnborn'
  BY <1>1, <1>2, ExecutedKeeps
<1>4. /\ pc'[b] = "done"
      /\ \A c \in Block \ {b} : pc'[c] = pc[c] /\ target'[c] = target[c]
  BY <1>1, <1>2, FinishLands, FlowStands
<1>5. /\ custody' = custody /\ RecordNamesCustody(b)'
      /\ \A c \in Block \ {b} : record'[c] = record[c]
  BY <1>1, <1>2, SetItemStands
<1>6. Mine(b)'
  BY <1>3, <1>4, <1>5, LandsWell
<1> QED BY <1>3, <1>4, <1>5, <1>6 DEF Kept, OthersStand, CustodyStep

\* Where a deletion lands, once the record is gone.
LEMMA AfterDeleteKeeps ==
    ASSUME CustodyInv, NEW b \in Block, AfterDelete(b),
           record'[b] = NoRecord, custody'[b] = Nobody,
           born' \in Nat, born' >= born
    PROVE  /\ Mine(b)'
           /\ \A c \in Block \ {b} : pc'[c] = pc[c] /\ target'[c] = target[c]
<1>1. TypeInv
  BY DEF CustodyInv
<1>2. CASE want[b] = NoItem
  <2>1. Finish(b, "ok")
    BY <1>2 DEF AfterDelete
  <2>2. pc'[b] = "done"
    BY <1>1, <2>1, FinishLands
  <2>3. \A c \in Block \ {b} : pc'[c] = pc[c] /\ target'[c] = target[c]
    BY <1>1, <2>1, FlowStands
  <2> QED BY <2>2, <2>3 DEF Mine, RecordNamesCustody, Nobody
<1>3. CASE want[b] # NoItem
  <2>1. Proceed(b, "create", Nobody)
    BY <1>3 DEF AfterDelete
  <2>2. pc'[b] = "create"
    BY <1>1, <2>1, ProceedLands
  <2>3. \A c \in Block \ {b} : pc'[c] = pc[c] /\ target'[c] = target[c]
    BY <1>1, <2>1, FlowStands
  <2> QED BY <2>2, <2>3 DEF Mine, RecordNamesCustody, Nobody
<1> QED BY <1>2, <1>3

LEMMA FindDeleteKeeps ==
    ASSUME ApiById, CustodyInv, NEW b \in Block, FindDelete(b)
    PROVE  Kept(b)
<1>1. TypeInv /\ Mine(b) /\ record[b] # NoRecord /\ NothingMade
  BY DEF CustodyInv, TypeInv, Consistent, RecordPC, FindDelete
<1>2. born' \in Nat /\ born' >= born /\ NothingUnborn'
  BY <1>1, NothingMadeKeeps
<1>3. CASE Finds(b, "delete")
  BY <1>1, <1>3, FindsKeeps
<1>4. CASE NoLongerExists(b) /\ AfterDelete(b)
  <2>1. /\ RecordNamesCustody(b)' /\ CustodyStep(b)
        /\ record'[b] = NoRecord /\ custody'[b] = Nobody
        /\ \A c \in Block \ {b} : record'[c] = record[c] /\ custody'[c] = custody[c]
    BY <1>1, <1>4, NoLongerExistsReleases
  <2> QED BY <1>2, <1>4, <2>1, AfterDeleteKeeps DEF Kept, OthersStand
<1>5. CASE ReadFails /\ UNCHANGED stateVars /\ Finish(b, "error")
  <2>1. /\ pc'[b] = "done"
        /\ \A c \in Block \ {b} : pc'[c] = pc[c] /\ target'[c] = target[c]
    BY <1>1, <1>5, FinishLands, FlowStands
  <2>2. record' = record /\ custody' = custody /\ RecordNamesCustody(b)'
    BY <1>1, <1>5 DEF stateVars, Mine, RecordNamesCustody
  <2>3. Mine(b)'
    BY <1>2, <2>1, <2>2, LandsWell
  <2> QED BY <1>2, <2>1, <2>2, <2>3 DEF Kept, OthersStand, CustodyStep
<1> QED BY <1>3, <1>4, <1>5 DEF FindDelete

LEMMA DeleteKeeps ==
    ASSUME CustodyInv, NEW b \in Block, DeleteFails(b) \/ Deleted(b)
    PROVE  Kept(b)
<1>1. /\ TypeInv /\ Mine(b) /\ record[b] # NoRecord
      /\ target[b] = custody[b] /\ target[b] \in Object
  BY OwnTarget DEF DeleteFails, Deleted
<1>2. UNCHANGED router \/ Executed(b, NoItem)
  BY DEF DeleteFails, Deleted
<1>3. born' \in Nat /\ born' >= born /\ NothingUnborn'
  BY <1>1, <1>2, ExecutedKeeps DEF DeleteFails, Deleted
<1>4. CASE DeleteFails(b)
  <2>1. /\ pc'[b] = "done"
        /\ \A c \in Block \ {b} : pc'[c] = pc[c] /\ target'[c] = target[c]
    BY <1>1, <1>4, FinishLands, FlowStands DEF DeleteFails
  <2>2. record' = record /\ custody' = custody /\ RecordNamesCustody(b)'
    BY <1>1, <1>4 DEF DeleteFails, stateVars, Mine, RecordNamesCustody
  <2>3. Mine(b)'
    BY <1>3, <2>1, <2>2, LandsWell
  <2> QED BY <1>3, <2>1, <2>2, <2>3 DEF Kept, OthersStand, CustodyStep
<1>5. CASE Deleted(b)
  <2>1. Executed(b, NoItem) /\ Forget(b) /\ AfterDelete(b)
    BY <1>5 DEF Deleted
  <2>2. custody[b] \notin Alive'
    BY <1>1, <2>1 DEF Executed, Put, Alive, TypeInv, TypeOK
  <2>3. ImplementsCustody!Release(b)
    BY <2>1, <2>2 DEF Forget, Keep, ImplementsCustody!Release
  <2>4. /\ record'[b] = NoRecord /\ custody'[b] = Nobody
        /\ \A c \in Block \ {b} : record'[c] = record[c] /\ custody'[c] = custody[c]
    BY <1>1, <2>1, ForgetStands
  <2> QED BY <1>3, <2>1, <2>3, <2>4, AfterDeleteKeeps
          DEF Kept, OthersStand, CustodyStep
<1> QED BY <1>4, <1>5

LEMMA ApplyKeeps ==
    ASSUME CustodyInv, NEW b \in Block, Apply(b)
    PROVE  Kept(b)
<1>1. TypeInv /\ Mine(b) /\ NothingMade
  BY DEF CustodyInv, Apply
<1>2. record' = record /\ custody' = custody /\ target' = target
  BY DEF Apply, stateVars
<1>3. born' \in Nat /\ born' >= born /\ NothingUnborn' /\ born' = born
  BY <1>1, NothingMadeKeeps
<1>4. /\ pc'[b] \in {"done", "create", "findDelete", "findUpdate"}
      /\ pc'[b] = "create" => record[b] = NoRecord
      /\ \A c \in Block \ {b} : pc'[c] = pc[c]
  <2>1. pc' = [pc EXCEPT ![b] = Operation(b)]
    BY DEF Apply, Goto
  <2>2. Operation(b) = "create" => record[b] = NoRecord
    BY DEF Operation
  <2> QED BY <1>1, <2>1, <2>2, OperationTyped DEF TypeInv, TypeOK
<1>5. Mine(b)'
  BY <1>1, <1>2, <1>3, <1>4 DEF Mine, RecordNamesCustody
<1> QED BY <1>2, <1>3, <1>4, <1>5 DEF Kept, OthersStand, CustodyStep

-----------------------------------------------------------------------------

LEMMA HandleKeeps ==
    ASSUME ApiById, CustodyInv, NEW b \in Block, Handle(b)
    PROVE  Kept(b)
<1>1. ~(\/ ImportFails(b) \/ ImportGiven(b) \/ ImportFinds(b)
        \/ ImportReadFails(b) \/ ImportReadFinds(b)
        \/ LookupFinds(b) \/ LookupFails(b))
  BY DEF CustodyInv, Mine, ImportFails, ImportGiven, ImportFinds,
         ImportReadFails, ImportReadFinds, LookupFinds, LookupFails
<1> QED BY <1>1, RefreshKeeps, CreateKeeps, RereadKeeps, FindUpdateKeeps,
           UpdateKeeps, FindDeleteKeeps, DeleteKeeps, ApplyKeeps DEF Handle

\* Between runs and in other people's hands, nobody's custody changes.
LEMMA NextRunKeeps ==
    ASSUME ApiById, CustodyInv, NextRun
    PROVE  UNCHANGED custody /\ NothingUnborn' /\ \A b \in Block : Mine(b)'
<1>1. UNCHANGED <<router, born, record, custody, target>>
  BY DEF NextRun, routerVars, stateVars
<1>2. NothingUnborn'
  BY <1>1 DEF CustodyInv, NothingUnborn
<1>3. ASSUME NEW b \in Block PROVE Mine(b)'
  <2>1. PICK w : pc' = [c \in Block |-> FirstStep(c, w)]
    BY DEF NextRun
  <2>2. pc'[b] \in {"refresh", "plan"}
    BY <2>1 DEF FirstStep, ApiById
  <2> QED BY <1>1, <2>2 DEF CustodyInv, Mine, RecordNamesCustody
<1> QED BY <1>1, <1>2, <1>3

LEMMA OutsideKeeps ==
    ASSUME CustodyInv, Outside
    PROVE  UNCHANGED custody /\ NothingUnborn' /\ \A b \in Block : Mine(b)'
<1>1. UNCHANGED <<record, custody, target, pc>>
  BY DEF Outside, stateVars
<1>2. PICK item \in Item \cup {NoItem}, o \in Object :
         Put(o, item) /\ born' = IF o > born THEN o ELSE born
  BY DEF Outside
<1>3. born \in Nat /\ born' \in Nat /\ born' >= born /\ o <= born'
  BY <1>2, LifecycleAssumption DEF CustodyInv, TypeInv, TypeOK, Object
<1>4. NothingUnborn'
  BY <1>2, <1>3, LifecycleAssumption
     DEF CustodyInv, TypeInv, TypeOK, NothingUnborn, Put, Object
<1>5. ASSUME NEW b \in Block PROVE Mine(b)'
  <2>1. custody[b] \in Nat /\ custody[b] <= born
    BY LifecycleAssumption DEF CustodyInv, Mine, TypeInv, TypeOK, Object, Nobody
  <2>2. custody'[b] <= born'
    BY <1>1, <1>3, <2>1
  <2> QED BY <1>1, <2>2 DEF CustodyInv, Mine, RecordNamesCustody
<1> QED BY <1>1, <1>4, <1>5

LEMMA InitHasCustody == ApiById /\ Init => CustodyInv
<1> SUFFICES ASSUME ApiById, Init PROVE CustodyInv
  OBVIOUS
<1>1. TypeInv
  BY InitHasType
<1>2. NothingUnborn
  BY DEF Init, NothingUnborn
<1>3. ASSUME NEW b \in Block PROVE Mine(b)
  <2>1. pc[b] = "plan"
    BY DEF Init, FirstStep, ApiById
  <2> QED BY <2>1 DEF Init, Mine, RecordNamesCustody, Nobody
<1> QED BY <1>1, <1>2, <1>3 DEF CustodyInv

LEMMA CustodyInvStep ==
    ASSUME ApiById, CustodyInv, [Next]_vars PROVE CustodyInv'
<1>1. TypeInv'
  BY TypeInvStep DEF CustodyInv
<1>2. CASE \E b \in Block : Handle(b)
  BY <1>1, <1>2, HandleKeeps, KeptIsEnough
<1>3. CASE NextRun
  BY <1>1, <1>3, NextRunKeeps DEF CustodyInv
<1>4. CASE Outside
  BY <1>1, <1>4, OutsideKeeps DEF CustodyInv
<1>5. CASE UNCHANGED vars
  BY <1>1, <1>5 DEF CustodyInv, NothingUnborn, Mine, RecordNamesCustody, vars,
                    routerVars, stateVars
<1> QED BY <1>2, <1>3, <1>4, <1>5 DEF Next

\* Over the API, and with internal ids, every record names the object the
\* block has custody of and every handler works on that object.
THEOREM RecordsAreKept == ApiById /\ Spec => []CustodyInv
<1> SUFFICES ASSUME ApiById PROVE Spec => []CustodyInv
  OBVIOUS
<1>1. Init => CustodyInv
  BY InitHasCustody
<1>2. CustodyInv /\ [Next]_vars => CustodyInv'
  BY CustodyInvStep
<1> QED BY <1>1, <1>2, PTL DEF Spec

LEMMA StepIsCustodyStep ==
    ASSUME ApiById, CustodyInv, [Next]_vars
    PROVE  [ImplementsCustody!Next]_(ImplementsCustody!vars)
<1>1. Alive' \subseteq Object
  BY DEF Alive
<1>2. CASE \E b \in Block : Handle(b)
  <2>1. PICK b \in Block : CustodyStep(b)
    BY <1>2, HandleKeeps DEF Kept
  <2> QED BY <1>1, <2>1 DEF CustodyStep, ImplementsCustody!Next
<1>3. CASE NextRun \/ Outside
  BY <1>1, <1>3, NextRunKeeps, OutsideKeeps DEF ImplementsCustody!Next
<1>4. CASE UNCHANGED vars
  BY <1>4 DEF vars, routerVars, stateVars, Alive, ImplementsCustody!vars
<1> QED BY <1>2, <1>3, <1>4 DEF Next

\* ResourceCreate, Read, Update and Delete over the API implement Custody: a
\* block's object is never lost from the state while the router has it, and
\* no two blocks manage the same object, whatever fails and whoever else
\* changes the router.
THEOREM LifecycleImplementsCustody == ApiById /\ Spec => CustodySpec
<1> SUFFICES ASSUME ApiById PROVE Spec => CustodySpec
  OBVIOUS
<1>1. Init => ImplementsCustody!Init
  BY DEF Init, ImplementsCustody!Init, Alive
<1>2. CustodyInv /\ [Next]_vars
         => [ImplementsCustody!Next]_(ImplementsCustody!vars)
  BY StepIsCustodyStep
<1>3. Spec => []CustodyInv
  BY RecordsAreKept
<1> QED BY <1>1, <1>2, <1>3, PTL DEF Spec, CustodySpec, ImplementsCustody!Spec

ForgottenStep ==
    \A b \in Block : custody[b] # Nobody /\ custody'[b] = Nobody
        => router'[custody[b]] = NoItem

\* "Resource not found" means that it is gone: over the API, and with internal
\* ids, ResourceRead, Update and Delete drop a block's object from the state
\* only when the router no longer has it.
THEOREM ForgottenIsGone == ApiById /\ Spec => ForgottenOnlyWhenGone
<1> SUFFICES ASSUME ApiById PROVE Spec => ForgottenOnlyWhenGone
  OBVIOUS
<1>1. ASSUME CustodyInv, [Next]_vars PROVE ForgottenStep
  <2>1. [ImplementsCustody!Next]_(ImplementsCustody!vars)
    BY <1>1, StepIsCustodyStep
  <2>2. custody \in [Block -> Object \cup {Nobody}]
    BY <1>1 DEF CustodyInv, TypeInv, TypeOK
  <2>3. ASSUME NEW b \in Block, custody[b] # Nobody, custody'[b] = Nobody
        PROVE  custody[b] \in Object /\ custody[b] \notin Alive'
    <3>1. custody[b] \in Object
      BY <2>2, <2>3
    <3>2. custody' # custody
      BY <2>3
    <3>3. \/ \E c \in Block, o \in Object : ImplementsCustody!Take(c, o)
          \/ \E c \in Block : ImplementsCustody!Release(c)
      BY <2>1, <3>2 DEF ImplementsCustody!Next, ImplementsCustody!vars
    <3>4. \A o \in Object : o # Nobody
      BY DEF Object, Nobody
    <3> QED BY <2>2, <2>3, <3>1, <3>3, <3>4
            DEF ImplementsCustody!Take, ImplementsCustody!Release
  <2> QED BY <2>3 DEF ForgottenStep, Alive
<1>2. CustodyInv /\ [Next]_vars => [ForgottenStep]_vars
  BY <1>1
<1>3. Spec => []CustodyInv
  BY RecordsAreKept
<1>4. Spec => [][ForgottenStep]_vars
  BY <1>2, <1>3, PTL DEF Spec
<1> QED BY <1>4 DEF ForgottenOnlyWhenGone, ForgottenStep

=============================================================================
