---------------------- MODULE ResourceLifecycleSuccess ----------------------
(***************************************************************************)
(* That a success which the lifecycle reports is one: what was created is  *)
(* recorded, what was applied is on the router, and a second plan is       *)
(* empty.  The invariant is about objects and blocks: no two blocks have   *)
(* to do with one object, and a block that is done without an error has    *)
(* its object as configured while nobody else interferes.                  *)
(*                                                                         *)
(* Objects are identified by the internal id and created by Terraform.     *)
(* Over REST an empty answer makes a creation look its object up by name;  *)
(* it finds its own only if nobody else renames or removes objects at all. *)
(* Imports come at the end, with what needs less: whose object a handler   *)
(* changes.                                                                *)
(***************************************************************************)
EXTENDS ResourceLifecycleRefinement

ById ==
    /\ IdType = "Id" /\ Importing = {}
    /\ Transport = "API" \/ MaxOutside = 0

AsConfigured(b) ==
    IF want[b] = NoItem THEN custody[b] = Nobody
    ELSE custody[b] # Nobody /\ router[custody[b]] = want[b]

\* What a block's handler has in its hands is the object of its record.
Holds(b) ==
    /\ RecordNamesCustody(b)
    /\ pc[b] \in {"update", "delete", "reread"} => target[b] = custody[b]
    /\ pc[b] \in {"create", "lookup"} => record[b] = NoRecord
    /\ pc[b] \notin {"importFind", "importRead"}
    /\ custody[b] <= born /\ made[b] <= born

\* What it has created is recorded, unless an error is reported.
Records(b) ==
    /\ pc[b] \notin {"lookup", "reread", "done"} => made[b] = Nobody
    /\ pc[b] = "reread" => custody[b] = made[b]
    /\ pc[b] = "lookup" =>
           MaxOutside = 0 /\ made[b] # Nobody /\ router[made[b]] = want[b]
    /\ pc[b] = "done" /\ made[b] # Nobody =>
           result[b] = "error" \/ custody[b] = made[b]

\* What it has read, asked for and reported is so.
Attains(b) ==
    /\ pc[b] \in {"reread", "findUpdate", "update"}
           \/ (pc[b] = "done" /\ result[b] = "ok") => ~record[b].tainted
    /\ calm =>
           /\ pc[b] = "plan" /\ record[b] # NoRecord =>
                  router[custody[b]] = record[b].item
           /\ pc[b] = "reread" => router[custody[b]] = want[b]
           /\ pc[b] = "done" /\ result[b] = "ok" => AsConfigured(b)

Apart(b, c) ==
    /\ custody[b] # Nobody => custody[b] # custody[c]
    /\ made[b] # Nobody => made[b] # made[c] /\ made[b] # custody[c]

Local(b) == Holds(b) /\ Records(b) /\ Attains(b)

SuccessInv ==
    /\ TypeInv /\ NothingUnborn
    /\ \A b \in Block : Local(b)
    /\ \A b, c \in Block : b # c => Apart(b, c)

\* A run that follows a success in peace.
InPeace(b) ==
    /\ AsConfigured(b) /\ ~record[b].tainted
    /\ pc[b] \in {"refresh", "plan", "aborted", "done"}
    /\ pc[b] = "plan" => record[b] = NoRecord \/ record[b].item = want[b]

SettledInv == settled => calm /\ \A b \in Block : InPeace(b)

-----------------------------------------------------------------------------
(* What the parts of a handler do to its own block and to the others.      *)

\* The others keep all that is theirs.
Frame(b) ==
    /\ \A c \in Block \ {b} :
          /\ record'[c] = record[c] /\ custody'[c] = custody[c]
          /\ pc'[c] = pc[c] /\ target'[c] = target[c]
          /\ result'[c] = result[c] /\ made'[c] = made[c]
    /\ want' = want /\ calm' = calm

\* The router has one object more, or the block's own is another.
OnRouter(b) ==
    \/ router' = router /\ born' = born /\ made' = made
    \/ /\ born' = born + 1 /\ born' \in Object /\ made'[b] = born'
       /\ router' = [router EXCEPT ![born'] = want[b]]
    \/ /\ born' = born /\ made' = made /\ custody[b] # Nobody
       /\ \E item : router' = [router EXCEPT ![custody[b]] = item]

InCustody(b) == custody'[b] \in {custody[b], Nobody, made'[b]}

\* What a handler's step must come to.
Does(b) == Frame(b) /\ OnRouter(b) /\ InCustody(b) /\ Local(b)'

LEMMA OwnBlock ==
    ASSUME SuccessInv, NEW b \in Block
    PROVE  /\ TypeInv /\ Local(b)
           /\ record[b] \in Record /\ custody[b] \in Object \cup {Nobody}
           /\ custody[b] # Nobody => custody[b] \in Object /\ record[b].id = custody[b]
           /\ record[b] # NoRecord <=> custody[b] # Nobody
           /\ custody[b] \in Nat /\ made[b] \in Nat /\ born \in Nat /\ Nobody <= born
           /\ pc[b] \in RecordPC => record[b] # NoRecord
           /\ pc[b] \in ItemPC => want[b] # NoItem
<1>1. TypeInv /\ Local(b) /\ TypeOK /\ Consistent(b)
  BY DEF SuccessInv, TypeInv
<1>2. custody[b] \in Nat /\ made[b] \in Nat /\ born \in Nat /\ Nobody <= born
  BY <1>1, LifecycleAssumption DEF TypeOK, Object, Nobody
<1>3. custody[b] \in Object => NoRecord.id # custody[b]
  BY LifecycleAssumption DEF NoRecord, Object
<1> QED BY <1>1, <1>2, <1>3
        DEF TypeOK, Local, Holds, RecordNamesCustody, Consistent

LEMMA FinishDoes ==
    ASSUME TypeInv, NEW b \in Block, NEW outcome, Finish(b, outcome)
    PROVE  /\ pc'[b] = "done" /\ target'[b] = Nobody /\ result'[b] = outcome
           /\ \A c \in Block \ {b} : /\ pc'[c] = pc[c] /\ target'[c] = target[c]
                                     /\ result'[c] = result[c]
BY DEF TypeInv, TypeOK, Finish, Goto

LEMMA ProceedDoes ==
    ASSUME TypeInv, NEW b \in Block, NEW where, NEW o, Proceed(b, where, o)
    PROVE  /\ pc'[b] = where /\ target'[b] = o
           /\ \A c \in Block \ {b} : /\ pc'[c] = pc[c] /\ target'[c] = target[c]
                                     /\ result'[c] = result[c]
BY DEF TypeInv, TypeOK, Proceed, Goto

LEMMA ReadOrAbortDoes ==
    ASSUME TypeInv, NEW b \in Block, NEW where, ReadOrAbort(b, where)
    PROVE  /\ pc'[b] = where /\ NothingMade /\ Aside
           /\ \A c \in Block \ {b} : /\ pc'[c] = pc[c] /\ target'[c] = target[c]
                                     /\ result'[c] = result[c]
BY DEF TypeInv, TypeOK, ReadOrAbort

LEMMA ForgetDoes ==
    ASSUME TypeInv, NEW b \in Block, Forget(b)
    PROVE  /\ record'[b] = NoRecord /\ custody'[b] = Nobody
           /\ \A c \in Block \ {b} : record'[c] = record[c] /\ custody'[c] = custody[c]
BY DEF TypeInv, TypeOK, Forget, Keep

LEMMA SetIdDoes ==
    ASSUME TypeInv, NEW b \in Block, NEW id, NEW item, NEW o, SetId(b, id, item, o)
    PROVE  /\ record'[b] = [id |-> id, item |-> item, tainted |-> FALSE]
           /\ custody'[b] = o
           /\ \A c \in Block \ {b} : record'[c] = record[c] /\ custody'[c] = custody[c]
BY DEF TypeInv, TypeOK, SetId, Keep

\* The id stays, and with SetItem the taint.
LEMMA SetItemDoes ==
    ASSUME TypeInv, NEW b \in Block, record[b] # NoRecord,
           NEW item, SetItem(b, item) \/ Taint(b)
    PROVE  /\ record'[b].id = record[b].id /\ record'[b] # NoRecord
           /\ SetItem(b, item) => /\ record'[b].item = item
                                  /\ record'[b].tainted = record[b].tainted
           /\ custody' = custody
           /\ \A c \in Block \ {b} : record'[c] = record[c]
<1>1. record[b] \in [id : Id, item : Item \cup {NoItem}, tainted : BOOLEAN]
  BY DEF TypeInv, TypeOK, Record
<1>2. /\ record'[b].id = record[b].id
      /\ SetItem(b, item) => /\ record'[b].item = item
                             /\ record'[b].tainted = record[b].tainted
      /\ custody' = custody
      /\ \A c \in Block \ {b} : record'[c] = record[c]
  BY <1>1 DEF TypeInv, TypeOK, SetItem, Taint
<1>3. record[b].id # NoId
  BY <1>1, IdIsAnId
<1> QED BY <1>2, <1>3 DEF NoRecord

LEMMA AsideDoes ==
    ASSUME Aside PROVE want' = want /\ calm' = calm /\ settled' = settled
BY DEF Aside, historyVars

LEMMA NothingMadeDoes ==
    ASSUME NothingMade PROVE router' = router /\ born' = born /\ made' = made
BY DEF NothingMade

-----------------------------------------------------------------------------
(* What a step of one block leaves to all of them.                         *)

\* A new object is nobody's yet, and the one that is changed is the block's.
LEMMA OthersKeep ==
    ASSUME SuccessInv, NEW b \in Block, NEW c \in Block \ {b}, Does(b)
    PROVE  Local(c)'
<1>1. /\ TypeInv /\ Local(c)
      /\ custody[c] \in Object \cup {Nobody}
      /\ custody[c] \in Nat /\ made[c] \in Nat /\ born \in Nat
      /\ record[c] # NoRecord => custody[c] # Nobody
      /\ pc[c] \in RecordPC => record[c] # NoRecord
  BY OwnBlock
<1>2. /\ record'[c] = record[c] /\ custody'[c] = custody[c]
      /\ pc'[c] = pc[c] /\ target'[c] = target[c]
      /\ result'[c] = result[c] /\ made'[c] = made[c]
      /\ want'[c] = want[c] /\ calm' = calm
  BY DEF Does, Frame
<1>3. born' \in Nat /\ born' >= born
  BY <1>1 DEF Does, OnRouter
<1>4. made[c] \in Object \cup {Nobody} /\ router \in [Object -> Item \cup {NoItem}]
  BY <1>1 DEF TypeInv, TypeOK
<1>5. /\ custody[c] # Nobody => router'[custody[c]] = router[custody[c]]
      /\ made[c] # Nobody => router'[made[c]] = router[made[c]]
  <2>1. CASE router' = router
    BY <2>1
  <2>2. CASE born' = born + 1 /\ router' = [router EXCEPT ![born'] = want[b]]
    <3>1. custody[c] <= born /\ made[c] <= born
      BY <1>1 DEF Local, Holds
    <3> QED BY <1>1, <1>4, <2>2, <3>1
  <2>3. ASSUME NEW item, router' = [router EXCEPT ![custody[b]] = item],
               custody[b] # Nobody
        PROVE  /\ custody[c] # Nobody => router'[custody[c]] = router[custody[c]]
               /\ made[c] # Nobody => router'[made[c]] = router[made[c]]
    <3>1. Apart(b, c) /\ Apart(c, b)
      BY DEF SuccessInv
    <3> QED BY <1>1, <1>4, <2>3, <3>1 DEF Apart
  <2> QED BY <2>1, <2>2, <2>3 DEF Does, OnRouter
<1>6. Holds(c)'
  BY <1>1, <1>2, <1>3 DEF Local, Holds, RecordNamesCustody
<1>7. Records(c)'
  BY <1>1, <1>2, <1>5 DEF Local, Records
<1>8. Attains(c)'
  BY <1>1, <1>2, <1>5 DEF Local, Attains, AsConfigured, RecordPC
<1> QED BY <1>6, <1>7, <1>8 DEF Local

\* What a block takes is its own or new.
LEMMA ApartKept ==
    ASSUME SuccessInv, NEW b \in Block, Does(b), NEW c \in Block \ {b}
    PROVE  Apart(b, c)' /\ Apart(c, b)'
<1>1. Apart(b, c) /\ Apart(c, b) /\ Local(c)
  BY DEF SuccessInv
<1>2. /\ custody[c] \in Nat /\ made[c] \in Nat /\ born \in Nat
      /\ custody[c] <= born /\ made[c] <= born
  BY <1>1, OwnBlock DEF Local, Holds
<1>3. custody'[c] = custody[c] /\ made'[c] = made[c]
  BY DEF Does, Frame
<1>4. custody'[b] \in {custody[b], Nobody, made'[b]}
  BY DEF Does, InCustody
<1>5. made'[b] = made[b] \/ made'[b] = born + 1
  BY DEF Does, OnRouter
<1>6. CASE made'[b] = made[b]
  BY <1>1, <1>3, <1>4, <1>6 DEF Apart
<1>7. CASE made'[b] = born + 1
  <2>1. made'[b] # custody[c] /\ made'[b] # made[c]
    BY <1>2, <1>7
  <2> QED BY <1>1, <1>3, <1>4, <2>1 DEF Apart
<1> QED BY <1>5, <1>6, <1>7

LEMMA DoesIsEnough ==
    ASSUME SuccessInv, TypeInv', NEW b \in Block, Does(b)
    PROVE  SuccessInv'
<1>1. ASSUME NEW c \in Block PROVE Local(c)'
  BY OthersKeep DEF Does
<1>2. ASSUME NEW c \in Block, NEW d \in Block, c # d PROVE Apart(c, d)'
  <2>1. CASE c = b \/ d = b
    BY <1>2, <2>1, ApartKept
  <2>2. CASE c # b /\ d # b
    <3>1. /\ custody'[c] = custody[c] /\ made'[c] = made[c]
          /\ custody'[d] = custody[d] /\ made'[d] = made[d]
      BY <2>2 DEF Does, Frame
    <3> QED BY <1>2, <3>1 DEF SuccessInv, Apart
  <2> QED BY <2>1, <2>2
<1>3. NothingUnborn'
  <2>1. /\ NothingUnborn /\ born \in Nat /\ custody[b] \in Nat /\ custody[b] <= born
        /\ router \in [Object -> Item \cup {NoItem}]
    BY OwnBlock DEF SuccessInv, TypeInv, TypeOK, Local, Holds
  <2>2. \A o \in Object : o \in Nat
    BY DEF Object
  <2> QED BY <2>1, <2>2 DEF Does, OnRouter, NothingUnborn
<1> QED BY <1>1, <1>2, <1>3 DEF SuccessInv

-----------------------------------------------------------------------------
(* One lemma per handler: its step is one that SuccessInv survives.        *)

\* Only the object with the recorded id is found.
LEMMA FoundIsOwn ==
    ASSUME ById, SuccessInv, NEW b \in Block, record[b] # NoRecord,
           NEW o, ReadFinds(IdType, record[b].id, o)
    PROVE  /\ o = custody[b] /\ o # Nobody /\ o \in Object
           /\ router[o] \in Item /\ GetID(IdType, o, router[o]) = o
<1>1. o \in Alive /\ IdType = "Id" /\ o = record[b].id
  BY DEF ById, ReadFinds, Matching, GetID
<1>2. custody[b] # Nobody /\ record[b].id = custody[b]
  BY OwnBlock
<1>3. o \in Object /\ router[o] \in Item
  BY <1>1, OwnBlock DEF Alive, TypeInv, TypeOK
<1> QED BY <1>1, <1>2, <1>3 DEF GetID

\* The steps that leave the router alone and what is created too.
LEMMA FrameOfLookup ==
    ASSUME NEW b \in Block, NothingMade, Aside,
           \A c \in Block \ {b} :
               /\ record'[c] = record[c] /\ custody'[c] = custody[c]
               /\ pc'[c] = pc[c] /\ target'[c] = target[c]
               /\ result'[c] = result[c],
           custody'[b] \in {custody[b], Nobody}
    PROVE  Frame(b) /\ OnRouter(b) /\ InCustody(b)
BY NothingMadeDoes, AsideDoes DEF Frame, OnRouter, InCustody

LEMMA RefreshDoes ==
    ASSUME ById, SuccessInv, NEW b \in Block,
           RefreshFails(b) \/ RefreshFindsNothing(b) \/ RefreshFinds(b)
    PROVE  Does(b)
<1>1. pc[b] = "refresh"
  BY DEF RefreshFails, RefreshFindsNothing, RefreshFinds
<1>2. /\ TypeInv /\ Local(b) /\ record[b] # NoRecord /\ made[b] = Nobody
      /\ custody[b] \in Nat /\ born \in Nat /\ Nobody <= born
      /\ custody[b] <= born
  BY <1>1, OwnBlock DEF RecordPC, Local, Holds, Records
<1>3. PICK where \in {"aborted", "plan"} : ReadOrAbort(b, where)
  BY DEF RefreshFails, RefreshFindsNothing, RefreshFinds
<1>4. /\ pc'[b] = where /\ NothingMade /\ Aside
      /\ \A c \in Block \ {b} : /\ pc'[c] = pc[c] /\ target'[c] = target[c]
                                /\ result'[c] = result[c]
  BY <1>2, <1>3, ReadOrAbortDoes
<1>5. /\ router' = router /\ born' = born /\ made' = made
      /\ want' = want /\ calm' = calm
  BY <1>4, NothingMadeDoes, AsideDoes
<1>6. CASE RefreshFails(b)
  <2>1. record' = record /\ custody' = custody
    BY <1>6 DEF RefreshFails, stateVars
  <2>2. pc'[b] = "aborted"
    BY <1>2, <1>6, ReadOrAbortDoes DEF RefreshFails
  <2>3. Local(b)'
    BY <1>2, <1>5, <2>1, <2>2
       DEF Local, Holds, Records, Attains, RecordNamesCustody
  <2> QED BY <1>4, <2>1, <2>3, FrameOfLookup DEF Does
<1>7. CASE RefreshFindsNothing(b)
  <2>1. /\ record'[b] = NoRecord /\ custody'[b] = Nobody
        /\ \A c \in Block \ {b} : record'[c] = record[c] /\ custody'[c] = custody[c]
    BY <1>2, <1>7, ForgetDoes DEF RefreshFindsNothing
  <2>2. Local(b)'
    BY <1>2, <1>3, <1>4, <1>5, <2>1
       DEF Local, Holds, Records, Attains, RecordNamesCustody, NoRecord
  <2> QED BY <1>4, <2>1, <2>2, FrameOfLookup DEF Does
<1>8. CASE RefreshFinds(b)
  <2>1. PICK o \in Alive :
           /\ ReadFinds(IdType, record[b].id, o)
           /\ record' = [record EXCEPT ![b].id = GetID(IdType, o, router[o]),
                                       ![b].item = router[o]]
           /\ custody' = [custody EXCEPT ![b] = o]
    BY <1>8 DEF RefreshFinds, Keep
  <2>2. o = custody[b] /\ o # Nobody /\ GetID(IdType, o, router[o]) = o
    BY <1>2, <2>1, FoundIsOwn
  <2>3. custody' = custody
    BY <1>2, <2>1, <2>2 DEF TypeInv, TypeOK
  <2>4. record[b] \in [id : Id, item : Item \cup {NoItem}, tainted : BOOLEAN]
    BY <1>2 DEF TypeInv, TypeOK, Record
  <2>5. /\ record'[b].id = custody[b] /\ record'[b].item = router[custody[b]]
        /\ \A c \in Block \ {b} : record'[c] = record[c]
    BY <1>2, <2>1, <2>2, <2>4 DEF TypeInv, TypeOK
  <2>6. Local(b)'
    BY <1>2, <1>3, <1>4, <1>5, <2>2, <2>3, <2>5
       DEF Local, Holds, Records, Attains, RecordNamesCustody
  <2> QED BY <1>4, <2>3, <2>5, <2>6, FrameOfLookup DEF Does
<1> QED BY <1>6, <1>7, <1>8

LEMMA BornDoes ==
    ASSUME SuccessInv, NEW b \in Block, pc[b] = "create", Born(b)
    PROVE  /\ born' = born + 1 /\ born' \in Object /\ born' # Nobody
           /\ made'[b] = born'
           /\ \A c \in Block \ {b} : made'[c] = made[c]
           /\ router' = [router EXCEPT ![born'] = want[b]]
           /\ router'[born'] = want[b]
           /\ OnRouter(b)
<1>1. TypeOK /\ want[b] \in Item /\ RouterType
  BY OwnBlock, BeforeStep DEF TypeInv, ItemPC
<1>2. born' = born + 1 /\ born' \in Object
  BY <1>1, BornTyped
<1>3. made' = [made EXCEPT ![b] = born'] /\ router' = [router EXCEPT ![born'] = want[b]]
  BY <1>2 DEF Born, Put
<1>4. born' # Nobody
  BY <1>2 DEF Object, Nobody
<1> QED BY <1>1, <1>2, <1>3, <1>4 DEF RouterType, OnRouter

LEMMA CreateDoes ==
    ASSUME ById, SuccessInv, NEW b \in Block,
           CreateFails(b) \/ CreateAnswered(b) \/ CreateAnswerEmpty(b)
    PROVE  Does(b)
<1>1. pc[b] = "create" /\ Aside
  BY DEF CreateFails, CreateAnswered, CreateAnswerEmpty
<1>2. /\ TypeInv /\ Local(b) /\ record[b] = NoRecord /\ made[b] = Nobody
      /\ custody[b] = Nobody /\ want[b] # NoItem
      /\ born \in Nat /\ Nobody <= born
  <2>1. TypeInv /\ Local(b) /\ want[b] # NoItem /\ born \in Nat /\ Nobody <= born
    BY <1>1, OwnBlock DEF ItemPC
  <2>2. record[b] = NoRecord /\ made[b] = Nobody
    BY <1>1, <2>1 DEF Local, Holds, Records
  <2> QED BY <2>1, <2>2, OwnBlock
<1>3. want' = want /\ calm' = calm
  BY <1>1, AsideDoes
<1>4. CASE CreateFails(b)
  <2>1. /\ pc'[b] = "done" /\ result'[b] = "error"
        /\ \A c \in Block \ {b} : /\ pc'[c] = pc[c] /\ target'[c] = target[c]
                                  /\ result'[c] = result[c]
    BY <1>2, <1>4, FinishDoes DEF CreateFails
  <2>2. record' = record /\ custody' = custody
    BY <1>4 DEF CreateFails, stateVars
  <2>3. /\ OnRouter(b) /\ \A c \in Block \ {b} : made'[c] = made[c]
        /\ born' \in Nat /\ Nobody <= born' /\ made'[b] <= born'
    <3>1. CASE NothingMade
      BY <1>2, <3>1, NothingMadeDoes DEF OnRouter
    <3>2. CASE Born(b)
      BY <1>1, <1>2, <3>2, BornDoes DEF Nobody
    <3> QED BY <1>4, <3>1, <3>2 DEF CreateFails
  <2>4. Local(b)'
    BY <1>2, <2>1, <2>2, <2>3
       DEF Local, Holds, Records, Attains, RecordNamesCustody
  <2> QED BY <1>3, <2>1, <2>2, <2>3, <2>4 DEF Does, Frame, InCustody
<1>5. CASE Born(b)
  <2>1. /\ born' = born + 1 /\ born' \in Object /\ born' # Nobody
        /\ made'[b] = born'
        /\ \A c \in Block \ {b} : made'[c] = made[c]
        /\ router'[born'] = want[b]
        /\ OnRouter(b)
    BY <1>1, <1>5, BornDoes
  <2>2. born' \in Nat /\ born' <= born' /\ Nobody <= born'
    BY <1>2, <2>1 DEF Nobody
  <2>3. CASE CreateAnswered(b)
    <3>1. /\ SetId(b, born', want[b], born')
          /\ IF Transport = "API" THEN Proceed(b, "reread", born') ELSE Finish(b, "ok")
      BY <2>3 DEF CreateAnswered, Created, ById, GetID
    <3>2. /\ (pc'[b] = "reread" /\ target'[b] = born') \/ pc'[b] = "done"
          /\ \A c \in Block \ {b} : /\ pc'[c] = pc[c] /\ target'[c] = target[c]
                                    /\ result'[c] = result[c]
      BY <1>2, <3>1, FinishDoes, ProceedDoes
    <3>3. /\ record'[b] = [id |-> born', item |-> want[b], tainted |-> FALSE]
          /\ custody'[b] = born'
          /\ \A c \in Block \ {b} : record'[c] = record[c] /\ custody'[c] = custody[c]
      BY <1>2, <3>1, SetIdDoes
    <3>4. Local(b)'
      BY <1>2, <1>3, <2>1, <2>2, <3>2, <3>3
         DEF Local, Holds, Records, Attains, RecordNamesCustody, AsConfigured
    <3> QED BY <1>3, <2>1, <3>2, <3>3, <3>4 DEF Does, Frame, InCustody
  <2>4. CASE CreateAnswerEmpty(b)
    <3>1. /\ Transport = "REST" /\ Proceed(b, "lookup", Nobody)
          /\ record' = record /\ custody' = custody
      BY <2>4 DEF CreateAnswerEmpty, stateVars
    <3>2. MaxOutside = 0
      BY <3>1 DEF ById
    <3>3. /\ pc'[b] = "lookup"
          /\ \A c \in Block \ {b} : /\ pc'[c] = pc[c] /\ target'[c] = target[c]
                                    /\ result'[c] = result[c]
      BY <1>2, <3>1, ProceedDoes
    <3>4. Local(b)'
      BY <1>2, <1>3, <2>1, <2>2, <3>1, <3>2, <3>3
         DEF Local, Holds, Records, Attains, RecordNamesCustody
    <3> QED BY <1>3, <2>1, <3>1, <3>3, <3>4 DEF Does, Frame, InCustody
  <2>5. CreateAnswered(b) \/ CreateAnswerEmpty(b) \/ CreateFails(b)
    OBVIOUS
  <2> QED BY <1>4, <2>3, <2>4, <2>5
<1> QED BY <1>4, <1>5 DEF CreateAnswered, CreateAnswerEmpty

LEMMA LookupDoes ==
    ASSUME ById, SuccessInv, NEW b \in Block,
           LookupFinds(b) \/ LookupFails(b)
    PROVE  Does(b)
<1>1. pc[b] = "lookup" /\ Aside /\ NothingMade
  BY DEF LookupFinds, LookupFails
<1>2. /\ TypeInv /\ Local(b) /\ record[b] = NoRecord /\ want[b] # NoItem
      /\ custody[b] = Nobody
      /\ made[b] # Nobody /\ router[made[b]] = want[b] /\ made[b] \in Object
      /\ made[b] \in Nat /\ born \in Nat /\ made[b] <= born /\ Nobody <= born
  <2>1. TypeInv /\ Local(b) /\ want[b] # NoItem
    BY <1>1, OwnBlock DEF ItemPC
  <2>2. /\ record[b] = NoRecord /\ made[b] # Nobody /\ router[made[b]] = want[b]
        /\ made[b] <= born
    BY <1>1, <2>1 DEF Local, Holds, Records
  <2> QED BY <2>1, <2>2, OwnBlock DEF TypeInv, TypeOK
<1>3. /\ router' = router /\ born' = born /\ made' = made
      /\ want' = want /\ calm' = calm
  BY <1>1, NothingMadeDoes, AsideDoes
<1>4. CASE LookupFails(b)
  <2>1. /\ pc'[b] = "done" /\ result'[b] = "error"
        /\ \A c \in Block \ {b} : /\ pc'[c] = pc[c] /\ target'[c] = target[c]
                                  /\ result'[c] = result[c]
    BY <1>2, <1>4, FinishDoes DEF LookupFails
  <2>2. record' = record /\ custody' = custody
    BY <1>4 DEF LookupFails, stateVars
  <2>3. Local(b)'
    BY <1>2, <1>3, <2>1, <2>2
       DEF Local, Holds, Records, Attains, RecordNamesCustody
  <2> QED BY <1>1, <2>1, <2>2, <2>3, FrameOfLookup DEF Does
<1>5. CASE LookupFinds(b)
  <2>1. PICK o \in Alive : /\ Matching("Name", want[b].name) = {o}
                           /\ Created(b, o, router[o])
    BY <1>5 DEF LookupFinds
  \* The one object of that name is the one that was created.
  <2>2. o = made[b]
    BY <1>2, <2>1 DEF Matching, GetID, Alive
  <2>3. SetId(b, o, want[b], o)
    BY <1>2, <2>1, <2>2 DEF Created, ById, GetID
  <2>4. /\ (pc'[b] = "reread" /\ target'[b] = o) \/ pc'[b] = "done"
        /\ \A c \in Block \ {b} : /\ pc'[c] = pc[c] /\ target'[c] = target[c]
                                  /\ result'[c] = result[c]
    BY <1>2, <2>1, FinishDoes, ProceedDoes DEF Created
  <2>5. /\ record'[b] = [id |-> o, item |-> want[b], tainted |-> FALSE]
        /\ custody'[b] = o
        /\ \A c \in Block \ {b} : record'[c] = record[c] /\ custody'[c] = custody[c]
    BY <1>2, <2>3, SetIdDoes
  <2>6. Local(b)'
    BY <1>2, <1>3, <2>2, <2>4, <2>5
       DEF Local, Holds, Records, Attains, RecordNamesCustody, AsConfigured
  <2> QED BY <1>3, <2>2, <2>4, <2>5, <2>6 DEF Does, Frame, OnRouter, InCustody
<1> QED BY <1>4, <1>5

LEMMA RereadDoes ==
    ASSUME ById, SuccessInv, NEW b \in Block,
           RereadFinds(b) \/ RereadFails(b)
    PROVE  Does(b)
<1>1. pc[b] = "reread" /\ Aside /\ NothingMade
  BY DEF RereadFinds, RereadFails
<1>2. /\ TypeInv /\ Local(b) /\ record[b] # NoRecord /\ ~record[b].tainted
      /\ custody[b] # Nobody /\ target[b] = custody[b] /\ custody[b] = made[b]
      /\ calm => router[custody[b]] = want[b]
  BY <1>1, OwnBlock DEF RecordPC, Local, Holds, Records, Attains
<1>3. /\ router' = router /\ born' = born /\ made' = made
      /\ want' = want /\ calm' = calm
  BY <1>1, NothingMadeDoes, AsideDoes
<1>4. PICK outcome, item :
         /\ Finish(b, outcome) /\ (SetItem(b, item) \/ Taint(b))
         /\ outcome = "ok" => SetItem(b, item) /\ target[b] \in Alive
  BY DEF RereadFinds, RereadFails, ReadFinds, Matching
<1>5. /\ pc'[b] = "done" /\ result'[b] = outcome
      /\ \A c \in Block \ {b} : /\ pc'[c] = pc[c] /\ target'[c] = target[c]
                                /\ result'[c] = result[c]
  BY <1>2, <1>4, FinishDoes
<1>6. /\ record'[b].id = record[b].id /\ record'[b] # NoRecord
      /\ outcome = "ok" => ~record'[b].tainted
      /\ custody' = custody
      /\ \A c \in Block \ {b} : record'[c] = record[c]
  BY <1>2, <1>4, SetItemDoes
<1>7. outcome = "ok" /\ calm => want[b] # NoItem
  BY <1>2, <1>4 DEF Alive
<1>8. Local(b)'
  BY <1>2, <1>3, <1>5, <1>6, <1>7
     DEF Local, Holds, Records, Attains, RecordNamesCustody, AsConfigured
<1> QED BY <1>1, <1>5, <1>6, <1>8, FrameOfLookup DEF Does

\* A lookup hands over the block's own object.
LEMMA FindsDoes ==
    ASSUME ById, SuccessInv, NEW b \in Block,
           NEW then \in {"update", "delete"}, Finds(b, then), NothingMade, Aside,
           pc[b] \in {"findUpdate", "findDelete"},
           then = "update" => pc[b] = "findUpdate"
    PROVE  Does(b)
<1>1. /\ TypeInv /\ Local(b) /\ record[b] # NoRecord /\ made[b] = Nobody
      /\ then = "update" => ~record[b].tainted
  BY OwnBlock DEF RecordPC, Local, Records, Attains
<1>2. PICK o \in Alive : ReadFinds(IdType, record[b].id, o) /\ Proceed(b, then, o)
  BY DEF Finds
<1>3. o = custody[b]
  BY <1>1, <1>2, FoundIsOwn
<1>4. /\ pc'[b] = then /\ target'[b] = custody[b]
      /\ \A c \in Block \ {b} : /\ pc'[c] = pc[c] /\ target'[c] = target[c]
                                /\ result'[c] = result[c]
  BY <1>1, <1>2, <1>3, ProceedDoes
<1>5. record' = record /\ custody' = custody
  BY DEF Finds, stateVars
<1>6. Local(b)'
  BY <1>1, <1>4, <1>5, NothingMadeDoes, AsideDoes
     DEF Local, Holds, Records, Attains, RecordNamesCustody
<1> QED BY <1>4, <1>5, <1>6, FrameOfLookup DEF Does

LEMMA FindUpdateDoes ==
    ASSUME ById, SuccessInv, NEW b \in Block, FindUpdate(b)
    PROVE  Does(b)
<1>1. pc[b] = "findUpdate" /\ Aside /\ NothingMade
  BY DEF FindUpdate
<1>2. /\ TypeInv /\ Local(b) /\ record[b] # NoRecord /\ made[b] = Nobody
      /\ born \in Nat /\ Nobody <= born
  BY <1>1, OwnBlock DEF RecordPC, Local, Records
<1>3. CASE Finds(b, "update")
  BY <1>1, <1>3, FindsDoes
<1>4. CASE NoLongerExists(b) /\ Finish(b, "error")
  <2>1. /\ record'[b] = NoRecord /\ custody'[b] = Nobody
        /\ \A c \in Block \ {b} : record'[c] = record[c] /\ custody'[c] = custody[c]
    BY <1>2, <1>4, ForgetDoes DEF NoLongerExists
  <2>2. /\ pc'[b] = "done" /\ result'[b] = "error"
        /\ \A c \in Block \ {b} : /\ pc'[c] = pc[c] /\ target'[c] = target[c]
                                  /\ result'[c] = result[c]
    BY <1>2, <1>4, FinishDoes
  <2>3. Local(b)'
    BY <1>1, <1>2, <2>1, <2>2, NothingMadeDoes
       DEF Local, Holds, Records, Attains, RecordNamesCustody
  <2> QED BY <1>1, <2>1, <2>2, <2>3, FrameOfLookup DEF Does
<1>5. CASE ReadFails /\ SetItem(b, want[b]) /\ Finish(b, "error")
  <2>1. /\ record'[b].id = record[b].id /\ record'[b] # NoRecord
        /\ custody' = custody
        /\ \A c \in Block \ {b} : record'[c] = record[c]
    BY <1>2, <1>5, SetItemDoes
  <2>2. /\ pc'[b] = "done" /\ result'[b] = "error"
        /\ \A c \in Block \ {b} : /\ pc'[c] = pc[c] /\ target'[c] = target[c]
                                  /\ result'[c] = result[c]
    BY <1>2, <1>5, FinishDoes
  <2>3. Local(b)'
    BY <1>1, <1>2, <2>1, <2>2, NothingMadeDoes
       DEF Local, Holds, Records, Attains, RecordNamesCustody
  <2> QED BY <1>1, <2>1, <2>2, <2>3, FrameOfLookup DEF Does
<1> QED BY <1>1, <1>3, <1>4, <1>5 DEF FindUpdate

\* What is executed is executed on the block's object.
LEMMA ExecutedDoes ==
    ASSUME SuccessInv, NEW b \in Block, pc[b] \in {"update", "delete"},
           NEW item, Executed(b, item), UNCHANGED <<born, made>>
    PROVE  OnRouter(b) /\ router'[custody[b]] = item
<1>1. target[b] = custody[b] /\ custody[b] # Nobody /\ custody[b] \in Object
  BY OwnBlock DEF RecordPC, Local, Holds
<1> QED BY <1>1, OwnBlock DEF Executed, Put, OnRouter, TypeInv, TypeOK

LEMMA UpdateDoes ==
    ASSUME ById, SuccessInv, NEW b \in Block, UpdateFails(b) \/ Updated(b)
    PROVE  Does(b)
<1>1. pc[b] = "update" /\ Aside /\ born' = born /\ made' = made
  BY DEF UpdateFails, Updated
<1>2. /\ TypeInv /\ Local(b) /\ record[b] # NoRecord /\ ~record[b].tainted
      /\ custody[b] # Nobody /\ made[b] = Nobody /\ want[b] # NoItem
  BY <1>1, OwnBlock DEF RecordPC, ItemPC, Local, Records, Attains
<1>3. PICK outcome : /\ Finish(b, outcome) /\ SetItem(b, want[b])
                     /\ outcome = "ok" => Executed(b, want[b])
                     /\ Executed(b, want[b]) \/ router' = router
  BY DEF UpdateFails, Updated
<1>4. /\ pc'[b] = "done" /\ result'[b] = outcome
      /\ \A c \in Block \ {b} : /\ pc'[c] = pc[c] /\ target'[c] = target[c]
                                /\ result'[c] = result[c]
  BY <1>2, <1>3, FinishDoes
<1>5. /\ record'[b].id = record[b].id /\ record'[b] # NoRecord
      /\ ~record'[b].tainted /\ custody' = custody
      /\ \A c \in Block \ {b} : record'[c] = record[c]
  BY <1>2, <1>3, SetItemDoes
<1>6. OnRouter(b) /\ (outcome = "ok" => router'[custody[b]] = want[b])
  BY <1>1, <1>3, ExecutedDoes DEF OnRouter
<1>7. Local(b)'
  BY <1>1, <1>2, <1>4, <1>5, <1>6, AsideDoes
     DEF Local, Holds, Records, Attains, RecordNamesCustody, AsConfigured
<1> QED BY <1>1, <1>4, <1>5, <1>6, <1>7, AsideDoes DEF Does, Frame, InCustody

\* A block that has forgotten its object is done, or creates another.
LEMMA AfterDeleteDoes ==
    ASSUME SuccessInv, NEW b \in Block, pc[b] \in {"findDelete", "delete"},
           Forget(b), AfterDelete(b), OnRouter(b), Aside,
           born' = born, made' = made
    PROVE  Does(b)
<1>1. /\ TypeInv /\ Local(b) /\ made[b] = Nobody
      /\ born \in Nat /\ Nobody <= born
  BY OwnBlock DEF Local, Records
<1>2. /\ record'[b] = NoRecord /\ custody'[b] = Nobody
      /\ \A c \in Block \ {b} : record'[c] = record[c] /\ custody'[c] = custody[c]
  BY <1>1, ForgetDoes
<1>3. /\ \/ pc'[b] = "done" /\ want[b] = NoItem
         \/ pc'[b] = "create"
      /\ \A c \in Block \ {b} : /\ pc'[c] = pc[c] /\ target'[c] = target[c]
                                /\ result'[c] = result[c]
  BY <1>1, FinishDoes, ProceedDoes DEF AfterDelete
<1>4. Local(b)'
  BY <1>1, <1>2, <1>3, AsideDoes
     DEF Local, Holds, Records, Attains, RecordNamesCustody, AsConfigured, NoRecord
<1> QED BY <1>2, <1>3, <1>4, AsideDoes DEF Does, Frame, InCustody

LEMMA FindDeleteDoes ==
    ASSUME ById, SuccessInv, NEW b \in Block, FindDelete(b)
    PROVE  Does(b)
<1>1. pc[b] = "findDelete" /\ Aside /\ NothingMade
  BY DEF FindDelete
<1>2. /\ TypeInv /\ Local(b) /\ made[b] = Nobody
  BY <1>1, OwnBlock DEF Local, Records
<1>3. CASE Finds(b, "delete")
  BY <1>1, <1>3, FindsDoes
<1>4. CASE NoLongerExists(b) /\ AfterDelete(b)
  BY <1>1, <1>4, AfterDeleteDoes, NothingMadeDoes DEF NoLongerExists, OnRouter
<1>5. CASE UNCHANGED stateVars /\ Finish(b, "error")
  <2>1. record' = record /\ custody' = custody
    BY <1>5 DEF stateVars
  <2>2. /\ pc'[b] = "done" /\ result'[b] = "error"
        /\ \A c \in Block \ {b} : /\ pc'[c] = pc[c] /\ target'[c] = target[c]
                                  /\ result'[c] = result[c]
    BY <1>2, <1>5, FinishDoes
  <2>3. Local(b)'
    BY <1>1, <1>2, <2>1, <2>2, NothingMadeDoes
       DEF Local, Holds, Records, Attains, RecordNamesCustody
  <2> QED BY <1>1, <2>1, <2>2, <2>3, FrameOfLookup DEF Does
<1> QED BY <1>3, <1>4, <1>5 DEF FindDelete

LEMMA DeleteDoes ==
    ASSUME ById, SuccessInv, NEW b \in Block, DeleteFails(b) \/ Deleted(b)
    PROVE  Does(b)
<1>1. /\ pc[b] = "delete" /\ Aside /\ born' = born /\ made' = made
      /\ Executed(b, NoItem) \/ router' = router
  BY DEF DeleteFails, Deleted
<1>2. TypeInv /\ Local(b) /\ made[b] = Nobody
  BY <1>1, OwnBlock DEF Local, Records
<1>3. OnRouter(b)
  BY <1>1, ExecutedDoes DEF OnRouter
<1>4. CASE Deleted(b)
  BY <1>1, <1>3, <1>4, AfterDeleteDoes DEF Deleted
<1>5. CASE DeleteFails(b)
  <2>1. record' = record /\ custody' = custody
    BY <1>5 DEF DeleteFails, stateVars
  <2>2. /\ pc'[b] = "done" /\ result'[b] = "error"
        /\ \A c \in Block \ {b} : /\ pc'[c] = pc[c] /\ target'[c] = target[c]
                                  /\ result'[c] = result[c]
    BY <1>2, <1>5, FinishDoes DEF DeleteFails
  <2>3. Local(b)'
    BY <1>1, <1>2, <2>1, <2>2
       DEF Local, Holds, Records, Attains, RecordNamesCustody
  <2> QED BY <1>1, <1>3, <2>1, <2>2, <2>3, AsideDoes DEF Does, Frame, InCustody
<1> QED BY <1>4, <1>5

\* What is planned for a block is what is left to do for it.
LEMMA OperationIsDue ==
    ASSUME NEW b \in Block
    PROVE  /\ Operation(b) = "done" =>
                  \/ record[b] = NoRecord /\ want[b] = NoItem
                  \/ /\ record[b] # NoRecord /\ want[b] # NoItem
                     /\ ~record[b].tainted /\ record[b].item = want[b]
           /\ Operation(b) = "create" => record[b] = NoRecord
           /\ Operation(b) = "findUpdate" => ~record[b].tainted
<1>1. CASE record[b] = NoRecord
  BY <1>1 DEF Operation
<1>2. CASE record[b] # NoRecord
  BY <1>2 DEF Operation
<1> QED BY <1>1, <1>2

LEMMA ApplyDoes ==
    ASSUME ById, SuccessInv, NEW b \in Block, Apply(b)
    PROVE  Does(b)
<1>1. /\ pc[b] = "plan" /\ Aside /\ NothingMade
      /\ record' = record /\ custody' = custody
      /\ target' = target /\ result' = result /\ Goto(b, Operation(b))
  BY DEF Apply, stateVars
<1>2. /\ TypeInv /\ Local(b) /\ made[b] = Nobody
      /\ record[b] # NoRecord <=> custody[b] # Nobody
  BY <1>1, OwnBlock DEF Local, Records
<1>3. pc'[b] = Operation(b) /\ \A c \in Block \ {b} : pc'[c] = pc[c]
  BY <1>1, <1>2 DEF Goto, TypeInv, TypeOK
<1>4. Operation(b) \in {"done", "create", "findDelete", "findUpdate"}
  BY OperationTyped
<1>5. Holds(b)' /\ Records(b)'
  BY <1>1, <1>2, <1>3, <1>4, OperationIsDue, NothingMadeDoes
     DEF Local, Holds, Records, RecordNamesCustody
<1>6. Attains(b)'
  <2>1. Operation(b) \in {"done", "findUpdate"} => ~record[b].tainted
    BY OperationIsDue DEF NoRecord
  <2>2. calm /\ Operation(b) = "done" => AsConfigured(b)
    BY <1>1, <1>2, OperationIsDue DEF Local, Attains, AsConfigured
  <2> QED BY <1>1, <1>3, <1>4, <2>1, <2>2, NothingMadeDoes, AsideDoes
          DEF Attains, AsConfigured
<1> QED BY <1>1, <1>3, <1>5, <1>6, FrameOfLookup DEF Does, Local

LEMMA HandleDoes ==
    ASSUME ById, SuccessInv, NEW b \in Block, Handle(b)
    PROVE  Does(b)
<1>1. pc[b] \notin {"importFind", "importRead"}
  BY OwnBlock DEF Local, Holds
<1>2. ~(\/ ImportFails(b) \/ ImportGiven(b) \/ ImportFinds(b)
        \/ ImportReadFails(b) \/ ImportReadFinds(b))
  BY <1>1 DEF ImportFails, ImportGiven, ImportFinds, ImportReadFails,
              ImportReadFinds
<1> QED BY <1>2, RefreshDoes, CreateDoes, LookupDoes, RereadDoes, FindUpdateDoes,
           UpdateDoes, FindDeleteDoes, DeleteDoes, ApplyDoes DEF Handle

-----------------------------------------------------------------------------
(* Terraform's own steps, the changes of others, and the theorems.         *)

\* With nothing to import, a run begins with a read or with nothing.
LEMMA FirstIsRefresh ==
    ASSUME ById, NEW b \in Block, NEW w
    PROVE  \/ FirstStep(b, w) = "refresh"
           \/ FirstStep(b, w) = "plan" /\ record[b] = NoRecord
BY DEF ById, FirstStep

LEMMA NextRunSucceeds ==
    ASSUME ById, SuccessInv, TypeInv', NextRun PROVE SuccessInv'
<1>1. /\ made' = [b \in Block |-> Nobody] /\ calm' = TRUE
      /\ router' = router /\ born' = born /\ record' = record /\ custody' = custody
      /\ \E w \in Configuration : pc' = [b \in Block |-> FirstStep(b, w)]
  BY DEF NextRun, routerVars, stateVars
<1>2. ASSUME NEW b \in Block PROVE Local(b)'
  <2>1. pc'[b] = "refresh" \/ (pc'[b] = "plan" /\ record[b] = NoRecord)
    BY <1>1, FirstIsRefresh
  <2>2. Local(b) /\ born \in Nat /\ Nobody <= born
    BY OwnBlock
  <2> QED BY <1>1, <2>1, <2>2
          DEF Local, Holds, Records, Attains, RecordNamesCustody
<1>3. ASSUME NEW b \in Block, NEW c \in Block, b # c PROVE Apart(b, c)'
  BY <1>1, <1>3 DEF SuccessInv, Apart
<1> QED BY <1>1, <1>2, <1>3 DEF SuccessInv, NothingUnborn

LEMMA OutsideSucceeds ==
    ASSUME ById, SuccessInv, TypeInv', Outside PROVE SuccessInv'
<1>1. /\ outsides < MaxOutside /\ calm' = FALSE
      /\ UNCHANGED <<want, record, custody, pc, target, result, made>>
  BY DEF Outside, stateVars
<1>2. PICK item \in Item \cup {NoItem}, o \in Object :
         /\ o \in Alive \/ o = born + 1
         /\ Put(o, item)
         /\ born' = IF o > born THEN o ELSE born
  BY DEF Outside
<1>3. /\ TypeOK /\ NothingUnborn /\ outsides \in Nat /\ born \in Nat /\ o \in Nat
      /\ router \in [Object -> Item \cup {NoItem}]
  BY LifecycleAssumption DEF SuccessInv, TypeInv, TypeOK, Object
<1>4. MaxOutside # 0
  BY <1>1, <1>3, LifecycleAssumption
<1>5. born' \in Nat /\ born' >= born /\ o <= born'
  BY <1>2, <1>3
<1>6. ASSUME NEW b \in Block PROVE Local(b)'
  <2>1. Local(b) /\ custody[b] \in Nat /\ made[b] \in Nat
    BY OwnBlock
  <2>2. Holds(b)'
    BY <1>1, <1>3, <1>5, <2>1 DEF Local, Holds, RecordNamesCustody
  <2>3. Records(b)'
    BY <1>1, <1>4, <2>1 DEF Local, Records
  <2>4. Attains(b)'
    BY <1>1, <2>1 DEF Local, Attains
  <2> QED BY <2>2, <2>3, <2>4 DEF Local
<1>7. NothingUnborn'
  <2>1. router' = [router EXCEPT ![o] = item]
    BY <1>2 DEF Put
  <2>2. \A p \in Object : p \in Nat
    BY DEF Object
  <2> QED BY <1>3, <1>5, <2>1, <2>2 DEF NothingUnborn
<1>8. \A b, c \in Block : b # c => Apart(b, c)'
  BY <1>1 DEF SuccessInv, Apart
<1> QED BY <1>6, <1>7, <1>8 DEF SuccessInv

LEMMA InitSucceeds == ById /\ Init => SuccessInv
<1> SUFFICES ASSUME ById, Init PROVE SuccessInv
  OBVIOUS
<1>1. TypeInv
  BY InitHasType
<1>2. ASSUME NEW b \in Block PROVE Local(b)
  <2>1. pc[b] = "plan"
    BY FirstIsRefresh DEF Init, FirstStep, ById
  <2>2. record[b] = NoRecord /\ custody[b] = 0 /\ made[b] = 0 /\ born = 0
    BY DEF Init, Nobody
  <2> QED BY <2>1, <2>2
          DEF Local, Holds, Records, Attains, RecordNamesCustody, Nobody
<1>3. NothingUnborn
  BY DEF Init, NothingUnborn
<1>4. \A b, c \in Block : Apart(b, c)
  BY DEF Init, Apart
<1> QED BY <1>1, <1>2, <1>3, <1>4 DEF SuccessInv

LEMMA SuccessInvStep ==
    ASSUME ById, SuccessInv, [Next]_vars PROVE SuccessInv'
<1>1. TypeInv'
  BY TypeInvStep DEF SuccessInv
<1>2. CASE \E b \in Block : Handle(b)
  BY <1>1, <1>2, HandleDoes, DoesIsEnough
<1>3. CASE NextRun
  BY <1>1, <1>3, NextRunSucceeds
<1>4. CASE Outside
  BY <1>1, <1>4, OutsideSucceeds
<1>5. CASE UNCHANGED vars
  <2>1. UNCHANGED <<router, born, want, record, custody, pc, target, result, made, calm>>
    BY <1>5 DEF vars, routerVars, stateVars, historyVars
  <2> QED BY <1>1, <2>1
          DEF SuccessInv, NothingUnborn, Local, Holds, Records, Attains, Apart,
              RecordNamesCustody, AsConfigured
<1> QED BY <1>2, <1>3, <1>4, <1>5 DEF Next

\* SuccessInv is invariant, for any blocks, names, values, failures and edits.
THEOREM SuccessInvariant == ById /\ Spec => []SuccessInv
<1> SUFFICES ASSUME ById PROVE Spec => []SuccessInv
  OBVIOUS
<1>1. Init => SuccessInv
  BY InitSucceeds
<1>2. SuccessInv /\ [Next]_vars => SuccessInv'
  BY SuccessInvStep
<1> QED BY <1>1, <1>2, PTL DEF Spec

LEMMA ObjectsAreSomebody == \A o \in Object : o # Nobody
BY DEF Object, Nobody

\* The answers that have been cut off are never fewer.
LEMMA CutGrows == FaultStep => cut \subseteq cut'
BY DEF FaultStep, Fault, CutOff, faultVars

LEMMA HandlesAreFaultSteps ==
    ASSUME NEW b \in Block, Handle(b) PROVE FaultStep
<1>1. CASE \/ RefreshFails(b) \/ RefreshFindsNothing(b) \/ RefreshFinds(b)
           \/ ImportFails(b) \/ ImportGiven(b) \/ ImportFinds(b)
           \/ ImportReadFails(b) \/ ImportReadFinds(b)
  BY <1>1, ReadsAreFaultSteps
     DEF RefreshFails, RefreshFindsNothing, RefreshFinds, ImportFails, Ambiguous,
         ImportGiven, ImportFinds, ImportReadFails, ImportReadFinds, FaultStep
<1>2. CASE \/ CreateFails(b) \/ CreateAnswered(b) \/ CreateAnswerEmpty(b)
           \/ LookupFinds(b) \/ LookupFails(b) \/ RereadFinds(b) \/ RereadFails(b)
  BY <1>2, ReadsAreFaultSteps
     DEF CreateFails, CreateAnswered, CreateAnswerEmpty, LookupFinds, LookupFails,
         Ambiguous, RereadFinds, RereadFails, FaultStep
<1>3. CASE \/ FindUpdate(b) \/ UpdateFails(b) \/ Updated(b) \/ FindDelete(b)
           \/ DeleteFails(b) \/ Deleted(b) \/ Apply(b)
  BY <1>3, ReadsAreFaultSteps
     DEF FindUpdate, UpdateFails, Updated, FindDelete, DeleteFails, Deleted, Apply,
         Finds, NoLongerExists, FaultStep
<1> QED BY <1>1, <1>2, <1>3 DEF Handle

\* What a block gives up is what it keeps, gone, or taken for gone.
GivesUpFor(b, o) == custody[b] \in {o, Nobody} \/ custody[b] \notin Alive' \ cut'

LEMMA NothingFound ==
    ASSUME ById, SuccessInv, NEW b \in Block, record[b] # NoRecord, NothingMade,
           ReadFindsNothing(IdType, record[b].id)
    PROVE  GivesUpFor(b, Nobody)
<1>1. IdType = "Id" /\ record[b].id = custody[b]
  BY OwnBlock DEF ById
<1>2. Matching(IdType, record[b].id) = {o \in Alive : o = custody[b]}
  BY <1>1 DEF Matching, GetID
<1>3. Alive' = Alive
  BY DEF Alive, NothingMade
<1> QED BY <1>2, <1>3 DEF ReadFindsNothing, CutOff, GivesUpFor

LEMMA HandlesGiveUp ==
    ASSUME ById, SuccessInv, NEW b \in Block, Handle(b)
    PROVE  left' = left \/ \E o : Keep(b, o) /\ GivesUpFor(b, o)
<1>1. TypeInv /\ Local(b) /\ (pc[b] \in RecordPC => record[b] # NoRecord)
  BY OwnBlock
<1>2. CASE UNCHANGED left
  BY <1>2
<1>3. CASE \/ RefreshFindsNothing(b)
           \/ NoLongerExists(b) /\ pc[b] \in RecordPC /\ NothingMade
  <2>1. /\ ReadFindsNothing(IdType, record[b].id) /\ Keep(b, Nobody)
        /\ NothingMade /\ pc[b] \in RecordPC
    BY <1>3 DEF RefreshFindsNothing, NoLongerExists, Forget, ReadOrAbort, RecordPC
  <2> QED BY <1>1, <2>1, NothingFound
<1>4. CASE RefreshFinds(b)
  <2>1. pc[b] = "refresh" /\ \E o : ReadFinds(IdType, record[b].id, o) /\ Keep(b, o)
    BY <1>4 DEF RefreshFinds
  <2> QED BY <1>1, <2>1, FoundIsOwn DEF RecordPC, GivesUpFor
<1>5. CASE CreateAnswered(b) \/ LookupFinds(b)
  <2>1. pc[b] \in {"create", "lookup"} /\ \E o : Keep(b, o)
    BY <1>5 DEF CreateAnswered, LookupFinds, Created, SetId
  <2>2. custody[b] = Nobody
    BY <2>1, OwnBlock DEF Local, Holds
  <2> QED BY <2>1, <2>2 DEF GivesUpFor
<1>6. CASE Deleted(b)
  <2>1. pc[b] = "delete" /\ Executed(b, NoItem) /\ Keep(b, Nobody)
    BY <1>6 DEF Deleted, Forget
  <2>2. target[b] = custody[b] /\ custody[b] \in Object
    BY <1>1, <2>1, OwnBlock DEF Local, Holds, RecordPC
  <2>3. custody[b] \notin Alive'
    BY <1>1, <2>1, <2>2 DEF Executed, Put, Alive, TypeInv, TypeOK
  <2> QED BY <2>1, <2>3 DEF GivesUpFor
<1>7. CASE \/ ImportFails(b) \/ ImportGiven(b) \/ ImportFinds(b)
           \/ ImportReadFails(b) \/ ImportReadFinds(b)
  BY <1>1, <1>7 DEF Local, Holds, ImportFails, ImportGiven, ImportFinds,
     ImportReadFails, ImportReadFinds
<1>8. CASE FindUpdate(b) \/ FindDelete(b)
  BY <1>2, <1>3, <1>8
     DEF FindUpdate, FindDelete, Finds, SetItem, stateVars, RecordPC
<1>9. CASE \/ RefreshFails(b) \/ CreateFails(b) \/ CreateAnswerEmpty(b)
           \/ LookupFails(b) \/ RereadFinds(b) \/ RereadFails(b)
           \/ UpdateFails(b) \/ Updated(b) \/ DeleteFails(b) \/ Apply(b)
  BY <1>9 DEF RefreshFails, CreateFails, CreateAnswerEmpty, LookupFails,
     RereadFinds, RereadFails, UpdateFails, Updated, DeleteFails, Apply,
     SetItem, Taint, stateVars
<1> QED BY <1>3, <1>4, <1>5, <1>6, <1>7, <1>8, <1>9 DEF Handle

\* An object that was given up and still there is one that an answer which was
\* cut off spoke of: over the API there is none.
LeftInv == left \subseteq cut /\ (Transport = "API" => cut = {})

LEMMA LeftInvStep ==
    ASSUME ById, SuccessInv, LeftInv, [Next]_vars PROVE LeftInv'
<1>1. ASSUME NEW b \in Block, Handle(b) PROVE LeftInv'
  <2>1. FaultStep /\ cut \subseteq cut'
    BY <1>1, HandlesAreFaultSteps, CutGrows
  <2>2. left' \subseteq cut'
    <3>1. CASE left' = left
      BY <2>1, <3>1 DEF LeftInv
    <3>2. ASSUME NEW o, Keep(b, o), GivesUpFor(b, o) PROVE left' \subseteq cut'
      <4>1. Nobody \notin Alive'
        BY ObjectsAreSomebody DEF Alive
      <4> QED BY <2>1, <3>2, <4>1 DEF Keep, GivesUpFor, LeftInv
    <3> QED BY <1>1, <3>1, <3>2, HandlesGiveUp
  <2>3. Transport = "API" => cut' = {}
    BY <2>1, LifecycleAssumption DEF LeftInv, FaultStep, Fault, CutOff, faultVars
  <2> QED BY <2>2, <2>3 DEF LeftInv
<1>2. CASE UNCHANGED <<left, cut>>
  BY <1>2 DEF LeftInv
<1> QED BY <1>1, <1>2
        DEF Next, NextRun, Outside, vars, boundVars, stateVars, faultVars

\* An apply that reported success, alone, has made the router what the
\* configuration says, after any history of failures and changes by others:
\* every block's object is there as configured, and of the objects that have
\* been in the state no other is left.  Over REST, and there without changes by
\* others, an object of which an answer was cut off may be left; over the API
\* none ever is.
THEOREM SuccessesAreTrue ==
    ById /\ Spec => []SuccessIsTrue /\ [](Transport = "API" => left \cap Alive = {})
<1> SUFFICES ASSUME ById
             PROVE  Spec => []SuccessIsTrue
                            /\ [](Transport = "API" => left \cap Alive = {})
  OBVIOUS
<1>1. SuccessInv /\ LeftInv => SuccessIsTrue
  BY DEF SuccessInv, Local, Attains, AsConfigured, Succeeded, AllDone,
         SuccessIsTrue, NothingLeft, LeftInv
<1>5. LeftInv => (Transport = "API" => left \cap Alive = {})
  BY DEF LeftInv
<1>2. Init => LeftInv
  BY DEF Init, LeftInv
<1>3. SuccessInv /\ LeftInv /\ [Next]_vars => LeftInv'
  BY LeftInvStep
<1>4. Spec => []SuccessInv
  BY SuccessInvariant
<1> QED BY <1>1, <1>2, <1>3, <1>4, <1>5, PTL DEF Spec

-----------------------------------------------------------------------------
(* The run after a success finds nothing to do.                            *)

LEMMA SettledNextRun ==
    ASSUME ApiById, SuccessInv, NextRun PROVE SettledInv'
<1> SUFFICES ASSUME settled' PROVE calm' /\ \A b \in Block : InPeace(b)'
  BY DEF SettledInv
<1>1. /\ calm' = TRUE
      /\ router' = router /\ record' = record /\ custody' = custody
  BY DEF NextRun, routerVars, stateVars
<1>2. PICK w \in Configuration :
         /\ want' = w /\ pc' = [b \in Block |-> FirstStep(b, w)]
         /\ settled' = (w = want /\ Succeeded /\ calm)
  BY DEF NextRun
<1>3. want' = want /\ Succeeded /\ calm
  BY <1>2
<1>4. ASSUME NEW b \in Block PROVE InPeace(b)'
  <2>1. AsConfigured(b) /\ ~record[b].tainted
    BY <1>3, OwnBlock DEF Succeeded, AllDone, Local, Attains
  <2>2. pc'[b] = "refresh" \/ (pc'[b] = "plan" /\ record[b] = NoRecord)
    BY <1>2, FirstIsRefresh DEF ApiById, ById
  <2> QED BY <1>1, <1>3, <2>1, <2>2 DEF InPeace, AsConfigured
<1> QED BY <1>1, <1>4

LEMMA NothingToDo ==
    ASSUME SuccessInv, NEW b \in Block, InPeace(b), pc[b] = "plan"
    PROVE  Operation(b) = "done"
<1>1. record[b] # NoRecord <=> want[b] # NoItem
  BY OwnBlock DEF InPeace, AsConfigured
<1> QED BY <1>1 DEF InPeace, Operation

\* A refresh that answers finds the object as it was left, and the plan
\* of a block at peace is to do nothing.
LEMMA SettledHandle ==
    ASSUME ApiById, SuccessInv, SettledInv, NEW b \in Block, Handle(b)
    PROVE  SettledInv'
<1>1. ById
  BY DEF ApiById, ById
<1>2. Does(b) /\ Local(b)
  BY <1>1, HandleDoes, OwnBlock
<1>3. want' = want /\ calm' = calm
  BY <1>2 DEF Does, Frame
<1>4. settled' = settled
  BY AsideDoes DEF Handle, RefreshFails, RefreshFindsNothing, RefreshFinds,
     ReadOrAbort, ImportFails, ImportGiven, ImportFinds, ImportReadFails,
     ImportReadFinds, CreateFails, CreateAnswered, CreateAnswerEmpty,
     LookupFinds, LookupFails, RereadFinds, RereadFails, FindUpdate,
     UpdateFails, Updated, FindDelete, DeleteFails, Deleted, Apply
<1> SUFFICES ASSUME settled PROVE \A c \in Block : InPeace(c)'
  BY <1>3, <1>4 DEF SettledInv
<1>5. calm /\ \A c \in Block : InPeace(c)
  BY DEF SettledInv
<1>6. \/ RefreshFails(b) \/ RefreshFindsNothing(b) \/ RefreshFinds(b) \/ Apply(b)
  BY <1>5 DEF InPeace, Handle, ImportFails, ImportGiven, ImportFinds,
     ImportReadFails, ImportReadFinds, CreateFails, CreateAnswered,
     CreateAnswerEmpty, LookupFinds, LookupFails, RereadFinds, RereadFails,
     FindUpdate, UpdateFails, Updated, FindDelete, DeleteFails, Deleted
<1>7. NothingMade
  BY <1>6 DEF RefreshFails, RefreshFindsNothing, RefreshFinds, ReadOrAbort, Apply
<1>8. router' = router
  BY <1>7, NothingMadeDoes
<1>9. ASSUME NEW c \in Block \ {b} PROVE InPeace(c)'
  <2>1. record'[c] = record[c] /\ custody'[c] = custody[c] /\ pc'[c] = pc[c]
    BY <1>2 DEF Does, Frame
  <2> QED BY <1>3, <1>5, <1>8, <2>1 DEF InPeace, AsConfigured
<1>10. InPeace(b)'
  <2>1. TypeInv /\ AsConfigured(b) /\ ~record[b].tainted
    BY <1>5 DEF InPeace, SuccessInv
  <2>2. CASE RefreshFails(b)
    <3>1. record' = record /\ custody' = custody /\ pc'[b] = "aborted"
      BY <2>1, <2>2, ReadOrAbortDoes DEF RefreshFails, stateVars
    <3> QED BY <1>3, <1>8, <2>1, <3>1 DEF InPeace, AsConfigured
  <2>3. CASE RefreshFindsNothing(b)
    <3>1. pc[b] = "refresh" /\ custody[b] \notin Alive
      <4>1. pc[b] = "refresh" /\ Matching(IdType, record[b].id) = {}
        BY <2>3 DEF RefreshFindsNothing, ReadFindsNothing, CutOff, ApiById
      <4>2. custody[b] # Nobody /\ record[b].id = custody[b]
        BY <4>1, OwnBlock DEF RecordPC
      <4> QED BY <4>1, <4>2 DEF Matching, GetID, ApiById
    <3>2. custody[b] \in Object /\ want[b] # NoItem
      BY <2>1, <3>1, OwnBlock DEF RecordPC, AsConfigured
    <3> QED BY <2>1, <3>1, <3>2 DEF AsConfigured, Alive
  <2>4. CASE RefreshFinds(b)
    <3>1. PICK o \in Alive :
             /\ ReadFinds(IdType, record[b].id, o)
             /\ record' = [record EXCEPT ![b].id = GetID(IdType, o, router[o]),
                                         ![b].item = router[o]]
             /\ custody' = [custody EXCEPT ![b] = o]
      BY <2>4 DEF RefreshFinds, Keep
    <3>2. record[b] # NoRecord
      BY <2>4, OwnBlock DEF RefreshFinds, RecordPC
    <3>3. o = custody[b] /\ o # Nobody
      BY <1>1, <3>1, <3>2, FoundIsOwn
    <3>4. custody'[b] = custody[b]
      BY <2>1, <3>1, <3>3 DEF TypeInv, TypeOK
    <3>5. record[b] \in [id : Id, item : Item \cup {NoItem}, tainted : BOOLEAN]
      BY <2>1, <3>2 DEF TypeInv, TypeOK, Record
    <3>6. record'[b].item = router[o] /\ record'[b].tainted = record[b].tainted
      BY <2>1, <3>1, <3>5 DEF TypeInv, TypeOK
    <3>7. pc'[b] = "plan"
      BY <2>1, <2>4, ReadOrAbortDoes DEF RefreshFinds
    <3>8. router[o] = want[b]
      BY <2>1, <3>3 DEF AsConfigured
    <3> QED BY <1>3, <1>8, <2>1, <3>3, <3>4, <3>6, <3>7, <3>8
            DEF InPeace, AsConfigured
  <2>5. CASE Apply(b)
    <3>1. /\ pc[b] = "plan" /\ record' = record /\ custody' = custody
          /\ pc'[b] = Operation(b)
      BY <2>1, <2>5 DEF Apply, Goto, stateVars, TypeInv, TypeOK
    <3>3. Operation(b) = "done"
      BY <1>5, <3>1, NothingToDo
    <3> QED BY <1>3, <1>8, <2>1, <3>1, <3>3 DEF InPeace, AsConfigured
  <2> QED BY <1>6, <2>2, <2>3, <2>4, <2>5
<1> QED BY <1>9, <1>10

LEMMA SettledInvStep ==
    ASSUME ApiById, SuccessInv, SettledInv, [Next]_vars PROVE SettledInv'
<1>1. CASE \E b \in Block : Handle(b)
  BY <1>1, SettledHandle
<1>2. CASE NextRun
  BY <1>2, SettledNextRun
<1>3. CASE Outside
  BY <1>3 DEF Outside, SettledInv
<1>4. CASE UNCHANGED vars
  <2>1. UNCHANGED <<router, want, record, custody, pc, calm, settled>>
    BY <1>4 DEF vars, routerVars, stateVars, historyVars
  <2> QED BY <2>1 DEF SettledInv, InPeace, AsConfigured
<1> QED BY <1>1, <1>2, <1>3, <1>4 DEF Next

\* Apply twice and the second plan is empty: over the API, the run after one
\* that succeeded, undisturbed, plans nothing, even where its reads fail.
THEOREM SecondPlansAreEmpty == ApiById /\ Spec => []SecondPlanIsEmpty
<1> SUFFICES ASSUME ApiById PROVE Spec => []SecondPlanIsEmpty
  OBVIOUS
<1>1. ById
  BY DEF ApiById, ById
<1>2. Init => SettledInv
  BY DEF Init, SettledInv
<1>3. SuccessInv /\ SettledInv /\ [Next]_vars => SettledInv'
  BY SettledInvStep
<1>4. SuccessInv /\ SettledInv => SecondPlanIsEmpty
  BY NothingToDo DEF SettledInv, SecondPlanIsEmpty
<1> QED BY <1>1, <1>2, <1>3, <1>4, SuccessInvariant, PTL DEF Spec

-----------------------------------------------------------------------------
(* Over the API no creation has to look its object up, and what it makes   *)
(* is recorded whatever the kind of id, imports and renames included.      *)

RecordedInv == TypeInv /\ \A b \in Block : Records(b) /\ pc[b] # "lookup"

\* A block's step leaves what the others have made and recorded.
OthersRecords(b) ==
    \A c \in Block \ {b} :
        /\ custody'[c] = custody[c] /\ made'[c] = made[c]
        /\ pc'[c] = pc[c] /\ result'[c] = result[c]

\* The steps that create nothing, for a block that has created nothing.
LEMMA NothingNewRecorded ==
    ASSUME RecordedInv, NEW b \in Block, made' = made,
           pc[b] \notin {"reread", "done"}, pc'[b] \notin {"lookup", "reread"}
    PROVE  Records(b)' /\ pc'[b] # "lookup"
BY DEF RecordedInv, Records

LEMMA ReadsRecorded ==
    ASSUME RecordedInv, NEW b \in Block,
           \/ RefreshFails(b) \/ RefreshFindsNothing(b) \/ RefreshFinds(b)
           \/ ImportFails(b) \/ ImportGiven(b) \/ ImportFinds(b)
           \/ ImportReadFails(b) \/ ImportReadFinds(b)
    PROVE  Records(b)' /\ pc'[b] # "lookup" /\ OthersRecords(b)
<1>1. TypeInv
  BY DEF RecordedInv
<1>2. /\ pc[b] \in {"refresh", "importFind", "importRead"}
      /\ \E where \in {"plan", "aborted", "importRead"} : ReadOrAbort(b, where)
  BY DEF RefreshFails, RefreshFindsNothing, RefreshFinds, ImportFails,
         ImportGiven, ImportFinds, ImportReadFails, ImportReadFinds
<1>3. /\ pc'[b] \in {"plan", "aborted", "importRead"} /\ made' = made
      /\ \A c \in Block \ {b} : pc'[c] = pc[c] /\ result'[c] = result[c]
  BY <1>1, <1>2, ReadOrAbortDoes, NothingMadeDoes
<1>4. ASSUME NEW c \in Block \ {b} PROVE custody'[c] = custody[c]
  BY <1>1 DEF RefreshFails, RefreshFindsNothing, RefreshFinds, ImportFails,
     ImportGiven, ImportFinds, ImportReadFails, ImportReadFinds, Forget, SetId,
     Identify, Keep, stateVars, TypeInv, TypeOK
<1> QED BY <1>2, <1>3, <1>4, NothingNewRecorded DEF OthersRecords

LEMMA CreateRecorded ==
    ASSUME Transport = "API", RecordedInv, NEW b \in Block,
           CreateFails(b) \/ CreateAnswered(b) \/ CreateAnswerEmpty(b)
    PROVE  Records(b)' /\ pc'[b] # "lookup" /\ OthersRecords(b)
<1>1. TypeInv
  BY DEF RecordedInv
<1>2. ~CreateAnswerEmpty(b)
  BY DEF CreateAnswerEmpty
<1>3. \A c \in Block \ {b} : made'[c] = made[c]
  BY <1>1, <1>2 DEF CreateFails, CreateAnswered, NothingMade, Born, TypeInv, TypeOK
<1>4. CASE CreateFails(b)
  <2>1. /\ pc'[b] = "done" /\ result'[b] = "error" /\ custody' = custody
        /\ \A c \in Block \ {b} : pc'[c] = pc[c] /\ result'[c] = result[c]
    BY <1>1, <1>4, FinishDoes DEF CreateFails, stateVars
  <2> QED BY <1>3, <2>1 DEF Records, OthersRecords
<1>5. CASE CreateAnswered(b)
  <2>1. /\ Proceed(b, "reread", born') /\ Born(b)
        /\ SetId(b, GetID(IdType, born', want[b]), want[b], born')
    BY <1>5 DEF CreateAnswered, Created
  <2>2. pc'[b] = "reread"
        /\ \A c \in Block \ {b} : pc'[c] = pc[c] /\ result'[c] = result[c]
    BY <1>1, <2>1, ProceedDoes
  <2>3. custody'[b] = born' /\ \A c \in Block \ {b} : custody'[c] = custody[c]
    BY <1>1, <2>1 DEF SetId, Keep, TypeInv, TypeOK
  <2>4. made'[b] = born'
    BY <1>1, <2>1 DEF Born, TypeInv, TypeOK
  <2> QED BY <1>3, <2>2, <2>3, <2>4 DEF Records, OthersRecords
<1> QED BY <1>2, <1>4, <1>5

LEMMA RereadRecorded ==
    ASSUME RecordedInv, NEW b \in Block, RereadFinds(b) \/ RereadFails(b)
    PROVE  Records(b)' /\ pc'[b] # "lookup" /\ OthersRecords(b)
<1>1. pc[b] = "reread" /\ custody[b] = made[b] /\ TypeInv
  BY DEF RereadFinds, RereadFails, RecordedInv, Records
<1>2. custody' = custody /\ made' = made /\ \E outcome : Finish(b, outcome)
  BY NothingMadeDoes DEF RereadFinds, RereadFails, SetItem, Taint
<1>3. /\ pc'[b] = "done"
      /\ \A c \in Block \ {b} : pc'[c] = pc[c] /\ result'[c] = result[c]
  BY <1>1, <1>2, FinishDoes
<1> QED BY <1>1, <1>2, <1>3 DEF Records, OthersRecords

LEMMA ChangesRecorded ==
    ASSUME RecordedInv, NEW b \in Block,
           \/ FindUpdate(b) \/ UpdateFails(b) \/ Updated(b)
           \/ FindDelete(b) \/ DeleteFails(b) \/ Deleted(b) \/ Apply(b)
    PROVE  Records(b)' /\ pc'[b] # "lookup" /\ OthersRecords(b)
<1>1. TypeInv
  BY DEF RecordedInv
<1>2. /\ pc[b] \in {"findUpdate", "update", "findDelete", "delete", "plan"}
      /\ made' = made
  BY NothingMadeDoes DEF FindUpdate, UpdateFails, Updated, FindDelete,
                         DeleteFails, Deleted, Apply
<1>3. \A c \in Block \ {b} : custody'[c] = custody[c]
  BY <1>1 DEF FindUpdate, UpdateFails, Updated, FindDelete, DeleteFails, Deleted,
     Apply, Finds, NoLongerExists, Forget, Keep, SetItem, stateVars, TypeInv, TypeOK
<1>4. /\ pc'[b] \notin {"lookup", "reread"}
      /\ \A c \in Block \ {b} : pc'[c] = pc[c] /\ result'[c] = result[c]
  <2>1. CASE Apply(b)
    <3>1. Operation(b) \in {"done", "create", "findDelete", "findUpdate"}
      BY OperationTyped
    <3> QED BY <1>1, <2>1, <3>1 DEF Apply, Goto, TypeInv, TypeOK
  <2>2. CASE ~Apply(b)
    <3>1. \/ \E outcome : Finish(b, outcome)
          \/ \E where \in {"update", "delete", "create"}, o \in Object \cup {Nobody} :
                 Proceed(b, where, o)
      BY <2>2 DEF FindUpdate, UpdateFails, Updated, FindDelete, DeleteFails,
                  Deleted, AfterDelete, Finds, Alive
    <3> QED BY <1>1, <3>1, FinishDoes, ProceedDoes
  <2> QED BY <2>1, <2>2
<1> QED BY <1>2, <1>3, <1>4, NothingNewRecorded DEF OthersRecords

LEMMA RecordedStep ==
    ASSUME Transport = "API", RecordedInv, [Next]_vars PROVE RecordedInv'
<1>1. TypeInv'
  BY TypeInvStep DEF RecordedInv
<1>2. ASSUME NEW b \in Block, Handle(b) PROVE RecordedInv'
  <2>1. ~LookupFinds(b) /\ ~LookupFails(b)
    BY DEF RecordedInv, LookupFinds, LookupFails
  <2>2. Records(b)' /\ pc'[b] # "lookup" /\ OthersRecords(b)
    BY <1>2, <2>1, ReadsRecorded, CreateRecorded, RereadRecorded, ChangesRecorded
       DEF Handle
  <2>3. ASSUME NEW c \in Block \ {b} PROVE Records(c)' /\ pc'[c] # "lookup"
    BY <2>2 DEF OthersRecords, RecordedInv, Records
  <2> QED BY <1>1, <2>2, <2>3 DEF RecordedInv
<1>3. CASE NextRun
  <2>1. /\ made' = [b \in Block |-> Nobody]
        /\ \E w : pc' = [b \in Block |-> FirstStep(b, w)]
    BY <1>3 DEF NextRun
  <2>2. \A b \in Block : made'[b] = Nobody /\ pc'[b] \in {"refresh", "importFind", "plan"}
    BY <2>1, FirstStepTyped
  <2> QED BY <1>1, <2>2 DEF RecordedInv, Records
<1>4. CASE Outside
  <2>1. UNCHANGED <<custody, made, pc, result>>
    BY <1>4 DEF Outside, stateVars
  <2> QED BY <1>1, <2>1 DEF RecordedInv, Records
<1>5. CASE UNCHANGED vars
  <2>1. UNCHANGED <<custody, made, pc, result>>
    BY <1>5 DEF vars, stateVars
  <2> QED BY <1>1, <2>1 DEF RecordedInv, Records
<1> QED BY <1>2, <1>3, <1>4, <1>5 DEF Next

\* What ResourceCreate has left on the router is in the state, or its error
\* was reported: over the API for any resource, over REST for those whose
\* lookup by name nobody else can lead astray.
THEOREM CreationsAreRecorded ==
    (Transport = "API" \/ ById) /\ Spec => []CreatedIsRecorded
<1>1. CASE Transport = "API"
  <2>1. Init => RecordedInv
    <3> SUFFICES ASSUME Init, NEW b \in Block PROVE Records(b) /\ pc[b] # "lookup"
      BY InitHasType DEF RecordedInv
    <3>1. pc[b] = FirstStep(b, want) /\ made[b] = Nobody
      BY DEF Init
    <3> QED BY <3>1, FirstStepTyped DEF Records
  <2>2. RecordedInv /\ [Next]_vars => RecordedInv'
    BY <1>1, RecordedStep
  <2>3. RecordedInv => CreatedIsRecorded
    BY DEF RecordedInv, Records, CreatedIsRecorded, TypeInv, Consistent, RecordPC
  <2> QED BY <2>1, <2>2, <2>3, PTL DEF Spec
<1>2. CASE ById
  <2>1. SuccessInv => CreatedIsRecorded
    BY DEF SuccessInv, Local, Records, CreatedIsRecorded, TypeInv, Consistent,
           RecordPC
  <2> QED BY <1>2, <2>1, SuccessInvariant, PTL
<1> QED BY <1>1, <1>2

-----------------------------------------------------------------------------
(* An import that has found its object reads that object.                  *)

Identified(b) ==
    pc[b] = "importRead" => custody[b] \in Object /\ record[b].id = custody[b]

ImportInv == TypeInv /\ \A b \in Block : Identified(b)

LEMMA OthersUntouched ==
    ASSUME TypeInv, NEW b \in Block, Handle(b), NEW c \in Block \ {b}
    PROVE  record'[c] = record[c] /\ custody'[c] = custody[c] /\ pc'[c] = pc[c]
<1>1. pc'[c] = pc[c]
  BY DEF Handle, RefreshFails, RefreshFindsNothing, RefreshFinds, ImportFails,
     ImportGiven, ImportFinds, ImportReadFails, ImportReadFinds, CreateFails,
     CreateAnswered, CreateAnswerEmpty, LookupFinds, LookupFails, RereadFinds,
     RereadFails, FindUpdate, UpdateFails, Updated, FindDelete, DeleteFails,
     Deleted, Apply, ReadOrAbort, Created, Finds, AfterDelete, Proceed, Finish,
     Goto, TypeInv, TypeOK
<1>2. record'[c] = record[c] /\ custody'[c] = custody[c]
  BY DEF Handle, RefreshFails, RefreshFindsNothing, RefreshFinds, ImportFails,
     ImportGiven, ImportFinds, ImportReadFails, ImportReadFinds, CreateFails,
     CreateAnswered, CreateAnswerEmpty, LookupFinds, LookupFails, RereadFinds,
     RereadFails, FindUpdate, UpdateFails, Updated, FindDelete, DeleteFails,
     Deleted, Apply, Created, Finds, NoLongerExists, Identify, SetId, SetItem,
     Taint, Forget, Keep, stateVars, TypeInv, TypeOK
<1> QED BY <1>1, <1>2

\* Only the lookup of an import leads to its read, with the object it found.
LEMMA ImportIdentifies ==
    ASSUME ImportInv, NEW b \in Block, Handle(b)
    PROVE  Identified(b)'
<1>1. TypeInv
  BY DEF ImportInv
<1>2. CASE ImportGiven(b) \/ ImportFinds(b)
  <2>1. PICK o \in Object : Identify(b, o, o)
    <3>1. 1..born \subseteq Object
      BY <1>1, LifecycleAssumption DEF TypeInv, TypeOK, Object
    <3> QED BY <1>2, <3>1 DEF ImportGiven, ImportFinds, Alive
  <2>2. record[b] \in Record
    BY <1>1 DEF TypeInv, TypeOK
  <2>3. record[b] \in [id : Id \cup {NoId}, item : Item \cup {NoItem},
                       tainted : BOOLEAN]
    <3>1. CASE record[b] = NoRecord
      BY <3>1 DEF NoRecord
    <3>2. CASE record[b] # NoRecord
      BY <2>2, <3>2 DEF Record
    <3> QED BY <3>1, <3>2
  <2>4. custody'[b] = o /\ record'[b].id = o
    BY <1>1, <2>1, <2>3 DEF Identify, Keep, TypeInv, TypeOK
  <2> QED BY <2>4 DEF Identified
<1>3. CASE ~(ImportGiven(b) \/ ImportFinds(b))
  <2>1. CASE Apply(b)
    <3>1. pc'[b] = Operation(b)
      BY <1>1, <2>1 DEF Apply, Goto, TypeInv, TypeOK
    <3> QED BY <3>1, OperationTyped DEF Identified
  <2>2. CASE ~Apply(b)
    <3>1. \/ \E where \in {"plan", "aborted"} : ReadOrAbort(b, where)
          \/ \E outcome : Finish(b, outcome)
          \/ \E where \in {"update", "delete", "create", "reread", "lookup"} :
                \E o : Proceed(b, where, o)
      BY <1>3, <2>2
         DEF Handle, RefreshFails, RefreshFindsNothing, RefreshFinds, ImportFails,
             ImportReadFails, ImportReadFinds, CreateFails, CreateAnswered,
             CreateAnswerEmpty, LookupFinds, LookupFails, RereadFinds,
             RereadFails, FindUpdate, UpdateFails, Updated, FindDelete,
             DeleteFails, Deleted, Created, Finds, AfterDelete
    <3>2. pc'[b] # "importRead"
      BY <1>1, <3>1, ReadOrAbortDoes, FinishDoes, ProceedDoes
    <3> QED BY <3>2 DEF Identified
  <2> QED BY <2>1, <2>2
<1> QED BY <1>2, <1>3

LEMMA ImportInvStep ==
    ASSUME ImportInv, [Next]_vars PROVE ImportInv'
<1>1. TypeInv'
  BY TypeInvStep DEF ImportInv
<1>2. ASSUME NEW b \in Block, Handle(b) PROVE ImportInv'
  BY <1>1, <1>2, ImportIdentifies, OthersUntouched DEF ImportInv, Identified
<1>3. CASE NextRun
  <2>1. ASSUME NEW b \in Block PROVE pc'[b] # "importRead"
    BY <1>3, FirstStepTyped DEF NextRun
  <2> QED BY <1>1, <2>1 DEF ImportInv, Identified
<1>4. CASE UNCHANGED <<record, custody, pc>>
  BY <1>1, <1>4 DEF ImportInv, Identified
<1> QED BY <1>2, <1>3, <1>4 DEF Next, Outside, vars, stateVars

ImportStep ==
    \A b \in Block : pc[b] = "importRead" /\ pc'[b] = "aborted"
        => faults' > faults \/ router[custody[b]] = NoItem

\* ImportStateCustomContext with internal ids: an import that found its object
\* fails only with a request that failed, or when the object is gone.
THEOREM ImportsSucceed == IdType = "Id" /\ Spec => ImportSucceeds
<1> SUFFICES ASSUME IdType = "Id" PROVE Spec => ImportSucceeds
  OBVIOUS
<1>1. Init => ImportInv
  BY InitHasType, FirstStepTyped DEF Init, ImportInv, Identified
<1>2. ImportInv /\ [Next]_vars => ImportInv'
  BY ImportInvStep
<1>3. ASSUME ImportInv, [Next]_vars PROVE ImportStep
  <2> SUFFICES ASSUME NEW b \in Block, pc[b] = "importRead", pc'[b] = "aborted"
               PROVE  faults' > faults \/ router[custody[b]] = NoItem
    BY DEF ImportStep
  <2>1. Handle(b)
    <3>1. ~NextRun
      BY DEF NextRun, RunOver, AllDone
    <3>2. pc' # pc
      OBVIOUS
    <3>3. \E c \in Block : Handle(c)
      BY <1>3, <3>1, <3>2 DEF Next, Outside, vars
    <3> QED BY <1>3, <3>3, OthersUntouched DEF ImportInv
  <2>2. ReadFails \/ ReadFindsNothing(IdType, record[b].id)
    <3>1. ImportReadFails(b) \/ ImportReadFinds(b)
      BY <2>1 DEF Handle, RefreshFails, RefreshFindsNothing, RefreshFinds,
         ImportFails, ImportGiven, ImportFinds, CreateFails, CreateAnswered,
         CreateAnswerEmpty, LookupFinds, LookupFails, RereadFinds, RereadFails,
         FindUpdate, UpdateFails, Updated, FindDelete, DeleteFails, Deleted, Apply
    <3>2. ImportReadFinds(b) => pc'[b] = "plan"
      BY <1>3, ReadOrAbortDoes DEF ImportReadFinds, ImportInv
    <3> QED BY <3>1, <3>2 DEF ImportReadFails
  <2>3. faults \in Nat /\ custody[b] \in Object /\ record[b].id = custody[b]
    BY <1>3, LifecycleAssumption DEF ImportInv, Identified, TypeInv, TypeOK
  <2>4. Fault => faults' > faults
    BY <2>3 DEF Fault
  <2>5. \A seen : CutOff(seen) => faults' > faults
    BY <2>3 DEF CutOff
  <2> QED BY <2>2, <2>3, <2>4, <2>5
          DEF ReadFails, ReadFindsNothing, Matching, GetID, Alive
<1>4. ImportInv /\ [Next]_vars => [ImportStep]_vars
  BY <1>3
<1>5. Spec => [][ImportStep]_vars
  BY <1>1, <1>2, <1>4, PTL DEF Spec
<1> QED BY <1>5 DEF ImportSucceeds, ImportStep

-----------------------------------------------------------------------------
(* Updates and deletions touch the block's own object, over both           *)
(* transports, for imported blocks too, and whoever changes the router.    *)

\* The record of a block names the object in its custody, and an update or a
\* deletion has that one in its hands.
InHand(b) ==
    /\ RecordNamesCustody(b)
    /\ pc[b] \in {"update", "delete"} => target[b] = custody[b]

HandsInv == TypeInv /\ \A b \in Block : InHand(b)

\* What a handler finds under the id of its record is the object in custody.
LEMMA FoundIsInCustody ==
    ASSUME IdType = "Id", TypeInv, NEW b \in Block, InHand(b), record[b] # NoRecord,
           NEW o, ReadFinds(IdType, record[b].id, o)
    PROVE  o \in Object /\ o = custody[b]
BY DEF ReadFinds, Matching, GetID, Alive, InHand, RecordNamesCustody

\* A handler gives its record and its custody the same object.
LEMMA RecordFollows ==
    ASSUME IdType = "Id", TypeInv, NEW b \in Block, InHand(b), Handle(b)
    PROVE  RecordNamesCustody(b)'
<1>1. record[b] \in [id : Id \cup {NoId}, item : Item \cup {NoItem}, tainted : BOOLEAN]
  <2>1. record[b] \in Record /\ NoRecord \in [id : {NoId}, item : {NoItem}, tainted : BOOLEAN]
    BY DEF TypeInv, TypeOK, NoRecord
  <2> QED BY <2>1 DEF Record
<1>2. /\ record \in [Block -> Record] /\ custody \in [Block -> Object \cup {Nobody}]
      /\ 1 .. born \subseteq Object /\ RecordNamesCustody(b)
  BY LifecycleAssumption DEF TypeInv, TypeOK, Object, InHand
<1>3. CASE UNCHANGED stateVars
  BY <1>2, <1>3 DEF stateVars, RecordNamesCustody
<1>4. CASE Forget(b)
  BY <1>4, ForgetDoes DEF RecordNamesCustody
<1>5. ASSUME NEW o \in Object, NEW item, SetId(b, o, item, o)
      PROVE  RecordNamesCustody(b)'
  <2>1. /\ record'[b] = [id |-> o, item |-> item, tainted |-> FALSE]
        /\ custody'[b] = o
    BY <1>5, SetIdDoes
  <2> QED BY <2>1, ObjectsAreSomebody DEF RecordNamesCustody
<1>6. ASSUME NEW o \in Object, custody' = [custody EXCEPT ![b] = o],
             \/ record' = [record EXCEPT ![b].id = o]
             \/ record' = [record EXCEPT ![b].id = o, ![b].item = router[o]]
      PROVE  RecordNamesCustody(b)'
  BY <1>1, <1>2, <1>6, ObjectsAreSomebody DEF RecordNamesCustody
<1>7. ASSUME NEW item, SetItem(b, item) \/ Taint(b), pc[b] \in RecordPC
      PROVE  RecordNamesCustody(b)'
  <2>1. record[b] # NoRecord
    BY <1>7 DEF TypeInv, Consistent
  <2>2. record'[b].id = record[b].id /\ custody' = custody
    BY <1>7, <2>1, SetItemDoes
  <2> QED BY <1>2, <2>1, <2>2 DEF RecordNamesCustody
<1>8. ASSUME NEW o \in Object, NEW item, Created(b, o, item)
      PROVE  RecordNamesCustody(b)'
  BY <1>5, <1>8 DEF Created, GetID
<1>9. CASE CreateAnswered(b)
  <2>1. RouterType /\ want[b] \in Item
    BY <1>9, BeforeStep DEF CreateAnswered, ItemPC
  <2>2. born' \in Object
    BY <1>9, <2>1, BornTyped DEF CreateAnswered
  <2> QED BY <1>8, <1>9, <2>2 DEF CreateAnswered
<1>10. CASE LookupFinds(b) \/ ImportReadFinds(b)
  BY <1>5, <1>8, <1>10 DEF LookupFinds, ImportReadFinds, GetID, Alive
<1>11. CASE RefreshFinds(b) \/ ImportGiven(b) \/ ImportFinds(b)
  BY <1>2, <1>6, <1>11
     DEF RefreshFinds, ImportGiven, ImportFinds, Identify, Keep, GetID, Alive
<1>12. CASE RereadFinds(b) \/ RereadFails(b) \/ FindUpdate(b) \/ UpdateFails(b) \/ Updated(b)
  BY <1>3, <1>4, <1>7, <1>12
     DEF RereadFinds, RereadFails, FindUpdate, UpdateFails, Updated, Finds,
         NoLongerExists, RecordPC
<1>13. CASE \/ RefreshFails(b) \/ RefreshFindsNothing(b) \/ ImportFails(b)
            \/ ImportReadFails(b) \/ CreateFails(b) \/ CreateAnswerEmpty(b)
            \/ LookupFails(b) \/ FindDelete(b) \/ DeleteFails(b) \/ Deleted(b) \/ Apply(b)
  BY <1>3, <1>4, <1>13
     DEF RefreshFails, RefreshFindsNothing, ImportFails, ImportReadFails, CreateFails,
         CreateAnswerEmpty, LookupFails, FindDelete, Finds, NoLongerExists, DeleteFails,
         Deleted, Apply
<1> QED BY <1>9, <1>10, <1>11, <1>12, <1>13 DEF Handle

\* Only a lookup leads to an update or a deletion, of what it has found.
LEMMA HandsFollow ==
    ASSUME IdType = "Id", TypeInv, NEW b \in Block, InHand(b), Handle(b)
    PROVE  pc'[b] \in {"update", "delete"} => target'[b] = custody'[b]
<1>1. CASE \E then \in {"update", "delete"} : Finds(b, then) /\ pc[b] \in RecordPC
  <2>1. PICK then, o : /\ Proceed(b, then, o) /\ ReadFinds(IdType, record[b].id, o)
                       /\ UNCHANGED stateVars /\ pc[b] \in RecordPC
    BY <1>1 DEF Finds
  <2>2. record[b] # NoRecord
    BY <2>1 DEF TypeInv, Consistent
  <2> QED BY <2>1, <2>2, FoundIsInCustody, ProceedDoes DEF stateVars
<1>2. CASE ~\E then \in {"update", "delete"} : Finds(b, then) /\ pc[b] \in RecordPC
  <2>1. CASE Apply(b)
    <3>1. pc'[b] = Operation(b)
      BY <2>1 DEF Apply, Goto, TypeInv, TypeOK
    <3> QED BY <3>1, OperationTyped
  <2>2. CASE ~Apply(b)
    <3>1. \/ \E where \in {"plan", "aborted", "importRead"} : ReadOrAbort(b, where)
          \/ \E outcome : Finish(b, outcome)
          \/ \E where \in {"create", "reread", "lookup"} : \E o : Proceed(b, where, o)
      BY <1>2, <2>2
         DEF Handle, RefreshFails, RefreshFindsNothing, RefreshFinds, ImportFails,
             ImportGiven, ImportFinds, ImportReadFails, ImportReadFinds, CreateFails,
             CreateAnswered, CreateAnswerEmpty, LookupFinds, LookupFails, RereadFinds,
             RereadFails, FindUpdate, UpdateFails, Updated, FindDelete, DeleteFails,
             Deleted, Created, AfterDelete, RecordPC
    <3>2. pc'[b] \notin {"update", "delete"}
      BY <3>1, ReadOrAbortDoes, FinishDoes, ProceedDoes
    <3> QED BY <3>2
  <2> QED BY <2>1, <2>2
<1> QED BY <1>1, <1>2

LEMMA OthersAim ==
    ASSUME TypeInv, NEW b \in Block, Handle(b), NEW c \in Block \ {b}
    PROVE  target'[c] = target[c]
BY DEF Handle, RefreshFails, RefreshFindsNothing, RefreshFinds, ImportFails,
   ImportGiven, ImportFinds, ImportReadFails, ImportReadFinds, CreateFails,
   CreateAnswered, CreateAnswerEmpty, LookupFinds, LookupFails, RereadFinds,
   RereadFails, FindUpdate, UpdateFails, Updated, FindDelete, DeleteFails,
   Deleted, Apply, ReadOrAbort, Created, Finds, AfterDelete, Proceed, Finish,
   TypeInv, TypeOK

LEMMA HandsInvStep ==
    ASSUME IdType = "Id", HandsInv, [Next]_vars PROVE HandsInv'
<1>1. TypeInv /\ TypeInv' /\ \A b \in Block : InHand(b)
  BY TypeInvStep DEF HandsInv
<1>2. ASSUME NEW b \in Block, Handle(b), NEW c \in Block PROVE InHand(c)'
  <2>1. CASE c = b
    BY <1>1, <1>2, <2>1, RecordFollows, HandsFollow DEF InHand
  <2>2. CASE c # b
    <3>1. /\ record'[c] = record[c] /\ custody'[c] = custody[c]
          /\ pc'[c] = pc[c] /\ target'[c] = target[c]
      BY <1>1, <1>2, <2>2, OthersUntouched, OthersAim
    <3> QED BY <1>1, <3>1 DEF InHand, RecordNamesCustody
  <2> QED BY <2>1, <2>2
<1>3. ASSUME NextRun, NEW c \in Block PROVE InHand(c)'
  <2>1. pc'[c] \notin {"update", "delete"}
    BY <1>3, FirstStepTyped DEF NextRun
  <2> QED BY <1>1, <1>3, <2>1 DEF InHand, RecordNamesCustody, NextRun, stateVars
<1>4. CASE UNCHANGED <<record, custody, pc, target>>
  BY <1>1, <1>4 DEF HandsInv, InHand, RecordNamesCustody
<1> QED BY <1>1, <1>2, <1>3, <1>4 DEF HandsInv, Next, Outside, vars, stateVars

OnlyOwnStep ==
    \A o \in Object : (outsides' = outsides /\ router[o] # router'[o])
        => \/ o > born
           \/ \E b \in Block : custody[b] = o /\ pc[b] \in {"update", "delete"}

\* With internal ids Terraform changes and deletes only what a block has
\* custody of: ResourceUpdate and ResourceDelete after their lookup, over both
\* transports and for imported blocks too, whichever requests fail and however
\* the router changed in between.
THEOREM OnlyOwnObjectsChange == IdType = "Id" /\ Spec => OnlyOwnObjects
<1> SUFFICES ASSUME IdType = "Id" PROVE Spec => OnlyOwnObjects
  OBVIOUS
<1>1. Init => HandsInv
  BY InitHasType, FirstStepTyped DEF Init, HandsInv, InHand, RecordNamesCustody
<1>2. HandsInv /\ [Next]_vars => HandsInv'
  BY HandsInvStep
<1>3. ASSUME HandsInv, [Next]_vars PROVE OnlyOwnStep \/ UNCHANGED vars
  <2>1. CASE UNCHANGED vars
    BY <2>1
  <2>2. CASE NextRun
    BY <2>2 DEF NextRun, routerVars, OnlyOwnStep
  <2>3. CASE Outside
    <3>1. outsides' = outsides + 1 /\ outsides \in Nat
      BY <1>3, <2>3, LifecycleAssumption DEF Outside, HandsInv, TypeInv, TypeOK
    <3> QED BY <3>1 DEF OnlyOwnStep
  <2>4. ASSUME NEW b \in Block, Handle(b) PROVE OnlyOwnStep
    <3>1. CASE UNCHANGED router
      BY <3>1 DEF OnlyOwnStep
    <3>2. CASE Born(b)
      <4>1. router' = [router EXCEPT ![born + 1] = want[b]] /\ born \in Nat
        BY <1>3, <3>2, LifecycleAssumption DEF Born, Put, HandsInv, TypeInv, TypeOK
      <4> QED BY <1>3, <4>1 DEF OnlyOwnStep, HandsInv, TypeInv, TypeOK
    <3>3. ASSUME NEW item, Executed(b, item), pc[b] \in {"update", "delete"}
          PROVE OnlyOwnStep
      <4>1. target[b] = custody[b]
        BY <1>3, <3>3 DEF HandsInv, InHand
      <4>2. router' = [router EXCEPT ![custody[b]] = item]
        BY <3>3, <4>1 DEF Executed, Put
      <4> QED BY <1>3, <3>3, <4>2 DEF OnlyOwnStep, HandsInv, TypeInv, TypeOK
    <3>4. \/ UNCHANGED router \/ Born(b)
          \/ \E item : Executed(b, item) /\ pc[b] \in {"update", "delete"}
      <4>1. NothingMade => UNCHANGED router
        BY DEF NothingMade
      <4>2. \A where : ReadOrAbort(b, where) => UNCHANGED router
        BY <4>1 DEF ReadOrAbort
      <4> QED BY <2>4, <4>1, <4>2
              DEF Handle, RefreshFails, RefreshFindsNothing, RefreshFinds,
                  ImportFails, ImportGiven, ImportFinds, ImportReadFails,
                  ImportReadFinds, CreateFails, CreateAnswered,
                  CreateAnswerEmpty, LookupFinds, LookupFails, RereadFinds,
                  RereadFails, FindUpdate, UpdateFails, Updated, FindDelete,
                  DeleteFails, Deleted, Apply
    <3> QED BY <3>1, <3>2, <3>3, <3>4
  <2> QED BY <1>3, <2>1, <2>2, <2>3, <2>4 DEF Next
<1>4. HandsInv /\ [Next]_vars => [OnlyOwnStep]_vars
  BY <1>3
<1>5. Spec => [][OnlyOwnStep]_vars
  BY <1>1, <1>2, <1>4, PTL DEF Spec
<1> QED BY <1>5 DEF OnlyOwnObjects, OnlyOwnStep

=============================================================================
