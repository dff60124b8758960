---------------------------- MODULE StateUpgrade ----------------------------
(***************************************************************************)
(* A state that an earlier version of the provider has written is upgraded *)
(* and then refreshed.  The object it stands for was identified by its     *)
(* name and is by its internal id; attributes that were texts or numbers   *)
(* are lists; an obsolete attribute had a default.  Meanwhile other people *)
(* rename, remove and create objects.                                      *)
(***************************************************************************)
EXTENDS Catalogue

CONSTANT Object  \* internal ids; one name is enough

\* An internal id is never empty: a state whose id is empty has no object.
ASSUME ObjectAssumption == "" \notin Object

VARIABLES
    upgrade,  \* what is done to the state
    objects,  \* the objects of the router: their name, or "gone"
    knows,    \* the router still knows the obsolete attribute
    stored,   \* the state: its version, id and values
    meant,    \* history: the object the state stood for when it was upgraded
    step,     \* what happened last
    calm      \* since the upgrade nobody has changed an object

upgradeVars == <<upgrade, objects, knows, stored, meant, step, calm>>

Gone == "gone"
Named == {o \in Object : objects[o] = "n"}

\* A slip: the id stays a name.
TheName(o) == "n"

GetID(o) == o

\* A slip: a scalar stays a scalar.
LeftScalar(u, a) == Class(a.type)

\* stateMigrationScalarToList drops the value (reflect.Append returns a slice
\* that nobody keeps): the lists are empty.
UpgradedClass(u, a) == IF a.name \in u.lists THEN "list" ELSE Class(a.type)

Upgraded(id) == [stored EXCEPT
    !.version = 1, !.id = id,
    !.value = IF upgrade.lists # {} THEN "empty" ELSE @,
    !.obsolete = IF upgrade.cleared # {} THEN FALSE ELSE @]

\* stateMigrationNameToId asks the router for the name; the others do not.
Upgrade ==
    /\ stored.version = 0
    /\ IF ~upgrade.toId THEN stored' = Upgraded(stored.id) /\ meant' = stored.id
       ELSE IF Named = {} THEN stored' = Upgraded("") /\ meant' = Gone
       ELSE \E o \in Named : stored' = Upgraded(GetID(o)) /\ meant' = o
    /\ step' = "upgraded" /\ calm' = TRUE
    /\ UNCHANGED <<upgrade, objects, knows>>

\* The router does not answer: the state stays as it is.
UpgradeFails ==
    /\ stored.version = 0 /\ upgrade.toId
    /\ step' = "failed"
    /\ UNCHANGED <<upgrade, objects, knows, stored, meant, calm>>

\* A state without an id is not read but dropped, and so is one whose object
\* is gone.
RefreshUpgraded ==
    /\ stored.version = 1 /\ step # "dropped"
    /\ IF stored.id \in Object /\ objects[stored.id] # Gone
       THEN /\ stored' = [stored EXCEPT !.value = "read", !.obsolete = @ \/ knows]
            /\ step' = "read"
       ELSE /\ stored' = [stored EXCEPT !.id = ""]
            /\ step' = "dropped"
    /\ UNCHANGED <<upgrade, objects, knows, meant, calm>>

\* Names are unique.
OthersAct ==
    /\ \E o \in Object, name \in {"n", "m", Gone} :
          /\ objects[o] # name
          /\ name = Gone \/ \A p \in Object : objects[p] # name
          /\ objects' = [objects EXCEPT ![o] = name]
    /\ calm' = FALSE
    /\ UNCHANGED <<upgrade, knows, stored, meant, step>>

UpgradeInit ==
    /\ upgrade \in StateUpgraders
    /\ objects \in {f \in [Object -> {"n", Gone}] :
                        \A o, p \in Object : f[o] = "n" /\ f[p] = "n" => o = p}
    /\ knows \in BOOLEAN /\ meant = Gone
    /\ \E id \in IF upgrade.toId THEN {"n"} ELSE Object :
          stored = [version |-> 0, id |-> id, value |-> "old",
                    obsolete |-> upgrade.cleared # {}]
    /\ step = "written" /\ calm = TRUE

UpgradeNext == Upgrade \/ UpgradeFails \/ RefreshUpgraded \/ OthersAct

UpgradeSpec == UpgradeInit /\ [][UpgradeNext]_upgradeVars

-----------------------------------------------------------------------------
(* Properties.                                                             *)

UpgradeTypeOK ==
    /\ upgrade \in StateUpgraders
    /\ objects \in [Object -> {"n", "m", Gone}]
    /\ knows \in BOOLEAN /\ meant \in Object \cup {Gone} /\ calm \in BOOLEAN
    /\ stored \in [version : {0, 1}, id : Object \cup {"n", ""},
                   value : {"old", "empty", "read"}, obsolete : BOOLEAN]
    /\ step \in {"written", "upgraded", "failed", "read", "dropped"}

\* Terraform decodes the upgraded state with the present schema: an attribute
\* that both schemas have must be of a type that can be decoded.  A number is
\* decoded from a text as well.
Decodable ==
    stored.version = 1 =>
        \A m \in {r \in Resources : r.path = upgrade.from.path} :
            \A a \in upgrade.from.attributes, b \in m.attributes :
                a.name = b.name =>
                    \/ UpgradedClass(upgrade, a) = Class(b.type)
                    \/ a.type = "text" /\ Class(b.type) = "number"

\* The first refresh after an upgrade leaves what the refresh of a present
\* state does: the object that the state stood for, with what the router has,
\* without an attribute that the router does not know; and the state goes only
\* when its object is gone.
UpgradedIsAsRead ==
    /\ step = "read" =>
           stored.id = meant /\ stored.value = "read" /\ (stored.obsolete => knows)
    /\ step = "dropped" /\ calm => meant = Gone \/ objects[meant] = Gone

=============================================================================
