------------------------------ MODULE Schemas ------------------------------
(***************************************************************************)
(* The vocabulary the schemas of the provider are written in: a menu of    *)
(* the router, and the attributes through which a resource reads and       *)
(* writes it.  Of an attribute the conversion tells apart its type and its *)
(* traits: whether the configuration may, must or cannot set it, a default,*)
(* the rule that suppresses a difference, and how it is written.  What a   *)
(* value looks like (validation) and what it means (description) are left  *)
(* out.                                                                    *)
(***************************************************************************)
EXTENDS FiniteSets

\* Who sets an attribute.
Required == {"required"}
Optional == {"optional"}
ReadOnly == {"computed"}
OptionalComputed == {"optional", "computed"}

\* A default in the schema, and one that is the zero value of the type.
Defaulted == {"optional", "default"}
Zeroed == {"optional", "zero-default"}

\* Rules that suppress a difference between state and configuration.
Kept == {"optional", "kept"}            \* AlwaysPresentNotUserProvided
Respelled == {"optional", "respelled"}  \* TimeEqual, BitsEqual, HexEqual, ...
Alike == {"optional", "alike"}          \* the same value, otherwise spelled
Countdown == {"optional", "countdown"}  \* a time that the router counts down
Granted == {"optional", "granted"}      \* the policy of a user group

\* How it is treated besides.
Secret == {"secret"}        \* Sensitive
ForceNew == {"force-new"}   \* a change replaces the resource
Unset == {"unset"}          \* named by PropSetUnsetFields
Skipped == {"skipped"}      \* named by PropSkipFields
Dropped == {"dropped"}      \* its menu has PropDropByValue

-----------------------------------------------------------------------------
(* Attributes, several of a kind at a time.                                *)

Attributes(type, traits, names, parts) ==
    {[name |-> n, type |-> type, traits |-> traits, parts |-> parts] :
        n \in names}

Text(traits, names) == Attributes("text", traits, names, {})
Number(traits, names) == Attributes("number", traits, names, {})
Decimal(traits, names) == Attributes("decimal", traits, names, {})
Flag(traits, names) == Attributes("flag", traits, names, {})
Map(traits, names) == Attributes("map", traits, names, {})
TextList(traits, names) == Attributes("text list", traits, names, {})
TextSet(traits, names) == Attributes("text set", traits, names, {})
NumberList(traits, names) == Attributes("number list", traits, names, {})
NumberSet(traits, names) == Attributes("number set", traits, names, {})

\* A nested block, with attributes of its own.
Block(traits, name, parts) == Attributes("block", traits, {name}, parts)

-----------------------------------------------------------------------------
(* Menus: a path, the identifier that resources find their object by, the  *)
(* handlers they are given, and their attributes.                          *)

Id == "id"
Name == "name"

Entry == "entry"          \* DefaultCreate, Read, Update, Delete
Setting == "setting"      \* DefaultSystemCreate, Read, Update, Delete
Validated == "validated"  \* DefaultValidateCreate, DefaultValidateUpdate
Own == "own"              \* handlers of its own
Reading == "reading"      \* a data source
Former == "former"        \* only read, from an old state

Menu(path, id, handlers, attributes) ==
    [path |-> path, id |-> id, handlers |-> handlers,
     attributes |-> attributes, renames |-> {}]

\* A table of names the router does not spell as the schema does.  A name is
\* a tuple of words: "channel.config" is the key config of the map channel.
Renaming(table, menu) == [menu EXCEPT !.renames = table]

\* The answers that the router gives for no value are not read.
Dropping(menu) ==
    [menu EXCEPT !.attributes =
        {[a EXCEPT !.traits = @ \cup Dropped] : a \in @}]

\* The upgrade of a state that was written with an earlier schema: its id was
\* a name, texts and numbers have become lists, an injected default goes.
Upgrading(menu) == [from |-> menu, toId |-> FALSE, lists |-> {}, cleared |-> {}]
NameToId(menu) == [Upgrading(menu) EXCEPT !.toId = TRUE]
ScalarToList(menu, keys) == [Upgrading(menu) EXCEPT !.lists = keys]
ClearInjectedDefault(menu, keys) == [Upgrading(menu) EXCEPT !.cleared = keys]

-----------------------------------------------------------------------------
(* Attributes that many menus share.                                       *)

PropActualMtuRo == Number(ReadOnly, {"actual_mtu"})
PropAllowFastPathRw == Flag(Kept, {"allow_fast_path"})
PropArpRw == Text(Kept, {"arp"})
PropArpTimeoutRw == Text(Kept, {"arp_timeout"})
PropClampTcpMssRw == Flag(Kept, {"clamp_tcp_mss"})
PropCommentRw == Text(Optional, {"comment"})
PropDefaultRo == Flag(ReadOnly, {"default"})
PropDisabledRw == Flag(Kept, {"disabled"})
PropDontFragmentRw == Text(Kept, {"dont_fragment"})
PropDscpRw == Text(Defaulted, {"dscp"})
PropDynamicRo == Flag(ReadOnly, {"dynamic"})
PropFilterRw == Map(Optional, {"filter"})
PropHwOffloadedRo == Flag(ReadOnly, {"hw_offloaded"})
PropInactiveRo == Flag(ReadOnly, {"inactive"})
PropInterfaceRw == Text(Required, {"interface"})
PropInvalidRo == Flag(ReadOnly, {"invalid"})
PropIpsecSecretRw == Text(Kept \cup Secret, {"ipsec_secret"})
PropKeepaliveRw == Text(Kept \cup Alike, {"keepalive"})
PropL2MtuRo == Number(ReadOnly, {"l2mtu"})
PropL2MtuRw == Number(Kept, {"l2mtu"})
PropLocalAddressRw == Text(Kept, {"local_address"})
PropLoopProtectDisableTimeRw == Text(Respelled, {"loop_protect_disable_time"})
PropLoopProtectRw == Text(Kept, {"loop_protect"})
PropLoopProtectSendIntervalRw == Text(Respelled, {"loop_protect_send_interval"})
PropLoopProtectStatusRo == Text(ReadOnly, {"loop_protect_status"})
PropMacAddressRo == Text(ReadOnly, {"mac_address"})
PropNameForceNewRw == Text(Required \cup ForceNew, {"name"})
PropPlaceBefore == Text(Optional \cup ForceNew, {"place_before"})
PropRemoteAddressRw == Text(Kept, {"remote_address"})
PropRunningRo == Flag(ReadOnly, {"running"})
PropVrfRo == Text(ReadOnly, {"vrf"})
PropVrfRw == Text(Kept, {"vrf"})
=============================================================================
