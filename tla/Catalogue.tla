----------------------------- MODULE Catalogue -----------------------------
(***************************************************************************)
(* Every schema of the provider, and what the rest of the model takes from *)
(* them: the menus offered, and the kinds of attribute they are made of.   *)
(***************************************************************************)
EXTENDS BridgeMenus, InterfaceMenus, WirelessMenus, IpMenus, FirewallMenus,
        RoutingMenus, SystemMenus, FormerMenus, DataSources

\* The menus that resources are offered for.
Resources ==
    BridgeMenu \cup InterfaceMenu \cup WirelessMenu \cup IpMenu
        \cup FirewallMenu \cup RoutingMenu \cup SystemMenu

\* The types that the conversion treats alike.
Class(type) ==
    CASE type \in {"number", "decimal"} -> "number"
      [] type \in {"text list", "text set", "number list", "number set"} -> "list"
      [] OTHER -> type

Kinds ==
    {[type |-> Class(a.type), traits |-> a.traits, nested |-> FALSE,
      computedBlock |-> FALSE] :
        a \in {b \in UNION {m.attributes : m \in Resources} : b.type # "block"}}
    \cup
    UNION {{[type |-> Class(p.type), traits |-> p.traits, nested |-> TRUE,
             computedBlock |-> "computed" \in b.traits] : p \in b.parts} :
        b \in {c \in UNION {m.attributes : m \in Resources} :
                   c.type = "block" /\ "skipped" \notin c.traits}}

=============================================================================
