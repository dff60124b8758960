--------------------------- MODULE AttributeNames ---------------------------
(***************************************************************************)
(* The names of attributes, and the version of RouterOS that decides them. *)
(* The router gave some attributes another name in a later version; a menu *)
(* has a table of the names that it never spelled as the schema does.      *)
(* One global variable holds the version for every provider configuration  *)
(* of the process: NewClient overwrites it when a configuration starts and *)
(* again when it has asked its router, while the operations of another     *)
(* configuration convert.                                                  *)
(***************************************************************************)
EXTENDS Integers, Sequences

CONSTANTS
    Client,         \* provider configurations of one process
    Menus,          \* menus, as in Schemas
    RouterVersions  \* versions a router may have: sequences of numbers

VARIABLES
    routerOf,        \* the version of the router of each client
    given,           \* routeros_version of each client, or no version
    phase,           \* how far NewClient is for each client
    RouterOSVersion, \* the global variable
    alive,           \* log.Fatal has not ended the process
    converted        \* the last conversion: whose, and for which version

namesVars == <<routerOf, given, phase, RouterOSVersion, alive, converted>>

NoVersion == <<>>
NoConversion == [client |-> "nobody", version |-> NoVersion]

\* A name is a sequence of words: "channel.config" is <<"channel", "config">>.
\* On the wire hyphens take the place of underscores.
SnakeToKebab(name) == [kebab |-> name]
KebabToSnake(wire) == wire.kebab

\* Three parts of a version are packed into one number, 8 bits for each.
Part(version, i) == IF i <= Len(version) THEN version[i] ELSE 0
parseRouterOSVersion(version) ==
    Part(version, 1) * 65536 + Part(version, 2) * 256 + Part(version, 3)

-----------------------------------------------------------------------------
(* Names that changed, and the map of those that apply to a version.       *)

Change(since, path, tf, mt) ==
    [since |-> since, path |-> path, tf |-> tf, mt |-> mt]

driftAttributeSlice == {
    Change(<<7, 1>>, "/ip/dhcp-server", <<"src_address">>, <<"server_address">>),
    Change(<<7, 1>>, "/routing/ospf/area", <<"nssa_translate">>, <<"nssa_translator">>),
    Change(<<7, 17>>, "/interface/wireguard/peers", <<"is_responder">>, <<"responder">>),
    Change(<<7, 18>>, "/container", <<"tag">>, <<"repo">>),
    Change(<<7, 19>>, "/routing/bgp/connection", <<"address_families">>, <<"afi">>),
    Change(<<7, 19>>, "/routing/bgp/template", <<"address_families">>, <<"afi">>),
    Change(<<7, 20>>, "/container", <<"envlist">>, <<"envlists">>),
    Change(<<7, 20>>, "/container/config", <<"ram_high">>, <<"memory_high">>),
    Change(<<7, 20>>, "/container/envs", <<"name">>, <<"list">>),
    Change(<<7, 20>>, "/interface/vxlan", <<"vrf">>, <<"vtep_vrf">>),
    Change(<<7, 24>>, "/ip/service", <<"address">>, <<"available_from">>)}

\* The slice is in descending order and a later entry of the map replaces an
\* earlier one, so of two changes of one name the older would win.
GetDriftMap(version, path) ==
    LET applied == {d \in driftAttributeSlice : d.path = path /\
            parseRouterOSVersion(version) >= parseRouterOSVersion(d.since)}
    IN  {d \in applied : \A e \in applied : e.tf = d.tf =>
            parseRouterOSVersion(d.since) <= parseRouterOSVersion(e.since)}

Table(menu) == {[tf |-> r[1], mt |-> r[2]] : r \in menu.renames}

\* A change takes the place of what the table has.
Replace(name, from, to, changes, table) ==
    IF \E d \in changes : d[from] = name
    THEN (CHOOSE d \in changes : d[from] = name)[to]
    ELSE IF \E r \in table : r[from] = name
    THEN (CHOOSE r \in table : r[from] = name)[to]
    ELSE name

\* The name that a request has, and the attribute a name of a reply is read
\* into.  A data source knows no table.
Sent(version, menu, name) ==
    SnakeToKebab(Replace(name, "tf", "mt", GetDriftMap(version, menu.path), Table(menu)))

Received(version, menu, wire) ==
    LET table == IF menu.handlers = "reading" THEN {} ELSE Table(menu)
    IN  Replace(KebabToSnake(wire), "mt", "tf", GetDriftMap(version, menu.path), table)

\* The attributes of a menu.  Of a map, the keys that the table names and one
\* more; of a block, every attribute of it; of a data source, the attributes
\* of an item.
Names(menu) == UNION {
    CASE a.type = "map" ->
             {<<a.name, "any">>} \cup
             {r.tf : r \in {t \in Table(menu) : t.tf[1] = a.name /\ Len(t.tf) > 1}}
      [] a.type = "block" ->
             {IF menu.handlers = "reading" THEN <<p.name>> ELSE <<a.name, p.name>> :
                 p \in a.parts}
      [] OTHER -> {<<a.name>>} :
    a \in menu.attributes}

-----------------------------------------------------------------------------
(* The router: it has the newest name of those its version knows.          *)

Later(v, w) ==
    \E i \in 1 .. 3 : /\ Part(v, i) > Part(w, i)
                      /\ \A j \in 1 .. i - 1 : Part(v, j) = Part(w, j)

RouterName(version, menu, name) ==
    LET known == {d \in driftAttributeSlice :
                      d.path = menu.path /\ d.tf = name /\ ~Later(d.since, version)}
        newest == {d \in known : \A e \in known : ~Later(e.since, d.since)}
    IN  SnakeToKebab(
            IF newest # {} THEN (CHOOSE d \in newest : TRUE).mt
            ELSE Replace(name, "tf", "mt", {}, Table(menu)))

-----------------------------------------------------------------------------
(* Steps.                                                                  *)

\* NewClient takes routeros_version, also when it is not given, before it
\* connects to the router.
NewClient(c) ==
    /\ alive /\ phase[c] = "none"
    /\ RouterOSVersion' = given[c]
    /\ phase' = [phase EXCEPT ![c] = "connecting"]
    /\ UNCHANGED <<routerOf, given, alive, converted>>

\* Whoever finds a version does not ask.
Connected(c) ==
    /\ alive /\ phase[c] = "connecting"
    /\ phase' = [phase EXCEPT ![c] =
                     IF RouterOSVersion = NoVersion THEN "asking" ELSE "ready"]
    /\ UNCHANGED <<routerOf, given, RouterOSVersion, alive, converted>>

\* An error leaves the global variable as it is.
NewClientFails(c) ==
    /\ alive /\ phase[c] \in {"connecting", "asking"}
    /\ phase' = [phase EXCEPT ![c] = "failed"]
    /\ UNCHANGED <<routerOf, given, RouterOSVersion, alive, converted>>

GetRouterOSVersion(c) ==
    /\ alive /\ phase[c] = "asking"
    /\ RouterOSVersion' = routerOf[c]
    /\ phase' = [phase EXCEPT ![c] = "ready"]
    /\ UNCHANGED <<routerOf, given, alive, converted>>

\* A slip: it goes on without a version.
NeverFatal(version) == FALSE

\* A conversion without a version ends the process, on purpose.
Fatal(version) == version = NoVersion

\* An operation converts.  (A read while another goroutine writes may be torn
\* between no version and one: that ends the process as well.)
Convert(c) ==
    /\ alive /\ phase[c] = "ready"
    /\ IF Fatal(RouterOSVersion)
       THEN alive' = FALSE /\ UNCHANGED converted
       ELSE converted' = [client |-> c, version |-> RouterOSVersion] /\ UNCHANGED alive
    /\ UNCHANGED <<routerOf, given, phase, RouterOSVersion>>

NamesInit ==
    /\ routerOf \in [Client -> RouterVersions]
    /\ given \in {g \in [Client -> RouterVersions \cup {NoVersion}] :
                      \A c \in Client : g[c] \in {NoVersion, routerOf[c]}}
    /\ phase = [c \in Client |-> "none"]
    /\ RouterOSVersion = NoVersion
    /\ alive = TRUE
    /\ converted = NoConversion

NamesNext == \E c \in Client :
    NewClient(c) \/ Connected(c) \/ NewClientFails(c) \/ GetRouterOSVersion(c) \/ Convert(c)

NamesSpec == NamesInit /\ [][NamesNext]_namesVars

-----------------------------------------------------------------------------
(* Properties.                                                             *)

NamesTypeOK ==
    /\ routerOf \in [Client -> RouterVersions]
    /\ given \in [Client -> RouterVersions \cup {NoVersion}]
    /\ phase \in [Client -> {"none", "connecting", "asking", "ready", "failed"}]
    /\ RouterOSVersion \in RouterVersions \cup {NoVersion}
    /\ alive \in BOOLEAN
    /\ \/ converted = NoConversion
       \/ converted \in [client : Client, version : RouterVersions \cup {NoVersion}]

\* What is sent under a name is what the router calls it, and what the router
\* reports under a name is read into the attribute.
Matching(version, router, menu) ==
    \A n \in Names(menu) :
        /\ menu.handlers # "reading" =>
               Sent(version, menu, n) = RouterName(router, menu, n)
        /\ Received(version, menu, RouterName(router, menu, n)) = n

\* The menus whose names are not all the router's own.
Renamed == {m \in Menus :
    m.renames # {} \/ \E d \in driftAttributeSlice : d.path = m.path}

\* While the routers of all configurations have one version, no interleaving
\* of them makes a conversion use a name that the router does not: a moment
\* without a version ends the process instead.
NamesMatch ==
    (\A c, d \in Client : routerOf[c] = routerOf[d]) /\ converted # NoConversion
        => \A m \in Renamed : Matching(converted.version, routerOf[converted.client], m)

=============================================================================
