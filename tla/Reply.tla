------------------------------- MODULE Reply -------------------------------
(***************************************************************************)
(* MikrotikResourceDataToTerraform over one reply of the router.  A reply  *)
(* is a Go map: its fields are taken one after the other in any order.  A  *)
(* value that does not parse replaces the diagnostics that were gathered;  *)
(* one variable err is shared by all fields and not reset between them;    *)
(* the attributes of a block and the keys of a map are gathered and set at *)
(* the end.  MikrotikResourceDataToTerraformDatasource does the same for a *)
(* data source, with differences.                                          *)
(***************************************************************************)
EXTENDS FiniteSets, Integers

CONSTANTS
    Field,     \* fields: [name, class, good]
    MaxFields  \* in one reply

\* Whether a field is good: its value can be parsed.  Its class:
\*   "service"     .id and other fields of the router's own
\*   "unknown"     the schema does not have it
\*   "skipped"     named by PropSkipFields, or dropped by its value
\*   "text"        and flags: any value will do
\*   "number"
\*   "numbers"     a flat list or set, one of whose elements may be bad
\*   "part"        of a block, a text or a flag
\*   "number part" of a block
\*   "set part"    of a block, one of whose elements may be bad
\*   "lost part"   the block does not have it
\*   "key"         of a map

\* The classes whose values are parsed: those of the others are good.
Parsed == {"number", "numbers", "number part", "set part"}

ASSUME FieldAssumption ==
    /\ \A f \in Field : f.good \in BOOLEAN /\ (f.class \in Parsed \/ f.good)
    /\ MaxFields \in Nat

VARIABLES
    reader,    \* "resource" or "data source"
    reply,     \* the fields of the reply
    left,      \* those not yet taken
    err,       \* the shared variable has an error
    diags,     \* gathered: [field, severity]
    gathered,  \* parts of the block and keys of the map so far
    values     \* what has been set

replyVars == <<reader, reply, left, err, diags, gathered, values>>

Warning(f) == [field |-> f.name, severity |-> "warning"]
Error(f) == [field |-> f.name, severity |-> "error"]

\* A slip: the diagnostics are dropped.
ReplacedBySilence(f) == {}

\* diags = diag.Errorf(...)
Replaced(f) == {Error(f)}

\* After the switch, an error that is still there is appended.
Ended(f, e, ds) ==
    /\ err' = e
    /\ diags' = IF e THEN ds \cup {Error(f)} ELSE ds

-----------------------------------------------------------------------------
(* A field of a reply to a resource.                                       *)

Ignored(f) ==
    /\ f.class \in {"service", "skipped", "unknown", "lost part"}
    /\ diags' = IF f.class \in {"unknown", "lost part"} THEN diags \cup {Warning(f)} ELSE diags
    /\ UNCHANGED <<err, gathered, values>>

TextTaken(f) ==
    /\ f.class = "text"
    /\ values' = values \cup {f.name}
    /\ Ended(f, FALSE, diags)
    /\ UNCHANGED gathered

NumberTaken(f) ==
    /\ f.class = "number"
    /\ IF f.good
       THEN values' = values \cup {f.name} /\ Ended(f, FALSE, diags)
       ELSE UNCHANGED values /\ Ended(f, err, Replaced(f))
    /\ UNCHANGED gathered

\* The good elements are set, unless an error of an earlier field is left.
NumbersTaken(f) ==
    LET ds == IF f.good THEN diags ELSE Replaced(f)
    IN  /\ f.class = "numbers"
        /\ values' = IF err THEN values ELSE values \cup {f.name}
        /\ Ended(f, err, ds)
        /\ UNCHANGED gathered

\* So are the parts of a block.  Only a number resets the error.
PartGathered(f) ==
    LET e == IF f.class = "number part" THEN ~f.good ELSE err
        ds == IF f.good THEN diags ELSE Replaced(f)
    IN  /\ f.class \in {"part", "number part", "set part"}
        /\ gathered' = IF e THEN gathered ELSE gathered \cup {f.name}
        /\ Ended(f, e, ds)
        /\ UNCHANGED values

\* A slip: a key replaces those before it.
LastKeyOnly(f) == {f.name}

WithKey(f) == gathered \cup {f.name}

KeyGathered(f) ==
    /\ f.class = "key"
    /\ gathered' = WithKey(f)
    /\ Ended(f, err, diags)
    /\ UNCHANGED values

ResourceField(f) ==
    \/ Ignored(f) \/ TextTaken(f) \/ NumberTaken(f) \/ NumbersTaken(f)
    \/ PartGathered(f) \/ KeyGathered(f)

-----------------------------------------------------------------------------
(* A field of an item of a data source: errors are appended, and blocks    *)
(* and maps cannot be filled.                                              *)

\* A flat list of a data source is a list of texts.
DatasourceField(f) ==
    /\ UNCHANGED <<err, gathered>>
    /\ CASE f.class \in {"service", "skipped"} -> UNCHANGED <<diags, values>>
         [] f.class \in {"unknown", "lost part", "part", "number part", "set part", "key"} ->
                diags' = diags \cup {Warning(f)} /\ UNCHANGED values
         [] f.class = "number" /\ ~f.good ->
                diags' = diags \cup {Error(f)} /\ UNCHANGED values
         [] OTHER -> values' = values \cup {f.name} /\ UNCHANGED diags

-----------------------------------------------------------------------------
(* Steps.                                                                  *)

TakeField == \E f \in left :
    /\ IF reader = "resource" THEN ResourceField(f) ELSE DatasourceField(f)
    /\ left' = left \ {f}
    /\ UNCHANGED <<reader, reply>>

\* The block and the map are set.
ReplyDone ==
    /\ left = {} /\ gathered # {}
    /\ values' = values \cup gathered /\ gathered' = {}
    /\ UNCHANGED <<reader, reply, left, err, diags>>

ReplyInit ==
    /\ reader \in {"resource", "data source"}
    /\ reply \in {fs \in SUBSET Field :
           /\ Cardinality(fs) <= MaxFields
           /\ \A f, g \in fs : f.name = g.name => f = g}
    /\ left = reply
    /\ err = FALSE /\ diags = {} /\ gathered = {} /\ values = {}

ReplyNext == TakeField \/ ReplyDone

ReplySpec == ReplyInit /\ [][ReplyNext]_replyVars

-----------------------------------------------------------------------------
(* Properties.                                                             *)

ReplyRead == left = {} /\ gathered = {}
Unparsable(f) == ~f.good /\ (reader = "resource" \/ f.class = "number")

ReplyTypeOK ==
    LET names == {f.name : f \in reply}
    IN  /\ reader \in {"resource", "data source"}
        /\ left \subseteq reply /\ reply \subseteq Field
        /\ err \in BOOLEAN
        /\ diags \subseteq [field : names, severity : {"warning", "error"}]
        /\ gathered \subseteq names /\ values \subseteq names

\* A reply with a value that does not parse is always reported as an error,
\* in whatever order its fields are taken and whatever else they report: the
\* run does not take the attributes that were not set for read.
ErrorsSurvive ==
    ReplyRead /\ (\E f \in reply : Unparsable(f)) => \E d \in diags : d.severity = "error"

\* A reply that parses gives the same values and warnings in every order.
OrderIsNoMatter ==
    ReplyRead /\ (\A f \in reply : ~Unparsable(f)) =>
        LET lost == {"unknown", "lost part"} \cup
                (IF reader = "resource" THEN {} ELSE {"part", "number part", "set part", "key"})
        IN  /\ values = {f.name : f \in {g \in reply :
                             g.class \notin lost \cup {"service", "skipped"}}}
            /\ diags = {Warning(f) : f \in {g \in reply : g.class \in lost}}

=============================================================================
