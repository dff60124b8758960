# terraform-provider-routeros: specifications and proofs

The provider translates Terraform resources into commands for a MikroTik
router, over the RouterOS API or its REST interface.  Everything below is about
the Go code in `src/routeros/`.  `PROJECT.json` maps every definition of the
models to the lines it stands for.

## 1. Inventory

| Component | State it keeps | Operations | Talks to |
|---|---|---|---|
| API session pool (`mikrotik_client.go`, `mikrotik_client_api.go`) | `apiPool.idle`, `open`, the condition variable; per session the socket and `lastUsed` | `acquire`, `release`, `discard`, `alive`, dial, run | every resource operation borrows from it; the router closes sessions under it |
| Provider configuration (`NewClient`, `GetRouterOSVersion`) | the global `RouterOSVersion`, the registries of pools and HTTP clients | configure | pool, REST client; every conversion reads `RouterOSVersion` |
| REST client (`mikrotik_client_rest.go`) | a shared `http.Client` | `SendRequest` | the router's REST service |
| CRUD helpers (`mikrotik_crud.go`, `mikrotik.go`) | none | `CreateItem`, `ReadItems`, `UpdateItem`, `DeleteItem` | one of the two clients |
| Resource lifecycle (`resource_actions*.go`) | the Terraform state of one resource: its id and attributes | create, create-and-wait, read, update, delete, import, the `System*` variants | CRUD helpers, conversion |
| Conversion (`mikrotik_serialize.go`) | none | Terraform data to RouterOS words and back, field by field | the resource's schema, the drift table |
| Attribute drift (`mikrotik_resource_drift_implementation.go`) | the table of renamed attributes, built once | `GetDriftMap`, version packing | conversion |
| Parsers (`parse_duration.go`, `parse_data_information_units.go`, `parse_iprange.go`) | none | text to numbers and back | schema diff-suppression and conversion |
| System clock (`resource_system_clock.go`) | the last applied date and time in the Terraform state | create, read, update | a router clock that runs |
| Containers (`resource_container.go`) | state of one container | create, start, stop, wait, delete | a router whose container changes status by itself |
| Certificates (`resource_system_certificate.go`) | a certificate, and the two files an import uploads | create, sign, sign via SCEP, import, delete | files and certificates of the router |
| Move items (`resource_move.go`) | a configured order of item ids | create, read, update | the router's ordered list |
| Files, scripts, sniffer, DNS, services, routing tables, Ethernet and wireless interfaces, logging actions | one resource each | custom handlers around the lifecycle | as above |
| State migration (`provider_resource_state_migration.go`) | a stored Terraform state of an older schema | upgrade functions | none |
| Schema helpers (`provider_schema_helpers.go`) | none | property constructors, diff suppression | conversion |
| About 250 declarative resources and data sources | none of their own | the default handlers | lifecycle, conversion |
| Log redaction (`log_redact.go`) | none | hides values in debug logs | clients |
| Developer tools (`tools/`) | none | generate code and reports | not part of the provider |

### What is hard here

* Terraform runs the operations of one apply concurrently, in goroutines that
  share a pool of at most four sessions per router.
* A session is a byte stream: a reply that is late, cut or unexpected leaves
  the reader out of step with everything that follows.
* A request that fails may have been executed; the provider then has no id for
  an object that exists, or an id for one that does not.
* The router changes on its own or in somebody else's hands between two calls.
* `RouterOSVersion` is one global variable, written by each configuration and
  read by every conversion.
* What Terraform stores is compared with what the router reports on the next
  refresh: a conversion that does not come back to where it started shows up
  as a change nobody made, or hides one somebody did.

`PROJECT.json` lists the hazards one by one, at the lines where they bite,
with the properties that cover them.

## 2. Plan

In this order, the most important behaviour first.  All but what is said to be
left is done.

1. `ApiSessionPool`, refining `RequestService`; proofs of type correctness,
   exclusive lending, the bound on sessions, wakeups, the probing of idle sessions
   and the refinement.
2. `ResourceLifecycle`, refining `Custody`; proofs of type correctness, the
   refinement, that only a block's own object is changed, and what a success means.
3. `SystemClock`; proofs of all its properties.
4. `Conversion`, one attribute, with proofs of its five properties for any kind;
   `Reply`, a whole answer, with proofs of its three properties; `AttributeNames`, the
   renames in force at a version and the packing of versions, with a proof that the names
   match.
5. The global `RouterOSVersion` with several configurations: in `AttributeNames`.
6. `BuiltIns`: the `System*` handlers, `DefaultCreateUpdate`,
   `ResourceCreateAndWait` and resources with handlers of their own.  Left: the
   launch of scripts.
7. `Container`.
8. `CertificateImport`.  Left: an authority's certificate that is revoked.
9. `RuleOrder`: the move of listed items, and `place_before`, with proofs of both.
10. `StateUpgrade`, on the schemas of `FormerMenus`.
11. `Durations` and `AddressRanges`.  Left: units of bits and bytes.
12. `Schemas` and the catalogue: the schemas of all resources and data sources as
    data, on which 4 and 10 are checked.

The safety properties of 4, 8, 9, 10 and 11 and the types of all parts are proved too.
What is left to TLC alone is named in section 5, at its end.

## 3. The models and the code

A definition whose comment begins with "Mutant", "A slip" or "Slips" is not part of
any specification: it is a plausible bug, listed under `mutants` in `PROJECT.json`,
that the property it belongs to must catch.

### 3.1 The API session pool

| Module | What it is |
|---|---|
| `RequestService` | what a caller is promised: a call is answered with its own answer, or it fails |
| `ApiSessionPool` | the pool, its borrowers, the sessions and the router, in detail |
| `MCApiSessionPool` | values and symmetry for TLC |
| `ApiSessionPoolProofs`, `ApiSessionPoolRefinement` | the theorems, of the pool itself and of the refinement |

*State.*  `idle` and `open` are `p.idle` and `p.open`.  `pc[w]` is where a
goroutine is, `held[w]` the session in its hands, `sent[w]` the number of its
current request.  A session is a byte stream: `up`, and `replies`, the replies
that have arrived and that nobody has read.  `age` is the time since
`lastUsed`, `quiet` the time since the router was really heard; the code only
has the former.

*Actions.*  The code between taking the mutex and giving it up (or waiting) is
one action: `TakeIdle`, `ReserveSlot` and `WaitForSession` are the three ways
through `acquire`'s loop, `DialFailed`, `ReturnSession` (with its two variants
for a configuration) and `FreeSlot` those that signal.  What happens outside
the lock is one step each and interleaves: the probe, the dial, the run,
`CloseSession`.  `Signal` wakes any one waiter, and the waiter then competes with
newcomers, as `sync.Cond` allows.  A connection may drop at any time, and any
probe, dial or run may fail; a run that fails leaves its reply in the stream.

*Left out.*  The map from credentials to pools (a look-up under a lock: the
model is of one pool) and the words of the protocol, of which only "a reply
that ends the command" and "anything else" differ.

### 3.2 The resource lifecycle

| Module | What it is |
|---|---|
| `Custody` | who manages which object: at most one block each, until it is gone |
| `ResourceLifecycle` | create, read, update, delete and import of every declarative resource |
| `MCResourceLifecycle` | values and symmetry for TLC |
| `ResourceLifecycleProofs`, `ResourceLifecycleRefinement`, `ResourceLifecycleSuccess` | the theorems: types, custody, what a success means |

*State.*  `router` maps internal ids to objects; ids are not used twice.  An
object is a name and one value that stands for all its other settings.
`record` is the Terraform state, `want` the configuration, `pc` the place of each
block's handler, `target` the internal id it has looked up.  `custody` is a
history variable: the object the record was last made from, which says what a
stale id really refers to.  Two more histories say what became of the others: `left` has
the objects that a block has given up although they were still there, `cut` those of
which the answer to a read has been cut off.

*Actions.*  A request with the local code around it is one action, since
handlers share nothing but the router.  A request fails before or after the
router executed it.  Over REST the body of an answer may be cut before its
first byte, which `SendRequest` takes for an empty answer.  `CreateAnswered`,
`LookupFinds`, `LookupFails` and the two `Reread...` actions are the branches of
`ResourceCreate` and `CreateItem`; `FindUpdate` and `FindDelete` are
`dynamicIdLookup`; the four `Refresh...`/`ImportRead...` pairs are
`ResourceRead`.  What Terraform itself does is external: it refreshes or imports
everything, stops if that failed, applies every block concurrently, keeps the
attributes it had planned after a failed update, and taints what failed after
its id was set.  No order is assumed between blocks.

*Left out.*  Dependencies between blocks, `ResourceCreateAndWait`,
`DefaultCreateUpdate` and the `System*` handlers (they are in `BuiltIns`), the
conversion of fields (in `Conversion`).

### 3.3 The system clock

| Module | What it is |
|---|---|
| `SystemClock` | the resource, a clock that runs, and Terraform around it |
| `MCSystemClock` | values and symmetry for TLC |
| `SystemClockProofs` | the theorems |

*State.*  `router` is what the clock shows, `record` the Terraform state, in which
`Null` means "nothing applied", `legacy` a state of schema version 0.  `agreed` and
`given` are histories: the date and time the configuration has settled on, and the
last value of each the router was given or spared.

*Actions.*  `Set` and `SetFails` are the request of `systemClockApply`, `Reread` and
`RereadFails` the read behind it (`systemClockReadKeepingApplied`), `Refresh`,
`Import` and `Upgrade` the other three entries.  `IsWritten`, `Kept` and
`Refreshed` say, field by field, what is sent and what is stored.  `Tick` lets
the clock show anything at any moment; no property depends on how it runs.

### 3.4 The schemas

`Schemas` is the vocabulary: a menu is a path, what identifies its items, which
handlers it has, its renames and its attributes; an attribute is a key, a type and
a set of traits (`kept` is `AlwaysPresentNotUserProvided`, `secret` is `Sensitive`,
`unset` is an entry of `PropSetUnsetFields`, and so on).  `BridgeMenus`,
`InterfaceMenus`, `WirelessMenus`, `IpMenus`, `FirewallMenus`, `RoutingMenus`,
`SystemMenus` and `DataSources` are the schemas of the provider, one definition
each; `FormerMenus` those that state upgraders know.  `Catalogue` joins them and
takes from them the kinds of attribute there are.  They make no claims by
themselves: they are the constants on which the conversion, the names and the
upgrades are checked, so that an exception in a property is one that some schema
really meets.

### 3.5 Conversion

`Conversion` follows one attribute, of any kind in the catalogue, through edits,
refreshes, imports, applies, failed applies, crashes and changes by others.  `config`
is the configuration, `state` the Terraform state, `router` the setting; values are
classes of values (`Zero`, `A`, `B`, the router's `Default`, a secret's `Mask`, a
`Respelt` value).  `Written` is `TerraformResourceDataToMikrotik`, `Read` is
`MikrotikResourceDataToTerraform`, `Planned` the plan with the rules that suppress a
difference (`Suppressed`), and `habit` how the router reports a setting that is unset or
set.  `KindAssumption` lists what no schema of the catalogue combines, such as a value that
the router may choose and a default; TLC evaluates it on all of them.  The theorems are in
`ConversionProofs`.

### 3.6 Replies

`Reply` takes one answer of the router field by field, in any order, as the range over
a Go map does.  `err` is the variable that all branches share, `diags` the diagnostics,
`gathered` what a map of keys has so far.  A field is its name, the class of its
attribute and whether its value parses.

### 3.7 Names

`AttributeNames` has several configurations of one process, each with a router of its
version.  Connecting, asking for the version and converting are steps of their own; the
global `RouterOSVersion` is what the last configuration wrote.  `GetDriftMap` and the
packing of a version into a number are operators over the tables of the catalogue.

### 3.8 The order of rules

`RuleOrder` is the list of one ordered menu with rules of others in it: creations and
updates that run concurrently (with the list of fields to skip that they share), and
the resource that moves listed rules, and its read, which keeps of the rules on the router
those in the sequence that it knows (`Listed`, `KnownOrder`).

### 3.9 State upgrades

`StateUpgrade` runs each upgrader on a stored state of its former schema, with the
object renamed or gone since, and then refreshes.

### 3.10 Containers

`Container` is one container and its handlers: `status` changes by itself, a handler
polls it, and what a start or a stop reports is dropped, as in the code.

### 3.11 Certificates

`CertificateImport` creates, signs or imports a certificate, every request of it failing
in turn, with the files it uploads and the deferred removal.  `device.files` has the files
of the creation under way or last done.  Each creation gives its files new names and removes
no others: what the ones before it have left is in `earlier`, for good, with the files for
which a step had failed there.

### 3.12 Built-in items

`BuiltIns` has nine families of handlers over one menu: found by name and set
(`DefaultCreateUpdate`), found by factory name (Ethernet), known by name (services), one
of a kind (`System*`, with the delete of DNS and the switch of the sniffer), set if there
and created if not (wireless, logging actions), and created and awaited (keys).

### 3.13 Parsers

`Durations` is `ParseDuration` over words of `MaxWord`, digit by digit;
`AddressRanges` the conversion of a range to a prefix over `AddressBits` bits.

The theorems on 3.6 to 3.13 are in `PartsProofs`.

### 3.14 One run for the parts

The parts 3.5 to 3.13 share nothing but the schemas.  `MCParts` puts them in one run:
`part` says whose behaviour it is, the others rest in a state of theirs, and the fairness
of a part is asked of its own steps only.  That nothing is lost by this is a theorem
(`PartsAreTheirOwn`).

## 4. The runs

| Run | Bounds | States | Result |
|---|---|---|---|
| `ApiSessionPool_safety` | 3 workers, 2 sessions, 2 requests each, 1 configuration | 90,424 | types, exclusive lending, the bound, wakeups, probing, refinement |
| `ApiSessionPool_liveness` | the same with 1 request each, no symmetry | 16,900 | every call comes back |
| `ApiSessionPool_reconfigure` | 1 worker, 1 session, 2 configurations | small | **violation** of `HeardRecently` |
| `Lifecycle_api` | 2 blocks, 2 names, 2 values, 2 faults, 1 outside change, 1 edit | 382,195 | types, creations recorded, success is true, second plan empty, only own objects, custody |
| `Lifecycle_rest` | 2 blocks, 2 faults, names not unique, no outside change | 332,852 | creations recorded, success is true, convergence |
| `Lifecycle_import` | 1 block imported, 1 created; 1 fault, 2 outside changes | 161,564 | an import that finds its object succeeds |
| `Lifecycle_cut` | REST, 1 fault | small | **violation** of `ForgottenOnlyWhenGone` |
| `Lifecycle_rename` | identified by name, no fault | small | **violation** of `ForgottenOnlyWhenGone` |
| `Lifecycle_import_by_name` | identified by name, no fault | small | **violation** of `ImportSucceeds` |
| `SystemClock_applied` | date, time and time zone, 2 values, failing reads and creations | 716,724 | types, writes are asked for, success is true, second plan empty |
| `SystemClock_update_fails` | the same with failing updates | small | **violation** of `AskedIsDone` |
| `Parts` | see below | 249,243 | types and the eighteen properties of 3.5 to 3.13 |

*Are the bounds enough?*  Pool: three workers on two slots is the least with a
waiter, a holder and a newcomer that takes what the waiter was woken for; two
requests each let a session be used again after a failure.  The clock of the
pool stops at the age that calls for a probe, since nothing changes beyond it.
The numbers of objects, faults, outside changes and edits of the lifecycle are
capped by `MaxObjects`, `MaxFaults`, `MaxOutside` and `MaxEdits`; five objects are
never used up (a creation that cannot happen would be a deadlock, which is
checked).  Two blocks and two names let one block take a name the other has
given up.  The clock model needs no bound: it is finite by itself.

Parts: the conversion meets every kind of attribute of every schema, and needs no other
bound.  The versions of routers are one before, at and after every rename, one with two
parts and one with a part at 255; two clients are the least that overwrite each other's
version.  Three rules and one of somebody else give every relative position; two moves
are one and its undoing.  A reply has up to four fields of twelve, one more than an
error, a warning and a key of a map.  Two objects let a name be taken over.  Three
troubles of a container and three of a built-in item are a failure, a change by others
and one more during the recovery.  Words end at 63 and numbers have three digits, so that
every product and sum of a duration can wrap; five address bits have every alignment of
a range.

*What holds only with its bounds or settings, and why.*

* `HeardRecently` holds for one configuration; with two, see finding 1.
* Over REST, with people changing the router during the look-up by name that
  follows an empty answer, `CreatedIsRecorded` would fail: the new object can be
  removed and another one of that name be there.  `Lifecycle_rest` therefore has
  no outside change; `Lifecycle_api` has one, where there is no such look-up.
* Over REST, a delete or a refresh whose answer is cut off takes an object for gone that
  exists (finding 2), and the run succeeds.  So of the objects that have been in the state
  `SuccessIsTrue` and `Converges` excuse those in `cut`, and no others (`NothingLeft`); over
  the API there are none.  An object whose creation was reported as failed never was in the
  state, and both leave it out, over either transport: Terraform does not know of it.
* `Converges` is checked where names need not be unique.  Where they are, a
  creation whose reply is lost leaves an object that holds the name, every
  further creation is refused, and it takes an import to go on.
* `AskedIsDone` holds while no update of the clock fails; see finding 5.

*Fairness.*  The pool's liveness assumes weak fairness of every worker's next
step: a goroutine that can run is run by Go's scheduler, and every dial, probe
and run has a deadline.  A worker in `cond.Wait` has no step of its own, so waking
it is left to be shown.  Convergence assumes that handlers go on (their requests
have deadlines) and that Terraform is run again; nothing is assumed about faults
or outside changes, which only the bounds end.  The same is assumed of containers and of
built-in items, and that a router which pulls, extracts, starts, stops or makes a key comes
to an end of it.

## 5. The proofs

Every theorem is for all values of the constants, under the assumptions named
with the constants (`PoolAssumption`, `LifecycleAssumption`, `ClockAssumption`, `FieldAssumption`,
`KindAssumption`, `ObjectAssumption`, `RulesAssumption`, `TroublesAssumption`,
`MishapsAssumption`, `DurationAssumption`, `RangeAssumption`), which TLC evaluates in the runs.
A theorem that needs more says so in its statement, and below.

**Pool.**  `TypeOK` is not inductive: `open` could go below zero.  `SlotInv` adds
`HandsMatchPC` (who holds a session, by place) and `SlotAccounting` (`open` is the
idle sessions plus the workers in places that account for a slot, and at most
`Size`).  From it follow `TypeCorrect`, and with the disjointness of hands and
stack `LendingIsExclusive`; counting both sides gives `RouterSessionsBounded`.
`WakeupsAreNotLost` rests on `WaitersHaveHelp`: while somebody waits, at least
`Size` workers are on their way or hold slots.  `PoolImplementsService` needs
`InStep`: an idle or lent session has nothing unread, one that runs a command at
most the reply its user waits for, and a call's outcome is decided once.  So
the answer read is the answer asked for, whatever failed before.
`LentSessionsWereHeard` has the hypothesis `MaxConfigures <= 1`, because with two
configurations the property fails (finding 1).  `FirstInv` says that until the one
configuration has succeeded only its goroutine is in the pool, with a session that it has
just dialled, and `StampsTrue` that no session has been quiet for longer than since it was
handed back, which is what `acquire` looks at.

**Lifecycle.**  `TypeInv` adds to `TypeOK` that a handler which works on a record or on
a configured item has one (`Consistent`).  For the API, resources identified by
the internal id and created by Terraform (`ApiById`), `CustodyInv` says that the
record names the object in custody, that what a handler has looked up is that
object, and that the router has nothing under an id not yet given.  Then every
step is a step of `Custody` (`LifecycleImplementsCustody`).  The same invariant gives
`ForgottenIsGone`.

That no handler changes an object of another block or of nobody, whatever others do between
look-up and change (`OnlyOwnObjectsChange`), needs less and holds wherever objects are
identified by the internal id: over REST with its cut answers and look-ups by name, and for
blocks that were imported, even two of one object.  `HandsInv` says that a record names the
object in custody and that an update or deletion has that object in its hands.

What a success means is the hardest, since it relates the answers of one run to the
objects of all blocks.  `SuccessInv` has three parts for each block and one for two:
`Holds` (the handler has the object of its record in its hands), `Records` (what was
created is in custody once the handler is done, or an error is reported), `Attains` (what
was read, asked for or reported is so, as long as nobody else has changed the router),
and `Apart` (two blocks never have or make the same object, without which the step of one
could undo the success of another).  Each handler is shown to do no more than `Does`
allows, once, and the invariant follows for the other blocks from that.  The hypothesis
`ById` is that objects are identified by the internal id and created by Terraform, and,
over REST, that nobody else changes the router: there an empty answer to a creation makes
the handler look its object up by name.  From `SuccessInv` follows the part of
`SuccessesAreTrue` that speaks of each block.  That nothing else is left is `LeftInv`: what a
block has given up while it existed is in `cut`, which over the API is empty; a block gives up
its object only when a read of it has found nothing, or it has been deleted (`HandlesGiveUp`).
With `SettledInv` (in a run in peace after a success every block is as configured and no
step plans a change) follows `SecondPlansAreEmpty`, for the API.  `CreationsAreRecorded` holds
over the API without `ById`: no creation looks anything up there, and `RecordedInv`, of which
the id that is set before the new object is read again is a part, needs no more than the
handler's own steps; over REST it comes from `SuccessInv`.  `ImportsSucceed` holds for both transports and with any changes by others; `ImportInv` says that an import
that has found its object reads that one.

**Clock.**  `ClockInv` adds to the types the stages at which a block and a state
exist, that a settled date or time is in the state unless the upgrade has cleared
it, and that a clock being taken over has nothing applied.  `ClockWritesAreAsked`
follows for any failing requests.  `ClockAskedIsDone` needs `GivenInv` (what is
stored was given) and that no update fails.  `ClockSecondPlanIsEmpty` needs `SyncInv`:
after a successful run that was alone, the state and the settings of the router are
as configured.

**Conversion.**  Five theorems, of attributes of any kind that `KindAssumption` allows and
any habit that fits, whatever the history of edits, refreshes, imports, failures and changes
by others.  `SecretsAlwaysSurvive` needs that a mask is in the state only if the router shows
it (`MaskInv`), that a plan has the mask only where it leaves a secret as it is, and that such
a secret is not written.  The others need `ConversionInv`: the values have their type
(`StateShape`, `RouterShape`), what was read last is what a reading gives again, and while the
history is trusted the state and the router `Agree`.  Agreement is no equality: `Known` lists
the ways in which the two may differ although all is well (a spelling, a mask, an empty list, a
map that is not set, a countdown).  That it is kept rests on two lemmas: what is read agrees,
whatever the state was (`ReadAgrees`), and what is not read back agrees because it was sent, or
needed no sending (`WrittenAgrees`).  `NoChangesIsAlwaysTrue` is then a consequence of the
invariant.  `RemovedIsAlwaysCleared`, `SecondPlanIsAlwaysEmpty` (with `ReadBackIsSteady`: what
the router makes of a value that was planned is planned again) and `UnconfiguredIsAlwaysKept` are
established by each apply anew.  The kinds need not be those of today's schemas: a new one
that meets `KindAssumption` has the five properties.  Without any line of the assumption
there is a counterexample to one of the properties or to the invariant.

**Replies.**  An error must not be lost when a later field replaces the diagnostics.
`ErrorInv` says that once a field that does not parse has been taken there is an error
among them; `ErrorMade` and `ErrorKept` are its steps.  `OrderInv` says, of a reply that
parses, that the shared error is clear and that values, keys and warnings are functions
of the set of fields taken so far; with nothing left that is `OrderIsNoMatter`.  Both hold
for any reply of any fields, given `FieldAssumption`: values of classes that are not
parsed cannot fail to parse.

**Rules.**  `SkipInv` says that the list of fields to skip that all calls share is never
written and that an update has `place_before` in the copy it made; with it
`PlacedOnceAndForAll` is inductive, for any rules at the same time and any moves by others.

`OrderAlwaysSettles` speaks of the move.  Two lists without repetitions are the same if they
have the same elements and the same ones before which (`Precedes`); `OrderDetermines` shows
that by counting the predecessors of an element, because an induction over lists is out of
the prover's reach.  `Among`, the loop of the read, is stated by the positions it keeps and not with
`SelectSeq`, of which the provers know nothing: `AmongKeepsOrder` and `PutBeforeKeepsOrder`
say what it and the router's own move do to `Precedes`.  `RulesInv` then has the types, that
a rule being created is not yet on the router (`NotYetOnRouter`: otherwise its creation could
tear a sequence apart that has been put in order), and that after a move which nobody has
overtaken the listed rules stand on the router in their order (`StandsInOrder`).  Rules that the
provider creates and places in the meantime do not matter.

**Names.**  `VersionInv` says that the global variable has no version or one some router
of the process has, and that no conversion was made without one.  While all routers have
one version, `NamesMatch` then follows if the tables give the right names for a router's
own version.  That is the assumption of `NamesAlwaysMatch`; for the menus and versions of
`Parts` TLC confirms it.  The types need no assumption (`NamesTyped`).

**Upgrades.**  `UpgradeInv` says that an upgraded state has the id of the object that it was
found to stand for, or none if there was none, and an obsolete attribute only if the router has
it.  `ObjectAssumption`, that no internal id is empty, is what lets an empty id mean that.

**Certificates.**  `StepsInv` says for each step of the handler what it has done before;
`FailureInv` that nothing follows a failure but the removal of the file; `FilesInv` that while
a file is on the router its removal is deferred, or its import still to come, or something
has failed.  These are about the creation under way; `EarlierInv` says that what it hands on
to `earlier` is excused, since nothing removes it there.  Both theorems follow, for any
sequence of creations and failures.

**Containers.**  `ContainerTypeOK` is inductive as it is, because it says for each handler at
which stages it can be (`Stages`): a creation has nothing to stop, a deletion never starts a
container (`ContainerTyped`).

**Built-in items.**  The types need three more facts (`BuiltInInv`).  `ItemsInv`: the items that
the router has of its own are never lost, and another one appears only where the handlers
create.  `HandlerInv`: a handler is under way exactly while it has a request to make.  `IdInv`:
the id that is recorded is one under which the handlers look, but while a creation is looking
for it and after one that failed (`BuiltInsTyped`).

**Durations.**  As long as a text is not rejected, the word and the number being read are what
they would be in unbounded arithmetic (`DurationInv`).  The lemmas show that each check of the
code comes before a value can wrap more than once (`WrappedOnce`), for words of any width above
nine, units up to the largest word, and any number of digits and parts.

**Ranges.**  `RangeInv` says that the block found so far begins with the range and fits into it.
The provers know nothing of the exponent, so `RangesAreTheSame` has the laws of powers of two
(`PowersOfTwo`: their beginning, their sign, and the product of two) as its hypothesis.

**All parts.**  The run of 3.14 has a next-state relation of its own.  `PartsAreTheirOwn` shows
that each part begins in a state of its own and takes its own steps or none, so that the
theorems above hold of that run (`PartsKeepTheirPromises`) and the types of all parts
together (`PartsTyped`), without any bound.  Both ask that `RestingKind`, the kind of attribute
which the conversion rests on while another part moves, is one of the schemas' kinds.

*Only model-checked.*  Liveness (`CallsReturn`, `Converges`, `BroughtToState`,
`BuiltInsComeTrue`) is out of the reach of the prover.  `Decodable` is a statement about the tables
of former and present schemas, one by one, not about all values of a constant.  Over REST,
`SecondPlanIsEmpty` and custody as `Custody` has it; for resources identified by name, everything
but their types and, over the API, `CreationsAreRecorded`: the violations of section 4 show why.

## 6. Where code and documentation differ

Each is a run of its own; the quotations are in `PROJECT.json` under `findings`.

1. A configuration takes a session and returns it without asking the router
   anything, and returning it renews `lastUsed`: a session on which the router was not heard
   for long is then lent without a probe (`ApiSessionPool_reconfigure`).
2. Over REST a body cut before its first byte is an empty list, and a read takes
   that for a resource that is gone (`Lifecycle_cut`).
3. Renaming a resource identified by its name leaves the old name as its id, and the
   next read forgets it (`Lifecycle_rename`).
4. Importing such a resource sets the internal id, under which the read that follows
   does not find it (`Lifecycle_import_by_name`).
5. An update of the clock that fails stores the new date or time as applied, and
   nothing corrects that later (`SystemClock_update_fails`).

### Deviations that the models have as exceptions

Where the code does what a reader would not expect, the model does it too and the property
names the exception.  No document says otherwise, but for one description of an attribute,
quoted below under the built-in items.

*What is sent and stored* (`Conversion`)

* A property with `AlwaysPresentNotUserProvided` that somebody changes outside never shows as a
  change; one that a failed update left is never repaired.  In a nested block the same
  suppression has no effect.
* A key that leaves a map is not cleared; an empty nested set is read as a list of one empty text;
  a number that is unset is sent as 0.
* The removal of a block that failed is not tried again.
* A secret that is declared and reported as a mask plans a change for ever.
* `keepalive_timeout` of a hotspot and `tx_sector` of a w60g interface are skipped and
  never set; a longer timeout is suppressed where the router counts down.
* An update of a user group whose `policy` is null ends the process
  (`mikrotik_serialize.go:317`).

*What a reply does* (`Reply`)

* A value that does not parse replaces the diagnostics gathered before, and its `err` drops later
  lists and parts of blocks: what else is stored or reported depends on the order of the map.
* Two router names for one attribute in one reply would leave it to chance which value is stored;
  the replies of the model have one.

*Names* (`AttributeNames`)

* A version has parts up to 255 here; nothing in the code bounds one, and 7.256 compares as 8.0.
* The renames that apply are put into the map newest first, so that of two for one attribute the
  oldest would win; none is renamed twice today.
* Two configurations with routers of different versions use each other's names, and one that
  could not connect leaves an empty version on which a conversion ends the process.

*Rules* (`RuleOrder`)

* `/ipv6/firewall/filter` (`resource_ipv6_firewall_filter.go:355`) sends `place_before` with
  every update; nine other menus skip it.

*Upgrades* (`StateUpgrade`)

* `ScalarToList` gives an empty list, whatever the scalar was; `Decodable` speaks of its type only.

*Containers* (`Container`)

* What a start or a stop reports is dropped.  Without a tag, whether a container runs is not
  refreshed.  A wait for a container that is gone, or whose request fails, ends the process; one
  that was being created is then nobody's.

*Certificates* (`CertificateImport`)

* The uploaded file of a private key stays when its upload is not answered or an import after
  it fails.  It has a name of its own, under which no later attempt looks: it stays also when
  one succeeds (`resource_system_certificate.go:441-453`).  The file of a certificate stays when
  its upload is not answered, or its removal fails, of which only the log tells.
* An import takes over any certificate of that name.

*Built-in items* (`BuiltIns`)

* `DefaultCreateUpdate` looks for the configured name also when it updates: a w60g interface
  cannot be renamed, and one renamed by others is forgotten until it has its name again.
* An Ethernet block given another `factory_name` keeps updating the port it had, though the
  description of the attribute says that it "Determines which interface will be updated"
  (`resource_interface_ethernet.go:131`).
* A wireless interface, a logging action or a key whose creation was not answered holds its name:
  every further creation is refused until somebody imports or removes it.

*Parsers* (`Durations`, `AddressRanges`)

* A range that ends at the last address stays a range; "0 hh:mm:ss" is no time at all; the unit
  "us" stands for a nanosecond.

## 7. Not modelled

* Log redaction: text of debug logs, on which nothing else depends.  The developer tools: not
  part of the provider.
* The units of bits and bytes: a number times a unit, whose one hazard (the product is not
  checked) is listed and would be a statement about one multiplication.
* TLS and certificates of the connection, the reading of the provider's arguments, the registry
  of HTTP clients, the re-escaping of invalid JSON: set-up and text, with no state that another
  part sees.
* The launch of a script: one request after a create or an update whose failure is dropped;
  nothing in the state tells that it is due, so that there is nothing it could come to.
* Validators of attributes: they reject a configuration before anything of the above happens.
* The words of both protocols, and the concrete values of attributes.

## 8. Running it

    tlc -config Lifecycle_api.cfg MCResourceLifecycle
    tlc -config Parts.cfg MCParts
    tlapm SystemClockProofs.tla

The module of each run is in `PROJECT.json`.
