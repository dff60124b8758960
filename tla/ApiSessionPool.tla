--------------------------- MODULE ApiSessionPool ---------------------------
(***************************************************************************)
(* The pool of RouterOS API sessions of one credential set: apiPool,       *)
(* apiSession and the two callers that borrow from it, ApiClient's         *)
(* SendRequest and the provider's configuration, NewClient.                *)
(*                                                                         *)
(* A worker is a goroutine of the provider.  Everything between one        *)
(* p.mu.Lock() and the next p.mu.Unlock() or cond.Wait() is one action, so *)
(* the mutex itself is not a variable; dialling, probing, running a        *)
(* command and closing a socket happen outside the lock and are steps of   *)
(* their own, interleaved with every other worker and with the router.     *)
(*                                                                         *)
(* A session is synchronous: a command puts one reply in the byte stream   *)
(* of its connection, and a reader takes the first reply it finds there.   *)
(***************************************************************************)
EXTENDS Naturals, Sequences, FiniteSets

CONSTANTS Worker,            \* goroutines that use the pool
          Session,           \* names for connections; a closed one is reused
          Size,              \* apiPoolSize
          ProbeAfter,        \* apiIdleProbeAfter, in clock ticks
          MaxRequests,       \* bound: requests one worker issues
          MaxConfigures,     \* bound: configurations in one process
          VersionGiven       \* routeros_version is set, so it is not asked for

ASSUME PoolAssumption ==
    /\ IsFiniteSet(Worker)
    /\ Size \in Nat \ {0}
    /\ ProbeAfter \in Nat \ {0}
    /\ MaxRequests \in Nat
    /\ MaxConfigures \in Nat
    /\ VersionGiven \in BOOLEAN

VARIABLES
    idle,        \* p.idle, a stack: the last element is lent first
    open,        \* p.open
    pc,          \* where each worker is
    held,        \* the sessions a worker has in its hands: none or one
    purpose,     \* what a worker borrows for, see Purpose
    sent,        \* requests a worker has issued; names its current one
    outcome,     \* what became of the worker's last call
    answer,      \* the reply the worker's last answered request was given
    up,          \* the connection of a session is alive
    replies,     \* replies in the byte stream of a session, not yet read
    age,         \* time since s.lastUsed, up to ProbeAfter
    quiet,       \* time since the router was last heard on a session
    configures   \* configurations so far, and how many of them succeeded

poolVars == <<idle, open>>
workerVars == <<pc, held, purpose, sent, outcome, answer>>
sessionVars == <<up, replies, age, quiet>>
vars == <<poolVars, workerVars, sessionVars, configures>>

PC == {"out", "acquire", "wait", "check", "probe", "dial", "lent", "run",
       "return", "discard", "free"}

\* SendRequest for a resource; NewClient's acquire and release; NewClient's
\* GetRouterOSVersion, a SendRequest too.
Purpose == {"request", "configure", "version"}

\* A request is named by its worker and its number; 0 is the worker's probe.
Request == Worker \X Nat
CurrentRequest(w) == <<w, sent[w]>>
ProbeOf(w) == <<w, 0>>

-----------------------------------------------------------------------------
(* Who holds what.                                                         *)

\* The places between p.open++ (or the pop of an idle session) and the
\* p.open-- (or the push) that ends it: a worker there accounts for one slot.
HoldingPC == {"check", "probe", "dial", "lent", "run", "return", "discard",
              "free"}
Holders == {w \in Worker : pc[w] \in HoldingPC}
Waiters == {w \in Worker : pc[w] = "wait"}
Acquirers == {w \in Worker : pc[w] = "acquire"}

IdleSet == {idle[i] : i \in DOMAIN idle}
HeldSet == UNION {held[w] : w \in Worker}
Connected == IdleSet \cup HeldSet

\* Slots a worker at the top of acquire's loop could take at once.
Available == Len(idle) + Size - open

-----------------------------------------------------------------------------
Init ==
    /\ idle = <<>>
    /\ open = 0
    /\ pc = [w \in Worker |-> "out"]
    /\ held = [w \in Worker |-> {}]
    /\ purpose = [w \in Worker |-> "request"]
    /\ sent = [w \in Worker |-> 0]
    /\ outcome = [w \in Worker |-> "none"]
    /\ answer = [w \in Worker |-> ProbeOf(w)]
    /\ up = [s \in Session |-> FALSE]
    /\ replies = [s \in Session |-> <<>>]
    /\ age = [s \in Session |-> 0]
    /\ quiet = [s \in Session |-> 0]
    /\ configures = [started |-> 0, succeeded |-> 0]

-----------------------------------------------------------------------------
(* cond.Signal(): one waiter, if there is one, goes back to the top of     *)
(* acquire's loop.  Which one is left open.  next is the program counter   *)
(* of every worker after the caller's own step.                            *)
Signal(next) ==
    \/ /\ Waiters = {}
       /\ pc' = next
    \/ \E w \in Waiters : pc' = [next EXCEPT ![w] = "acquire"]

Goto(w, where) == pc' = [pc EXCEPT ![w] = where]

-----------------------------------------------------------------------------
(* Calls into the pool.                                                    *)

\* SendRequest on the client a configuration returned.
BeginRequest(w) ==
    /\ pc[w] = "out"
    /\ configures.succeeded > 0
    /\ sent[w] < MaxRequests
    /\ sent' = [sent EXCEPT ![w] = @ + 1]
    /\ purpose' = [purpose EXCEPT ![w] = "request"]
    /\ outcome' = [outcome EXCEPT ![w] = "none"]
    /\ Goto(w, "acquire")
    /\ UNCHANGED <<poolVars, held, answer, sessionVars, configures>>

\* NewClient borrows a session, to fail early if there is none to be had.
BeginConfigure(w) ==
    /\ pc[w] = "out"
    /\ configures.started < MaxConfigures
    /\ configures' = [configures EXCEPT !.started = @ + 1]
    /\ purpose' = [purpose EXCEPT ![w] = "configure"]
    /\ outcome' = [outcome EXCEPT ![w] = "none"]
    /\ Goto(w, "acquire")
    /\ UNCHANGED <<poolVars, held, sent, answer, sessionVars>>

-----------------------------------------------------------------------------
(* acquire                                                                 *)

\* Mutant: lends the top of the stack and removes the bottom.
TakeIdleWrongEnd(w) ==
    /\ pc[w] = "acquire"
    /\ idle # <<>>
    /\ held' = [held EXCEPT ![w] = {idle[Len(idle)]}]
    /\ idle' = Tail(idle)
    /\ Goto(w, "check")
    /\ UNCHANGED <<open, purpose, sent, outcome, answer, sessionVars,
                   configures>>

TakeIdle(w) ==
    /\ pc[w] = "acquire"
    /\ idle # <<>>
    /\ held' = [held EXCEPT ![w] = {idle[Len(idle)]}]
    /\ idle' = SubSeq(idle, 1, Len(idle) - 1)
    /\ Goto(w, "check")
    /\ UNCHANGED <<open, purpose, sent, outcome, answer, sessionVars,
                   configures>>

\* Mutant: p.open <= p.size.
ReserveSlotOneMore(w) ==
    /\ pc[w] = "acquire"
    /\ idle = <<>>
    /\ open <= Size
    /\ open' = open + 1
    /\ Goto(w, "dial")
    /\ UNCHANGED <<idle, held, purpose, sent, outcome, answer, sessionVars,
                   configures>>

ReserveSlot(w) ==
    /\ pc[w] = "acquire"
    /\ idle = <<>>
    /\ open < Size
    /\ open' = open + 1
    /\ Goto(w, "dial")
    /\ UNCHANGED <<idle, held, purpose, sent, outcome, answer, sessionVars,
                   configures>>

WaitForSession(w) ==
    /\ pc[w] = "acquire"
    /\ idle = <<>>
    /\ open >= Size
    /\ Goto(w, "wait")
    /\ UNCHANGED <<poolVars, held, purpose, sent, outcome, answer,
                   sessionVars, configures>>

\* Mutant: <= apiIdleProbeAfter.
LendAtTheLimit(w) ==
    /\ pc[w] = "check"
    /\ \A s \in held[w] : age[s] <= ProbeAfter
    /\ Goto(w, "lent")
    /\ UNCHANGED <<poolVars, held, purpose, sent, outcome, answer,
                   sessionVars, configures>>

LendRecentlyUsed(w) ==
    /\ pc[w] = "check"
    /\ \A s \in held[w] : age[s] < ProbeAfter
    /\ Goto(w, "lent")
    /\ UNCHANGED <<poolVars, held, purpose, sent, outcome, answer,
                   sessionVars, configures>>

\* What writing a command does to the stream: a live connection will carry
\* its reply, a dead one nothing.
Ask(s, request) ==
    replies' = [replies EXCEPT ![s] =
                  IF up[s] THEN Append(@, request) ELSE @]

SendProbe(w) ==
    /\ pc[w] = "check"
    /\ \E s \in held[w] : age[s] >= ProbeAfter /\ Ask(s, ProbeOf(w))
    /\ Goto(w, "probe")
    /\ UNCHANGED <<poolVars, held, purpose, sent, outcome, answer, up, age,
                   quiet, configures>>

\* The probe was answered, with !done or with a !trap: alive() is true.
ProbeAnswered(w) ==
    /\ pc[w] = "probe"
    /\ \E s \in held[w] :
          /\ replies[s] # <<>>
          /\ replies' = [replies EXCEPT ![s] = Tail(@)]
          /\ quiet' = [quiet EXCEPT ![s] = 0]
    /\ Goto(w, "lent")
    /\ UNCHANGED <<poolVars, held, purpose, sent, outcome, answer, up, age,
                   configures>>

\* Mutant: a failed probe is tried again on the same session.
ProbeFailedRetried(w) ==
    /\ pc[w] = "probe"
    /\ Goto(w, "check")
    /\ UNCHANGED <<poolVars, held, purpose, sent, outcome, answer,
                   sessionVars, configures>>

\* The probe met a dead socket, a !fatal or its deadline, which any probe may.
ProbeFailed(w) ==
    /\ pc[w] = "probe"
    /\ Goto(w, "discard")
    /\ UNCHANGED <<poolVars, held, purpose, sent, outcome, answer,
                   sessionVars, configures>>

\* apiDial connected and logged in within the timeout.
DialSucceeded(w) ==
    /\ pc[w] = "dial"
    /\ \E s \in Session \ Connected :
          /\ held' = [held EXCEPT ![w] = {s}]
          /\ up' = [up EXCEPT ![s] = TRUE]
          /\ replies' = [replies EXCEPT ![s] = <<>>]
          /\ age' = [age EXCEPT ![s] = 0]
          /\ quiet' = [quiet EXCEPT ![s] = 0]
    /\ Goto(w, "lent")
    /\ UNCHANGED <<poolVars, purpose, sent, outcome, answer, configures>>

\* Mutant: the slot is given up without a Signal.
DialFailedSilently(w) ==
    /\ pc[w] = "dial"
    /\ open' = open - 1
    /\ Goto(w, "out")
    /\ outcome' = [outcome EXCEPT ![w] = "failed"]
    /\ UNCHANGED <<idle, held, purpose, sent, answer, sessionVars, configures>>

\* The router is unreachable, refuses the login or is slower than the timeout.
DialFailed(w) ==
    /\ pc[w] = "dial"
    /\ open' = open - 1
    /\ Signal([pc EXCEPT ![w] = "out"])
    /\ outcome' = [outcome EXCEPT ![w] = "failed"]
    /\ UNCHANGED <<idle, held, purpose, sent, answer, sessionVars, configures>>

-----------------------------------------------------------------------------
(* What a borrower does with its session.                                  *)

\* A configuration runs nothing on it: release(session, true) at once, whose
\* first act is s.lastUsed = time.Now().
HandBack(w) ==
    /\ pc[w] = "lent"
    /\ purpose[w] = "configure"
    /\ \E s \in held[w] : age' = [age EXCEPT ![s] = 0]
    /\ Goto(w, "return")
    /\ UNCHANGED <<poolVars, held, purpose, sent, outcome, answer, up, replies,
                   quiet, configures>>

Run(w) ==
    /\ pc[w] = "lent"
    /\ purpose[w] # "configure"
    /\ \E s \in held[w] : Ask(s, CurrentRequest(w))
    /\ Goto(w, "run")
    /\ UNCHANGED <<poolVars, held, purpose, sent, outcome, answer, up, age,
                   quiet, configures>>

\* The reply read from the stream ends in !done, with or without a !trap:
\* sessionUsable, so release stamps the session.
RunAnswered(w) ==
    /\ pc[w] = "run"
    /\ \E s \in held[w] :
          /\ replies[s] # <<>>
          /\ answer' = [answer EXCEPT ![w] = Head(replies[s])]
          /\ replies' = [replies EXCEPT ![s] = Tail(@)]
          /\ age' = [age EXCEPT ![s] = 0]
          /\ quiet' = [quiet EXCEPT ![s] = 0]
    /\ outcome' = [outcome EXCEPT ![w] = "answered"]
    /\ Goto(w, "return")
    /\ UNCHANGED <<poolVars, held, purpose, sent, up, configures>>

\* Mutant: every session is usable after its run.
RunFailedKept(w) ==
    /\ pc[w] = "run"
    /\ outcome' = [outcome EXCEPT ![w] = "failed"]
    /\ Goto(w, "return")
    /\ UNCHANGED <<poolVars, held, purpose, sent, answer, sessionVars,
                   configures>>

\* The deadline passed with the reply still to come, the socket dropped, the
\* router said !fatal or a word the client does not know: not sessionUsable.
RunFailed(w) ==
    /\ pc[w] = "run"
    /\ outcome' = [outcome EXCEPT ![w] = "failed"]
    /\ Goto(w, "discard")
    /\ UNCHANGED <<poolVars, held, purpose, sent, answer, sessionVars,
                   configures>>

-----------------------------------------------------------------------------
(* release and discard                                                     *)

PutBack(w, next) ==
    /\ pc[w] = "return"
    /\ \E s \in held[w] : idle' = Append(idle, s)
    /\ held' = [held EXCEPT ![w] = {}]
    /\ Signal([pc EXCEPT ![w] = next])
    /\ UNCHANGED <<open, answer, sessionVars>>

\* A request is over, or a configuration that was told the version.
ReturnSession(w) ==
    /\ purpose[w] = "request" \/ (purpose[w] = "configure" /\ VersionGiven)
    /\ PutBack(w, "out")
    /\ configures' = IF purpose[w] = "configure"
                        THEN [configures EXCEPT !.succeeded = @ + 1]
                        ELSE configures
    /\ UNCHANGED <<purpose, sent, outcome>>

\* NewClient goes on to GetRouterOSVersion, a request like any other.
ReturnThenAskVersion(w) ==
    /\ purpose[w] = "configure" /\ ~VersionGiven
    /\ PutBack(w, "acquire")
    /\ purpose' = [purpose EXCEPT ![w] = "version"]
    /\ sent' = [sent EXCEPT ![w] = @ + 1]
    /\ UNCHANGED <<outcome, configures>>

\* The answer may be a !trap or lack a version, which fails the configuration.
ReturnVersion(w) ==
    /\ purpose[w] = "version"
    /\ PutBack(w, "out")
    /\ \/ configures' = [configures EXCEPT !.succeeded = @ + 1]
       \/ UNCHANGED configures
    /\ UNCHANGED <<purpose, sent, outcome>>

\* Mutant: discard counts the slot free twice.
CloseSessionAndFree(w) ==
    /\ pc[w] = "discard"
    /\ \E s \in held[w] :
          /\ up' = [up EXCEPT ![s] = FALSE]
          /\ replies' = [replies EXCEPT ![s] = <<>>]
    /\ held' = [held EXCEPT ![w] = {}]
    /\ open' = open - 1
    /\ Goto(w, "free")
    /\ UNCHANGED <<idle, purpose, sent, outcome, answer, age, quiet, configures>>

CloseSession(w) ==
    /\ pc[w] = "discard"
    /\ \E s \in held[w] :
          /\ up' = [up EXCEPT ![s] = FALSE]
          /\ replies' = [replies EXCEPT ![s] = <<>>]
    /\ held' = [held EXCEPT ![w] = {}]
    /\ Goto(w, "free")
    /\ UNCHANGED <<poolVars, purpose, sent, outcome, answer, age, quiet,
                   configures>>

\* After a failed probe acquire's loop goes round again; after a failed run
\* the call is over.
FreeSlot(w) ==
    /\ pc[w] = "free"
    /\ open' = open - 1
    /\ Signal([pc EXCEPT ![w] =
                 IF outcome[w] = "none" THEN "acquire" ELSE "out"])
    /\ UNCHANGED <<idle, held, purpose, sent, outcome, answer, sessionVars,
                   configures>>

-----------------------------------------------------------------------------
(* The router and the clock.                                               *)

\* A connection dies: the router restarts, drops its idle sessions, or the
\* path between them does.  What has already arrived can still be read.
Drop(s) ==
    /\ up[s]
    /\ up' = [up EXCEPT ![s] = FALSE]
    /\ UNCHANGED <<poolVars, workerVars, replies, age, quiet, configures>>

\* Time passes, as long as that can make a difference to an open session.
\* Between the two halves of a configuration's hand-back none does.
Tick ==
    LET Older(t) == IF t < ProbeAfter THEN t + 1 ELSE t
    IN  /\ \A w \in Worker : pc[w] = "lent" => purpose[w] # "configure"
        /\ \E s \in Connected : quiet[s] < ProbeAfter
        /\ age' = [s \in Session |-> IF s \in Connected THEN Older(age[s])
                                                        ELSE age[s]]
        /\ quiet' = [s \in Session |-> IF s \in Connected THEN Older(quiet[s])
                                                          ELSE quiet[s]]
        /\ UNCHANGED <<poolVars, workerVars, up, replies, configures>>

\* Every worker has issued its requests and none is inside the pool.
Finished ==
    /\ \A w \in Worker : pc[w] = "out"
    /\ configures.started = MaxConfigures
    /\ configures.succeeded > 0 => \A w \in Worker : sent[w] >= MaxRequests
    /\ UNCHANGED vars

-----------------------------------------------------------------------------
Acquire(w) == TakeIdle(w) \/ ReserveSlot(w) \/ WaitForSession(w)
Check(w) == LendRecentlyUsed(w) \/ SendProbe(w)
ProbeEnds(w) == ProbeAnswered(w) \/ ProbeFailed(w)
DialEnds(w) == DialSucceeded(w) \/ DialFailed(w)
Use(w) == HandBack(w) \/ Run(w)
RunEnds(w) == RunAnswered(w) \/ RunFailed(w)
Return(w) == ReturnSession(w) \/ ReturnThenAskVersion(w) \/ ReturnVersion(w)
Discard(w) == CloseSession(w) \/ FreeSlot(w)

Begin(w) == BeginRequest(w) \/ BeginConfigure(w)
Proceed(w) == \/ Acquire(w) \/ Check(w) \/ ProbeEnds(w) \/ DialEnds(w)
              \/ Use(w) \/ RunEnds(w) \/ Return(w) \/ Discard(w)

Next ==
    \/ \E w \in Worker : Begin(w) \/ Proceed(w)
    \/ \E s \in Session : Drop(s)
    \/ Tick
    \/ Finished

Spec == Init /\ [][Next]_vars

\* A goroutine that can run does, and a dial, a probe or a run ends by its
\* deadline.  A worker in cond.Wait can do nothing itself: it is up to the
\* others to wake it.
FairSpec == Spec /\ \A w \in Worker : WF_vars(Proceed(w))

-----------------------------------------------------------------------------
TypeOK ==
    /\ idle \in Seq(Session)
    /\ open \in Nat
    /\ pc \in [Worker -> PC]
    /\ held \in [Worker -> SUBSET Session]
    /\ purpose \in [Worker -> Purpose]
    /\ sent \in [Worker -> Nat]
    /\ outcome \in [Worker -> {"none", "answered", "failed"}]
    /\ answer \in [Worker -> Request]
    /\ up \in [Session -> BOOLEAN]
    /\ replies \in [Session -> Seq(Request)]
    /\ age \in [Session -> 0..ProbeAfter]
    /\ quiet \in [Session -> 0..ProbeAfter]
    /\ configures \in [started : Nat, succeeded : Nat]

\* A session is in one place only: in the hands of one worker, or once in the
\* stack of idle ones.  "exclusive use means nothing interleaves on it".
ExclusiveLending ==
    /\ \A v, w \in Worker : v # w => held[v] \cap held[w] = {}
    /\ \A i, j \in DOMAIN idle : i # j => idle[i] # idle[j]
    /\ HeldSet \cap IdleSet = {}

\* apiPoolSize bounds the sessions opened to one router: the ones open and the
\* ones being dialled never exceed it, whatever dials, probes and runs fail.
SessionsBounded ==
    Cardinality(Connected) + Cardinality({w \in Worker : pc[w] = "dial"})
        <= Size

\* No wakeup is lost: while workers wait, whatever could be taken at once has
\* somebody at the top of acquire's loop who is about to take it.  A Signal
\* missing after a failed dial or a discard would strand a waiter here.
NoLostWakeup ==
    Waiters # {} => Available <= Cardinality(Acquirers)

\* "a request should not be the thing that finds out": a worker is lent a
\* session only if the router was heard on it within apiIdleProbeAfter.
HeardRecently ==
    [][\A w \in Worker :
          pc[w] # "lent" /\ pc'[w] = "lent"
             => \A s \in held'[w] : quiet'[s] < ProbeAfter]_vars

\* Every call into the pool comes back: no worker waits for ever, although a
\* waiter that was woken may find that somebody else took its session.
CallsReturn == \A w \in Worker : pc[w] # "out" ~> pc[w] = "out"

-----------------------------------------------------------------------------
(* The pool implements the service its callers see.                        *)

InCall(w) == pc[w] # "out" /\ purpose[w] # "configure"

Status == [w \in Worker |->
             IF ~InCall(w) THEN "idle"
             ELSE IF outcome[w] = "none" THEN "asked" ELSE outcome[w]]

Service == INSTANCE RequestService WITH status <- Status, number <- sent

\* Whatever the sessions go through -- runs that time out with their reply still
\* under way, restarts, sessions used again -- a request is answered with its
\* own answer or fails: nobody reads "someone else's answer".
ImplementsService == Service!Spec

=============================================================================
