------------------------ MODULE ApiSessionPoolProofs ------------------------
(***************************************************************************)
(* What TLAPS proves of the session pool, for every number of workers and  *)
(* sessions and every size.                                                *)
(***************************************************************************)
EXTENDS ApiSessionPool, FiniteSetTheorems, SequenceTheorems, TLAPS

\* The places where a worker has a session in its hands.
SessionPC == {"check", "probe", "lent", "run", "return", "discard"}

\* A worker has a session exactly where the code has one in a local variable.
HandsMatchPC ==
    \A w \in Worker :
        IF pc[w] \in SessionPC THEN \E s \in Session : held[w] = {s}
                               ELSE held[w] = {}

\* p.open counts the idle sessions and the slots workers hold, no more.
SlotAccounting ==
    /\ open = Len(idle) + Cardinality(Holders)
    /\ open <= Size

SlotInv == TypeOK /\ HandsMatchPC /\ SlotAccounting

-----------------------------------------------------------------------------
(* Holders is a finite set, and moving one worker changes it by at most    *)
(* that worker.                                                            *)

LEMMA HoldersFinite ==
    /\ IsFiniteSet(Holders)
    /\ Cardinality(Holders) \in Nat
    /\ \A w \in Holders : Cardinality(Holders) >= 1
<1>1. IsFiniteSet(Holders)
  BY FS_Subset, PoolAssumption DEF Holders
<1>2. Cardinality(Holders) \in Nat
  BY <1>1, FS_CardinalityType
<1>3. ASSUME NEW w \in Holders PROVE Cardinality(Holders) >= 1
  <2>1. Holders # {}
    BY <1>3
  <2>2. Cardinality(Holders) # 0
    BY <1>1, <2>1, FS_EmptySet
  <2> QED BY <1>2, <2>2
<1> QED BY <1>1, <1>2, <1>3

\* What a step does to the count of holders, by where the moving worker was
\* and where it is; every other worker keeps its side of the line.
LEMMA HoldersStep ==
    ASSUME NEW w \in Worker,
           \A v \in Worker \ {w} : pc'[v] \in HoldingPC <=> pc[v] \in HoldingPC
    PROVE  /\ (pc'[w] \in HoldingPC <=> pc[w] \in HoldingPC)
                 => Cardinality(Holders') = Cardinality(Holders)
           /\ pc[w] \notin HoldingPC /\ pc'[w] \in HoldingPC
                 => Cardinality(Holders') = Cardinality(Holders) + 1
           /\ pc[w] \in HoldingPC /\ pc'[w] \notin HoldingPC
                 => Cardinality(Holders') = Cardinality(Holders) - 1
<1>1. CASE pc'[w] \in HoldingPC <=> pc[w] \in HoldingPC
  <2>1. Holders' = Holders
    BY <1>1 DEF Holders
  <2> QED BY <1>1, <2>1
<1>2. CASE pc[w] \notin HoldingPC /\ pc'[w] \in HoldingPC
  <2>1. Holders' = Holders \cup {w} /\ w \notin Holders
    BY <1>2 DEF Holders
  <2>2. Cardinality(Holders') = Cardinality(Holders) + 1
    BY <2>1, HoldersFinite, FS_AddElement
  <2> QED BY <1>2, <2>2
<1>3. CASE pc[w] \in HoldingPC /\ pc'[w] \notin HoldingPC
  <2>1. Holders' = Holders \ {w} /\ w \in Holders
    BY <1>3 DEF Holders
  <2>2. Cardinality(Holders') = Cardinality(Holders) - 1
    BY <2>1, HoldersFinite, FS_RemoveElement
  <2> QED BY <1>3, <2>2
<1> QED BY <1>1, <1>2, <1>3

\* Signal moves the caller as told and at most one waiter into acquire.
LEMMA SignalMoves ==
    ASSUME NEW next \in [Worker -> PC], Signal(next),
           \A v \in Worker : pc[v] = "wait" => next[v] = "wait"
    PROVE  /\ pc' \in [Worker -> PC]
           /\ \A v \in Worker : \/ pc'[v] = next[v]
                                \/ pc[v] = "wait" /\ pc'[v] = "acquire"
<1>1. CASE pc' = next
  BY <1>1
<1>2. CASE \E v \in Waiters : pc' = [next EXCEPT ![v] = "acquire"]
  BY <1>2 DEF Waiters, PC
<1> QED BY <1>1, <1>2 DEF Signal

-----------------------------------------------------------------------------
(* Type correctness and the slot count.  They go together: that p.open is  *)
(* never decremented below zero needs the count, the count needs the types.*)

LEMMA SlotInit == Init => SlotInv
<1> SUFFICES ASSUME Init PROVE SlotInv
  OBVIOUS
<1>1. TypeOK
  BY PoolAssumption DEF Init, TypeOK, PC, Purpose, Request, ProbeOf
<1>2. HandsMatchPC
  BY DEF Init, HandsMatchPC, SessionPC
<1>3. Holders = {}
  BY DEF Init, Holders, HoldingPC
<1>4. SlotAccounting
  BY <1>3, FS_EmptySet, PoolAssumption DEF Init, SlotAccounting
<1> QED BY <1>1, <1>2, <1>4 DEF SlotInv

\* One worker's step that goes through Signal, with its own target.
LEMMA SignalStep ==
    ASSUME TypeOK, NEW w \in Worker, pc[w] # "wait", NEW target \in PC,
           Signal([pc EXCEPT ![w] = target])
    PROVE  /\ pc' \in [Worker -> PC]
           /\ pc'[w] = target
           /\ \A v \in Worker \ {w} : \/ pc'[v] = pc[v]
                                      \/ pc[v] = "wait" /\ pc'[v] = "acquire"
<1> DEFINE next == [pc EXCEPT ![w] = target]
<1>1. next \in [Worker -> PC]
  BY DEF TypeOK
<1>2. \A v \in Worker : pc[v] = "wait" => next[v] = "wait"
  BY DEF TypeOK
<1>3. /\ pc' \in [Worker -> PC]
      /\ \A v \in Worker : \/ pc'[v] = next[v]
                           \/ pc[v] = "wait" /\ pc'[v] = "acquire"
  <2> HIDE DEF next
  <2> SUFFICES ASSUME Signal(next)
               PROVE  /\ pc' \in [Worker -> PC]
                      /\ \A v \in Worker : \/ pc'[v] = next[v]
                                           \/ pc[v] = "wait" /\ pc'[v] = "acquire"
    BY DEF next
  <2> QED BY <1>1, <1>2, SignalMoves
<1> QED BY <1>3 DEF TypeOK

\* One worker's step that does not.
LEMMA GotoStep ==
    ASSUME TypeOK, NEW w \in Worker, NEW target \in PC, Goto(w, target)
    PROVE  /\ pc' \in [Worker -> PC]
           /\ pc'[w] = target
           /\ \A v \in Worker \ {w} : pc'[v] = pc[v]
BY DEF TypeOK, Goto

-----------------------------------------------------------------------------
(* How each worker step moves the program counters.                        *)

OthersStand(w) ==
    \A v \in Worker \ {w} :
        pc'[v] = pc[v] \/ (pc[v] = "wait" /\ pc'[v] = "acquire")

Moves(w, target) ==
    /\ pc' \in [Worker -> PC]
    /\ pc'[w] = target
    /\ OthersStand(w)

LEMMA StepMoves ==
    ASSUME TypeOK, NEW w \in Worker
    PROVE  /\ BeginRequest(w) => Moves(w, "acquire")
           /\ BeginConfigure(w) => Moves(w, "acquire")
           /\ TakeIdle(w) => Moves(w, "check")
           /\ ReserveSlot(w) => Moves(w, "dial")
           /\ WaitForSession(w) => Moves(w, "wait")
           /\ LendRecentlyUsed(w) => Moves(w, "lent")
           /\ SendProbe(w) => Moves(w, "probe")
           /\ ProbeAnswered(w) => Moves(w, "lent")
           /\ ProbeFailed(w) => Moves(w, "discard")
           /\ DialSucceeded(w) => Moves(w, "lent")
           /\ DialFailed(w) => Moves(w, "out")
           /\ HandBack(w) => Moves(w, "return")
           /\ Run(w) => Moves(w, "run")
           /\ RunAnswered(w) => Moves(w, "return")
           /\ RunFailed(w) => Moves(w, "discard")
           /\ ReturnSession(w) => Moves(w, "out")
           /\ ReturnThenAskVersion(w) => Moves(w, "acquire")
           /\ ReturnVersion(w) => Moves(w, "out")
           /\ CloseSession(w) => Moves(w, "free")
           /\ FreeSlot(w) => \/ outcome[w] = "none" /\ Moves(w, "acquire")
                             \/ outcome[w] # "none" /\ Moves(w, "out")
<1>1. ASSUME BeginRequest(w) PROVE Moves(w, "acquire")
  BY <1>1, GotoStep DEF BeginRequest, Moves, OthersStand, PC
<1>2. ASSUME BeginConfigure(w) PROVE Moves(w, "acquire")
  BY <1>2, GotoStep DEF BeginConfigure, Moves, OthersStand, PC
<1>3. ASSUME TakeIdle(w) PROVE Moves(w, "check")
  BY <1>3, GotoStep DEF TakeIdle, Moves, OthersStand, PC
<1>4. ASSUME ReserveSlot(w) PROVE Moves(w, "dial")
  BY <1>4, GotoStep DEF ReserveSlot, Moves, OthersStand, PC
<1>5. ASSUME WaitForSession(w) PROVE Moves(w, "wait")
  BY <1>5, GotoStep DEF WaitForSession, Moves, OthersStand, PC
<1>6. ASSUME LendRecentlyUsed(w) PROVE Moves(w, "lent")
  BY <1>6, GotoStep DEF LendRecentlyUsed, Moves, OthersStand, PC
<1>7. ASSUME SendProbe(w) PROVE Moves(w, "probe")
  BY <1>7, GotoStep DEF SendProbe, Moves, OthersStand, PC
<1>8. ASSUME ProbeAnswered(w) PROVE Moves(w, "lent")
  BY <1>8, GotoStep DEF ProbeAnswered, Moves, OthersStand, PC
<1>9. ASSUME ProbeFailed(w) PROVE Moves(w, "discard")
  BY <1>9, GotoStep DEF ProbeFailed, Moves, OthersStand, PC
<1>10. ASSUME DialSucceeded(w) PROVE Moves(w, "lent")
  BY <1>10, GotoStep DEF DialSucceeded, Moves, OthersStand, PC
<1>11. ASSUME DialFailed(w) PROVE Moves(w, "out")
  BY <1>11, SignalStep DEF DialFailed, Moves, OthersStand, PC
<1>12. ASSUME HandBack(w) PROVE Moves(w, "return")
  BY <1>12, GotoStep DEF HandBack, Moves, OthersStand, PC
<1>13. ASSUME Run(w) PROVE Moves(w, "run")
  BY <1>13, GotoStep DEF Run, Moves, OthersStand, PC
<1>14. ASSUME RunAnswered(w) PROVE Moves(w, "return")
  BY <1>14, GotoStep DEF RunAnswered, Moves, OthersStand, PC
<1>15. ASSUME RunFailed(w) PROVE Moves(w, "discard")
  BY <1>15, GotoStep DEF RunFailed, Moves, OthersStand, PC
<1>16. ASSUME ReturnSession(w) PROVE Moves(w, "out")
  BY <1>16, SignalStep DEF ReturnSession, PutBack, Moves, OthersStand, PC
<1>17. ASSUME ReturnThenAskVersion(w) PROVE Moves(w, "acquire")
  BY <1>17, SignalStep DEF ReturnThenAskVersion, PutBack, Moves, OthersStand, PC
<1>18. ASSUME ReturnVersion(w) PROVE Moves(w, "out")
  BY <1>18, SignalStep DEF ReturnVersion, PutBack, Moves, OthersStand, PC
<1>19. ASSUME CloseSession(w) PROVE Moves(w, "free")
  BY <1>19, GotoStep DEF CloseSession, Moves, OthersStand, PC
<1>20. ASSUME FreeSlot(w)
      PROVE \/ outcome[w] = "none" /\ Moves(w, "acquire")
            \/ outcome[w] # "none" /\ Moves(w, "out")
  <2>1. CASE outcome[w] = "none"
    <3>1. Signal([pc EXCEPT ![w] = "acquire"])
      BY <1>20, <2>1 DEF FreeSlot, TypeOK
    <3> QED BY <1>20, <2>1, <3>1, SignalStep DEF FreeSlot, Moves, OthersStand, PC
  <2>2. CASE outcome[w] # "none"
    <3>1. Signal([pc EXCEPT ![w] = "out"])
      BY <1>20, <2>2 DEF FreeSlot, TypeOK
    <3> QED BY <1>20, <2>2, <3>1, SignalStep DEF FreeSlot, Moves, OthersStand, PC
  <2> QED BY <2>1, <2>2
<1> QED BY <1>1, <1>2, <1>3, <1>4, <1>5, <1>6, <1>7, <1>8, <1>9, <1>10, <1>11, <1>12, <1>13, <1>14, <1>15, <1>16, <1>17, <1>18, <1>19, <1>20

-----------------------------------------------------------------------------
(* The slot invariant is inductive.                                        *)

LEMMA OpenPositive ==
    ASSUME SlotInv, NEW w \in Worker, pc[w] \in HoldingPC
    PROVE  open \in Nat /\ open - 1 \in Nat /\ open - 1 <= Size
<1>1. w \in Holders
  BY DEF Holders
<1>2. Cardinality(Holders) \in Nat /\ Cardinality(Holders) >= 1
  BY <1>1, HoldersFinite
<1>3. Len(idle) \in Nat /\ open \in Nat /\ Size \in Nat
  BY PoolAssumption DEF SlotInv, TypeOK
<1> QED BY <1>2, <1>3 DEF SlotInv, SlotAccounting

LEMMA TypeStep ==
    ASSUME SlotInv, NEW w \in Worker, Begin(w) \/ Proceed(w)
    PROVE  TypeOK'
<1> USE DEF poolVars, workerVars, sessionVars, Purpose
<1>0. TypeOK
  BY DEF SlotInv
<1>1. ASSUME BeginRequest(w) PROVE TypeOK'
  <2>1. pc' \in [Worker -> PC]
    BY <1>0, <1>1, StepMoves DEF Moves
  <2>2. purpose' \in [Worker -> Purpose]
    BY <1>0, <1>1 DEF BeginRequest, TypeOK
  <2>3. sent' \in [Worker -> Nat]
    BY <1>0, <1>1 DEF BeginRequest, TypeOK
  <2>4. outcome' \in [Worker -> {"none", "answered", "failed"}]
    BY <1>0, <1>1 DEF BeginRequest, TypeOK
  <2>5. UNCHANGED <<idle, open, held, answer, up, replies, age, quiet, configures>>
    BY <1>1 DEF BeginRequest
  <2> QED BY <1>0, <2>1, <2>2, <2>3, <2>4, <2>5 DEF TypeOK
<1>2. ASSUME BeginConfigure(w) PROVE TypeOK'
  <2>1. pc' \in [Worker -> PC]
    BY <1>0, <1>2, StepMoves DEF Moves
  <2>2. purpose' \in [Worker -> Purpose]
    BY <1>0, <1>2 DEF BeginConfigure, TypeOK
  <2>3. outcome' \in [Worker -> {"none", "answered", "failed"}]
    BY <1>0, <1>2 DEF BeginConfigure, TypeOK
  <2>4. configures' \in [started : Nat, succeeded : Nat]
    <3>1. configures \in [started : Nat, succeeded : Nat]
      BY <1>0 DEF TypeOK
    <3>2. configures' = [configures EXCEPT !.started = @ + 1]
      BY <1>2 DEF BeginConfigure
    <3> QED BY <3>1, <3>2
  <2>5. UNCHANGED <<idle, open, held, sent, answer, up, replies, age, quiet>>
    BY <1>2 DEF BeginConfigure
  <2> QED BY <1>0, <2>1, <2>2, <2>3, <2>4, <2>5 DEF TypeOK
<1>3. ASSUME TakeIdle(w) PROVE TypeOK'
  <2>1. pc' \in [Worker -> PC]
    BY <1>0, <1>3, StepMoves DEF Moves
  <2>2. idle' \in Seq(Session)
    BY <1>0, <1>3 DEF TakeIdle, TypeOK
  <2>3. held' \in [Worker -> SUBSET Session]
    BY <1>0, <1>3 DEF TakeIdle, TypeOK
  <2>4. UNCHANGED <<open, purpose, sent, outcome, answer, up, replies, age, quiet, configures>>
    BY <1>3 DEF TakeIdle
  <2> QED BY <1>0, <2>1, <2>2, <2>3, <2>4 DEF TypeOK
<1>4. ASSUME ReserveSlot(w) PROVE TypeOK'
  <2>1. pc' \in [Worker -> PC]
    BY <1>0, <1>4, StepMoves DEF Moves
  <2>2. open' \in Nat
    BY <1>0, <1>4 DEF ReserveSlot, TypeOK
  <2>3. UNCHANGED <<idle, held, purpose, sent, outcome, answer, up, replies, age, quiet, configures>>
    BY <1>4 DEF ReserveSlot
  <2> QED BY <1>0, <2>1, <2>2, <2>3 DEF TypeOK
<1>5. ASSUME WaitForSession(w) PROVE TypeOK'
  <2>1. pc' \in [Worker -> PC]
    BY <1>0, <1>5, StepMoves DEF Moves
  <2>2. UNCHANGED <<idle, open, held, purpose, sent, outcome, answer, up, replies, age, quiet, configures>>
    BY <1>5 DEF WaitForSession
  <2> QED BY <1>0, <2>1, <2>2 DEF TypeOK
<1>6. ASSUME LendRecentlyUsed(w) PROVE TypeOK'
  <2>1. pc' \in [Worker -> PC]
    BY <1>0, <1>6, StepMoves DEF Moves
  <2>2. UNCHANGED <<idle, open, held, purpose, sent, outcome, answer, up, replies, age, quiet, configures>>
    BY <1>6 DEF LendRecentlyUsed
  <2> QED BY <1>0, <2>1, <2>2 DEF TypeOK
<1>7. ASSUME SendProbe(w) PROVE TypeOK'
  <2>1. pc' \in [Worker -> PC]
    BY <1>0, <1>7, StepMoves DEF Moves
  <2>2. replies' \in [Session -> Seq(Request)]
    <3>1. ProbeOf(w) \in Request
      BY DEF ProbeOf, Request
    <3>2. replies \in [Session -> Seq(Request)]
      BY <1>0 DEF TypeOK
    <3>3. PICK s \in held[w] : Ask(s, ProbeOf(w))
      BY <1>7 DEF SendProbe
    <3>4. CASE up[s]
      <4>1. replies' = [replies EXCEPT ![s] = Append(@, ProbeOf(w))]
        BY <3>3, <3>4 DEF Ask
      <4>2. s \in Session
        BY <1>0, <3>3 DEF TypeOK
      <4>3. Append(replies[s], ProbeOf(w)) \in Seq(Request)
        BY <3>1, <3>2, <4>2
      <4> QED BY <3>2, <4>1, <4>2, <4>3
    <3>5. CASE ~up[s]
      <4>1. replies' = [replies EXCEPT ![s] = @]
        BY <3>3, <3>5 DEF Ask
      <4> QED BY <3>2, <4>1
    <3> QED BY <3>4, <3>5
  <2>3. UNCHANGED <<idle, open, held, purpose, sent, outcome, answer, up, age, quiet, configures>>
    BY <1>7 DEF SendProbe, Ask
  <2> QED BY <1>0, <2>1, <2>2, <2>3 DEF TypeOK
<1>8. ASSUME ProbeAnswered(w) PROVE TypeOK'
  <2>1. pc' \in [Worker -> PC]
    BY <1>0, <1>8, StepMoves DEF Moves
  <2>2. replies' \in [Session -> Seq(Request)]
    BY <1>0, <1>8 DEF ProbeAnswered, TypeOK
  <2>3. quiet' \in [Session -> 0..ProbeAfter]
    BY <1>0, <1>8, PoolAssumption DEF ProbeAnswered, TypeOK
  <2>4. UNCHANGED <<idle, open, held, purpose, sent, outcome, answer, up, age, configures>>
    BY <1>8 DEF ProbeAnswered
  <2> QED BY <1>0, <2>1, <2>2, <2>3, <2>4 DEF TypeOK
<1>9. ASSUME ProbeFailed(w) PROVE TypeOK'
  <2>1. pc' \in [Worker -> PC]
    BY <1>0, <1>9, StepMoves DEF Moves
  <2>2. UNCHANGED <<idle, open, held, purpose, sent, outcome, answer, up, replies, age, quiet, configures>>
    BY <1>9 DEF ProbeFailed
  <2> QED BY <1>0, <2>1, <2>2 DEF TypeOK
<1>10. ASSUME DialSucceeded(w) PROVE TypeOK'
  <2>1. pc' \in [Worker -> PC]
    BY <1>0, <1>10, StepMoves DEF Moves
  <2>2. held' \in [Worker -> SUBSET Session]
    BY <1>0, <1>10 DEF DialSucceeded, TypeOK
  <2>3. up' \in [Session -> BOOLEAN]
    BY <1>0, <1>10 DEF DialSucceeded, TypeOK
  <2>4. replies' \in [Session -> Seq(Request)]
    BY <1>0, <1>10 DEF DialSucceeded, TypeOK
  <2>5. age' \in [Session -> 0..ProbeAfter]
    BY <1>0, <1>10, PoolAssumption DEF DialSucceeded, TypeOK
  <2>6. quiet' \in [Session -> 0..ProbeAfter]
    BY <1>0, <1>10, PoolAssumption DEF DialSucceeded, TypeOK
  <2>7. UNCHANGED <<idle, open, purpose, sent, outcome, answer, configures>>
    BY <1>10 DEF DialSucceeded
  <2> QED BY <1>0, <2>1, <2>2, <2>3, <2>4, <2>5, <2>6, <2>7 DEF TypeOK
<1>11. ASSUME DialFailed(w) PROVE TypeOK'
  <2>1. pc' \in [Worker -> PC]
    BY <1>0, <1>11, StepMoves DEF Moves
  <2>2. open' \in Nat
    BY <1>11, OpenPositive DEF DialFailed, HoldingPC
  <2>3. outcome' \in [Worker -> {"none", "answered", "failed"}]
    BY <1>0, <1>11 DEF DialFailed, TypeOK
  <2>4. UNCHANGED <<idle, held, purpose, sent, answer, up, replies, age, quiet, configures>>
    BY <1>11 DEF DialFailed
  <2> QED BY <1>0, <2>1, <2>2, <2>3, <2>4 DEF TypeOK
<1>12. ASSUME HandBack(w) PROVE TypeOK'
  <2>1. pc' \in [Worker -> PC]
    BY <1>0, <1>12, StepMoves DEF Moves
  <2>2. age' \in [Session -> 0..ProbeAfter]
    BY <1>0, <1>12, PoolAssumption DEF HandBack, TypeOK
  <2>3. UNCHANGED <<idle, open, held, purpose, sent, outcome, answer, up, replies, quiet, configures>>
    BY <1>12 DEF HandBack
  <2> QED BY <1>0, <2>1, <2>2, <2>3 DEF TypeOK
<1>13. ASSUME Run(w) PROVE TypeOK'
  <2>1. pc' \in [Worker -> PC]
    BY <1>0, <1>13, StepMoves DEF Moves
  <2>2. replies' \in [Session -> Seq(Request)]
    BY <1>0, <1>13 DEF Run, TypeOK, Ask, Request, CurrentRequest, ProbeOf
  <2>3. UNCHANGED <<idle, open, held, purpose, sent, outcome, answer, up, age, quiet, configures>>
    BY <1>13 DEF Run, Ask
  <2> QED BY <1>0, <2>1, <2>2, <2>3 DEF TypeOK
<1>14. ASSUME RunAnswered(w) PROVE TypeOK'
  <2>1. pc' \in [Worker -> PC]
    BY <1>0, <1>14, StepMoves DEF Moves
  <2>2. outcome' \in [Worker -> {"none", "answered", "failed"}]
    BY <1>0, <1>14 DEF RunAnswered, TypeOK
  <2>3. answer' \in [Worker -> Request]
    BY <1>0, <1>14 DEF RunAnswered, TypeOK
  <2>4. replies' \in [Session -> Seq(Request)]
    BY <1>0, <1>14 DEF RunAnswered, TypeOK
  <2>5. age' \in [Session -> 0..ProbeAfter]
    BY <1>0, <1>14, PoolAssumption DEF RunAnswered, TypeOK
  <2>6. quiet' \in [Session -> 0..ProbeAfter]
    BY <1>0, <1>14, PoolAssumption DEF RunAnswered, TypeOK
  <2>7. UNCHANGED <<idle, open, held, purpose, sent, up, configures>>
    BY <1>14 DEF RunAnswered
  <2> QED BY <1>0, <2>1, <2>2, <2>3, <2>4, <2>5, <2>6, <2>7 DEF TypeOK
<1>15. ASSUME RunFailed(w) PROVE TypeOK'
  <2>1. pc' \in [Worker -> PC]
    BY <1>0, <1>15, StepMoves DEF Moves
  <2>2. outcome' \in [Worker -> {"none", "answered", "failed"}]
    BY <1>0, <1>15 DEF RunFailed, TypeOK
  <2>3. UNCHANGED <<idle, open, held, purpose, sent, answer, up, replies, age, quiet, configures>>
    BY <1>15 DEF RunFailed
  <2> QED BY <1>0, <2>1, <2>2, <2>3 DEF TypeOK
<1>16. ASSUME ReturnSession(w) PROVE TypeOK'
  <2>1. pc' \in [Worker -> PC]
    BY <1>0, <1>16, StepMoves DEF Moves
  <2>2. idle' \in Seq(Session)
    BY <1>0, <1>16 DEF ReturnSession, TypeOK, PutBack
  <2>3. held' \in [Worker -> SUBSET Session]
    BY <1>0, <1>16 DEF ReturnSession, TypeOK, PutBack
  <2>4. configures' \in [started : Nat, succeeded : Nat]
    <3>1. configures \in [started : Nat, succeeded : Nat]
      BY <1>0 DEF TypeOK
    <3>2. \/ configures' = [configures EXCEPT !.succeeded = @ + 1]
          \/ configures' = configures
      BY <1>16 DEF ReturnSession
    <3> QED BY <3>1, <3>2
  <2>5. UNCHANGED <<open, purpose, sent, outcome, answer, up, replies, age, quiet>>
    BY <1>16 DEF ReturnSession, PutBack
  <2> QED BY <1>0, <2>1, <2>2, <2>3, <2>4, <2>5 DEF TypeOK
<1>17. ASSUME ReturnThenAskVersion(w) PROVE TypeOK'
  <2>1. pc' \in [Worker -> PC]
    BY <1>0, <1>17, StepMoves DEF Moves
  <2>2. idle' \in Seq(Session)
    BY <1>0, <1>17 DEF ReturnThenAskVersion, TypeOK, PutBack
  <2>3. held' \in [Worker -> SUBSET Session]
    BY <1>0, <1>17 DEF ReturnThenAskVersion, TypeOK, PutBack
  <2>4. purpose' \in [Worker -> Purpose]
    BY <1>0, <1>17 DEF ReturnThenAskVersion, TypeOK, PutBack
  <2>5. sent' \in [Worker -> Nat]
    BY <1>0, <1>17 DEF ReturnThenAskVersion, TypeOK, PutBack
  <2>6. UNCHANGED <<open, outcome, answer, up, replies, age, quiet, configures>>
    BY <1>17 DEF ReturnThenAskVersion, PutBack
  <2> QED BY <1>0, <2>1, <2>2, <2>3, <2>4, <2>5, <2>6 DEF TypeOK
<1>18. ASSUME ReturnVersion(w) PROVE TypeOK'
  <2>1. pc' \in [Worker -> PC]
    BY <1>0, <1>18, StepMoves DEF Moves
  <2>2. idle' \in Seq(Session)
    BY <1>0, <1>18 DEF ReturnVersion, TypeOK, PutBack
  <2>3. held' \in [Worker -> SUBSET Session]
    BY <1>0, <1>18 DEF ReturnVersion, TypeOK, PutBack
  <2>4. configures' \in [started : Nat, succeeded : Nat]
    BY <1>0, <1>18 DEF ReturnVersion, TypeOK, PutBack
  <2>5. UNCHANGED <<open, purpose, sent, outcome, answer, up, replies, age, quiet>>
    BY <1>18 DEF ReturnVersion, PutBack
  <2> QED BY <1>0, <2>1, <2>2, <2>3, <2>4, <2>5 DEF TypeOK
<1>19. ASSUME CloseSession(w) PROVE TypeOK'
  <2>1. pc' \in [Worker -> PC]
    BY <1>0, <1>19, StepMoves DEF Moves
  <2>2. held' \in [Worker -> SUBSET Session]
    BY <1>0, <1>19 DEF CloseSession, TypeOK
  <2>3. up' \in [Session -> BOOLEAN]
    BY <1>0, <1>19 DEF CloseSession, TypeOK
  <2>4. replies' \in [Session -> Seq(Request)]
    BY <1>0, <1>19 DEF CloseSession, TypeOK
  <2>5. UNCHANGED <<idle, open, purpose, sent, outcome, answer, age, quiet, configures>>
    BY <1>19 DEF CloseSession
  <2> QED BY <1>0, <2>1, <2>2, <2>3, <2>4, <2>5 DEF TypeOK
<1>20. ASSUME FreeSlot(w) PROVE TypeOK'
  <2>1. pc' \in [Worker -> PC]
    BY <1>0, <1>20, StepMoves DEF Moves
  <2>2. open' \in Nat
    BY <1>20, OpenPositive DEF FreeSlot, HoldingPC
  <2>3. UNCHANGED <<idle, held, purpose, sent, outcome, answer, up, replies, age, quiet, configures>>
    BY <1>20 DEF FreeSlot
  <2> QED BY <1>0, <2>1, <2>2, <2>3 DEF TypeOK
<1> QED BY <1>1, <1>2, <1>3, <1>4, <1>5, <1>6, <1>7, <1>8, <1>9, <1>10, <1>11, <1>12, <1>13, <1>14, <1>15, <1>16, <1>17, <1>18, <1>19, <1>20
       DEF Begin, Proceed, Acquire, Check, ProbeEnds, DialEnds, Use, RunEnds, Return, Discard

LEMMA IdleTop ==
    ASSUME idle \in Seq(Session), idle # <<>>
    PROVE  /\ Len(idle) \in Nat \ {0}
           /\ idle[Len(idle)] \in Session
           /\ SubSeq(idle, 1, Len(idle) - 1) \in Seq(Session)
           /\ Len(SubSeq(idle, 1, Len(idle) - 1)) = Len(idle) - 1
           /\ \A i \in 1..(Len(idle) - 1) :
                 SubSeq(idle, 1, Len(idle) - 1)[i] = idle[i]
<1> DEFINE n == Len(idle)
<1>1. n \in Nat \ {0} /\ \A i \in 1..n : idle[i] \in Session
  OBVIOUS
<1>2. /\ SubSeq(idle, 1, n - 1) \in Seq(Session)
      /\ Len(SubSeq(idle, 1, n - 1)) = IF 1 <= n - 1 THEN (n - 1) - 1 + 1 ELSE 0
      /\ \A i \in 1..((n - 1) - 1 + 1) :
            SubSeq(idle, 1, n - 1)[i] = idle[1 + i - 1]
  <2>1. n - 1 \in Int /\ \A i \in 1..(n - 1) : idle[i] \in Session
    BY <1>1
  <2> QED BY <2>1, SubSeqProperties
<1>3. Len(SubSeq(idle, 1, n - 1)) = n - 1
  <2>1. \A k \in Nat \ {0} : (IF 1 <= k - 1 THEN (k - 1) - 1 + 1 ELSE 0) = k - 1
    OBVIOUS
  <2> QED BY <1>1, <1>2, <2>1, Zenon
<1>4. \A i \in 1..(n - 1) : SubSeq(idle, 1, n - 1)[i] = idle[i]
  BY <1>1, <1>2
<1> QED BY <1>1, <1>2, <1>3, <1>4

LEMMA HandsStep ==
    ASSUME SlotInv, NEW w \in Worker, Begin(w) \/ Proceed(w)
    PROVE  HandsMatchPC'
<1>0. TypeOK /\ HandsMatchPC
  BY DEF SlotInv
<1>1. ASSUME BeginRequest(w) PROVE HandsMatchPC'
  <2>1. held' = held
    BY <1>1 DEF BeginRequest, sessionVars, poolVars
  <2>2. pc[w] = "out" /\ Moves(w, "acquire")
    BY <1>0, <1>1, StepMoves DEF BeginRequest
  <2> QED BY <1>0, <2>1, <2>2 DEF HandsMatchPC, SessionPC, Moves, OthersStand, TypeOK
<1>2. ASSUME BeginConfigure(w) PROVE HandsMatchPC'
  <2>1. held' = held
    BY <1>2 DEF BeginConfigure, sessionVars, poolVars
  <2>2. pc[w] = "out" /\ Moves(w, "acquire")
    BY <1>0, <1>2, StepMoves DEF BeginConfigure
  <2> QED BY <1>0, <2>1, <2>2 DEF HandsMatchPC, SessionPC, Moves, OthersStand, TypeOK
<1>3. ASSUME TakeIdle(w) PROVE HandsMatchPC'
  <2>1. PICK s \in Session : held' = [held EXCEPT ![w] = {s}]
    <3>1. idle[Len(idle)] \in Session
      BY <1>0, <1>3, IdleTop DEF TakeIdle, TypeOK
    <3> QED BY <1>3, <3>1 DEF TakeIdle
  <2>2. pc[w] = "acquire" /\ Moves(w, "check")
    BY <1>0, <1>3, StepMoves DEF TakeIdle
  <2>3. held'[w] = {s} /\ \A v \in Worker \ {w} : held'[v] = held[v]
    BY <1>0, <2>1 DEF TypeOK
  <2>4. \A v \in Worker \ {w} : pc'[v] \in SessionPC <=> pc[v] \in SessionPC
    BY <2>2 DEF Moves, OthersStand, SessionPC
  <2>5. pc'[w] \in SessionPC
    BY <2>2 DEF Moves, SessionPC
  <2> QED BY <1>0, <2>3, <2>4, <2>5 DEF HandsMatchPC
<1>4. ASSUME ReserveSlot(w) PROVE HandsMatchPC'
  <2>1. held' = held
    BY <1>4 DEF ReserveSlot, sessionVars, poolVars
  <2>2. pc[w] = "acquire" /\ Moves(w, "dial")
    BY <1>0, <1>4, StepMoves DEF ReserveSlot
  <2> QED BY <1>0, <2>1, <2>2 DEF HandsMatchPC, SessionPC, Moves, OthersStand, TypeOK
<1>5. ASSUME WaitForSession(w) PROVE HandsMatchPC'
  <2>1. held' = held
    BY <1>5 DEF WaitForSession, sessionVars, poolVars
  <2>2. pc[w] = "acquire" /\ Moves(w, "wait")
    BY <1>0, <1>5, StepMoves DEF WaitForSession
  <2> QED BY <1>0, <2>1, <2>2 DEF HandsMatchPC, SessionPC, Moves, OthersStand, TypeOK
<1>6. ASSUME LendRecentlyUsed(w) PROVE HandsMatchPC'
  <2>1. held' = held
    BY <1>6 DEF LendRecentlyUsed, sessionVars, poolVars
  <2>2. pc[w] = "check" /\ Moves(w, "lent")
    BY <1>0, <1>6, StepMoves DEF LendRecentlyUsed
  <2> QED BY <1>0, <2>1, <2>2 DEF HandsMatchPC, SessionPC, Moves, OthersStand, TypeOK
<1>7. ASSUME SendProbe(w) PROVE HandsMatchPC'
  <2>1. held' = held
    BY <1>7 DEF SendProbe, sessionVars, poolVars
  <2>2. pc[w] = "check" /\ Moves(w, "probe")
    BY <1>0, <1>7, StepMoves DEF SendProbe
  <2> QED BY <1>0, <2>1, <2>2 DEF HandsMatchPC, SessionPC, Moves, OthersStand, TypeOK
<1>8. ASSUME ProbeAnswered(w) PROVE HandsMatchPC'
  <2>1. held' = held
    BY <1>8 DEF ProbeAnswered, sessionVars, poolVars
  <2>2. pc[w] = "probe" /\ Moves(w, "lent")
    BY <1>0, <1>8, StepMoves DEF ProbeAnswered
  <2> QED BY <1>0, <2>1, <2>2 DEF HandsMatchPC, SessionPC, Moves, OthersStand, TypeOK
<1>9. ASSUME ProbeFailed(w) PROVE HandsMatchPC'
  <2>1. held' = held
    BY <1>9 DEF ProbeFailed, sessionVars, poolVars
  <2>2. pc[w] = "probe" /\ Moves(w, "discard")
    BY <1>0, <1>9, StepMoves DEF ProbeFailed
  <2> QED BY <1>0, <2>1, <2>2 DEF HandsMatchPC, SessionPC, Moves, OthersStand, TypeOK
<1>10. ASSUME DialSucceeded(w) PROVE HandsMatchPC'
  <2>1. PICK s \in Session : held' = [held EXCEPT ![w] = {s}]
    BY <1>0, <1>10 DEF DialSucceeded, TypeOK
  <2>2. pc[w] = "dial" /\ Moves(w, "lent")
    BY <1>0, <1>10, StepMoves DEF DialSucceeded
  <2>3. held'[w] = {s} /\ \A v \in Worker \ {w} : held'[v] = held[v]
    BY <1>0, <2>1 DEF TypeOK
  <2>4. \A v \in Worker \ {w} : pc'[v] \in SessionPC <=> pc[v] \in SessionPC
    BY <2>2 DEF Moves, OthersStand, SessionPC
  <2>5. pc'[w] \in SessionPC
    BY <2>2 DEF Moves, SessionPC
  <2> QED BY <1>0, <2>3, <2>4, <2>5 DEF HandsMatchPC
<1>11. ASSUME DialFailed(w) PROVE HandsMatchPC'
  <2>1. held' = held
    BY <1>11 DEF DialFailed, sessionVars, poolVars
  <2>2. pc[w] = "dial" /\ Moves(w, "out")
    BY <1>0, <1>11, StepMoves DEF DialFailed
  <2> QED BY <1>0, <2>1, <2>2 DEF HandsMatchPC, SessionPC, Moves, OthersStand, TypeOK
<1>12. ASSUME HandBack(w) PROVE HandsMatchPC'
  <2>1. held' = held
    BY <1>12 DEF HandBack, sessionVars, poolVars
  <2>2. pc[w] = "lent" /\ Moves(w, "return")
    BY <1>0, <1>12, StepMoves DEF HandBack
  <2> QED BY <1>0, <2>1, <2>2 DEF HandsMatchPC, SessionPC, Moves, OthersStand, TypeOK
<1>13. ASSUME Run(w) PROVE HandsMatchPC'
  <2>1. held' = held
    BY <1>13 DEF Run, sessionVars, poolVars
  <2>2. pc[w] = "lent" /\ Moves(w, "run")
    BY <1>0, <1>13, StepMoves DEF Run
  <2> QED BY <1>0, <2>1, <2>2 DEF HandsMatchPC, SessionPC, Moves, OthersStand, TypeOK
<1>14. ASSUME RunAnswered(w) PROVE HandsMatchPC'
  <2>1. held' = held
    BY <1>14 DEF RunAnswered, sessionVars, poolVars
  <2>2. pc[w] = "run" /\ Moves(w, "return")
    BY <1>0, <1>14, StepMoves DEF RunAnswered
  <2> QED BY <1>0, <2>1, <2>2 DEF HandsMatchPC, SessionPC, Moves, OthersStand, TypeOK
<1>15. ASSUME RunFailed(w) PROVE HandsMatchPC'
  <2>1. held' = held
    BY <1>15 DEF RunFailed, sessionVars, poolVars
  <2>2. pc[w] = "run" /\ Moves(w, "discard")
    BY <1>0, <1>15, StepMoves DEF RunFailed
  <2> QED BY <1>0, <2>1, <2>2 DEF HandsMatchPC, SessionPC, Moves, OthersStand, TypeOK
<1>16. ASSUME ReturnSession(w) PROVE HandsMatchPC'
  <2>1. held' = [held EXCEPT ![w] = {}]
    BY <1>16 DEF ReturnSession, PutBack
  <2>2. pc[w] = "return" /\ Moves(w, "out")
    BY <1>0, <1>16, StepMoves DEF ReturnSession, PutBack
  <2> QED BY <1>0, <2>1, <2>2 DEF HandsMatchPC, SessionPC, Moves, OthersStand, TypeOK
<1>17. ASSUME ReturnThenAskVersion(w) PROVE HandsMatchPC'
  <2>1. held' = [held EXCEPT ![w] = {}]
    BY <1>17 DEF ReturnThenAskVersion, PutBack
  <2>2. pc[w] = "return" /\ Moves(w, "acquire")
    BY <1>0, <1>17, StepMoves DEF ReturnThenAskVersion, PutBack
  <2> QED BY <1>0, <2>1, <2>2 DEF HandsMatchPC, SessionPC, Moves, OthersStand, TypeOK
<1>18. ASSUME ReturnVersion(w) PROVE HandsMatchPC'
  <2>1. held' = [held EXCEPT ![w] = {}]
    BY <1>18 DEF ReturnVersion, PutBack
  <2>2. pc[w] = "return" /\ Moves(w, "out")
    BY <1>0, <1>18, StepMoves DEF ReturnVersion, PutBack
  <2> QED BY <1>0, <2>1, <2>2 DEF HandsMatchPC, SessionPC, Moves, OthersStand, TypeOK
<1>19. ASSUME CloseSession(w) PROVE HandsMatchPC'
  <2>1. held' = [held EXCEPT ![w] = {}]
    BY <1>19 DEF CloseSession
  <2>2. pc[w] = "discard" /\ Moves(w, "free")
    BY <1>0, <1>19, StepMoves DEF CloseSession
  <2> QED BY <1>0, <2>1, <2>2 DEF HandsMatchPC, SessionPC, Moves, OthersStand, TypeOK
<1>20. ASSUME FreeSlot(w) PROVE HandsMatchPC'
  <2>1. held' = held
    BY <1>20 DEF FreeSlot, sessionVars, poolVars
  <2>2. pc[w] = "free" /\ (Moves(w, "acquire") \/ Moves(w, "out"))
    BY <1>0, <1>20, StepMoves DEF FreeSlot
  <2> QED BY <1>0, <2>1, <2>2 DEF HandsMatchPC, SessionPC, Moves, OthersStand, TypeOK
<1> QED BY <1>1, <1>2, <1>3, <1>4, <1>5, <1>6, <1>7, <1>8, <1>9, <1>10, <1>11, <1>12, <1>13, <1>14, <1>15, <1>16, <1>17, <1>18, <1>19, <1>20
       DEF Begin, Proceed, Acquire, Check, ProbeEnds, DialEnds, Use, RunEnds, Return, Discard

LEMMA MoveCount ==
    ASSUME NEW w \in Worker, NEW target \in PC, Moves(w, target)
    PROVE  /\ (target \in HoldingPC <=> pc[w] \in HoldingPC)
                 => Cardinality(Holders') = Cardinality(Holders)
           /\ pc[w] \notin HoldingPC /\ target \in HoldingPC
                 => Cardinality(Holders') = Cardinality(Holders) + 1
           /\ pc[w] \in HoldingPC /\ target \notin HoldingPC
                 => Cardinality(Holders') = Cardinality(Holders) - 1
<1>1. \A v \in Worker \ {w} : pc'[v] \in HoldingPC <=> pc[v] \in HoldingPC
  BY DEF Moves, OthersStand, HoldingPC
<1> QED BY <1>1, HoldersStep DEF Moves

LEMMA AccountingStep ==
    ASSUME SlotInv, NEW w \in Worker, Begin(w) \/ Proceed(w)
    PROVE  SlotAccounting'
<1> DEFINE n == Cardinality(Holders)
<1>0. TypeOK /\ SlotAccounting
  BY DEF SlotInv
<1>a. n \in Nat /\ open \in Nat /\ Len(idle) \in Nat /\ Size \in Nat
  BY <1>0, HoldersFinite, PoolAssumption DEF TypeOK
<1>1. ASSUME BeginRequest(w) PROVE SlotAccounting'
  <2>1. Cardinality(Holders') = n
    BY <1>0, <1>1, StepMoves, MoveCount DEF BeginRequest, HoldingPC, PC
  <2>2. idle' = idle /\ open' = open
    BY <1>1 DEF BeginRequest, poolVars
  <2> QED BY <1>0, <1>a, <2>1, <2>2 DEF SlotAccounting
<1>2. ASSUME BeginConfigure(w) PROVE SlotAccounting'
  <2>1. Cardinality(Holders') = n
    BY <1>0, <1>2, StepMoves, MoveCount DEF BeginConfigure, HoldingPC, PC
  <2>2. idle' = idle /\ open' = open
    BY <1>2 DEF BeginConfigure, poolVars
  <2> QED BY <1>0, <1>a, <2>1, <2>2 DEF SlotAccounting
<1>3. ASSUME TakeIdle(w) PROVE SlotAccounting'
  <2>1. Cardinality(Holders') = n + 1
    BY <1>0, <1>3, StepMoves, MoveCount DEF TakeIdle, HoldingPC, PC
  <2>2. Len(idle') = Len(idle) - 1 /\ open' = open
    BY <1>0, <1>3, IdleTop DEF TakeIdle, TypeOK
  <2> QED BY <1>0, <1>a, <2>1, <2>2 DEF SlotAccounting
<1>4. ASSUME ReserveSlot(w) PROVE SlotAccounting'
  <2>1. Cardinality(Holders') = n + 1
    BY <1>0, <1>4, StepMoves, MoveCount DEF ReserveSlot, HoldingPC, PC
  <2>2. idle' = idle /\ open' = open + 1 /\ open < Size
    BY <1>4 DEF ReserveSlot
  <2> QED BY <1>0, <1>a, <2>1, <2>2 DEF SlotAccounting
<1>5. ASSUME WaitForSession(w) PROVE SlotAccounting'
  <2>1. Cardinality(Holders') = n
    BY <1>0, <1>5, StepMoves, MoveCount DEF WaitForSession, HoldingPC, PC
  <2>2. idle' = idle /\ open' = open
    BY <1>5 DEF WaitForSession, poolVars
  <2> QED BY <1>0, <1>a, <2>1, <2>2 DEF SlotAccounting
<1>6. ASSUME LendRecentlyUsed(w) PROVE SlotAccounting'
  <2>1. Cardinality(Holders') = n
    BY <1>0, <1>6, StepMoves, MoveCount DEF LendRecentlyUsed, HoldingPC, PC
  <2>2. idle' = idle /\ open' = open
    BY <1>6 DEF LendRecentlyUsed, poolVars
  <2> QED BY <1>0, <1>a, <2>1, <2>2 DEF SlotAccounting
<1>7. ASSUME SendProbe(w) PROVE SlotAccounting'
  <2>1. Cardinality(Holders') = n
    BY <1>0, <1>7, StepMoves, MoveCount DEF SendProbe, HoldingPC, PC
  <2>2. idle' = idle /\ open' = open
    BY <1>7 DEF SendProbe, poolVars
  <2> QED BY <1>0, <1>a, <2>1, <2>2 DEF SlotAccounting
<1>8. ASSUME ProbeAnswered(w) PROVE SlotAccounting'
  <2>1. Cardinality(Holders') = n
    BY <1>0, <1>8, StepMoves, MoveCount DEF ProbeAnswered, HoldingPC, PC
  <2>2. idle' = idle /\ open' = open
    BY <1>8 DEF ProbeAnswered, poolVars
  <2> QED BY <1>0, <1>a, <2>1, <2>2 DEF SlotAccounting
<1>9. ASSUME ProbeFailed(w) PROVE SlotAccounting'
  <2>1. Cardinality(Holders') = n
    BY <1>0, <1>9, StepMoves, MoveCount DEF ProbeFailed, HoldingPC, PC
  <2>2. idle' = idle /\ open' = open
    BY <1>9 DEF ProbeFailed, poolVars
  <2> QED BY <1>0, <1>a, <2>1, <2>2 DEF SlotAccounting
<1>10. ASSUME DialSucceeded(w) PROVE SlotAccounting'
  <2>1. Cardinality(Holders') = n
    BY <1>0, <1>10, StepMoves, MoveCount DEF DialSucceeded, HoldingPC, PC
  <2>2. idle' = idle /\ open' = open
    BY <1>10 DEF DialSucceeded, poolVars
  <2> QED BY <1>0, <1>a, <2>1, <2>2 DEF SlotAccounting
<1>11. ASSUME DialFailed(w) PROVE SlotAccounting'
  <2>1. Cardinality(Holders') = n - 1
    BY <1>0, <1>11, StepMoves, MoveCount DEF DialFailed, HoldingPC, PC
  <2>2. idle' = idle /\ open' = open - 1
    BY <1>11 DEF DialFailed
  <2> QED BY <1>0, <1>a, <2>1, <2>2 DEF SlotAccounting
<1>12. ASSUME HandBack(w) PROVE SlotAccounting'
  <2>1. Cardinality(Holders') = n
    BY <1>0, <1>12, StepMoves, MoveCount DEF HandBack, HoldingPC, PC
  <2>2. idle' = idle /\ open' = open
    BY <1>12 DEF HandBack, poolVars
  <2> QED BY <1>0, <1>a, <2>1, <2>2 DEF SlotAccounting
<1>13. ASSUME Run(w) PROVE SlotAccounting'
  <2>1. Cardinality(Holders') = n
    BY <1>0, <1>13, StepMoves, MoveCount DEF Run, HoldingPC, PC
  <2>2. idle' = idle /\ open' = open
    BY <1>13 DEF Run, poolVars
  <2> QED BY <1>0, <1>a, <2>1, <2>2 DEF SlotAccounting
<1>14. ASSUME RunAnswered(w) PROVE SlotAccounting'
  <2>1. Cardinality(Holders') = n
    BY <1>0, <1>14, StepMoves, MoveCount DEF RunAnswered, HoldingPC, PC
  <2>2. idle' = idle /\ open' = open
    BY <1>14 DEF RunAnswered, poolVars
  <2> QED BY <1>0, <1>a, <2>1, <2>2 DEF SlotAccounting
<1>15. ASSUME RunFailed(w) PROVE SlotAccounting'
  <2>1. Cardinality(Holders') = n
    BY <1>0, <1>15, StepMoves, MoveCount DEF RunFailed, HoldingPC, PC
  <2>2. idle' = idle /\ open' = open
    BY <1>15 DEF RunFailed, poolVars
  <2> QED BY <1>0, <1>a, <2>1, <2>2 DEF SlotAccounting
<1>16. ASSUME ReturnSession(w) PROVE SlotAccounting'
  <2>1. Cardinality(Holders') = n - 1
    BY <1>0, <1>16, StepMoves, MoveCount DEF ReturnSession, PutBack, HoldingPC, PC
  <2>2. Len(idle') = Len(idle) + 1 /\ open' = open
    <3>1. PICK s \in held[w] : idle' = Append(idle, s)
      BY <1>16 DEF ReturnSession, PutBack
    <3>2. s \in Session
      BY <1>0, <3>1 DEF TypeOK
    <3> QED BY <1>0, <1>16, <3>1, <3>2, AppendProperties DEF ReturnSession, PutBack, TypeOK
  <2> QED BY <1>0, <1>a, <2>1, <2>2 DEF SlotAccounting
<1>17. ASSUME ReturnThenAskVersion(w) PROVE SlotAccounting'
  <2>1. Cardinality(Holders') = n - 1
    BY <1>0, <1>17, StepMoves, MoveCount DEF ReturnThenAskVersion, PutBack, HoldingPC, PC
  <2>2. Len(idle') = Len(idle) + 1 /\ open' = open
    <3>1. PICK s \in held[w] : idle' = Append(idle, s)
      BY <1>17 DEF ReturnThenAskVersion, PutBack
    <3>2. s \in Session
      BY <1>0, <3>1 DEF TypeOK
    <3> QED BY <1>0, <1>17, <3>1, <3>2, AppendProperties DEF ReturnThenAskVersion, PutBack, TypeOK
  <2> QED BY <1>0, <1>a, <2>1, <2>2 DEF SlotAccounting
<1>18. ASSUME ReturnVersion(w) PROVE SlotAccounting'
  <2>1. Cardinality(Holders') = n - 1
    BY <1>0, <1>18, StepMoves, MoveCount DEF ReturnVersion, PutBack, HoldingPC, PC
  <2>2. Len(idle') = Len(idle) + 1 /\ open' = open
    <3>1. PICK s \in held[w] : idle' = Append(idle, s)
      BY <1>18 DEF ReturnVersion, PutBack
    <3>2. s \in Session
      BY <1>0, <3>1 DEF TypeOK
    <3> QED BY <1>0, <1>18, <3>1, <3>2, AppendProperties DEF ReturnVersion, PutBack, TypeOK
  <2> QED BY <1>0, <1>a, <2>1, <2>2 DEF SlotAccounting
<1>19. ASSUME CloseSession(w) PROVE SlotAccounting'
  <2>1. Cardinality(Holders') = n
    BY <1>0, <1>19, StepMoves, MoveCount DEF CloseSession, HoldingPC, PC
  <2>2. idle' = idle /\ open' = open
    BY <1>19 DEF CloseSession, poolVars
  <2> QED BY <1>0, <1>a, <2>1, <2>2 DEF SlotAccounting
<1>20. ASSUME FreeSlot(w) PROVE SlotAccounting'
  <2>1. Cardinality(Holders') = n - 1
    BY <1>0, <1>20, StepMoves, MoveCount DEF FreeSlot, HoldingPC, PC
  <2>2. idle' = idle /\ open' = open - 1
    BY <1>20 DEF FreeSlot
  <2> QED BY <1>0, <1>a, <2>1, <2>2 DEF SlotAccounting
<1> QED BY <1>1, <1>2, <1>3, <1>4, <1>5, <1>6, <1>7, <1>8, <1>9, <1>10, <1>11, <1>12, <1>13, <1>14, <1>15, <1>16, <1>17, <1>18, <1>19, <1>20
       DEF Begin, Proceed, Acquire, Check, ProbeEnds, DialEnds, Use, RunEnds, Return, Discard

\* Steps that are nobody's, and stuttering.
LEMMA OtherSteps ==
    ASSUME SlotInv,
           (\E s \in Session : Drop(s)) \/ Tick \/ Finished \/ UNCHANGED vars
    PROVE  SlotInv'
<1>1. TypeOK /\ HandsMatchPC /\ SlotAccounting
  BY DEF SlotInv
<1>2. UNCHANGED <<poolVars, workerVars>>
  BY DEF Drop, Tick, Finished, vars
<1>3. Holders' = Holders
  BY <1>2 DEF Holders, workerVars
<1>4. HandsMatchPC' /\ SlotAccounting'
  BY <1>1, <1>2, <1>3 DEF HandsMatchPC, SlotAccounting, poolVars, workerVars
<1>5. ASSUME NEW s \in Session, Drop(s) PROVE TypeOK'
  <2>1. up' \in [Session -> BOOLEAN]
    BY <1>1, <1>5 DEF Drop, TypeOK
  <2>2. UNCHANGED <<replies, age, quiet, configures>>
    BY <1>5 DEF Drop
  <2> QED BY <1>1, <1>2, <2>1, <2>2 DEF TypeOK, poolVars, workerVars
<1>6. ASSUME Tick PROVE TypeOK'
  <2>1. age' \in [Session -> 0..ProbeAfter] /\ quiet' \in [Session -> 0..ProbeAfter]
    <3> DEFINE Older(t) == IF t < ProbeAfter THEN t + 1 ELSE t
    <3>1. \A t \in 0..ProbeAfter : Older(t) \in 0..ProbeAfter
      BY PoolAssumption
    <3>2. age \in [Session -> 0..ProbeAfter] /\ quiet \in [Session -> 0..ProbeAfter]
      BY <1>1 DEF TypeOK
    <3>3. /\ age' = [s \in Session |-> IF s \in Connected THEN Older(age[s])
                                                          ELSE age[s]]
          /\ quiet' = [s \in Session |-> IF s \in Connected THEN Older(quiet[s])
                                                            ELSE quiet[s]]
      BY <1>6 DEF Tick
    <3> HIDE DEF Older
    <3> QED BY <3>1, <3>2, <3>3
  <2>2. UNCHANGED <<up, replies, configures>>
    BY <1>6 DEF Tick
  <2> QED BY <1>1, <1>2, <2>1, <2>2 DEF TypeOK, poolVars, workerVars
<1>7. ASSUME UNCHANGED vars PROVE TypeOK'
  BY <1>1, <1>7 DEF TypeOK, vars, poolVars, workerVars, sessionVars
<1> QED BY <1>4, <1>5, <1>6, <1>7 DEF SlotInv, Finished

\* p.open is exact and bounded, and every worker has in its hands what its
\* place in the code says.
THEOREM SlotsAreCounted == Spec => []SlotInv
<1>1. SlotInv /\ [Next]_vars => SlotInv'
  <2> SUFFICES ASSUME SlotInv, [Next]_vars PROVE SlotInv'
    OBVIOUS
  <2>1. ASSUME NEW w \in Worker, Begin(w) \/ Proceed(w) PROVE SlotInv'
    BY <2>1, TypeStep, HandsStep, AccountingStep DEF SlotInv
  <2> QED BY <2>1, OtherSteps DEF Next
<1> QED BY <1>1, SlotInit, PTL DEF Spec

\* The variables of the pool have the types their declarations promise.
THEOREM TypeCorrect == Spec => []TypeOK
<1>1. SlotInv => TypeOK
  BY DEF SlotInv
<1> QED BY <1>1, SlotsAreCounted, PTL

-----------------------------------------------------------------------------
(* A session is in one place only.                                         *)

\* What a worker step does to the places a session can be in.
Kept == held' = held /\ idle' = idle

LEMMA PlacesStep ==
    ASSUME NEW w \in Worker, Begin(w) \/ Proceed(w)
    PROVE  Kept \/ TakeIdle(w) \/ DialSucceeded(w) \/ Return(w) \/ CloseSession(w)
BY DEF Begin, Proceed, Acquire, Check, ProbeEnds, DialEnds, Use, RunEnds, Discard,
       BeginRequest, BeginConfigure, ReserveSlot, WaitForSession,
       LendRecentlyUsed, SendProbe, ProbeAnswered, ProbeFailed, DialFailed,
       HandBack, Run, RunAnswered, RunFailed, FreeSlot, Kept, poolVars

LEMMA ExclusiveTake ==
    ASSUME TypeOK, ExclusiveLending, NEW w \in Worker, TakeIdle(w)
    PROVE  ExclusiveLending'
<1> DEFINE n == Len(idle)
           top == idle[n]
<1>1. /\ n \in Nat \ {0} /\ DOMAIN idle = 1..n
      /\ idle' \in Seq(Session) /\ Len(idle') = n - 1
      /\ \A i \in 1..(n - 1) : idle'[i] = idle[i]
  BY IdleTop DEF TakeIdle, TypeOK
<1>2. DOMAIN idle' = 1..(n - 1)
  BY <1>1
<1>3. held'[w] = {top} /\ \A v \in Worker \ {w} : held'[v] = held[v]
  BY DEF TakeIdle, TypeOK
<1>4. top \in IdleSet /\ \A v \in Worker : top \notin held[v]
  <2>1. n \in DOMAIN idle
    BY <1>1
  <2>2. top \in IdleSet
    BY <2>1 DEF IdleSet
  <2> QED BY <2>2 DEF ExclusiveLending, HeldSet
<1>5. IdleSet' \subseteq IdleSet /\ top \notin IdleSet'
  BY <1>1, <1>2 DEF ExclusiveLending, IdleSet
<1>6. HeldSet' \subseteq HeldSet \cup {top}
  BY <1>3 DEF HeldSet
<1>7. \A u, v \in Worker : u # v => held'[u] \cap held'[v] = {}
  BY <1>3, <1>4 DEF ExclusiveLending
<1>8. \A i, j \in DOMAIN idle' : i # j => idle'[i] # idle'[j]
  BY <1>1, <1>2 DEF ExclusiveLending
<1>9. HeldSet' \cap IdleSet' = {}
  BY <1>5, <1>6 DEF ExclusiveLending
<1> QED BY <1>7, <1>8, <1>9 DEF ExclusiveLending

LEMMA ExclusiveDial ==
    ASSUME TypeOK, ExclusiveLending, NEW w \in Worker, DialSucceeded(w)
    PROVE  ExclusiveLending'
<1>1. PICK s \in Session \ Connected : held' = [held EXCEPT ![w] = {s}]
  BY DEF DialSucceeded
<1>2. idle' = idle /\ IdleSet' = IdleSet
  BY DEF DialSucceeded, poolVars, IdleSet
<1>3. held'[w] = {s} /\ \A v \in Worker \ {w} : held'[v] = held[v]
  BY <1>1 DEF TypeOK
<1>4. s \notin IdleSet /\ \A v \in Worker : s \notin held[v]
  BY <1>1 DEF Connected, HeldSet
<1>5. HeldSet' \subseteq HeldSet \cup {s}
  BY <1>3 DEF HeldSet
<1>6. \A u, v \in Worker : u # v => held'[u] \cap held'[v] = {}
  BY <1>3, <1>4 DEF ExclusiveLending
<1> QED BY <1>2, <1>4, <1>5, <1>6 DEF ExclusiveLending

LEMMA ExclusiveReturn ==
    ASSUME SlotInv, ExclusiveLending, NEW w \in Worker, Return(w)
    PROVE  ExclusiveLending'
<1>0. TypeOK
  BY DEF SlotInv
<1>1. pc[w] = "return" /\ held' = [held EXCEPT ![w] = {}]
  BY DEF Return, ReturnSession, ReturnThenAskVersion, ReturnVersion, PutBack
<1>2. PICK s \in held[w] : idle' = Append(idle, s)
  BY DEF Return, ReturnSession, ReturnThenAskVersion, ReturnVersion, PutBack
<1>3. held[w] = {s} /\ s \in Session
  BY <1>0, <1>1, <1>2 DEF SlotInv, HandsMatchPC, SessionPC, TypeOK
<1>4. /\ idle' \in Seq(Session) /\ Len(idle') = Len(idle) + 1
      /\ \A i \in 1..Len(idle) : idle'[i] = idle[i]
      /\ idle'[Len(idle) + 1] = s
  BY <1>0, <1>2, <1>3, AppendProperties DEF TypeOK
<1>5. Len(idle) \in Nat /\ DOMAIN idle = 1..Len(idle)
  BY <1>0 DEF TypeOK
<1>6. DOMAIN idle' = 1..(Len(idle) + 1)
  BY <1>4
<1>7. \A i \in DOMAIN idle' : i \in DOMAIN idle \/ i = Len(idle) + 1
  BY <1>5, <1>6
<1>8. held'[w] = {} /\ \A v \in Worker \ {w} : held'[v] = held[v]
  BY <1>0, <1>1 DEF TypeOK
<1>9. s \notin IdleSet /\ \A v \in Worker \ {w} : s \notin held[v]
  BY <1>3 DEF ExclusiveLending, HeldSet
<1>10. IdleSet' \subseteq IdleSet \cup {s}
  BY <1>4, <1>5, <1>7 DEF IdleSet
<1>11. HeldSet' \subseteq HeldSet /\ s \notin HeldSet'
  BY <1>8, <1>9 DEF HeldSet
<1>12. \A u, v \in Worker : u # v => held'[u] \cap held'[v] = {}
  BY <1>8 DEF ExclusiveLending
<1>13. \A i, j \in DOMAIN idle' : i # j => idle'[i] # idle'[j]
  BY <1>4, <1>5, <1>7, <1>9 DEF ExclusiveLending, IdleSet
<1>14. HeldSet' \cap IdleSet' = {}
  BY <1>10, <1>11 DEF ExclusiveLending
<1> QED BY <1>12, <1>13, <1>14 DEF ExclusiveLending

LEMMA ExclusiveClose ==
    ASSUME TypeOK, ExclusiveLending, NEW w \in Worker, CloseSession(w)
    PROVE  ExclusiveLending'
<1>1. idle' = idle /\ IdleSet' = IdleSet
  BY DEF CloseSession, poolVars, IdleSet
<1>2. held'[w] = {} /\ \A v \in Worker \ {w} : held'[v] = held[v]
  BY DEF CloseSession, TypeOK
<1>3. HeldSet' \subseteq HeldSet
  BY <1>2 DEF HeldSet
<1>4. \A u, v \in Worker : u # v => held'[u] \cap held'[v] = {}
  BY <1>2 DEF ExclusiveLending
<1> QED BY <1>1, <1>3, <1>4 DEF ExclusiveLending

\* No session is ever in two hands, twice in the stack, or in both: a request
\* has its session to itself.
THEOREM LendingIsExclusive == Spec => []ExclusiveLending
<1>1. Init => ExclusiveLending
  BY DEF Init, ExclusiveLending, HeldSet, IdleSet
<1>2. SlotInv /\ ExclusiveLending /\ [Next]_vars => ExclusiveLending'
  <2> SUFFICES ASSUME SlotInv, ExclusiveLending, [Next]_vars
               PROVE  ExclusiveLending'
    OBVIOUS
  <2>1. ASSUME Kept PROVE ExclusiveLending'
    <3>1. HeldSet' = HeldSet /\ IdleSet' = IdleSet
      BY <2>1 DEF Kept, HeldSet, IdleSet
    <3> QED BY <2>1, <3>1 DEF Kept, ExclusiveLending
  <2>2. ASSUME NEW w \in Worker, Begin(w) \/ Proceed(w)
        PROVE  ExclusiveLending'
    BY <2>1, <2>2, PlacesStep, ExclusiveTake, ExclusiveDial, ExclusiveReturn,
       ExclusiveClose DEF SlotInv
  <2>3. ASSUME (\E s \in Session : Drop(s)) \/ Tick \/ Finished \/ UNCHANGED vars
        PROVE  Kept
    BY <2>3 DEF Drop, Tick, Finished, vars, poolVars, workerVars, Kept
  <2> QED BY <2>1, <2>2, <2>3 DEF Next
<1> QED BY <1>1, <1>2, SlotsAreCounted, PTL DEF Spec

-----------------------------------------------------------------------------
(* The pool's size bounds what the router sees.                            *)

SessionHolders == {w \in Worker : pc[w] \in SessionPC}
Dialers == {w \in Worker : pc[w] = "dial"}

LEMMA IdleSetCount ==
    ASSUME TypeOK
    PROVE  IsFiniteSet(IdleSet) /\ Cardinality(IdleSet) <= Len(idle)
<1>1. Len(idle) \in Nat /\ DOMAIN idle = 1..Len(idle)
  BY DEF TypeOK
<1>2. IsFiniteSet(1..Len(idle)) /\ Cardinality(1..Len(idle)) = Len(idle)
  <2>1. \A n \in Nat : /\ IsFiniteSet(1..n)
                      /\ Cardinality(1..n) = IF 1 > n THEN 0 ELSE n - 1 + 1
    BY FS_Interval
  <2>2. \A n \in Nat : (IF 1 > n THEN 0 ELSE n - 1 + 1) = n
    OBVIOUS
  <2> QED BY <1>1, <2>1, <2>2, Zenon
<1> DEFINE f == [i \in 1..Len(idle) |-> idle[i]]
<1>3. f \in Surjection(1..Len(idle), IdleSet)
  BY <1>1 DEF Surjection, IdleSet
<1> QED BY <1>2, <1>3, FS_Surjection

LEMMA HeldSetCount ==
    ASSUME SlotInv
    PROVE  /\ IsFiniteSet(HeldSet) /\ IsFiniteSet(SessionHolders)
           /\ Cardinality(HeldSet) <= Cardinality(SessionHolders)
<1>1. IsFiniteSet(SessionHolders)
  BY FS_Subset, PoolAssumption DEF SessionHolders
<1> DEFINE f == [w \in SessionHolders |-> CHOOSE s \in Session : held[w] = {s}]
<1>2. \A w \in SessionHolders : held[w] = {f[w]}
  BY DEF SlotInv, HandsMatchPC, SessionHolders
<1>3. \A w \in Worker \ SessionHolders : held[w] = {}
  BY DEF SlotInv, HandsMatchPC, SessionHolders
<1>4. f \in Surjection(SessionHolders, HeldSet)
  <2> HIDE DEF f
  <2>1. \A w \in SessionHolders : f[w] \in HeldSet
    BY <1>2 DEF HeldSet, SessionHolders
  <2>2. \A s \in HeldSet : \E w \in SessionHolders : f[w] = s
    BY <1>2, <1>3 DEF HeldSet, SessionHolders
  <2>3. f = [w \in SessionHolders |-> f[w]]
    BY DEF f
  <2> QED BY <2>1, <2>2, <2>3 DEF Surjection
<1> QED BY <1>1, <1>4, FS_Surjection

\* Open and half-open sessions together never exceed apiPoolSize.
THEOREM RouterSessionsBounded == Spec => []SessionsBounded
<1>1. SlotInv => SessionsBounded
  <2> SUFFICES ASSUME SlotInv PROVE SessionsBounded
    OBVIOUS
  <2>1. /\ IsFiniteSet(IdleSet) /\ Cardinality(IdleSet) <= Len(idle)
        /\ Len(idle) \in Nat /\ Size \in Nat
    BY IdleSetCount, PoolAssumption DEF SlotInv, TypeOK
  <2>2. /\ IsFiniteSet(HeldSet) /\ IsFiniteSet(SessionHolders)
        /\ Cardinality(HeldSet) <= Cardinality(SessionHolders)
    BY HeldSetCount
  <2>3. /\ IsFiniteSet(Dialers) /\ Dialers \cap SessionHolders = {}
        /\ Dialers \cup SessionHolders \subseteq Holders
    BY FS_Subset, PoolAssumption
       DEF Dialers, SessionHolders, SessionPC, Holders, HoldingPC
  <2>4. Cardinality(Connected) <= Cardinality(IdleSet) + Cardinality(HeldSet)
    <3>1. /\ Cardinality(IdleSet \cup HeldSet) =
               Cardinality(IdleSet) + Cardinality(HeldSet)
                 - Cardinality(IdleSet \cap HeldSet)
          /\ IsFiniteSet(IdleSet \cup HeldSet)
      BY <2>1, <2>2, FS_Union
    <3>2. IsFiniteSet(IdleSet \cap HeldSet)
      BY <2>1, FS_Intersection
    <3>3. /\ Cardinality(IdleSet \cap HeldSet) \in Nat
          /\ Cardinality(IdleSet) \in Nat /\ Cardinality(HeldSet) \in Nat
      BY <2>1, <2>2, <3>2, FS_CardinalityType
    <3> QED BY <3>1, <3>3 DEF Connected
  <2>5. Cardinality(Dialers) + Cardinality(SessionHolders) <= Cardinality(Holders)
    <3>1. Cardinality(Dialers \cup SessionHolders) =
            Cardinality(Dialers) + Cardinality(SessionHolders)
      <4>1. Cardinality(Dialers \cup SessionHolders) =
              Cardinality(Dialers) + Cardinality(SessionHolders)
                - Cardinality(Dialers \cap SessionHolders)
        BY <2>2, <2>3, FS_Union
      <4>2. Cardinality(Dialers \cap SessionHolders) = 0
        BY <2>3, FS_EmptySet
      <4>3. Cardinality(Dialers) \in Nat /\ Cardinality(SessionHolders) \in Nat
        BY <2>2, <2>3, FS_CardinalityType
      <4> QED BY <4>1, <4>2, <4>3
    <3>2. Cardinality(Dialers \cup SessionHolders) <= Cardinality(Holders)
      BY <2>3, HoldersFinite, FS_Subset
    <3> QED BY <3>1, <3>2
  <2>6. /\ Cardinality(Connected) \in Int /\ Cardinality(IdleSet) \in Nat
        /\ Cardinality(HeldSet) \in Nat /\ Cardinality(Dialers) \in Nat
        /\ Cardinality(SessionHolders) \in Nat /\ Cardinality(Holders) \in Nat
    <3>1. IsFiniteSet(Connected)
      BY <2>1, <2>2, FS_Union DEF Connected
    <3> QED BY <2>1, <2>2, <2>3, <3>1, HoldersFinite, FS_CardinalityType
  <2>7. Len(idle) + Cardinality(Holders) <= Size
    BY <2>1, <2>6 DEF SlotInv, SlotAccounting
  <2>8. Cardinality(Connected) + Cardinality(Dialers) <= Size
    BY <2>1, <2>2, <2>4, <2>5, <2>6, <2>7
  <2> QED BY <2>8 DEF SessionsBounded, Dialers
<1> QED BY <1>1, SlotsAreCounted, PTL

-----------------------------------------------------------------------------
(* No wakeup is lost.  With the slots counted, the promise is one about    *)
(* workers: while some wait, at least Size others are in the pool, holding *)
(* a slot or on their way to one.                                          *)

Active == {w \in Worker : pc[w] \in HoldingPC \cup {"acquire"}}

WaitersHaveHelp == Waiters # {} => Size <= Cardinality(Active)

LEMMA ActiveCount ==
    /\ IsFiniteSet(Active) /\ IsFiniteSet(Acquirers)
    /\ Cardinality(Active) \in Nat /\ Cardinality(Acquirers) \in Nat
    /\ Cardinality(Holders) \in Nat
    /\ Cardinality(Active) = Cardinality(Holders) + Cardinality(Acquirers)
<1>1. IsFiniteSet(Active) /\ IsFiniteSet(Acquirers) /\ IsFiniteSet(Holders)
  BY FS_Subset, PoolAssumption DEF Active, Acquirers, Holders
<1>2. Active = Holders \cup Acquirers /\ Holders \cap Acquirers = {}
  BY DEF Active, Holders, Acquirers, HoldingPC
<1>3. Cardinality(Holders \cap Acquirers) = 0
  BY <1>2, FS_EmptySet
<1>4. Cardinality(Holders \cup Acquirers) =
        Cardinality(Holders) + Cardinality(Acquirers)
          - Cardinality(Holders \cap Acquirers)
  BY <1>1, FS_Union
<1>5. /\ Cardinality(Active) \in Nat /\ Cardinality(Acquirers) \in Nat
      /\ Cardinality(Holders) \in Nat
  BY <1>1, FS_CardinalityType
<1> QED BY <1>1, <1>2, <1>3, <1>4, <1>5

\* A step that calls Signal: whoever leaves is replaced, if anybody waits.
LEMMA HelpAfterSignal ==
    ASSUME TypeOK, WaitersHaveHelp, NEW w \in Worker, w \in Active,
           NEW target \in {"out", "acquire"},
           Signal([pc EXCEPT ![w] = target])
    PROVE  WaitersHaveHelp'
<1> DEFINE next == [pc EXCEPT ![w] = target]
<1>1. pc \in [Worker -> PC] /\ Size \in Nat
  BY PoolAssumption DEF TypeOK
<1>2. pc[w] # "wait"
  BY DEF Active, HoldingPC
<1>3. CASE Waiters = {} /\ pc' = next
  <2>1. Waiters' = {}
    BY <1>1, <1>3 DEF Waiters
  <2> QED BY <2>1 DEF WaitersHaveHelp
<1>4. ASSUME NEW v \in Waiters, pc' = [next EXCEPT ![v] = "acquire"]
      PROVE  WaitersHaveHelp'
  <2>1. v \in Worker /\ v # w /\ v \notin Active
    BY <1>2, <1>4 DEF Waiters, Active, HoldingPC
  <2>2. (Active \ {w}) \cup {v} \subseteq Active'
    BY <1>1, <1>4, <2>1 DEF Active
  <2>3. /\ IsFiniteSet(Active \ {w})
        /\ Cardinality(Active \ {w}) = Cardinality(Active) - 1
    BY ActiveCount, FS_RemoveElement
  <2>4. /\ IsFiniteSet((Active \ {w}) \cup {v})
        /\ Cardinality((Active \ {w}) \cup {v}) = Cardinality(Active \ {w}) + 1
    BY <2>1, <2>3, FS_AddElement
  <2>5. IsFiniteSet(Active')
    BY FS_Subset, PoolAssumption DEF Active
  <2>6. /\ Cardinality((Active \ {w}) \cup {v}) <= Cardinality(Active')
        /\ Cardinality(Active') \in Nat
    BY <2>2, <2>5, FS_Subset, FS_CardinalityType
  <2>7. Cardinality(Active) <= Cardinality(Active')
    BY <2>3, <2>4, <2>6, ActiveCount
  <2>8. Waiters # {}
    BY <1>4
  <2> QED BY <1>1, <2>6, <2>7, <2>8, ActiveCount DEF WaitersHaveHelp
<1> QED BY <1>3, <1>4 DEF Signal

\* A step nobody leaves the pool by and nobody starts to wait by.
LEMMA HelpStays ==
    ASSUME WaitersHaveHelp, Waiters' \subseteq Waiters, Active \subseteq Active'
    PROVE  WaitersHaveHelp'
<1>1. IsFiniteSet(Active')
  BY FS_Subset, PoolAssumption DEF Active
<1>2. Cardinality(Active) <= Cardinality(Active') /\ Cardinality(Active') \in Nat
  BY <1>1, FS_Subset, FS_CardinalityType
<1> QED BY <1>2, ActiveCount, PoolAssumption DEF WaitersHaveHelp

\* A worker waits only where every slot is held by somebody who will signal.
LEMMA HelpWhenWaiting ==
    ASSUME SlotInv, NEW w \in Worker, WaitForSession(w)
    PROVE  WaitersHaveHelp'
<1>1. Size <= Cardinality(Holders)
  BY HoldersFinite, PoolAssumption
     DEF SlotInv, SlotAccounting, WaitForSession, TypeOK
<1>2. Holders \subseteq Active'
  BY DEF SlotInv, TypeOK, WaitForSession, Goto, Holders, Active, HoldingPC
<1>3. IsFiniteSet(Active')
  BY FS_Subset, PoolAssumption DEF Active
<1>4. Cardinality(Holders) <= Cardinality(Active') /\ Cardinality(Active') \in Nat
  BY <1>2, <1>3, FS_Subset, FS_CardinalityType
<1> QED BY <1>1, <1>4, HoldersFinite, PoolAssumption DEF WaitersHaveHelp

LEMMA HelpStep ==
    ASSUME SlotInv, WaitersHaveHelp, NEW w \in Worker, Begin(w) \/ Proceed(w)
    PROVE  WaitersHaveHelp'
<1>0. TypeOK
  BY DEF SlotInv
<1>1. ASSUME NEW target \in PC \ {"out", "wait"}, pc[w] # "wait", Goto(w, target)
      PROVE  WaitersHaveHelp'
  <2>1. Waiters' \subseteq Waiters /\ Active \subseteq Active'
    BY <1>0, <1>1 DEF TypeOK, Goto, Waiters, Active, HoldingPC, PC
  <2> QED BY <2>1, HelpStays
<1>2. CASE \/ BeginRequest(w) \/ BeginConfigure(w) \/ TakeIdle(w) \/ ReserveSlot(w)
           \/ LendRecentlyUsed(w) \/ SendProbe(w) \/ ProbeAnswered(w)
           \/ ProbeFailed(w) \/ DialSucceeded(w) \/ HandBack(w) \/ Run(w)
           \/ RunAnswered(w) \/ RunFailed(w) \/ CloseSession(w)
  BY <1>1, <1>2
     DEF PC, BeginRequest, BeginConfigure, TakeIdle, ReserveSlot,
         LendRecentlyUsed, SendProbe, ProbeAnswered, ProbeFailed, DialSucceeded,
         HandBack, Run, RunAnswered, RunFailed, CloseSession
<1>3. CASE WaitForSession(w)
  BY <1>3, HelpWhenWaiting
<1>4. CASE DialFailed(w) \/ Return(w)
  <2>1. w \in Active
    BY <1>4 DEF DialFailed, Return, ReturnSession, ReturnThenAskVersion,
                ReturnVersion, PutBack, Active, HoldingPC
  <2>2. Signal([pc EXCEPT ![w] = "out"]) \/ Signal([pc EXCEPT ![w] = "acquire"])
    BY <1>4 DEF DialFailed, Return, ReturnSession, ReturnThenAskVersion,
                ReturnVersion, PutBack
  <2> QED BY <1>0, <2>1, <2>2, HelpAfterSignal
<1>5. CASE FreeSlot(w)
  <2>1. w \in Active
    BY <1>5 DEF FreeSlot, Active, HoldingPC
  <2> DEFINE target == IF outcome[w] = "none" THEN "acquire" ELSE "out"
  <2>2. target \in {"out", "acquire"} /\ Signal([pc EXCEPT ![w] = target])
    BY <1>5 DEF FreeSlot
  <2> HIDE DEF target
  <2> QED BY <1>0, <2>1, <2>2, HelpAfterSignal
<1> QED BY <1>2, <1>3, <1>4, <1>5
        DEF Begin, Proceed, Acquire, Check, ProbeEnds, DialEnds, Use, RunEnds, Discard

\* A waiter is never left behind with a slot or a session to be had.
THEOREM WakeupsAreNotLost == Spec => []NoLostWakeup
<1>1. Init => WaitersHaveHelp
  BY DEF Init, WaitersHaveHelp, Waiters
<1>2. SlotInv /\ WaitersHaveHelp /\ [Next]_vars => WaitersHaveHelp'
  <2> SUFFICES ASSUME SlotInv, WaitersHaveHelp, [Next]_vars
               PROVE  WaitersHaveHelp'
    OBVIOUS
  <2>1. ASSUME (\E s \in Session : Drop(s)) \/ Tick \/ Finished \/ UNCHANGED vars
        PROVE  WaitersHaveHelp'
    <3>1. pc' = pc
      BY <2>1 DEF Drop, Tick, Finished, vars, workerVars
    <3> QED BY <3>1, HelpStays DEF Waiters, Active
  <2> QED BY <2>1, HelpStep DEF Next
<1>3. SlotInv /\ WaitersHaveHelp => NoLostWakeup
  <2> SUFFICES ASSUME SlotInv, Waiters # {}, Size <= Cardinality(Active)
               PROVE  Available <= Cardinality(Acquirers)
    BY DEF WaitersHaveHelp, NoLostWakeup
  <2> QED BY ActiveCount, PoolAssumption
          DEF SlotInv, SlotAccounting, TypeOK, Available
<1> QED BY <1>1, <1>2, <1>3, SlotsAreCounted, PTL DEF Spec

-----------------------------------------------------------------------------
(* A session that is lent was heard on.  The age of a session is the time  *)
(* since it was last handed back usable, and only a configuration hands    *)
(* one back that it has not used.  The first has just dialled it: nothing  *)
(* else happens in the pool before it succeeds.  A second would restart    *)
(* the age of an idle session.                                             *)

Configuring(w) == pc[w] # "out" /\ purpose[w] = "configure"

FirstAlone(w) ==
    /\ configures.started > 0 /\ configures.succeeded = 0 /\ idle = <<>>
    /\ \A v \in Worker \ {w} : pc[v] = "out"
    /\ pc[w] \in {"acquire", "wait", "dial", "lent", "return"}
    /\ pc[w] = "lent" => \A s \in held[w] : quiet[s] = 0

Unconfigured ==
    /\ configures.succeeded = 0 /\ idle = <<>>
    /\ \A v \in Worker : pc[v] = "out"

FirstInv ==
    /\ configures.started = 0 => Unconfigured
    /\ \A w \in Worker : Configuring(w) => FirstAlone(w)

StampsTrue == \A s \in Session : quiet[s] <= age[s]

LEMMA StampsStep ==
    ASSUME SlotInv, FirstInv, StampsTrue, NEW w \in Worker,
           Begin(w) \/ Proceed(w)
    PROVE  StampsTrue'
<1>1. age \in [Session -> 0..ProbeAfter] /\ quiet \in [Session -> 0..ProbeAfter]
  BY DEF SlotInv, TypeOK
<1>2. CASE UNCHANGED <<age, quiet>>
  BY <1>2 DEF StampsTrue
<1>3. CASE HandBack(w)
  <2>1. PICK s \in held[w] : age' = [age EXCEPT ![s] = 0]
    BY <1>3 DEF HandBack
  <2>2. quiet[s] = 0 /\ quiet' = quiet
    BY <1>3 DEF HandBack, FirstInv, FirstAlone, Configuring
  <2> QED BY <1>1, <2>1, <2>2 DEF StampsTrue
<1>4. CASE \/ \E s : age' = [age EXCEPT ![s] = 0] /\ quiet' = [quiet EXCEPT ![s] = 0]
           \/ \E s : age' = age /\ quiet' = [quiet EXCEPT ![s] = 0]
  BY <1>1, <1>4 DEF StampsTrue
<1> QED BY <1>2, <1>3, <1>4
        DEF Begin, Proceed, Acquire, Check, ProbeEnds, DialEnds, Use, RunEnds,
            Return, Discard, BeginRequest, BeginConfigure, TakeIdle, ReserveSlot,
            WaitForSession, LendRecentlyUsed, SendProbe, ProbeAnswered,
            ProbeFailed, DialSucceeded, DialFailed, Run, RunAnswered, RunFailed,
            ReturnSession, ReturnThenAskVersion, ReturnVersion, PutBack,
            CloseSession, FreeSlot, sessionVars

LEMMA StampsTick ==
    ASSUME SlotInv, StampsTrue, Tick PROVE StampsTrue'
<1> DEFINE Older(t) == IF t < ProbeAfter THEN t + 1 ELSE t
<1>1. /\ age' = [s \in Session |-> IF s \in Connected THEN Older(age[s])
                                                      ELSE age[s]]
      /\ quiet' = [s \in Session |-> IF s \in Connected THEN Older(quiet[s])
                                                        ELSE quiet[s]]
  BY DEF Tick
<1>2. \A t, u \in 0..ProbeAfter : t <= u => Older(t) <= Older(u)
  BY PoolAssumption
<1>3. age \in [Session -> 0..ProbeAfter] /\ quiet \in [Session -> 0..ProbeAfter]
  BY DEF SlotInv, TypeOK
<1> HIDE DEF Older
<1> QED BY <1>1, <1>2, <1>3 DEF StampsTrue

\* While a configuration is under way there is nobody to disturb it.
LEMMA FirstOnlyMoves ==
    ASSUME MaxConfigures <= 1, SlotInv, FirstInv, NEW w \in Worker,
           Begin(w) \/ Proceed(w)
    PROVE  \A v \in Worker \ {w} : ~Configuring(v)
<1> SUFFICES ASSUME NEW v \in Worker \ {w}, Configuring(v) PROVE FALSE
  OBVIOUS
<1>1. /\ configures.started > 0 /\ configures.succeeded = 0 /\ pc[w] = "out"
      /\ configures.started \in Nat
  BY DEF FirstInv, FirstAlone, SlotInv, TypeOK
<1>2. BeginRequest(w) \/ BeginConfigure(w)
  BY <1>1 DEF Begin, Proceed, Acquire, Check, ProbeEnds, DialEnds, Use, RunEnds,
     Return, Discard, TakeIdle, ReserveSlot, WaitForSession, LendRecentlyUsed,
     SendProbe, ProbeAnswered, ProbeFailed, DialSucceeded, DialFailed, HandBack,
     Run, RunAnswered, RunFailed, ReturnSession, ReturnThenAskVersion,
     ReturnVersion, PutBack, CloseSession, FreeSlot
<1> QED BY <1>1, <1>2, PoolAssumption DEF BeginRequest, BeginConfigure

\* The configuration's own steps.
LEMMA FirstMoves ==
    ASSUME SlotInv, FirstInv, NEW w \in Worker, Configuring(w), Proceed(w)
    PROVE  Configuring(w)' => FirstAlone(w)'
<1>1. FirstAlone(w) /\ TypeOK /\ purpose[w] = "configure"
  BY DEF FirstInv, Configuring, SlotInv
<1>2. \/ ReserveSlot(w) \/ WaitForSession(w) \/ DialSucceeded(w)
      \/ DialFailed(w) \/ HandBack(w) \/ ReturnSession(w)
      \/ ReturnThenAskVersion(w)
  BY <1>1 DEF FirstAlone, Proceed, Acquire, Check, ProbeEnds, DialEnds, Use,
     RunEnds, Return, Discard, TakeIdle, LendRecentlyUsed, SendProbe,
     ProbeAnswered, ProbeFailed, Run, RunAnswered, RunFailed, ReturnVersion,
     CloseSession, FreeSlot
<1>3. ASSUME NEW target, Moves(w, target)
      PROVE  pc'[w] = target /\ \A v \in Worker \ {w} : pc'[v] = "out"
  BY <1>1, <1>3 DEF Moves, OthersStand, FirstAlone
<1>4. CASE ReserveSlot(w) \/ WaitForSession(w) \/ HandBack(w)
  <2>1. \E target \in {"dial", "wait", "return"} : Moves(w, target)
    BY <1>1, <1>4, StepMoves
  <2>2. UNCHANGED <<idle, configures>>
    BY <1>4 DEF ReserveSlot, WaitForSession, HandBack, poolVars
  <2> QED BY <1>1, <1>3, <2>1, <2>2 DEF FirstAlone
<1>5. CASE DialSucceeded(w)
  <2>1. pc'[w] = "lent" /\ \A v \in Worker \ {w} : pc'[v] = "out"
    BY <1>1, <1>3, <1>5, StepMoves
  <2>2. PICK s \in Session : /\ held' = [held EXCEPT ![w] = {s}]
                             /\ quiet' = [quiet EXCEPT ![s] = 0]
    BY <1>5 DEF DialSucceeded
  <2>3. \A r \in held'[w] : quiet'[r] = 0
    BY <1>1, <2>2 DEF TypeOK
  <2>4. UNCHANGED <<idle, configures>>
    BY <1>5 DEF DialSucceeded, poolVars
  <2> QED BY <1>1, <2>1, <2>3, <2>4 DEF FirstAlone
<1>6. CASE DialFailed(w) \/ ReturnSession(w)
  <2>1. pc'[w] = "out"
    BY <1>1, <1>6, StepMoves DEF Moves
  <2> QED BY <2>1 DEF Configuring
<1>7. CASE ReturnThenAskVersion(w)
  <2>1. purpose'[w] = "version"
    BY <1>1, <1>7 DEF ReturnThenAskVersion, TypeOK
  <2> QED BY <2>1 DEF Configuring
<1> QED BY <1>2, <1>4, <1>5, <1>6, <1>7

LEMMA FirstBegins ==
    ASSUME MaxConfigures <= 1, SlotInv, FirstInv, NEW w \in Worker,
           BeginConfigure(w)
    PROVE  FirstInv'
<1>1. TypeOK /\ configures.started = 0 /\ Unconfigured
  <2>1. configures.started \in Nat /\ configures.started < MaxConfigures
    BY DEF BeginConfigure, SlotInv, TypeOK
  <2> QED BY <2>1, PoolAssumption DEF FirstInv, SlotInv
<1>2. /\ pc'[w] = "acquire"
      /\ \A v \in Worker \ {w} : pc'[v] = "out"
  BY <1>1, StepMoves DEF Moves, OthersStand, Unconfigured
<1>3. configures'.started = 1 /\ configures'.succeeded = 0 /\ idle' = <<>>
  BY <1>1 DEF BeginConfigure, TypeOK, Unconfigured, poolVars
<1> QED BY <1>2, <1>3 DEF FirstInv, FirstAlone, Configuring

\* Any other step starts no configuration.
LEMMA OthersBegin ==
    ASSUME SlotInv, FirstInv, NEW w \in Worker, ~Configuring(w),
           Begin(w) \/ Proceed(w), ~BeginConfigure(w)
    PROVE  ~Configuring(w)' /\ configures.started # 0
<1>1. TypeOK
  BY DEF SlotInv
<1>2. CASE pc[w] = "out"
  <2>1. BeginRequest(w)
    BY <1>2 DEF Begin, Proceed, Acquire, Check, ProbeEnds, DialEnds, Use, RunEnds,
       Return, Discard, TakeIdle, ReserveSlot, WaitForSession, LendRecentlyUsed,
       SendProbe, ProbeAnswered, ProbeFailed, DialSucceeded, DialFailed, HandBack,
       Run, RunAnswered, RunFailed, ReturnSession, ReturnThenAskVersion,
       ReturnVersion, PutBack, CloseSession, FreeSlot
  <2>2. purpose'[w] = "request" /\ configures.succeeded > 0
    BY <1>1, <2>1 DEF BeginRequest, TypeOK
  <2> QED BY <2>2 DEF Configuring, FirstInv, Unconfigured
<1>3. CASE pc[w] # "out"
  <2>1. purpose[w] # "configure" /\ configures.started # 0
    BY <1>3 DEF Configuring, FirstInv, Unconfigured
  <2>2. Proceed(w)
    BY <1>3 DEF Begin, BeginRequest, BeginConfigure
  <2>3. purpose' = purpose \/ ReturnThenAskVersion(w)
    BY <2>2 DEF Proceed, Acquire, Check, ProbeEnds, DialEnds, Use, RunEnds,
       Return, Discard, TakeIdle, ReserveSlot, WaitForSession, LendRecentlyUsed,
       SendProbe, ProbeAnswered, ProbeFailed, DialSucceeded, DialFailed, HandBack,
       Run, RunAnswered, RunFailed, ReturnSession, ReturnVersion, CloseSession,
       FreeSlot
  <2>4. purpose'[w] # "configure"
    BY <1>1, <2>1, <2>3 DEF ReturnThenAskVersion, TypeOK
  <2> QED BY <2>1, <2>4 DEF Configuring
<1> QED BY <1>2, <1>3

\* The other workers and what they use the pool for.
LEMMA OthersStay ==
    ASSUME TypeOK, NEW w \in Worker, Begin(w) \/ Proceed(w)
    PROVE  /\ \A v \in Worker \ {w} : /\ purpose'[v] = purpose[v]
                                      /\ pc[v] = "out" <=> pc'[v] = "out"
           /\ ~BeginConfigure(w) => configures'.started = configures.started
<1>1. \E target \in PC : Moves(w, target)
  BY StepMoves DEF Begin, Proceed, Acquire, Check, ProbeEnds, DialEnds, Use,
     RunEnds, Return, Discard, PC
<1>2. \/ purpose' = purpose
      \/ \E p : purpose' = [purpose EXCEPT ![w] = p]
  BY DEF Begin, Proceed, Acquire, Check, ProbeEnds, DialEnds, Use, RunEnds,
     Return, Discard, BeginRequest, BeginConfigure, TakeIdle, ReserveSlot,
     WaitForSession, LendRecentlyUsed, SendProbe, ProbeAnswered, ProbeFailed,
     DialSucceeded, DialFailed, HandBack, Run, RunAnswered, RunFailed,
     ReturnSession, ReturnThenAskVersion, ReturnVersion, CloseSession, FreeSlot
<1>3. \/ configures' = configures \/ BeginConfigure(w)
      \/ configures' = [configures EXCEPT !.succeeded = @ + 1]
  BY DEF Begin, Proceed, Acquire, Check, ProbeEnds, DialEnds, Use, RunEnds,
     Return, Discard, BeginRequest, TakeIdle, ReserveSlot,
     WaitForSession, LendRecentlyUsed, SendProbe, ProbeAnswered, ProbeFailed,
     DialSucceeded, DialFailed, HandBack, Run, RunAnswered, RunFailed,
     ReturnSession, ReturnThenAskVersion, ReturnVersion, CloseSession, FreeSlot
<1>4. ~BeginConfigure(w) => configures'.started = configures.started
  BY <1>3 DEF TypeOK
<1>5. ASSUME NEW v \in Worker \ {w}
      PROVE  purpose'[v] = purpose[v] /\ (pc[v] = "out" <=> pc'[v] = "out")
  <2>1. pc[v] = "out" <=> pc'[v] = "out"
    BY <1>1 DEF Moves, OthersStand
  <2> QED BY <1>2, <2>1 DEF TypeOK
<1> QED BY <1>4, <1>5

LEMMA FirstStep ==
    ASSUME MaxConfigures <= 1, SlotInv, FirstInv, NEW w \in Worker,
           Begin(w) \/ Proceed(w)
    PROVE  FirstInv'
<1>1. CASE BeginConfigure(w)
  BY <1>1, FirstBegins
<1>2. CASE ~BeginConfigure(w)
  <2>1. \A v \in Worker \ {w} : ~Configuring(v)'
    BY FirstOnlyMoves, OthersStay DEF Configuring, SlotInv
  <2>2. configures'.started = configures.started
    BY <1>2, OthersStay DEF SlotInv
  <2>3. CASE Configuring(w)
    <3>1. Proceed(w) /\ configures.started # 0
      BY <2>3 DEF Configuring, Begin, BeginRequest, BeginConfigure, FirstInv,
                  Unconfigured
    <3>2. Configuring(w)' => FirstAlone(w)'
      BY <2>3, <3>1, FirstMoves
    <3> QED BY <2>1, <2>2, <3>1, <3>2 DEF FirstInv
  <2>4. CASE ~Configuring(w)
    BY <1>2, <2>1, <2>2, <2>4, OthersBegin DEF FirstInv
  <2> QED BY <2>3, <2>4
<1> QED BY <1>1, <1>2

HeardInv == SlotInv /\ FirstInv /\ StampsTrue

LEMMA HeardInvStep ==
    ASSUME MaxConfigures <= 1, HeardInv, [Next]_vars PROVE HeardInv'
<1>1. ASSUME NEW w \in Worker, Begin(w) \/ Proceed(w) PROVE HeardInv'
  BY <1>1, FirstStep, StampsStep, TypeStep, HandsStep, AccountingStep
     DEF HeardInv, SlotInv
<1>2. CASE (\E s \in Session : Drop(s)) \/ Tick \/ Finished \/ UNCHANGED vars
  <2>1. SlotInv'
    BY <1>2, OtherSteps DEF HeardInv
  <2>2. UNCHANGED <<idle, pc, held, purpose, configures>>
    BY <1>2 DEF Drop, Tick, Finished, vars, poolVars, workerVars
  <2>3. StampsTrue' /\ \/ UNCHANGED quiet
                       \/ \A v \in Worker : Configuring(v) => pc[v] # "lent"
    BY <1>2, StampsTick DEF Drop, Tick, Finished, vars, sessionVars, HeardInv,
                            StampsTrue, Configuring
  <2>4. FirstInv'
    BY <2>2, <2>3 DEF HeardInv, FirstInv, Unconfigured, FirstAlone, Configuring
  <2> QED BY <2>1, <2>3, <2>4 DEF HeardInv
<1> QED BY <1>1, <1>2 DEF Next

HeardStep ==
    \A w \in Worker : pc[w] # "lent" /\ pc'[w] = "lent"
                         => \A s \in held'[w] : quiet'[s] < ProbeAfter

LEMMA LentIsHeard ==
    ASSUME HeardInv, NEW v \in Worker, Begin(v) \/ Proceed(v)
    PROVE  HeardStep
<1> SUFFICES ASSUME NEW w \in Worker, pc[w] # "lent", pc'[w] = "lent"
             PROVE  \A s \in held'[w] : quiet'[s] < ProbeAfter
  BY DEF HeardStep
<1>1. /\ TypeOK /\ 0 < ProbeAfter
      /\ held \in [Worker -> SUBSET Session]
      /\ age \in [Session -> 0..ProbeAfter] /\ quiet \in [Session -> 0..ProbeAfter]
  BY PoolAssumption DEF HeardInv, SlotInv, TypeOK
<1>2. w = v /\ (LendRecentlyUsed(v) \/ ProbeAnswered(v) \/ DialSucceeded(v))
  BY <1>1, StepMoves
     DEF Begin, Proceed, Acquire, Check, ProbeEnds, DialEnds, Use, RunEnds,
         Return, Discard, Moves, OthersStand
<1>3. CASE LendRecentlyUsed(v)
  <2>1. /\ held' = held /\ quiet' = quiet
        /\ \A s \in held[w] : age[s] < ProbeAfter
    BY <1>2, <1>3 DEF LendRecentlyUsed, sessionVars
  <2> SUFFICES ASSUME NEW s \in held[w] PROVE quiet[s] < ProbeAfter
    BY <2>1
  <2>2. s \in Session /\ age[s] < ProbeAfter /\ quiet[s] <= age[s]
    BY <1>1, <2>1 DEF HeardInv, StampsTrue
  <2>3. age[s] \in Nat /\ quiet[s] \in Nat /\ ProbeAfter \in Nat
    BY <1>1, <2>2, PoolAssumption
  <2> QED BY <2>2, <2>3
<1>4. CASE ProbeAnswered(v)
  <2>1. /\ held' = held /\ pc[w] = "probe"
        /\ \E s \in held[w] : quiet' = [quiet EXCEPT ![s] = 0]
    BY <1>2, <1>4 DEF ProbeAnswered
  <2>2. \E s \in Session : held[w] = {s}
    BY <2>1 DEF HeardInv, SlotInv, HandsMatchPC, SessionPC
  <2> QED BY <1>1, <2>1, <2>2
<1>5. CASE DialSucceeded(v)
  <2>1. \E s \in Session : /\ held' = [held EXCEPT ![w] = {s}]
                           /\ quiet' = [quiet EXCEPT ![s] = 0]
    BY <1>2, <1>5 DEF DialSucceeded
  <2> QED BY <1>1, <2>1
<1> QED BY <1>2, <1>3, <1>4, <1>5

\* acquire lends no session the router was not heard on within
\* apiIdleProbeAfter, in a process that configures the provider at most once.
THEOREM LentSessionsWereHeard == MaxConfigures <= 1 /\ Spec => HeardRecently
<1> SUFFICES ASSUME MaxConfigures <= 1 PROVE Spec => HeardRecently
  OBVIOUS
<1>1. Init => HeardInv
  <2> SUFFICES ASSUME Init PROVE FirstInv /\ StampsTrue
    BY SlotInit DEF HeardInv
  <2> QED BY DEF Init, FirstInv, Unconfigured, Configuring, StampsTrue
<1>2. HeardInv /\ [Next]_vars => HeardInv'
  BY HeardInvStep
<1>3. HeardInv /\ [Next]_vars => [HeardStep]_vars
  <2> SUFFICES ASSUME HeardInv, Next PROVE HeardStep \/ UNCHANGED vars
    BY DEF HeardStep
  <2>1. CASE (\E s \in Session : Drop(s)) \/ Tick \/ Finished
    BY <2>1 DEF Drop, Tick, Finished, vars, workerVars, HeardStep
  <2> QED BY <2>1, LentIsHeard DEF Next
<1>4. Spec => [][HeardStep]_vars
  BY <1>1, <1>2, <1>3, PTL DEF Spec
<1> QED BY <1>4 DEF HeardRecently, HeardStep

=============================================================================
