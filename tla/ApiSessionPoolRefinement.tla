---------------------- MODULE ApiSessionPoolRefinement ----------------------
(***************************************************************************)
(* The proof that the session pool implements RequestService: nobody is    *)
(* ever given the answer to somebody else's request, or to an earlier one  *)
(* of its own.                                                             *)
(***************************************************************************)
EXTENDS ApiSessionPoolProofs

\* Streams are in step: a session nobody runs a command on has nothing unread,
\* and one in use has at most the reply its user is waiting for.  A session
\* being discarded may have anything.
IdleInStep == \A i \in DOMAIN idle : replies[idle[i]] = <<>>

HeldInStep(w) ==
    \A s \in held[w] :
        /\ pc[w] \in {"check", "lent", "return"} => replies[s] = <<>>
        /\ pc[w] = "probe" => replies[s] \in {<<>>, <<ProbeOf(w)>>}
        /\ pc[w] = "run" => replies[s] \in {<<>>, <<CurrentRequest(w)>>}

\* The outcome of a call is decided once, and where the code decides it.
OutcomeMatchesPC(w) ==
    /\ pc[w] \in {"acquire", "wait", "check", "probe", "dial", "lent", "run"}
         => outcome[w] = "none"
    /\ pc[w] \in {"discard", "free"} => outcome[w] \in {"none", "failed"}
    /\ pc[w] = "run" => purpose[w] # "configure"
    /\ pc[w] = "return"
         => outcome[w] = IF purpose[w] = "configure" THEN "none" ELSE "answered"

InStep ==
    /\ IdleInStep
    /\ \A w \in Worker : HeldInStep(w) /\ OutcomeMatchesPC(w)

StepInv == SlotInv /\ ExclusiveLending /\ InStep

-----------------------------------------------------------------------------
\* A worker step that leaves the streams of all sessions but its own alone
\* keeps everybody else in step.
LEMMA OthersInStep ==
    ASSUME StepInv, NEW w \in Worker, OthersStand(w),
           \A v \in Worker \ {w} :
               /\ held'[v] = held[v] /\ sent'[v] = sent[v]
               /\ outcome'[v] = outcome[v] /\ purpose'[v] = purpose[v],
           \A s \in Session : s \notin held[w] /\ s \in Connected
                                => replies'[s] = replies[s]
    PROVE  \A v \in Worker \ {w} : HeldInStep(v)' /\ OutcomeMatchesPC(v)'
<1> SUFFICES ASSUME NEW v \in Worker, v # w
             PROVE  HeldInStep(v)' /\ OutcomeMatchesPC(v)'
  OBVIOUS
<1>1. TypeOK /\ HeldInStep(v) /\ OutcomeMatchesPC(v)
  BY DEF StepInv, SlotInv, InStep
<1>2. /\ held'[v] = held[v] /\ sent'[v] = sent[v]
      /\ outcome'[v] = outcome[v] /\ purpose'[v] = purpose[v]
  OBVIOUS
<1>3. \A s \in held[v] : replies'[s] = replies[s]
  <2> SUFFICES ASSUME NEW s \in held[v] PROVE replies'[s] = replies[s]
    OBVIOUS
  <2>1. s \notin held[w]
    BY DEF StepInv, ExclusiveLending
  <2>2. s \in Session /\ s \in Connected
    BY <1>1 DEF TypeOK, Connected, HeldSet
  <2> QED BY <2>1, <2>2
<1>4. CASE pc'[v] = pc[v]
  BY <1>1, <1>2, <1>3, <1>4
     DEF HeldInStep, OutcomeMatchesPC, ProbeOf, CurrentRequest
<1>5. CASE pc[v] = "wait" /\ pc'[v] = "acquire"
  BY <1>1, <1>2, <1>5 DEF HeldInStep, OutcomeMatchesPC
<1> QED BY <1>4, <1>5 DEF OthersStand

\* The idle sessions stay in step when the stack only loses elements.
LEMMA IdleStaysInStep ==
    ASSUME StepInv, NEW w \in Worker,
           IdleSet' \subseteq IdleSet,
           \A s \in Session : s \notin held[w] /\ s \in Connected
                                => replies'[s] = replies[s]
    PROVE  IdleInStep'
<1> SUFFICES ASSUME NEW i \in DOMAIN idle' PROVE replies'[idle'[i]] = <<>>
  BY DEF IdleInStep
<1>1. PICK j \in DOMAIN idle : idle'[i] = idle[j]
  BY DEF IdleSet
<1>2. idle[j] \in IdleSet /\ replies[idle[j]] = <<>>
  BY DEF StepInv, InStep, IdleInStep, IdleSet
<1>3. idle[j] \in Session /\ idle[j] \in Connected
  BY <1>2 DEF StepInv, SlotInv, TypeOK, Connected
<1>4. idle[j] \notin held[w]
  BY <1>2 DEF StepInv, ExclusiveLending, HeldSet
<1> QED BY <1>1, <1>2, <1>3, <1>4

\* The step of the worker itself.
OwnStep(w) ==
    /\ OthersStand(w)
    /\ \A v \in Worker \ {w} :
           /\ held'[v] = held[v] /\ sent'[v] = sent[v]
           /\ outcome'[v] = outcome[v] /\ purpose'[v] = purpose[v]
    /\ \A s \in Session : s \notin held[w] /\ s \in Connected
                            => replies'[s] = replies[s]
    /\ HeldInStep(w)' /\ OutcomeMatchesPC(w)'

LEMMA OwnStepEnough ==
    ASSUME StepInv, NEW w \in Worker, OwnStep(w), IdleSet' \subseteq IdleSet
    PROVE  InStep'
<1>1. IdleInStep'
  BY IdleStaysInStep DEF OwnStep
<1>2. \A v \in Worker \ {w} : HeldInStep(v)' /\ OutcomeMatchesPC(v)'
  BY OthersInStep DEF OwnStep
<1> QED BY <1>1, <1>2 DEF InStep, OwnStep

LEMMA OwnSteps ==
    ASSUME StepInv, NEW w \in Worker, Begin(w) \/ Proceed(w), ~Return(w)
    PROVE  OwnStep(w) /\ IdleSet' \subseteq IdleSet
<1>0. TypeOK /\ HeldInStep(w) /\ OutcomeMatchesPC(w)
  BY DEF StepInv, SlotInv, InStep
<1>a. /\ pc[w] \notin SessionPC => held[w] = {}
      /\ pc[w] \in SessionPC => \E s \in Session : held[w] = {s}
  BY DEF StepInv, SlotInv, HandsMatchPC
<1>1. ASSUME BeginRequest(w) PROVE OwnStep(w) /\ IdleSet' \subseteq IdleSet
  <2>1. pc[w] = "out" /\ pc'[w] = "acquire" /\ OthersStand(w)
    BY <1>0, <1>1, StepMoves DEF BeginRequest, Moves
  <2>2. \A v \in Worker \ {w} :
           /\ held'[v] = held[v] /\ sent'[v] = sent[v]
           /\ outcome'[v] = outcome[v] /\ purpose'[v] = purpose[v]
    BY <1>0, <1>1 DEF BeginRequest, TypeOK
  <2>3. \A s \in Session : s \notin held[w] /\ s \in Connected
                            => replies'[s] = replies[s]
    BY <1>0, <1>1 DEF BeginRequest, sessionVars, TypeOK
  <2>4. HeldInStep(w)'
    BY <1>0, <1>a, <1>1, <2>1 DEF BeginRequest, sessionVars, HeldInStep, CurrentRequest, SessionPC, TypeOK
  <2>5. OutcomeMatchesPC(w)'
    BY <1>0, <1>1, <2>1 DEF BeginRequest, OutcomeMatchesPC, TypeOK
  <2>6. IdleSet' \subseteq IdleSet
    BY <1>1 DEF BeginRequest, poolVars, IdleSet
  <2> QED BY <2>1, <2>2, <2>3, <2>4, <2>5, <2>6 DEF OwnStep
<1>2. ASSUME BeginConfigure(w) PROVE OwnStep(w) /\ IdleSet' \subseteq IdleSet
  <2>1. pc[w] = "out" /\ pc'[w] = "acquire" /\ OthersStand(w)
    BY <1>0, <1>2, StepMoves DEF BeginConfigure, Moves
  <2>2. \A v \in Worker \ {w} :
           /\ held'[v] = held[v] /\ sent'[v] = sent[v]
           /\ outcome'[v] = outcome[v] /\ purpose'[v] = purpose[v]
    BY <1>0, <1>2 DEF BeginConfigure, TypeOK
  <2>3. \A s \in Session : s \notin held[w] /\ s \in Connected
                            => replies'[s] = replies[s]
    BY <1>0, <1>2 DEF BeginConfigure, sessionVars, TypeOK
  <2>4. HeldInStep(w)'
    BY <1>0, <1>a, <1>2, <2>1 DEF BeginConfigure, sessionVars, HeldInStep, CurrentRequest, SessionPC, TypeOK
  <2>5. OutcomeMatchesPC(w)'
    BY <1>0, <1>2, <2>1 DEF BeginConfigure, OutcomeMatchesPC, TypeOK
  <2>6. IdleSet' \subseteq IdleSet
    BY <1>2 DEF BeginConfigure, poolVars, IdleSet
  <2> QED BY <2>1, <2>2, <2>3, <2>4, <2>5, <2>6 DEF OwnStep
<1>3. ASSUME TakeIdle(w) PROVE OwnStep(w) /\ IdleSet' \subseteq IdleSet
  <2>1. pc[w] = "acquire" /\ pc'[w] = "check" /\ OthersStand(w)
    BY <1>0, <1>3, StepMoves DEF TakeIdle, Moves
  <2>2. \A v \in Worker \ {w} :
           /\ held'[v] = held[v] /\ sent'[v] = sent[v]
           /\ outcome'[v] = outcome[v] /\ purpose'[v] = purpose[v]
    BY <1>0, <1>3 DEF TakeIdle, TypeOK
  <2>3. \A s \in Session : s \notin held[w] /\ s \in Connected
                            => replies'[s] = replies[s]
    BY <1>0, <1>3 DEF TakeIdle, sessionVars, TypeOK
  <2>a. /\ Len(idle) \in DOMAIN idle
        /\ held' = [held EXCEPT ![w] = {idle[Len(idle)]}]
        /\ idle' \in Seq(Session) /\ Len(idle') = Len(idle) - 1
        /\ \A i \in 1..(Len(idle) - 1) : idle'[i] = idle[i]
    BY <1>0, <1>3, IdleTop DEF TakeIdle, TypeOK
  <2>4. HeldInStep(w)'
    <3>1. replies[idle[Len(idle)]] = <<>>
      BY <2>a DEF StepInv, InStep, IdleInStep
    <3>2. held'[w] = {idle[Len(idle)]} /\ replies' = replies
      BY <1>0, <1>3, <2>a DEF TakeIdle, sessionVars, TypeOK
    <3> QED BY <2>1, <3>1, <3>2 DEF HeldInStep
  <2>5. OutcomeMatchesPC(w)'
    BY <1>0, <1>3, <2>1 DEF TakeIdle, OutcomeMatchesPC, TypeOK
  <2>6. IdleSet' \subseteq IdleSet
    <3>1. DOMAIN idle' \subseteq DOMAIN idle /\ \A i \in DOMAIN idle' : idle'[i] = idle[i]
      <4>1. /\ Len(idle) \in Nat /\ DOMAIN idle = 1..Len(idle)
            /\ DOMAIN idle' = 1..(Len(idle) - 1)
        BY <1>0, <2>a DEF TypeOK
      <4> QED BY <2>a, <4>1
    <3> QED BY <3>1 DEF IdleSet
  <2> QED BY <2>1, <2>2, <2>3, <2>4, <2>5, <2>6 DEF OwnStep
<1>4. ASSUME ReserveSlot(w) PROVE OwnStep(w) /\ IdleSet' \subseteq IdleSet
  <2>1. pc[w] = "acquire" /\ pc'[w] = "dial" /\ OthersStand(w)
    BY <1>0, <1>4, StepMoves DEF ReserveSlot, Moves
  <2>2. \A v \in Worker \ {w} :
           /\ held'[v] = held[v] /\ sent'[v] = sent[v]
           /\ outcome'[v] = outcome[v] /\ purpose'[v] = purpose[v]
    BY <1>0, <1>4 DEF ReserveSlot, TypeOK
  <2>3. \A s \in Session : s \notin held[w] /\ s \in Connected
                            => replies'[s] = replies[s]
    BY <1>0, <1>4 DEF ReserveSlot, sessionVars, TypeOK
  <2>4. HeldInStep(w)'
    BY <1>0, <1>a, <1>4, <2>1 DEF ReserveSlot, sessionVars, HeldInStep, CurrentRequest, SessionPC, TypeOK
  <2>5. OutcomeMatchesPC(w)'
    BY <1>0, <1>4, <2>1 DEF ReserveSlot, OutcomeMatchesPC, TypeOK
  <2>6. IdleSet' \subseteq IdleSet
    BY <1>4 DEF ReserveSlot, poolVars, IdleSet
  <2> QED BY <2>1, <2>2, <2>3, <2>4, <2>5, <2>6 DEF OwnStep
<1>5. ASSUME WaitForSession(w) PROVE OwnStep(w) /\ IdleSet' \subseteq IdleSet
  <2>1. pc[w] = "acquire" /\ pc'[w] = "wait" /\ OthersStand(w)
    BY <1>0, <1>5, StepMoves DEF WaitForSession, Moves
  <2>2. \A v \in Worker \ {w} :
           /\ held'[v] = held[v] /\ sent'[v] = sent[v]
           /\ outcome'[v] = outcome[v] /\ purpose'[v] = purpose[v]
    BY <1>0, <1>5 DEF WaitForSession, TypeOK
  <2>3. \A s \in Session : s \notin held[w] /\ s \in Connected
                            => replies'[s] = replies[s]
    BY <1>0, <1>5 DEF WaitForSession, sessionVars, TypeOK
  <2>4. HeldInStep(w)'
    BY <1>0, <1>a, <1>5, <2>1 DEF WaitForSession, sessionVars, HeldInStep, CurrentRequest, SessionPC, TypeOK
  <2>5. OutcomeMatchesPC(w)'
    BY <1>0, <1>5, <2>1 DEF WaitForSession, OutcomeMatchesPC, TypeOK
  <2>6. IdleSet' \subseteq IdleSet
    BY <1>5 DEF WaitForSession, poolVars, IdleSet
  <2> QED BY <2>1, <2>2, <2>3, <2>4, <2>5, <2>6 DEF OwnStep
<1>6. ASSUME LendRecentlyUsed(w) PROVE OwnStep(w) /\ IdleSet' \subseteq IdleSet
  <2>1. pc[w] = "check" /\ pc'[w] = "lent" /\ OthersStand(w)
    BY <1>0, <1>6, StepMoves DEF LendRecentlyUsed, Moves
  <2>2. \A v \in Worker \ {w} :
           /\ held'[v] = held[v] /\ sent'[v] = sent[v]
           /\ outcome'[v] = outcome[v] /\ purpose'[v] = purpose[v]
    BY <1>0, <1>6 DEF LendRecentlyUsed, TypeOK
  <2>3. \A s \in Session : s \notin held[w] /\ s \in Connected
                            => replies'[s] = replies[s]
    BY <1>0, <1>6 DEF LendRecentlyUsed, sessionVars, TypeOK
  <2>4. HeldInStep(w)'
    BY <1>0, <1>a, <1>6, <2>1 DEF LendRecentlyUsed, sessionVars, HeldInStep, CurrentRequest, SessionPC, TypeOK
  <2>5. OutcomeMatchesPC(w)'
    BY <1>0, <1>6, <2>1 DEF LendRecentlyUsed, OutcomeMatchesPC, TypeOK
  <2>6. IdleSet' \subseteq IdleSet
    BY <1>6 DEF LendRecentlyUsed, poolVars, IdleSet
  <2> QED BY <2>1, <2>2, <2>3, <2>4, <2>5, <2>6 DEF OwnStep
<1>7. ASSUME SendProbe(w) PROVE OwnStep(w) /\ IdleSet' \subseteq IdleSet
  <2>1. pc[w] = "check" /\ pc'[w] = "probe" /\ OthersStand(w)
    BY <1>0, <1>7, StepMoves DEF SendProbe, Moves
  <2>2. \A v \in Worker \ {w} :
           /\ held'[v] = held[v] /\ sent'[v] = sent[v]
           /\ outcome'[v] = outcome[v] /\ purpose'[v] = purpose[v]
    BY <1>0, <1>7 DEF SendProbe, TypeOK
  <2>3. \A s \in Session : s \notin held[w] /\ s \in Connected
                            => replies'[s] = replies[s]
    BY <1>0, <1>7 DEF SendProbe, Ask, sessionVars, TypeOK
  <2>4. HeldInStep(w)'
    <3>1. PICK s \in held[w] : Ask(s, ProbeOf(w))
      BY <1>7 DEF SendProbe
    <3>2. held[w] = {s} /\ s \in Session /\ replies[s] = <<>>
      BY <1>0, <1>a, <2>1, <3>1 DEF HeldInStep, SessionPC
    <3>3. replies'[s] = IF up[s] THEN Append(<<>>, ProbeOf(w)) ELSE <<>>
      BY <1>0, <3>1, <3>2 DEF Ask, TypeOK
    <3>4. replies'[s] \in {<<>>, <<ProbeOf(w)>>}
      BY <3>3
    <3>5. held' = held /\ sent' = sent
      BY <1>7 DEF SendProbe
    <3> QED BY <2>1, <3>2, <3>4, <3>5 DEF HeldInStep, CurrentRequest, ProbeOf
  <2>5. OutcomeMatchesPC(w)'
    BY <1>0, <1>7, <2>1 DEF SendProbe, OutcomeMatchesPC, TypeOK
  <2>6. IdleSet' \subseteq IdleSet
    BY <1>7 DEF SendProbe, poolVars, IdleSet
  <2> QED BY <2>1, <2>2, <2>3, <2>4, <2>5, <2>6 DEF OwnStep
<1>8. ASSUME ProbeAnswered(w) PROVE OwnStep(w) /\ IdleSet' \subseteq IdleSet
  <2>1. pc[w] = "probe" /\ pc'[w] = "lent" /\ OthersStand(w)
    BY <1>0, <1>8, StepMoves DEF ProbeAnswered, Moves
  <2>2. \A v \in Worker \ {w} :
           /\ held'[v] = held[v] /\ sent'[v] = sent[v]
           /\ outcome'[v] = outcome[v] /\ purpose'[v] = purpose[v]
    BY <1>0, <1>8 DEF ProbeAnswered, TypeOK
  <2>3. \A s \in Session : s \notin held[w] /\ s \in Connected
                            => replies'[s] = replies[s]
    BY <1>0, <1>8 DEF ProbeAnswered, sessionVars, TypeOK
  <2>4. HeldInStep(w)'
    <3>1. PICK s \in held[w] :
              replies[s] # <<>> /\ replies' = [replies EXCEPT ![s] = Tail(@)]
      BY <1>8 DEF ProbeAnswered
    <3>2. held[w] = {s} /\ s \in Session /\ replies[s] = <<ProbeOf(w)>>
      BY <1>0, <1>a, <2>1, <3>1 DEF HeldInStep, SessionPC
    <3>3. replies'[s] = <<>>
      BY <1>0, <3>1, <3>2 DEF TypeOK
    <3>4. held' = held
      BY <1>8 DEF ProbeAnswered
    <3> QED BY <2>1, <3>2, <3>3, <3>4 DEF HeldInStep
  <2>5. OutcomeMatchesPC(w)'
    BY <1>0, <1>8, <2>1 DEF ProbeAnswered, OutcomeMatchesPC, TypeOK
  <2>6. IdleSet' \subseteq IdleSet
    BY <1>8 DEF ProbeAnswered, poolVars, IdleSet
  <2> QED BY <2>1, <2>2, <2>3, <2>4, <2>5, <2>6 DEF OwnStep
<1>9. ASSUME ProbeFailed(w) PROVE OwnStep(w) /\ IdleSet' \subseteq IdleSet
  <2>1. pc[w] = "probe" /\ pc'[w] = "discard" /\ OthersStand(w)
    BY <1>0, <1>9, StepMoves DEF ProbeFailed, Moves
  <2>2. \A v \in Worker \ {w} :
           /\ held'[v] = held[v] /\ sent'[v] = sent[v]
           /\ outcome'[v] = outcome[v] /\ purpose'[v] = purpose[v]
    BY <1>0, <1>9 DEF ProbeFailed, TypeOK
  <2>3. \A s \in Session : s \notin held[w] /\ s \in Connected
                            => replies'[s] = replies[s]
    BY <1>0, <1>9 DEF ProbeFailed, sessionVars, TypeOK
  <2>4. HeldInStep(w)'
    BY <1>0, <1>a, <1>9, <2>1 DEF ProbeFailed, sessionVars, HeldInStep, CurrentRequest, SessionPC, TypeOK
  <2>5. OutcomeMatchesPC(w)'
    BY <1>0, <1>9, <2>1 DEF ProbeFailed, OutcomeMatchesPC, TypeOK
  <2>6. IdleSet' \subseteq IdleSet
    BY <1>9 DEF ProbeFailed, poolVars, IdleSet
  <2> QED BY <2>1, <2>2, <2>3, <2>4, <2>5, <2>6 DEF OwnStep
<1>10. ASSUME DialSucceeded(w) PROVE OwnStep(w) /\ IdleSet' \subseteq IdleSet
  <2>1. pc[w] = "dial" /\ pc'[w] = "lent" /\ OthersStand(w)
    BY <1>0, <1>10, StepMoves DEF DialSucceeded, Moves
  <2>2. \A v \in Worker \ {w} :
           /\ held'[v] = held[v] /\ sent'[v] = sent[v]
           /\ outcome'[v] = outcome[v] /\ purpose'[v] = purpose[v]
    BY <1>0, <1>10 DEF DialSucceeded, TypeOK
  <2>3. \A s \in Session : s \notin held[w] /\ s \in Connected
                            => replies'[s] = replies[s]
    BY <1>0, <1>10 DEF DialSucceeded, sessionVars, TypeOK
  <2>4. HeldInStep(w)'
    BY <1>0, <1>a, <1>10, <2>1 DEF DialSucceeded, sessionVars, HeldInStep, CurrentRequest, SessionPC, TypeOK
  <2>5. OutcomeMatchesPC(w)'
    BY <1>0, <1>10, <2>1 DEF DialSucceeded, OutcomeMatchesPC, TypeOK
  <2>6. IdleSet' \subseteq IdleSet
    BY <1>10 DEF DialSucceeded, poolVars, IdleSet
  <2> QED BY <2>1, <2>2, <2>3, <2>4, <2>5, <2>6 DEF OwnStep
<1>11. ASSUME DialFailed(w) PROVE OwnStep(w) /\ IdleSet' \subseteq IdleSet
  <2>1. pc[w] = "dial" /\ pc'[w] = "out" /\ OthersStand(w)
    BY <1>0, <1>11, StepMoves DEF DialFailed, Moves
  <2>2. \A v \in Worker \ {w} :
           /\ held'[v] = held[v] /\ sent'[v] = sent[v]
           /\ outcome'[v] = outcome[v] /\ purpose'[v] = purpose[v]
    BY <1>0, <1>11 DEF DialFailed, TypeOK
  <2>3. \A s \in Session : s \notin held[w] /\ s \in Connected
                            => replies'[s] = replies[s]
    BY <1>0, <1>11 DEF DialFailed, sessionVars, TypeOK
  <2>4. HeldInStep(w)'
    BY <1>0, <1>a, <1>11, <2>1 DEF DialFailed, sessionVars, HeldInStep, CurrentRequest, SessionPC, TypeOK
  <2>5. OutcomeMatchesPC(w)'
    BY <1>0, <1>11, <2>1 DEF DialFailed, OutcomeMatchesPC, TypeOK
  <2>6. IdleSet' \subseteq IdleSet
    BY <1>11 DEF DialFailed, poolVars, IdleSet
  <2> QED BY <2>1, <2>2, <2>3, <2>4, <2>5, <2>6 DEF OwnStep
<1>12. ASSUME HandBack(w) PROVE OwnStep(w) /\ IdleSet' \subseteq IdleSet
  <2>1. pc[w] = "lent" /\ pc'[w] = "return" /\ OthersStand(w)
    BY <1>0, <1>12, StepMoves DEF HandBack, Moves
  <2>2. \A v \in Worker \ {w} :
           /\ held'[v] = held[v] /\ sent'[v] = sent[v]
           /\ outcome'[v] = outcome[v] /\ purpose'[v] = purpose[v]
    BY <1>0, <1>12 DEF HandBack, TypeOK
  <2>3. \A s \in Session : s \notin held[w] /\ s \in Connected
                            => replies'[s] = replies[s]
    BY <1>0, <1>12 DEF HandBack, sessionVars, TypeOK
  <2>4. HeldInStep(w)'
    BY <1>0, <1>a, <1>12, <2>1 DEF HandBack, sessionVars, HeldInStep, CurrentRequest, SessionPC, TypeOK
  <2>5. OutcomeMatchesPC(w)'
    BY <1>0, <1>12, <2>1 DEF HandBack, OutcomeMatchesPC, TypeOK
  <2>6. IdleSet' \subseteq IdleSet
    BY <1>12 DEF HandBack, poolVars, IdleSet
  <2> QED BY <2>1, <2>2, <2>3, <2>4, <2>5, <2>6 DEF OwnStep
<1>13. ASSUME Run(w) PROVE OwnStep(w) /\ IdleSet' \subseteq IdleSet
  <2>1. pc[w] = "lent" /\ pc'[w] = "run" /\ OthersStand(w)
    BY <1>0, <1>13, StepMoves DEF Run, Moves
  <2>2. \A v \in Worker \ {w} :
           /\ held'[v] = held[v] /\ sent'[v] = sent[v]
           /\ outcome'[v] = outcome[v] /\ purpose'[v] = purpose[v]
    BY <1>0, <1>13 DEF Run, TypeOK
  <2>3. \A s \in Session : s \notin held[w] /\ s \in Connected
                            => replies'[s] = replies[s]
    BY <1>0, <1>13 DEF Run, Ask, sessionVars, TypeOK
  <2>4. HeldInStep(w)'
    <3>1. PICK s \in held[w] : Ask(s, CurrentRequest(w))
      BY <1>13 DEF Run
    <3>2. held[w] = {s} /\ s \in Session /\ replies[s] = <<>>
      BY <1>0, <1>a, <2>1, <3>1 DEF HeldInStep, SessionPC
    <3>3. replies'[s] = IF up[s] THEN Append(<<>>, CurrentRequest(w)) ELSE <<>>
      BY <1>0, <3>1, <3>2 DEF Ask, TypeOK
    <3>4. replies'[s] \in {<<>>, <<CurrentRequest(w)>>}
      BY <3>3
    <3>5. held' = held /\ sent' = sent
      BY <1>13 DEF Run
    <3> QED BY <2>1, <3>2, <3>4, <3>5 DEF HeldInStep, CurrentRequest, ProbeOf
  <2>5. OutcomeMatchesPC(w)'
    BY <1>0, <1>13, <2>1 DEF Run, OutcomeMatchesPC, TypeOK
  <2>6. IdleSet' \subseteq IdleSet
    BY <1>13 DEF Run, poolVars, IdleSet
  <2> QED BY <2>1, <2>2, <2>3, <2>4, <2>5, <2>6 DEF OwnStep
<1>14. ASSUME RunAnswered(w) PROVE OwnStep(w) /\ IdleSet' \subseteq IdleSet
  <2>1. pc[w] = "run" /\ pc'[w] = "return" /\ OthersStand(w)
    BY <1>0, <1>14, StepMoves DEF RunAnswered, Moves
  <2>2. \A v \in Worker \ {w} :
           /\ held'[v] = held[v] /\ sent'[v] = sent[v]
           /\ outcome'[v] = outcome[v] /\ purpose'[v] = purpose[v]
    BY <1>0, <1>14 DEF RunAnswered, TypeOK
  <2>3. \A s \in Session : s \notin held[w] /\ s \in Connected
                            => replies'[s] = replies[s]
    BY <1>0, <1>14 DEF RunAnswered, sessionVars, TypeOK
  <2>4. HeldInStep(w)'
    <3>1. PICK s \in held[w] :
              replies[s] # <<>> /\ replies' = [replies EXCEPT ![s] = Tail(@)]
      BY <1>14 DEF RunAnswered
    <3>2. held[w] = {s} /\ s \in Session /\ replies[s] = <<CurrentRequest(w)>>
      BY <1>0, <1>a, <2>1, <3>1 DEF HeldInStep, SessionPC
    <3>3. replies'[s] = <<>>
      BY <1>0, <3>1, <3>2 DEF TypeOK
    <3>4. held' = held
      BY <1>14 DEF RunAnswered
    <3> QED BY <2>1, <3>2, <3>3, <3>4 DEF HeldInStep
  <2>5. OutcomeMatchesPC(w)'
    BY <1>0, <1>14, <2>1 DEF RunAnswered, OutcomeMatchesPC, TypeOK
  <2>6. IdleSet' \subseteq IdleSet
    BY <1>14 DEF RunAnswered, poolVars, IdleSet
  <2> QED BY <2>1, <2>2, <2>3, <2>4, <2>5, <2>6 DEF OwnStep
<1>15. ASSUME RunFailed(w) PROVE OwnStep(w) /\ IdleSet' \subseteq IdleSet
  <2>1. pc[w] = "run" /\ pc'[w] = "discard" /\ OthersStand(w)
    BY <1>0, <1>15, StepMoves DEF RunFailed, Moves
  <2>2. \A v \in Worker \ {w} :
           /\ held'[v] = held[v] /\ sent'[v] = sent[v]
           /\ outcome'[v] = outcome[v] /\ purpose'[v] = purpose[v]
    BY <1>0, <1>15 DEF RunFailed, TypeOK
  <2>3. \A s \in Session : s \notin held[w] /\ s \in Connected
                            => replies'[s] = replies[s]
    BY <1>0, <1>15 DEF RunFailed, sessionVars, TypeOK
  <2>4. HeldInStep(w)'
    BY <1>0, <1>a, <1>15, <2>1 DEF RunFailed, sessionVars, HeldInStep, CurrentRequest, SessionPC, TypeOK
  <2>5. OutcomeMatchesPC(w)'
    BY <1>0, <1>15, <2>1 DEF RunFailed, OutcomeMatchesPC, TypeOK
  <2>6. IdleSet' \subseteq IdleSet
    BY <1>15 DEF RunFailed, poolVars, IdleSet
  <2> QED BY <2>1, <2>2, <2>3, <2>4, <2>5, <2>6 DEF OwnStep
<1>16. ASSUME CloseSession(w) PROVE OwnStep(w) /\ IdleSet' \subseteq IdleSet
  <2>1. pc[w] = "discard" /\ pc'[w] = "free" /\ OthersStand(w)
    BY <1>0, <1>16, StepMoves DEF CloseSession, Moves
  <2>2. \A v \in Worker \ {w} :
           /\ held'[v] = held[v] /\ sent'[v] = sent[v]
           /\ outcome'[v] = outcome[v] /\ purpose'[v] = purpose[v]
    BY <1>0, <1>16 DEF CloseSession, TypeOK
  <2>3. \A s \in Session : s \notin held[w] /\ s \in Connected
                            => replies'[s] = replies[s]
    BY <1>0, <1>16 DEF CloseSession, sessionVars, TypeOK
  <2>4. HeldInStep(w)'
    BY <1>0, <1>a, <1>16, <2>1 DEF CloseSession, sessionVars, HeldInStep, CurrentRequest, SessionPC, TypeOK
  <2>5. OutcomeMatchesPC(w)'
    BY <1>0, <1>16, <2>1 DEF CloseSession, OutcomeMatchesPC, TypeOK
  <2>6. IdleSet' \subseteq IdleSet
    BY <1>16 DEF CloseSession, poolVars, IdleSet
  <2> QED BY <2>1, <2>2, <2>3, <2>4, <2>5, <2>6 DEF OwnStep
<1>17. ASSUME FreeSlot(w) PROVE OwnStep(w) /\ IdleSet' \subseteq IdleSet
  <2>1. /\ pc[w] = "free" /\ OthersStand(w)
        /\ \/ outcome[w] = "none" /\ pc'[w] = "acquire"
           \/ outcome[w] # "none" /\ pc'[w] = "out"
    BY <1>0, <1>17, StepMoves DEF FreeSlot, Moves
  <2>2. \A v \in Worker \ {w} :
           /\ held'[v] = held[v] /\ sent'[v] = sent[v]
           /\ outcome'[v] = outcome[v] /\ purpose'[v] = purpose[v]
    BY <1>0, <1>17 DEF FreeSlot, TypeOK
  <2>3. \A s \in Session : s \notin held[w] /\ s \in Connected
                            => replies'[s] = replies[s]
    BY <1>0, <1>17 DEF FreeSlot, sessionVars, TypeOK
  <2>4. HeldInStep(w)'
    BY <1>0, <1>a, <1>17, <2>1 DEF FreeSlot, sessionVars, HeldInStep, CurrentRequest, SessionPC, TypeOK
  <2>5. OutcomeMatchesPC(w)'
    BY <1>0, <1>17, <2>1 DEF FreeSlot, OutcomeMatchesPC, TypeOK
  <2>6. IdleSet' \subseteq IdleSet
    BY <1>17 DEF FreeSlot, poolVars, IdleSet
  <2> QED BY <2>1, <2>2, <2>3, <2>4, <2>5, <2>6 DEF OwnStep
<1> QED BY <1>1, <1>2, <1>3, <1>4, <1>5, <1>6, <1>7, <1>8, <1>9, <1>10, <1>11, <1>12, <1>13, <1>14, <1>15, <1>16, <1>17
       DEF Begin, Proceed, Acquire, Check, ProbeEnds, DialEnds, Use, RunEnds, Discard

\* Giving a session back puts an in-step session among the idle ones.
LEMMA ReturnInStep ==
    ASSUME StepInv, NEW w \in Worker, Return(w)
    PROVE  InStep'
<1>0. TypeOK /\ HeldInStep(w) /\ OutcomeMatchesPC(w) /\ IdleInStep
  BY DEF StepInv, SlotInv, InStep
<1>1. /\ pc[w] = "return" /\ held' = [held EXCEPT ![w] = {}]
      /\ OthersStand(w) /\ pc'[w] \in {"out", "acquire"}
  BY <1>0, StepMoves
     DEF Return, ReturnSession, ReturnThenAskVersion, ReturnVersion, PutBack, Moves
<1>2. PICK s \in held[w] : idle' = Append(idle, s)
  BY DEF Return, ReturnSession, ReturnThenAskVersion, ReturnVersion, PutBack
<1>3. s \in Session /\ replies[s] = <<>> /\ replies' = replies
  BY <1>0, <1>1, <1>2
     DEF TypeOK, HeldInStep, Return, ReturnSession, ReturnThenAskVersion,
         ReturnVersion, PutBack, sessionVars
<1>4. IdleInStep'
  <2>1. /\ idle' \in Seq(Session) /\ Len(idle') = Len(idle) + 1
        /\ \A i \in 1..Len(idle) : idle'[i] = idle[i]
        /\ idle'[Len(idle) + 1] = s
    BY <1>0, <1>2, <1>3, AppendProperties DEF TypeOK
  <2>2. /\ Len(idle) \in Nat /\ DOMAIN idle = 1..Len(idle)
        /\ DOMAIN idle' = 1..(Len(idle) + 1)
    BY <1>0, <2>1 DEF TypeOK
  <2>3. \A i \in DOMAIN idle' : i \in DOMAIN idle \/ i = Len(idle) + 1
    BY <2>2
  <2> QED BY <1>0, <1>3, <2>1, <2>2, <2>3 DEF IdleInStep
<1>5. \A v \in Worker \ {w} :
          /\ held'[v] = held[v] /\ sent'[v] = sent[v]
          /\ outcome'[v] = outcome[v] /\ purpose'[v] = purpose[v]
  BY <1>0, <1>1
     DEF TypeOK, Return, ReturnSession, ReturnThenAskVersion, ReturnVersion
<1>6. \A v \in Worker \ {w} : HeldInStep(v)' /\ OutcomeMatchesPC(v)'
  BY <1>1, <1>3, <1>5, OthersInStep
<1>7. HeldInStep(w)'
  BY <1>0, <1>1 DEF HeldInStep, TypeOK
<1>8. OutcomeMatchesPC(w)'
  <2>1. CASE ReturnSession(w) \/ ReturnVersion(w)
    <3>1. pc'[w] = "out"
      BY <1>0, <2>1, StepMoves DEF Moves
    <3> QED BY <3>1 DEF OutcomeMatchesPC
  <2>2. CASE ReturnThenAskVersion(w)
    <3>1. /\ pc'[w] = "acquire" /\ purpose[w] = "configure"
          /\ outcome' = outcome
      BY <1>0, <2>2, StepMoves DEF Moves, ReturnThenAskVersion
    <3> QED BY <1>0, <1>1, <3>1 DEF OutcomeMatchesPC
  <2> QED BY <2>1, <2>2 DEF Return
<1> QED BY <1>4, <1>6, <1>7, <1>8 DEF InStep

LEMMA StepInvariant == Spec => []StepInv
<1>1. Init => InStep
  BY DEF Init, InStep, IdleInStep, HeldInStep, OutcomeMatchesPC
<1>2. StepInv /\ [Next]_vars => InStep'
  <2> SUFFICES ASSUME StepInv, [Next]_vars PROVE InStep'
    OBVIOUS
  <2>1. ASSUME NEW w \in Worker, Begin(w) \/ Proceed(w) PROVE InStep'
    BY <2>1, OwnSteps, OwnStepEnough, ReturnInStep
  <2>2. ASSUME (\E s \in Session : Drop(s)) \/ Tick \/ Finished \/ UNCHANGED vars
        PROVE  InStep'
    <3>1. UNCHANGED <<idle, pc, held, purpose, sent, outcome, replies>>
      BY <2>2 DEF Drop, Tick, Finished, vars, poolVars, workerVars, sessionVars
    <3> QED BY <3>1 DEF StepInv, InStep, IdleInStep, HeldInStep,
                        OutcomeMatchesPC, CurrentRequest, ProbeOf
  <2> QED BY <2>1, <2>2 DEF Next
<1> QED BY <1>1, <1>2, SlotsAreCounted, LendingIsExclusive, PTL DEF Spec, StepInv

-----------------------------------------------------------------------------
(* Every step of the pool is a step of the service, or none at all.        *)

LEMMA RunAnsweredIsAnswer ==
    ASSUME StepInv, NEW w \in Worker, RunAnswered(w)
    PROVE  Service!Answer(w)
<1>0. TypeOK /\ HeldInStep(w) /\ OutcomeMatchesPC(w)
  BY DEF StepInv, SlotInv, InStep
<1>1. pc[w] = "run" /\ pc' = [pc EXCEPT ![w] = "return"]
  BY DEF RunAnswered, Goto
<1>2. PICK s \in held[w] :
          replies[s] # <<>> /\ answer' = [answer EXCEPT ![w] = Head(replies[s])]
  BY DEF RunAnswered
<1>3. replies[s] = <<CurrentRequest(w)>>
  BY <1>0, <1>1, <1>2 DEF HeldInStep
<1>4. answer' = [answer EXCEPT ![w] = <<w, sent[w]>>]
  BY <1>2, <1>3 DEF CurrentRequest
<1>5. purpose[w] # "configure" /\ outcome[w] = "none"
  BY <1>0, <1>1 DEF OutcomeMatchesPC
<1>6. /\ outcome' = [outcome EXCEPT ![w] = "answered"]
      /\ purpose' = purpose /\ sent' = sent
  BY DEF RunAnswered
<1>7. Status[w] = "asked" /\ Status' = [Status EXCEPT ![w] = "answered"]
  BY <1>0, <1>1, <1>5, <1>6 DEF Status, InCall, TypeOK
<1> QED BY <1>4, <1>6, <1>7 DEF Service!Answer

LEMMA RunFailedIsFail ==
    ASSUME StepInv, NEW w \in Worker, RunFailed(w)
    PROVE  Service!Fail(w)
<1>0. TypeOK /\ OutcomeMatchesPC(w)
  BY DEF StepInv, SlotInv, InStep
<1>1. /\ pc[w] = "run" /\ pc' = [pc EXCEPT ![w] = "discard"]
      /\ outcome' = [outcome EXCEPT ![w] = "failed"]
      /\ purpose' = purpose /\ sent' = sent /\ answer' = answer
  BY DEF RunFailed, Goto
<1>2. purpose[w] # "configure" /\ outcome[w] = "none"
  BY <1>0, <1>1 DEF OutcomeMatchesPC
<1>3. Status[w] = "asked" /\ Status' = [Status EXCEPT ![w] = "failed"]
  BY <1>0, <1>1, <1>2 DEF Status, InCall, TypeOK
<1> QED BY <1>1, <1>3 DEF Service!Fail

\* Moving a worker about inside a call, or waking one, is no step.
LEMMA StatusStays ==
    ASSUME StepInv, NEW w \in Worker, OthersStand(w),
           outcome' = outcome, purpose' = purpose,
           pc[w] # "out", pc'[w] # "out"
    PROVE  Status' = Status
<1>1. \A v \in Worker : pc'[v] = "out" <=> pc[v] = "out"
  BY DEF OthersStand
<1> QED BY <1>1 DEF Status, InCall

\* A step changes the status of the worker that takes it only.
LEMMA StatusOfOne ==
    ASSUME NEW w \in Worker, OthersStand(w),
           \A v \in Worker \ {w} :
               outcome'[v] = outcome[v] /\ purpose'[v] = purpose[v]
    PROVE  Status' = [Status EXCEPT ![w] = Status'[w]]
<1>1. \A v \in Worker \ {w} : pc'[v] = "out" <=> pc[v] = "out"
  BY DEF OthersStand
<1>2. \A v \in Worker \ {w} : Status'[v] = Status[v]
  BY <1>1 DEF Status, InCall
<1>3. Status' = [v \in Worker |-> Status'[v]] /\ Status = [v \in Worker |-> Status[v]]
  BY DEF Status
<1> HIDE DEF Status
<1> QED BY <1>2, <1>3

LEMMA BeginIsCall ==
    ASSUME StepInv, NEW w \in Worker, BeginRequest(w)
    PROVE  Service!Call(w)
<1>0. TypeOK
  BY DEF StepInv, SlotInv
<1>1. /\ pc[w] = "out" /\ pc' = [pc EXCEPT ![w] = "acquire"]
      /\ outcome' = [outcome EXCEPT ![w] = "none"]
      /\ purpose' = [purpose EXCEPT ![w] = "request"]
      /\ sent' = [sent EXCEPT ![w] = @ + 1] /\ answer' = answer
  BY DEF BeginRequest, Goto
<1>2. Status[w] = "idle" /\ Status' = [Status EXCEPT ![w] = "asked"]
  BY <1>0, <1>1 DEF Status, InCall, TypeOK
<1> QED BY <1>1, <1>2 DEF Service!Call

LEMMA ConfigureIsNoCall ==
    ASSUME StepInv, NEW w \in Worker, BeginConfigure(w)
    PROVE  UNCHANGED Service!vars
<1>0. TypeOK
  BY DEF StepInv, SlotInv
<1>1. /\ pc[w] = "out" /\ pc' = [pc EXCEPT ![w] = "acquire"]
      /\ outcome' = [outcome EXCEPT ![w] = "none"]
      /\ purpose' = [purpose EXCEPT ![w] = "configure"]
      /\ sent' = sent /\ answer' = answer
  BY DEF BeginConfigure, Goto
<1>2. Status' = Status
  BY <1>0, <1>1 DEF Status, InCall, TypeOK
<1> QED BY <1>1, <1>2 DEF Service!vars

\* A failed dial refuses the call it was for; a configuration is no call.
LEMMA DialFailedIsRefuse ==
    ASSUME StepInv, NEW w \in Worker, DialFailed(w)
    PROVE  Service!Refuse(w) \/ UNCHANGED Service!vars
<1>0. TypeOK /\ OutcomeMatchesPC(w)
  BY DEF StepInv, SlotInv, InStep
<1>1. pc[w] = "dial" /\ pc'[w] = "out" /\ OthersStand(w)
  BY <1>0, StepMoves DEF DialFailed, Moves
<1>2. /\ outcome' = [outcome EXCEPT ![w] = "failed"]
      /\ purpose' = purpose /\ sent' = sent /\ answer' = answer
  BY DEF DialFailed
<1>3. Status'[w] = "idle"
  BY <1>1 DEF Status, InCall
<1>4. Status' = [Status EXCEPT ![w] = "idle"]
  BY <1>0, <1>1, <1>2, <1>3, StatusOfOne DEF TypeOK
<1>5. CASE purpose[w] = "configure"
  <2>1. Status[w] = "idle"
    BY <1>5 DEF Status, InCall
  <2>2. Status' = Status
    BY <1>4, <2>1 DEF Status
  <2> QED BY <1>2, <2>2 DEF Service!vars
<1>6. CASE purpose[w] # "configure"
  <2>1. Status[w] = "asked"
    BY <1>0, <1>1, <1>6 DEF Status, InCall, OutcomeMatchesPC
  <2> QED BY <1>2, <1>4, <2>1 DEF Service!Refuse
<1> QED BY <1>5, <1>6

LEMMA ReturnIsReturn ==
    ASSUME StepInv, NEW w \in Worker, ReturnSession(w) \/ ReturnVersion(w)
    PROVE  Service!Return(w) \/ UNCHANGED Service!vars
<1>0. TypeOK /\ OutcomeMatchesPC(w)
  BY DEF StepInv, SlotInv, InStep
<1>1. pc[w] = "return" /\ pc'[w] = "out" /\ OthersStand(w)
  BY <1>0, StepMoves DEF ReturnSession, ReturnVersion, PutBack, Moves
<1>2. outcome' = outcome /\ purpose' = purpose /\ sent' = sent /\ answer' = answer
  BY DEF ReturnSession, ReturnVersion, PutBack
<1>3. Status'[w] = "idle"
  BY <1>1 DEF Status, InCall
<1>4. Status' = [Status EXCEPT ![w] = "idle"]
  BY <1>1, <1>2, <1>3, StatusOfOne
<1>5. CASE purpose[w] = "configure"
  <2>1. Status[w] = "idle"
    BY <1>5 DEF Status, InCall
  <2>2. Status' = Status
    BY <1>4, <2>1 DEF Status
  <2> QED BY <1>2, <2>2 DEF Service!vars
<1>6. CASE purpose[w] # "configure"
  <2>1. Status[w] = "answered"
    BY <1>0, <1>1, <1>6 DEF Status, InCall, OutcomeMatchesPC
  <2> QED BY <1>2, <1>4, <2>1 DEF Service!Return
<1> QED BY <1>5, <1>6

\* A configuration that goes on to ask for the version begins a call there.
LEMMA AskVersionIsCall ==
    ASSUME StepInv, NEW w \in Worker, ReturnThenAskVersion(w)
    PROVE  Service!Call(w)
<1>0. TypeOK /\ OutcomeMatchesPC(w)
  BY DEF StepInv, SlotInv, InStep
<1>1. pc[w] = "return" /\ pc'[w] = "acquire" /\ OthersStand(w)
  BY <1>0, StepMoves DEF ReturnThenAskVersion, PutBack, Moves
<1>2. /\ outcome' = outcome /\ answer' = answer
      /\ purpose[w] = "configure" /\ purpose' = [purpose EXCEPT ![w] = "version"]
      /\ sent' = [sent EXCEPT ![w] = @ + 1]
  BY DEF ReturnThenAskVersion, PutBack
<1>3. outcome[w] = "none"
  BY <1>0, <1>1, <1>2 DEF OutcomeMatchesPC
<1>4. Status[w] = "idle" /\ Status'[w] = "asked"
  BY <1>0, <1>1, <1>2, <1>3 DEF Status, InCall, TypeOK
<1>5. Status' = [Status EXCEPT ![w] = "asked"]
  BY <1>0, <1>1, <1>2, <1>4, StatusOfOne DEF TypeOK
<1> QED BY <1>2, <1>4, <1>5 DEF Service!Call

\* The end of a discard ends the call if its run had failed.
LEMMA FreeSlotIsReturn ==
    ASSUME StepInv, NEW w \in Worker, FreeSlot(w)
    PROVE  Service!Return(w) \/ UNCHANGED Service!vars
<1>0. TypeOK /\ OutcomeMatchesPC(w)
  BY DEF StepInv, SlotInv, InStep
<1>1. /\ outcome' = outcome /\ purpose' = purpose /\ sent' = sent
      /\ answer' = answer /\ pc[w] = "free" /\ OthersStand(w)
  BY <1>0, StepMoves DEF FreeSlot, Moves
<1>2. CASE outcome[w] = "none"
  <2>1. pc'[w] = "acquire"
    BY <1>0, <1>2, StepMoves DEF Moves
  <2> QED BY <1>1, <2>1, StatusStays DEF Service!vars
<1>3. CASE outcome[w] # "none"
  <2>1. pc'[w] = "out" /\ outcome[w] = "failed"
    BY <1>0, <1>1, <1>3, StepMoves DEF Moves, OutcomeMatchesPC
  <2>2. Status'[w] = "idle"
    BY <2>1 DEF Status, InCall
  <2>3. Status' = [Status EXCEPT ![w] = "idle"]
    BY <1>1, <2>2, StatusOfOne
  <2>4. CASE purpose[w] = "configure"
    <3>1. Status' = Status
      BY <2>3, <2>4 DEF Status, InCall
    <3> QED BY <1>1, <3>1 DEF Service!vars
  <2>5. CASE purpose[w] # "configure"
    <3>1. Status[w] = "failed"
      BY <1>1, <2>1, <2>5 DEF Status, InCall
    <3> QED BY <1>1, <2>3, <3>1 DEF Service!Return
  <2> QED BY <2>4, <2>5
<1> QED BY <1>2, <1>3

LEMMA MovingIsNoStep ==
    ASSUME StepInv, NEW w \in Worker,
           \/ Acquire(w) \/ Check(w) \/ ProbeEnds(w) \/ DialSucceeded(w)
           \/ Use(w) \/ CloseSession(w)
    PROVE  UNCHANGED Service!vars
<1>0. TypeOK
  BY DEF StepInv, SlotInv
<1>1. /\ outcome' = outcome /\ purpose' = purpose /\ sent' = sent
      /\ answer' = answer /\ pc[w] # "out"
  BY DEF Acquire, TakeIdle, ReserveSlot, WaitForSession, Check, LendRecentlyUsed,
         SendProbe, ProbeEnds, ProbeAnswered, ProbeFailed, DialSucceeded, Use,
         HandBack, Run, CloseSession
<1>2. OthersStand(w) /\ pc'[w] # "out"
  BY <1>0, StepMoves DEF Moves, Acquire, Check, ProbeEnds, Use
<1> QED BY <1>1, <1>2, StatusStays DEF Service!vars

\* The pool refines the service: what TLC checks as ImplementsService on the
\* small instance, for every size.
THEOREM PoolImplementsService == Spec => ImplementsService
<1>1. Init => Service!Init
  BY DEF Init, Service!Init, Status, InCall, ProbeOf
<1>2. StepInv /\ [Next]_vars => [Service!Next]_(Service!vars)
  <2> SUFFICES ASSUME StepInv, [Next]_vars
               PROVE  Service!Next \/ UNCHANGED Service!vars
    OBVIOUS
  <2>1. ASSUME NEW w \in Worker, Begin(w) \/ Proceed(w)
        PROVE  Service!Next \/ UNCHANGED Service!vars
    <3>1. \/ Service!Call(w) \/ Service!Proceed(w) \/ UNCHANGED Service!vars
      BY <2>1, BeginIsCall, ConfigureIsNoCall, RunAnsweredIsAnswer,
         RunFailedIsFail, DialFailedIsRefuse, ReturnIsReturn, AskVersionIsCall,
         FreeSlotIsReturn, MovingIsNoStep
         DEF Begin, Proceed, DialEnds, RunEnds, Return, Discard, Service!Proceed
    <3> QED BY <3>1 DEF Service!Next
  <2>2. ASSUME (\E s \in Session : Drop(s)) \/ Tick \/ Finished \/ UNCHANGED vars
        PROVE  UNCHANGED Service!vars
    <3>1. UNCHANGED <<pc, purpose, sent, outcome, answer>>
      BY <2>2 DEF Drop, Tick, Finished, vars, workerVars
    <3> QED BY <3>1 DEF Service!vars, Status, InCall
  <2> QED BY <2>1, <2>2 DEF Next
<1> QED BY <1>1, <1>2, StepInvariant, PTL DEF Spec, ImplementsService, Service!Spec

=============================================================================
