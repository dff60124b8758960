---------------------------- MODULE PartsProofs ----------------------------
(***************************************************************************)
(* What TLAPS proves of the parts that the run Parts checks side by side.  *)
(* They share nothing, so that each is proved about its own specification: *)
(* for any number of configurations, rules, fields, objects and digits,    *)
(* where the run has a few.  At the end, what is proved of each is proved  *)
(* of all of them side by side.                                            *)
(***************************************************************************)
EXTENDS MCParts, ConversionProofs, FiniteSetTheorems, SequenceTheorems, TLAPS

-----------------------------------------------------------------------------
(* Attribute names: the version that all configurations share, in whatever *)
(* order they start, ask, fail and convert.  That the tables give the      *)
(* router's names when a conversion uses the router's own version depends  *)
(* on the tables and on nothing that runs: it is an assumption of the      *)
(* theorem, and for the menus and versions of the run Parts TLC finds it   *)
(* to hold.                                                                *)

InUse == {routerOf[c] : c \in Client}

\* The global variable has no version or one that some router of the process
\* has, and no conversion was made without a version.
VersionInv ==
    /\ routerOf \in [Client -> RouterVersions]
    /\ \A c \in Client : given[c] \in {NoVersion, routerOf[c]}
    /\ RouterOSVersion \in InUse \cup {NoVersion}
    /\ converted # NoConversion =>
           converted.client \in Client /\ converted.version \in InUse

LEMMA VersionInit == NamesInit => VersionInv
BY DEF NamesInit, VersionInv

LEMMA VersionStep == VersionInv /\ [NamesNext]_namesVars => VersionInv'
<1> SUFFICES ASSUME VersionInv, [NamesNext]_namesVars PROVE VersionInv'
  OBVIOUS
<1> USE DEF VersionInv, InUse
<1>1. ASSUME NEW c \in Client, NewClient(c) PROVE VersionInv'
  BY <1>1 DEF NewClient
<1>2. ASSUME NEW c \in Client, Connected(c) PROVE VersionInv'
  BY <1>2 DEF Connected
<1>3. ASSUME NEW c \in Client, NewClientFails(c) PROVE VersionInv'
  BY <1>3 DEF NewClientFails
<1>4. ASSUME NEW c \in Client, GetRouterOSVersion(c) PROVE VersionInv'
  BY <1>4 DEF GetRouterOSVersion
<1>5. ASSUME NEW c \in Client, Convert(c) PROVE VersionInv'
  <2>1. UNCHANGED <<routerOf, given, RouterOSVersion>>
    BY <1>5 DEF Convert
  <2>2. \/ converted' = converted
        \/ RouterOSVersion # NoVersion
              /\ converted' = [client |-> c, version |-> RouterOSVersion]
    BY <1>5 DEF Convert, Fatal
  <2>3. converted' # NoConversion =>
            converted'.client \in Client /\ converted'.version \in InUse
    BY <2>2
  <2> QED BY <2>1, <2>3
<1>6. CASE UNCHANGED namesVars
  BY <1>6 DEF namesVars
<1> QED BY <1>1, <1>2, <1>3, <1>4, <1>5, <1>6 DEF NamesNext

\* While all routers have one version, no conversion is made for another one,
\* nor for none: neither NewClient nor a detection that is late or fails can
\* make one configuration spoil the names of another.
THEOREM NamesAlwaysMatch ==
    ASSUME \A v \in RouterVersions : \A m \in Renamed : Matching(v, v, m)
    PROVE  NamesSpec => []NamesMatch
<1>1. VersionInv => NamesMatch
  <2> SUFFICES ASSUME VersionInv, \A c, d \in Client : routerOf[c] = routerOf[d],
                      converted # NoConversion
               PROVE  \A m \in Renamed :
                          Matching(converted.version, routerOf[converted.client], m)
    BY DEF NamesMatch
  <2>1. PICK c \in Client : converted.version = routerOf[c]
    BY DEF VersionInv, InUse
  <2>2. routerOf[converted.client] = converted.version /\ converted.version \in RouterVersions
    BY <2>1 DEF VersionInv
  <2> QED BY <2>2
<1> QED BY <1>1, VersionInit, VersionStep, PTL DEF NamesSpec

LEMMA NamesTypeInit == NamesInit => NamesTypeOK
BY DEF NamesInit, NamesTypeOK

LEMMA NamesTypeStep == NamesTypeOK /\ [NamesNext]_namesVars => NamesTypeOK'
<1> SUFFICES ASSUME NamesTypeOK, [NamesNext]_namesVars PROVE NamesTypeOK'
  OBVIOUS
<1> USE DEF NamesTypeOK
<1>1. ASSUME NEW c \in Client, NewClient(c) PROVE NamesTypeOK'
  BY <1>1 DEF NewClient
<1>2. ASSUME NEW c \in Client, Connected(c) PROVE NamesTypeOK'
  BY <1>2 DEF Connected
<1>3. ASSUME NEW c \in Client, NewClientFails(c) PROVE NamesTypeOK'
  BY <1>3 DEF NewClientFails
<1>4. ASSUME NEW c \in Client, GetRouterOSVersion(c) PROVE NamesTypeOK'
  BY <1>4 DEF GetRouterOSVersion
<1>5. ASSUME NEW c \in Client, Convert(c) PROVE NamesTypeOK'
  <2>1. \/ converted' = converted
        \/ converted' = [client |-> c, version |-> RouterOSVersion]
    BY <1>5 DEF Convert
  <2>2. alive' \in BOOLEAN /\ UNCHANGED <<routerOf, given, phase, RouterOSVersion>>
    BY <1>5 DEF Convert
  <2> QED BY <2>1, <2>2
<1>6. CASE UNCHANGED namesVars
  BY <1>6 DEF namesVars
<1> QED BY <1>1, <1>2, <1>3, <1>4, <1>5, <1>6 DEF NamesNext

\* The version that all configurations share is always the one of a router, or
\* none, whatever starts, fails and converts.
THEOREM NamesTyped == NamesSpec => []NamesTypeOK
BY NamesTypeInit, NamesTypeStep, PTL DEF NamesSpec

-----------------------------------------------------------------------------
(* Rules: their handlers run at the same time, and other people move them. *)

\* The list that all calls share is never written, so an update has the copy
\* it has made, and a creation finds what the schema declares.
SkipInv ==
    /\ skipList = {}
    /\ \A r \in Rule : call[r].handler = "update" => "place_before" \in call[r].skips

CallType == call \in [Rule -> [handler : {"none", "create", "update"},
                               skips : SUBSET {"place_before"}]]

PlaceInv == CallType /\ SkipInv /\ PlacedOnceAndForAll

LEMMA PlaceInit == RulesInit => PlaceInv
BY DEF RulesInit, PlaceInv, CallType, SkipInv, PlacedOnceAndForAll, Idle, NoRequest

LEMMA PlaceStep == PlaceInv /\ [RulesNext]_rulesVars => PlaceInv'
<1> SUFFICES ASSUME PlaceInv, [RulesNext]_rulesVars PROVE PlaceInv'
  OBVIOUS
<1> USE DEF PlaceInv, CallType, SkipInv
<1>1. ASSUME NEW r \in Rule, CreateCalled(r) PROVE PlaceInv'
  BY <1>1 DEF CreateCalled, PlacedOnceAndForAll
<1>2. ASSUME NEW r \in Rule, UpdateCalled(r) PROVE PlaceInv'
  BY <1>2 DEF UpdateCalled, SharedAfter, schemaWithSkipFields, PlacedOnceAndForAll
<1>3. ASSUME NEW r \in Rule, CreateSent(r) PROVE PlaceInv'
  <2>1. request' = [handler |-> "create", rule |-> r, placeBefore |-> PlaceBefore[r] # "none"]
    BY <1>3 DEF CreateSent, Request
  <2>2. PlacedOnceAndForAll'
    BY <2>1 DEF PlacedOnceAndForAll
  <2> QED BY <1>3, <2>2 DEF CreateSent, Idle
<1>4. ASSUME NEW r \in Rule, UpdateSent(r) PROVE PlaceInv'
  <2>1. request' = [handler |-> "update", rule |-> r, placeBefore |-> FALSE]
    BY <1>4 DEF UpdateSent, Request
  <2>2. PlacedOnceAndForAll'
    BY <2>1 DEF PlacedOnceAndForAll
  <2> QED BY <1>4, <2>2 DEF UpdateSent, Idle
<1>5. CASE UNCHANGED <<skipList, call, request>>
  BY <1>5 DEF PlacedOnceAndForAll
<1>6. resCreateUpdate \/ resRead \/ OutsideAdds \/ OutsideRemoves \/ OutsideMoves
          \/ UNCHANGED rulesVars => UNCHANGED <<skipList, call, request>>
  BY DEF resCreateUpdate, resRead, OutsideAdds, OutsideRemoves, OutsideMoves,
     Overtaking, rulesVars
<1> QED BY <1>1, <1>2, <1>3, <1>4, <1>5, <1>6 DEF RulesNext

\* However the handlers of rules overlap, a creation asks for the place that is
\* configured and an update never does: schemaWithSkipFields leaves the shared
\* list alone.
THEOREM AlwaysPlacedOnce == RulesSpec => []PlacedOnceAndForAll
<1>1. PlaceInv => PlacedOnceAndForAll
  BY DEF PlaceInv
<1> QED BY <1>1, PlaceInit, PlaceStep, PTL DEF RulesSpec

-----------------------------------------------------------------------------
(* Lists of rules: what a filter and an insertion do to the order of a     *)
(* list without duplicates.  The library's theorems about induction cannot *)
(* be used; a rule's place is the number of those up to it instead, and a  *)
(* list is determined by its elements and by which is before which.        *)

\* One element is before another in a sequence.
Precedes(s, x, y) == \E i, j \in DOMAIN s : i < j /\ s[i] = x /\ s[j] = y

\* Both are in it.
LEMMA PrecedesMembers ==
    ASSUME NEW s, NEW x, NEW y, Precedes(s, x, y)
    PROVE  x \in ToSet(s) /\ y \in ToSet(s)
BY DEF Precedes, ToSet

\* Among takes the positions that it keeps in their order, and each of them.
LEMMA AmongPositions ==
    ASSUME NEW E, NEW s \in Seq(E), NEW some
    PROVE  LET t == Among(s, some)
           IN  /\ t \in Seq(E)
               /\ \E p \in [1 .. Len(t) -> DOMAIN s] :
                     /\ \A k \in 1 .. Len(t) : t[k] = s[p[k]] /\ s[p[k]] \in some
                     /\ \A k, l \in 1 .. Len(t) : k < l => p[k] < p[l]
                     /\ \A i \in DOMAIN s : s[i] \in some => \E k \in 1 .. Len(t) : p[k] = i
<1> DEFINE kept == {i \in DOMAIN s : s[i] \in some}
           upTo(i) == {j \in kept : j <= i}
           n == Cardinality(kept)
           rank == [i \in kept |-> Cardinality(upTo(i))]
           Position(k) == CHOOSE i \in kept : Cardinality(upTo(i)) = k
           t == Among(s, some)
<1>1. /\ DOMAIN s = 1 .. Len(s) /\ Len(s) \in Nat
      /\ kept \subseteq 1 .. Len(s) /\ \A i \in kept : i \in Int /\ i \in DOMAIN s
  <2>1. DOMAIN s = 1 .. Len(s) /\ Len(s) \in Nat
    OBVIOUS
  <2>2. \A i \in kept : i \in 1 .. Len(s)
    BY <2>1
  <2>3. \A i \in 1 .. Len(s) : i \in Int
    BY <2>1
  <2> HIDE DEF kept
  <2> QED BY <2>1, <2>2, <2>3
<1>2. IsFiniteSet(kept) /\ n \in Nat
  <2>1. IsFiniteSet(1 .. Len(s))
    BY <1>1, FS_Interval
  <2> HIDE DEF kept
  <2>2. IsFiniteSet(kept)
    BY <1>1, <2>1, FS_Subset
  <2> QED BY <2>2, FS_CardinalityType
<1>3. ASSUME NEW i \in kept
      PROVE  /\ IsFiniteSet(upTo(i)) /\ Cardinality(upTo(i)) \in 1 .. n
             /\ \A j \in kept : j < i => Cardinality(upTo(j)) < Cardinality(upTo(i))
  <2>1. upTo(i) \in SUBSET kept /\ i \in upTo(i) /\ i \in Nat
    BY <1>1
  <2>2. IsFiniteSet(upTo(i)) /\ Cardinality(upTo(i)) \in Nat /\ Cardinality(upTo(i)) <= n
    BY <2>1, <1>2, FS_Subset, FS_CardinalityType
  <2>3. Cardinality(upTo(i)) # 0
    BY <2>1, <2>2, FS_EmptySet
  <2>4. ASSUME NEW j \in kept, j < i PROVE Cardinality(upTo(j)) < Cardinality(upTo(i))
    <3>1. j \in Nat /\ upTo(j) \in SUBSET upTo(i) /\ upTo(j) # upTo(i)
      BY <2>1, <2>4, <1>1
    <3>2. /\ Cardinality(upTo(j)) <= Cardinality(upTo(i))
          /\ Cardinality(upTo(j)) # Cardinality(upTo(i))
          /\ IsFiniteSet(upTo(j))
      BY <3>1, <2>2, FS_Subset
    <3>3. Cardinality(upTo(j)) \in Nat
      BY <3>2, FS_CardinalityType
    <3> QED BY <3>2, <3>3, <2>2
  <2> QED BY <2>2, <2>3, <2>4
<1>4. \A i, j \in kept : Cardinality(upTo(i)) = Cardinality(upTo(j)) => i = j
  <2> SUFFICES ASSUME NEW i \in kept, NEW j \in kept,
                      Cardinality(upTo(i)) = Cardinality(upTo(j)), i # j
               PROVE  FALSE
    OBVIOUS
  <2>1. i \in Int /\ j \in Int
    BY <1>1
  <2>2. i < j \/ j < i
    BY <2>1
  <2>3. Cardinality(upTo(i)) \in 1 .. n /\ Cardinality(upTo(j)) \in 1 .. n
    BY <1>3
  <2> HIDE DEF kept, upTo, n
  <2> QED BY <2>2, <2>3, <1>3
<1>5. \A k \in 1 .. n : \E i \in kept : Cardinality(upTo(i)) = k
  <2>1. rank \in Injection(kept, 1 .. n)
    BY <1>3, <1>4 DEF Injection, IsInjective
  <2>2. IsFiniteSet(1 .. n) /\ Cardinality(1 .. n) = n
    BY <1>2, FS_Interval
  <2>3. rank \in Surjection(kept, 1 .. n)
    BY <2>1, <2>2, FS_Injection
  <2> QED BY <2>3 DEF Surjection
<1>6. \A k \in 1 .. n : Position(k) \in kept /\ Cardinality(upTo(Position(k))) = k
  BY <1>5
<1>7. t = [k \in 1 .. n |-> s[Position(k)]]
  BY DEF Among
<1> HIDE DEF t, Position, kept, n, upTo, rank
<1>8. \A k \in 1 .. n : Position(k) \in DOMAIN s /\ s[Position(k)] \in some
  BY <1>6 DEF kept
<1>9. t \in Seq(E) /\ Len(t) = n /\ \A k \in 1 .. n : t[k] = s[Position(k)]
  <2>1. t \in [1 .. n -> E]
    BY <1>7, <1>8, <1>1
  <2>2. t \in Seq(E) /\ Len(t) = n
    BY <2>1, <1>2, <1>7
  <2> QED BY <2>2, <1>7
<1>10. ASSUME NEW k \in 1 .. n, NEW l \in 1 .. n, k < l PROVE Position(k) < Position(l)
  <2>1. Position(k) \in kept /\ Position(l) \in kept /\ Position(k) \in Int /\ Position(l) \in Int
    BY <1>6, <1>1
  <2>2. CASE Position(l) < Position(k)
    <3>1. Cardinality(upTo(Position(l))) < Cardinality(upTo(Position(k)))
      BY <2>1, <2>2, <1>3
    <3>2. l < k
      BY <3>1, <1>6
    <3> QED BY <3>2, <1>10, <1>2
  <2>3. CASE Position(l) = Position(k)
    <3>1. l = k
      BY <2>3, <1>6
    <3> QED BY <3>1, <1>10, <1>2
  <2> QED BY <2>1, <2>2, <2>3
<1>11. ASSUME NEW i \in DOMAIN s, s[i] \in some PROVE \E k \in 1 .. n : Position(k) = i
  <2>1. i \in kept
    BY <1>11 DEF kept
  <2>2. Cardinality(upTo(i)) \in 1 .. n
    BY <2>1, <1>3
  <2>3. Position(Cardinality(upTo(i))) = i
    BY <2>1, <2>2, <1>4, <1>6
  <2> QED BY <2>2, <2>3
<1> DEFINE p == [k \in 1 .. n |-> Position(k)]
<1>12. p \in [1 .. Len(t) -> DOMAIN s]
  BY <1>8, <1>9
<1>13. \A k \in 1 .. n : p[k] = Position(k)
  OBVIOUS
<1> HIDE DEF p
<1>14. /\ \A k \in 1 .. Len(t) : t[k] = s[p[k]] /\ s[p[k]] \in some
       /\ \A k, l \in 1 .. Len(t) : k < l => p[k] < p[l]
       /\ \A i \in DOMAIN s : s[i] \in some => \E k \in 1 .. Len(t) : p[k] = i
  BY <1>8, <1>9, <1>10, <1>11, <1>13
<1> QED BY <1>9, <1>12, <1>14 DEF t

\* Of a sequence without duplicates, Among has none either, and keeps elements
\* and their order.
LEMMA AmongKeepsOrder ==
    ASSUME NEW E, NEW s \in Seq(E), IsInjective(s), NEW some
    PROVE  LET t == Among(s, some)
           IN  /\ t \in Seq(E) /\ IsInjective(t)
               /\ ToSet(t) = ToSet(s) \cap some
               /\ \A x, y : Precedes(t, x, y) <=>
                              Precedes(s, x, y) /\ x \in some /\ y \in some
<1> DEFINE t == Among(s, some)
<1>1. t \in Seq(E) /\ DOMAIN t = 1 .. Len(t) /\ Len(t) \in Nat
  BY AmongPositions
<1>2. PICK p \in [1 .. Len(t) -> DOMAIN s] :
        /\ \A k \in 1 .. Len(t) : t[k] = s[p[k]] /\ s[p[k]] \in some
        /\ \A k, l \in 1 .. Len(t) : k < l => p[k] < p[l]
        /\ \A i \in DOMAIN s : s[i] \in some => \E k \in 1 .. Len(t) : p[k] = i
  BY AmongPositions
<1> HIDE DEF t
<1>3. DOMAIN s \subseteq Int /\ \A k \in 1 .. Len(t) : p[k] \in DOMAIN s /\ p[k] \in Int
  <2>1. DOMAIN s = 1 .. Len(s)
    OBVIOUS
  <2> QED BY <2>1
<1>4. \A k, l \in 1 .. Len(t) : p[k] < p[l] => k < l
  <2> SUFFICES ASSUME NEW k \in 1 .. Len(t), NEW l \in 1 .. Len(t), p[k] < p[l], ~(k < l)
               PROVE  FALSE
    OBVIOUS
  <2>1. CASE k = l
    BY <2>1, <1>3
  <2>2. CASE l < k
    BY <2>2, <1>2, <1>3
  <2> QED BY <2>1, <2>2
<1>5. IsInjective(t)
  <2> SUFFICES ASSUME NEW k \in 1 .. Len(t), NEW l \in 1 .. Len(t), t[k] = t[l], k # l
               PROVE  FALSE
    BY <1>1 DEF IsInjective
  <2>1. p[k] = p[l]
    BY <1>2, <1>3 DEF IsInjective
  <2>2. CASE k < l
    BY <2>1, <2>2, <1>2, <1>3
  <2>3. CASE l < k
    BY <2>1, <2>3, <1>2, <1>3
  <2> QED BY <2>2, <2>3
<1>6. ToSet(t) = ToSet(s) \cap some
  <2>1. \A x \in ToSet(t) : x \in ToSet(s) \cap some
    BY <1>1, <1>2, <1>3 DEF ToSet
  <2>2. \A x \in ToSet(s) \cap some : x \in ToSet(t)
    BY <1>1, <1>2 DEF ToSet
  <2> QED BY <2>1, <2>2
<1>7. ASSUME NEW x, NEW y
      PROVE  Precedes(t, x, y) <=> Precedes(s, x, y) /\ x \in some /\ y \in some
  <2>1. ASSUME Precedes(t, x, y)
        PROVE  Precedes(s, x, y) /\ x \in some /\ y \in some
    <3>1. PICK k \in 1 .. Len(t), l \in 1 .. Len(t) : k < l /\ t[k] = x /\ t[l] = y
      BY <2>1, <1>1 DEF Precedes
    <3>2. p[k] < p[l] /\ s[p[k]] = x /\ s[p[l]] = y /\ x \in some /\ y \in some
      BY <3>1, <1>2
    <3> QED BY <3>2, <1>3 DEF Precedes
  <2>2. ASSUME Precedes(s, x, y), x \in some, y \in some
        PROVE  Precedes(t, x, y)
    <3>1. PICK i \in DOMAIN s, j \in DOMAIN s : i < j /\ s[i] = x /\ s[j] = y
      BY <2>2 DEF Precedes
    <3>2. PICK k \in 1 .. Len(t), l \in 1 .. Len(t) : p[k] = i /\ p[l] = j
      BY <3>1, <2>2, <1>2
    <3>3. k < l /\ t[k] = x /\ t[l] = y
      BY <3>1, <3>2, <1>2, <1>4
    <3> QED BY <3>3, <1>1 DEF Precedes
  <2> QED BY <2>1, <2>2
<1> QED BY <1>1, <1>5, <1>6, <1>7 DEF t

\* Two sequences without duplicates that have the same elements in the same
\* order are the same.
LEMMA OrderDetermines ==
    ASSUME NEW E, NEW t \in Seq(E), NEW u \in Seq(E), IsInjective(t), IsInjective(u),
           ToSet(t) = ToSet(u), \A x, y : Precedes(t, x, y) => Precedes(u, x, y)
    PROVE  t = u
<1> DEFINE upTo(s, k) == {s[i] : i \in 1 .. k}
<1>1. /\ DOMAIN t = 1 .. Len(t) /\ Len(t) \in Nat
      /\ DOMAIN u = 1 .. Len(u) /\ Len(u) \in Nat
  OBVIOUS
\* An element is at the position that is the number of those up to it.
<1>2. ASSUME NEW s \in Seq(E), IsInjective(s), NEW k \in 1 .. Len(s)
      PROVE  IsFiniteSet(upTo(s, k)) /\ Cardinality(upTo(s, k)) = k
  <2> DEFINE f == [i \in 1 .. k |-> s[i]]
  <2>1. k \in Nat /\ 1 .. k \subseteq DOMAIN s
    OBVIOUS
  <2>2. f \in Bijection(1 .. k, upTo(s, k))
    BY <2>1, <1>2 DEF Bijection, Injection, Surjection, IsInjective
  <2>3. IsFiniteSet(1 .. k) /\ Cardinality(1 .. k) = k
    BY <2>1, FS_Interval
  <2>4. ExistsBijection(1 .. k, upTo(s, k))
    BY <2>2 DEF ExistsBijection
  <2> HIDE DEF upTo
  <2> QED BY <2>3, <2>4, FS_Bijection
\* The order is the same in both directions.
<1>3. ASSUME NEW x, NEW y, Precedes(u, x, y) PROVE Precedes(t, x, y)
  <2>1. PICK i \in 1 .. Len(u), j \in 1 .. Len(u) : i < j /\ u[i] = x /\ u[j] = y
    BY <1>1, <1>3 DEF Precedes
  <2>2. x \in ToSet(t) /\ y \in ToSet(t) /\ x # y
    <3>1. x \in ToSet(u) /\ y \in ToSet(u)
      BY <1>1, <2>1 DEF ToSet
    <3>2. x # y
      BY <1>1, <2>1 DEF IsInjective
    <3> QED BY <3>1, <3>2
  <2>3. PICK k \in 1 .. Len(t), l \in 1 .. Len(t) : t[k] = x /\ t[l] = y
    BY <1>1, <2>2 DEF ToSet
  <2>4. k # l
    BY <2>2, <2>3
  <2>5. CASE k < l
    BY <1>1, <2>3, <2>5 DEF Precedes
  <2>6. CASE l < k
    <3> Precedes(t, y, x)
      BY <1>1, <2>3, <2>6 DEF Precedes
    <3>1. Precedes(u, y, x)
      OBVIOUS
    <3>2. PICK m \in 1 .. Len(u), n \in 1 .. Len(u) : m < n /\ u[m] = y /\ u[n] = x
      BY <1>1, <3>1 DEF Precedes
    <3>3. m = j /\ n = i
      BY <1>1, <2>1, <3>2 DEF IsInjective
    <3> QED BY <2>1, <3>2, <3>3
  <2> QED BY <2>4, <2>5, <2>6
<1>4. ASSUME NEW k \in 1 .. Len(t) PROVE k \in 1 .. Len(u) /\ u[k] = t[k]
  <2>1. PICK l \in 1 .. Len(u) : u[l] = t[k]
    BY <1>1 DEF ToSet
  <2>2. upTo(t, k) \subseteq upTo(u, l)
    <3> SUFFICES ASSUME NEW i \in 1 .. k PROVE t[i] \in upTo(u, l)
      OBVIOUS
    <3>1. CASE i = k
      BY <2>1, <3>1
    <3>2. CASE i < k
      <4> Precedes(t, t[i], t[k])
        BY <1>1, <3>2 DEF Precedes
      <4>1. Precedes(u, t[i], u[l])
        BY <2>1
      <4>2. PICK m \in 1 .. Len(u), n \in 1 .. Len(u) : m < n /\ u[m] = t[i] /\ u[n] = u[l]
        BY <1>1, <4>1 DEF Precedes
      <4>3. n = l
        BY <1>1, <4>2 DEF IsInjective
      <4> QED BY <4>2, <4>3
    <3> QED BY <3>1, <3>2
  <2>3. upTo(u, l) \subseteq upTo(t, k)
    <3> SUFFICES ASSUME NEW i \in 1 .. l PROVE u[i] \in upTo(t, k)
      OBVIOUS
    <3>1. CASE i = l
      BY <2>1, <3>1
    <3>2. CASE i < l
      <4>1. Precedes(u, u[i], t[k])
        BY <1>1, <2>1, <3>2 DEF Precedes
      <4>2. Precedes(t, u[i], t[k])
        BY <4>1, <1>3
      <4>3. PICK m \in 1 .. Len(t), n \in 1 .. Len(t) : m < n /\ t[m] = u[i] /\ t[n] = t[k]
        BY <1>1, <4>2 DEF Precedes
      <4>4. n = k
        BY <1>1, <4>3 DEF IsInjective
      <4> QED BY <4>3, <4>4
    <3> QED BY <3>1, <3>2
  <2>4. upTo(t, k) = upTo(u, l)
    BY <2>2, <2>3
  <2>5. Cardinality(upTo(t, k)) = k /\ Cardinality(upTo(u, l)) = l
    BY <1>2
  <2> HIDE DEF upTo
  <2>6. k = l
    BY <2>4, <2>5
  <2> QED BY <2>1, <2>6
<1>5. Len(t) = Len(u)
  <2>1. upTo(t, Len(t)) = ToSet(t) /\ upTo(u, Len(u)) = ToSet(u)
    BY <1>1 DEF ToSet
  <2>3. /\ Len(t) >= 1 => Cardinality(upTo(t, Len(t))) = Len(t)
        /\ Len(u) >= 1 => Cardinality(upTo(u, Len(u))) = Len(u)
    <3> HIDE DEF upTo
    <3> QED BY <1>1, <1>2
  <2>2. /\ Len(t) = 0 => ToSet(t) = {}
        /\ Len(u) = 0 => ToSet(u) = {}
        /\ Len(t) >= 1 => ToSet(t) # {}
        /\ Len(u) >= 1 => ToSet(u) # {}
    BY <1>1 DEF ToSet
  <2> HIDE DEF upTo
  <2>4. upTo(t, Len(t)) = upTo(u, Len(u))
    BY <2>1
  <2>5. Len(t) >= 1 <=> Len(u) >= 1
    BY <1>1, <2>2
  <2>6. CASE Len(t) >= 1
    BY <2>3, <2>4, <2>5, <2>6
  <2>7. CASE Len(t) < 1
    <3>1. Len(t) \in Nat /\ Len(u) \in Nat
      BY <1>1
    <3>2. Len(t) = 0 /\ Len(u) = 0
      BY <3>1, <2>5, <2>7
    <3> QED BY <3>2
  <2>8. Len(t) \in Nat
    BY <1>1
  <2> QED BY <2>6, <2>7, <2>8
<1> QED BY <1>1, <1>4, <1>5

\* What a sequence is when another one is inserted.
LEMMA InsertedElements ==
    ASSUME NEW E, NEW o \in Seq(E), NEW r \in Seq(E), NEW spot \in 1 .. Len(o)
    PROVE  LET new == SubSeq(o, 1, spot - 1) \o r \o SubSeq(o, spot, Len(o))
           IN  /\ new \in Seq(E) /\ Len(new) = Len(o) + Len(r)
               /\ \A i \in 1 .. spot - 1 : new[i] = o[i]
               /\ \A i \in 1 .. Len(r) : new[i + spot - 1] = r[i]
               /\ \A i \in spot .. Len(o) : new[i + Len(r)] = o[i]
<1> DEFINE a == SubSeq(o, 1, spot - 1)
           b == SubSeq(o, spot, Len(o))
<1>1. /\ a \in Seq(E) /\ Len(a) = spot - 1 /\ \A i \in 1 .. spot - 1 : a[i] = o[i]
      /\ b \in Seq(E) /\ Len(b) = Len(o) - spot + 1
      /\ \A i \in 1 .. Len(b) : b[i] = o[spot + i - 1]
  OBVIOUS
<1> HIDE DEF a, b
<1>2. /\ a \o r \in Seq(E) /\ Len(a \o r) = spot - 1 + Len(r)
      /\ \A i \in 1 .. spot - 1 : (a \o r)[i] = o[i]
      /\ \A i \in 1 .. Len(r) : (a \o r)[i + spot - 1] = r[i]
  <2>1. /\ a \o r \in Seq(E) /\ Len(a \o r) = Len(a) + Len(r)
        /\ \A i \in 1 .. Len(a) + Len(r) :
              (a \o r)[i] = IF i <= Len(a) THEN a[i] ELSE r[i - Len(a)]
    BY <1>1, ConcatProperties
  <2>2. \A i \in 1 .. spot - 1 : i \in 1 .. Len(a) + Len(r) /\ i <= Len(a)
    BY <1>1
  <2>3. \A i \in 1 .. Len(r) : /\ i + spot - 1 \in 1 .. Len(a) + Len(r)
                               /\ ~(i + spot - 1 <= Len(a)) /\ i + spot - 1 - Len(a) = i
    BY <1>1
  <2> QED BY <1>1, <2>1, <2>2, <2>3
<1> DEFINE c == a \o r
<1> HIDE DEF c
<1>3. /\ c \o b \in Seq(E) /\ Len(c \o b) = Len(c) + Len(b)
      /\ \A i \in 1 .. Len(c) : (c \o b)[i] = c[i]
      /\ \A i \in 1 .. Len(b) : (c \o b)[i + Len(c)] = b[i]
  <2>1. c \in Seq(E) /\ Len(c) \in Nat /\ Len(b) \in Nat
    BY <1>1, <1>2 DEF c
  <2>2. /\ c \o b \in Seq(E) /\ Len(c \o b) = Len(c) + Len(b)
        /\ \A i \in 1 .. Len(c) + Len(b) :
              (c \o b)[i] = IF i <= Len(c) THEN c[i] ELSE b[i - Len(c)]
    BY <1>1, <2>1, ConcatProperties
  <2>3. \A i \in 1 .. Len(c) : i \in 1 .. Len(c) + Len(b) /\ i <= Len(c)
    BY <2>1
  <2>4. \A i \in 1 .. Len(b) : /\ i + Len(c) \in 1 .. Len(c) + Len(b)
                               /\ ~(i + Len(c) <= Len(c)) /\ i + Len(c) - Len(c) = i
    BY <2>1
  <2> QED BY <2>2, <2>3, <2>4
<1>4. \A i \in spot .. Len(o) : (c \o b)[i + Len(r)] = o[i]
  <2> SUFFICES ASSUME NEW i \in spot .. Len(o) PROVE (c \o b)[i + Len(r)] = o[i]
    OBVIOUS
  <2>1. i - spot + 1 \in 1 .. Len(b) /\ spot + (i - spot + 1) - 1 = i
        /\ (i - spot + 1) + Len(c) = i + Len(r)
    BY <1>1, <1>2 DEF c
  <2>2. b[i - spot + 1] = o[i]
    BY <1>1, <2>1
  <2>3. (c \o b)[(i - spot + 1) + Len(c)] = b[i - spot + 1]
    BY <1>3, <2>1
  <2> QED BY <2>1, <2>2, <2>3
<1>5. /\ Len(c \o b) = Len(o) + Len(r)
      /\ \A i \in 1 .. spot - 1 : (c \o b)[i] = o[i]
      /\ \A i \in 1 .. Len(r) : (c \o b)[i + spot - 1] = r[i]
  BY <1>1, <1>2, <1>3 DEF c
<1> QED BY <1>3, <1>4, <1>5 DEF a, b, c

\* Rules that are put before another one are there once, right before it in
\* their order, and the others stay in theirs.
LEMMA PutBeforeKeepsOrder ==
    ASSUME NEW E, order \in Seq(E), IsInjective(order),
           NEW rules \in Seq(E), IsInjective(rules),
           NEW destination \in OnRouter \ ToSet(rules)
    PROVE  LET new == PutBefore(rules, destination)
           IN  /\ new \in Seq(E) /\ IsInjective(new)
               /\ ToSet(new) = OnRouter \cup ToSet(rules)
               /\ \A x, y : Precedes(order, x, y) /\ x \notin ToSet(rules) /\ y \notin ToSet(rules)
                                => Precedes(new, x, y)
               /\ \A x, y : Precedes(rules, x, y) => Precedes(new, x, y)
               /\ \A x \in ToSet(rules) : Precedes(new, x, destination)
<1> DEFINE o == Among(order, OnRouter \ ToSet(rules))
           spot == CHOOSE i \in 1 .. Len(o) : o[i] = destination
           new == SubSeq(o, 1, spot - 1) \o rules \o SubSeq(o, spot, Len(o))
<1>1. /\ o \in Seq(E) /\ IsInjective(o) /\ ToSet(o) = OnRouter \ ToSet(rules)
      /\ \A x, y : Precedes(o, x, y) <=>
                     /\ Precedes(order, x, y)
                     /\ x \in OnRouter \ ToSet(rules) /\ y \in OnRouter \ ToSet(rules)
  BY AmongKeepsOrder DEF OnRouter
<1> HIDE DEF o
<1>2. /\ DOMAIN o = 1 .. Len(o) /\ Len(o) \in Nat
      /\ DOMAIN rules = 1 .. Len(rules) /\ Len(rules) \in Nat
  BY <1>1
<1>3. \E i \in 1 .. Len(o) : o[i] = destination
  BY <1>1, <1>2 DEF ToSet
<1>4. spot \in 1 .. Len(o) /\ o[spot] = destination
  BY <1>3
<1> HIDE DEF spot
<1>5. /\ new \in Seq(E) /\ Len(new) = Len(o) + Len(rules)
      /\ \A i \in 1 .. spot - 1 : new[i] = o[i]
      /\ \A i \in 1 .. Len(rules) : new[i + spot - 1] = rules[i]
      /\ \A i \in spot .. Len(o) : new[i + Len(rules)] = o[i]
  BY <1>1, <1>4, InsertedElements
<1> HIDE DEF new
\* Where an element of the others has gone, and what is at a place.
<1> DEFINE To(i) == IF i < spot THEN i ELSE i + Len(rules)
<1>6. DOMAIN new = 1 .. Len(new) /\ spot \in Int
  BY <1>2, <1>4, <1>5
<1>7. \A i \in 1 .. Len(o) : To(i) \in DOMAIN new /\ new[To(i)] = o[i]
  BY <1>2, <1>4, <1>5, <1>6
<1>8. \A i \in 1 .. Len(rules) : i + spot - 1 \in DOMAIN new /\ new[i + spot - 1] = rules[i]
  BY <1>2, <1>4, <1>5, <1>6
<1>9. \A k \in DOMAIN new : \/ \E i \in 1 .. Len(o) : k = To(i)
                            \/ \E i \in 1 .. Len(rules) : k = i + spot - 1
  <2> SUFFICES ASSUME NEW k \in 1 .. Len(o) + Len(rules)
               PROVE  \/ \E i \in 1 .. Len(o) : k = To(i)
                      \/ \E i \in 1 .. Len(rules) : k = i + spot - 1
    BY <1>5, <1>6
  <2>1. CASE k < spot
    BY <2>1, <1>2, <1>4
  <2>2. CASE k >= spot /\ k < spot + Len(rules)
    <3>1. k - spot + 1 \in 1 .. Len(rules) /\ k = (k - spot + 1) + spot - 1
      BY <2>2, <1>2, <1>4
    <3> QED BY <3>1
  <2>3. CASE k >= spot + Len(rules)
    <3>1. k - Len(rules) \in 1 .. Len(o) /\ k = To(k - Len(rules))
      BY <2>3, <1>2, <1>4
    <3> QED BY <3>1
  <2> QED BY <2>1, <2>2, <2>3, <1>2, <1>4
<1>10. ToSet(new) = OnRouter \cup ToSet(rules)
  <2>1. \A x \in ToSet(new) : x \in ToSet(o) \cup ToSet(rules)
    BY <1>2, <1>7, <1>8, <1>9 DEF ToSet
  <2>2. \A x \in ToSet(o) : x \in ToSet(new)
    BY <1>2, <1>7 DEF ToSet
  <2>3. \A x \in ToSet(rules) : x \in ToSet(new)
    BY <1>2, <1>8 DEF ToSet
  <2> QED BY <1>1, <2>1, <2>2, <2>3
<1>11. IsInjective(new)
  <2> SUFFICES ASSUME NEW k \in DOMAIN new, NEW l \in DOMAIN new, new[k] = new[l]
               PROVE  k = l
    BY DEF IsInjective
  <2>1. ASSUME NEW i \in 1 .. Len(o), NEW j \in 1 .. Len(rules) PROVE o[i] # rules[j]
    <3>1. o[i] \in ToSet(o) /\ rules[j] \in ToSet(rules)
      BY <1>2 DEF ToSet
    <3> QED BY <3>1, <1>1
  <2>2. CASE \E i, j \in 1 .. Len(o) : k = To(i) /\ l = To(j)
    <3>1. PICK i \in 1 .. Len(o), j \in 1 .. Len(o) : k = To(i) /\ l = To(j)
      BY <2>2
    <3>2. o[i] = o[j]
      BY <3>1, <1>7
    <3>3. i = j
      BY <3>2, <1>1, <1>2 DEF IsInjective
    <3> QED BY <3>1, <3>3
  <2>3. CASE \E i, j \in 1 .. Len(rules) : k = i + spot - 1 /\ l = j + spot - 1
    <3>1. PICK i \in 1 .. Len(rules), j \in 1 .. Len(rules) : k = i + spot - 1 /\ l = j + spot - 1
      BY <2>3
    <3>2. rules[i] = rules[j]
      BY <3>1, <1>8
    <3>3. i = j
      BY <3>2, <1>2 DEF IsInjective
    <3> QED BY <3>1, <3>3
  <2> HIDE DEF To
  <2>4. CASE \E i \in 1 .. Len(o), j \in 1 .. Len(rules) : k = To(i) /\ l = j + spot - 1
    BY <2>1, <2>4, <1>7, <1>8
  <2>5. CASE \E i \in 1 .. Len(rules), j \in 1 .. Len(o) : k = i + spot - 1 /\ l = To(j)
    BY <2>1, <2>5, <1>7, <1>8
  <2> QED BY <1>9, <2>2, <2>3, <2>4, <2>5
<1>12. ASSUME NEW x, NEW y, Precedes(order, x, y), x \notin ToSet(rules), y \notin ToSet(rules)
       PROVE  Precedes(new, x, y)
  <2>1. x \in OnRouter /\ y \in OnRouter
    BY <1>12 DEF Precedes, OnRouter, ToSet
  <2>2. Precedes(o, x, y)
    BY <1>1, <1>12, <2>1
  <2>3. PICK i \in 1 .. Len(o), j \in 1 .. Len(o) : i < j /\ o[i] = x /\ o[j] = y
    BY <1>2, <2>2 DEF Precedes
  <2>4. To(i) < To(j)
    BY <1>2, <1>6, <2>3
  <2> HIDE DEF To
  <2> QED BY <1>7, <2>3, <2>4 DEF Precedes
<1>13. ASSUME NEW x, NEW y, Precedes(rules, x, y) PROVE Precedes(new, x, y)
  <2>1. PICK i \in 1 .. Len(rules), j \in 1 .. Len(rules) :
          i < j /\ rules[i] = x /\ rules[j] = y
    BY <1>2, <1>13 DEF Precedes
  <2>2. i + spot - 1 < j + spot - 1
    BY <1>2, <1>6, <2>1
  <2> QED BY <1>8, <2>1, <2>2 DEF Precedes
<1>14. ASSUME NEW x \in ToSet(rules) PROVE Precedes(new, x, destination)
  <2>1. PICK i \in 1 .. Len(rules) : rules[i] = x
    BY <1>2 DEF ToSet
  <2>2. i + spot - 1 < To(spot)
    BY <1>2, <1>6, <2>1
  <2> HIDE DEF To
  <2> QED BY <1>4, <1>7, <1>8, <2>1, <2>2 DEF Precedes
<1>15. PutBefore(rules, destination) = new
  BY DEF PutBefore, new, spot, o
<1>16. /\ new \in Seq(E) /\ IsInjective(new)
       /\ ToSet(new) = OnRouter \cup ToSet(rules)
       /\ \A x, y : Precedes(order, x, y) /\ x \notin ToSet(rules) /\ y \notin ToSet(rules)
                        => Precedes(new, x, y)
       /\ \A x, y : Precedes(rules, x, y) => Precedes(new, x, y)
       /\ \A x \in ToSet(rules) : Precedes(new, x, destination)
  BY <1>5, <1>10, <1>11, <1>12, <1>13, <1>14
<1> QED BY <1>15, <1>16, Zenon

\* A rule that goes last is after all others.
LEMMA AppendKeepsOrder ==
    ASSUME NEW E, NEW s \in Seq(E), IsInjective(s), NEW r \in E, r \notin ToSet(s)
    PROVE  /\ Append(s, r) \in Seq(E) /\ IsInjective(Append(s, r))
           /\ ToSet(Append(s, r)) = ToSet(s) \cup {r}
           /\ \A x, y : Precedes(s, x, y) => Precedes(Append(s, r), x, y)
<1> DEFINE t == Append(s, r)
<1>1. /\ DOMAIN s = 1 .. Len(s) /\ Len(s) \in Nat
      /\ t \in Seq(E) /\ DOMAIN t = 1 .. Len(s) + 1
      /\ t[Len(s) + 1] = r /\ \A i \in 1 .. Len(s) : t[i] = s[i]
  OBVIOUS
<1> HIDE DEF t
<1>2. \A i \in 1 .. Len(s) : s[i] \in ToSet(s)
  BY <1>1 DEF ToSet
<1>3. IsInjective(t)
  <2> SUFFICES ASSUME NEW k \in 1 .. Len(s) + 1, NEW l \in 1 .. Len(s) + 1, t[k] = t[l]
               PROVE  k = l
    BY <1>1 DEF IsInjective
  <2>1. CASE k \in 1 .. Len(s) /\ l \in 1 .. Len(s)
    BY <1>1, <2>1 DEF IsInjective
  <2>2. CASE k = Len(s) + 1 /\ l \in 1 .. Len(s)
    BY <1>1, <1>2, <2>2
  <2>3. CASE k \in 1 .. Len(s) /\ l = Len(s) + 1
    BY <1>1, <1>2, <2>3
  <2> QED BY <1>1, <2>1, <2>2, <2>3
<1>4. ToSet(t) = ToSet(s) \cup {r}
  <2>1. \A x \in ToSet(t) : x \in ToSet(s) \cup {r}
    BY <1>1 DEF ToSet
  <2>2. \A x \in ToSet(s) : x \in ToSet(t)
    BY <1>1 DEF ToSet
  <2>3. r \in ToSet(t)
    BY <1>1 DEF ToSet
  <2> QED BY <2>1, <2>2, <2>3
<1>5. ASSUME NEW x, NEW y, Precedes(s, x, y) PROVE Precedes(t, x, y)
  BY <1>1, <1>5 DEF Precedes
<1> QED BY <1>1, <1>3, <1>4, <1>5 DEF t

\* What a move asks for.
LEMMA MoveRequestParts ==
    /\ MoveRequest.numbers \in Seq(Rule \cup Stranger)
    /\ IsInjective(MoveRequest.numbers)
    /\ MoveRequest.destination \notin ToSet(MoveRequest.numbers)
    /\ ToSet(Sequence) = ToSet(MoveRequest.numbers) \cup {MoveRequest.destination}
    /\ \A x, y : Precedes(Sequence, x, y) =>
          \/ Precedes(MoveRequest.numbers, x, y)
          \/ x \in ToSet(MoveRequest.numbers) /\ y = MoveRequest.destination
<1> DEFINE n == Len(Sequence)
           f == Front(Sequence)
           d == Last(Sequence)
<1>1. /\ Sequence \in Seq(Rule \cup Stranger) /\ IsInjective(Sequence)
      /\ n \in Nat /\ n >= 2 /\ DOMAIN Sequence = 1 .. n
  BY RulesAssumption
<1>2. /\ f \in Seq(Rule \cup Stranger) /\ DOMAIN f = 1 .. n - 1
      /\ \A i \in 1 .. n - 1 : f[i] = Sequence[i]
  BY <1>1 DEF Front
<1>3. d = Sequence[n]
  BY DEF Last
<1>4. MoveRequest.numbers = f /\ MoveRequest.destination = d
  BY DEF MoveRequest
<1> HIDE DEF f, d, n
<1>5. IsInjective(f)
  BY <1>1, <1>2 DEF IsInjective
<1>6. d \notin ToSet(f)
  <2> SUFFICES ASSUME NEW i \in 1 .. n - 1, f[i] = d PROVE FALSE
    BY <1>2 DEF ToSet
  <2>1. i \in 1 .. n /\ n \in 1 .. n /\ i # n /\ Sequence[i] = Sequence[n]
    BY <1>1, <1>2, <1>3
  <2> QED BY <1>1, <2>1 DEF IsInjective
<1>7. ToSet(Sequence) = ToSet(f) \cup {d}
  <2>1. \A i \in 1 .. n : i = n \/ i \in 1 .. n - 1
    BY <1>1
  <2>2. \A x \in ToSet(Sequence) : x \in ToSet(f) \cup {d}
    BY <1>1, <1>2, <1>3, <2>1 DEF ToSet
  <2>3. \A x \in ToSet(f) : x \in ToSet(Sequence)
    BY <1>1, <1>2 DEF ToSet
  <2>4. d \in ToSet(Sequence)
    BY <1>1, <1>3 DEF ToSet
  <2> QED BY <2>2, <2>3, <2>4
<1>8. ASSUME NEW x, NEW y, Precedes(Sequence, x, y)
      PROVE  Precedes(f, x, y) \/ (x \in ToSet(f) /\ y = d)
  <2>1. PICK i \in 1 .. n, j \in 1 .. n : i < j /\ Sequence[i] = x /\ Sequence[j] = y
    BY <1>1, <1>8 DEF Precedes
  <2>2. i \in 1 .. n - 1 /\ f[i] = x
    BY <1>1, <1>2, <2>1
  <2>3. CASE j = n
    BY <1>2, <1>3, <2>1, <2>2, <2>3 DEF ToSet
  <2>4. CASE j # n
    <3>1. j \in 1 .. n - 1 /\ f[j] = y
      BY <1>1, <1>2, <2>1, <2>4
    <3> QED BY <1>2, <2>1, <2>2, <3>1 DEF Precedes
  <2> QED BY <2>3, <2>4
<1> QED BY <1>2, <1>4, <1>5, <1>6, <1>7, <1>8

-----------------------------------------------------------------------------
(* Rules in the order that is configured.                                  *)

\* A rule that is being created is not on the router yet, since nobody else
\* creates it.
NotYetOnRouter == \A r \in Rule : call[r].handler = "create" => r \notin OnRouter

\* From the move until somebody interferes, the listed rules are on the router
\* and in their order.
StandsInOrder ==
    move = "moved" =>
        /\ ToSet(Sequence) \subseteq OnRouter
        /\ \A x, y : Precedes(Sequence, x, y) => Precedes(order, x, y)

RulesInv == RulesTypeOK /\ NotYetOnRouter /\ StandsInOrder

LEMMA RulesInvInit == RulesInit => RulesInv
<1> SUFFICES ASSUME RulesInit PROVE RulesInv
  OBVIOUS
<1>1. order \in Seq(Rule \cup Stranger) /\ IsInjective(order)
  <2>1. CASE order = <<>>
    BY <2>1 DEF IsInjective
  <2>2. CASE \E s \in Stranger : order = <<s>>
    BY <2>2 DEF IsInjective
  <2> QED BY <2>1, <2>2 DEF RulesInit
<1>2. 0 \in 0 .. MaxMoves
  BY RulesAssumption
<1>3. <<>> \in Seq(Rule \cup Stranger)
  OBVIOUS
<1>4. RulesTypeOK
  BY <1>1, <1>2, <1>3 DEF RulesInit, RulesTypeOK, Idle, NoRequest
<1> QED BY <1>4 DEF RulesInit, RulesInv, NotYetOnRouter, StandsInOrder, Idle

\* What a list of the router's rules may become: the rules and those that are
\* added, in an order that keeps the one they have.
Extended(added) ==
    /\ order' \in Seq(Rule \cup Stranger) /\ IsInjective(order')
    /\ ToSet(order') = OnRouter \cup added
    /\ \A x, y \in OnRouter : Precedes(order, x, y) => Precedes(order', x, y)

LEMMA CreateExtends ==
    ASSUME RulesInv, NEW r \in Rule, CreateSent(r)
    PROVE  Extended({r}) \/ order' = order
<1>1. /\ order \in Seq(Rule \cup Stranger) /\ IsInjective(order)
      /\ r \in Rule \cup Stranger /\ r \notin ToSet(order)
  BY DEF CreateSent, RulesInv, RulesTypeOK, NotYetOnRouter, OnRouter
<1>2. CASE order' = Append(order, r)
  BY <1>1, <1>2, AppendKeepsOrder DEF Extended, OnRouter
<1>3. CASE PlaceBefore[r] \in OnRouter /\ order' = PutBefore(<<r>>, PlaceBefore[r])
  <2>1. <<r>> \in Seq(Rule \cup Stranger) /\ IsInjective(<<r>>) /\ ToSet(<<r>>) = {r}
    BY <1>1 DEF IsInjective, ToSet
  <2>2. PlaceBefore[r] \in OnRouter \ ToSet(<<r>>)
    BY <1>1, <1>3, <2>1 DEF OnRouter
  <2>3. /\ order' \in Seq(Rule \cup Stranger) /\ IsInjective(order')
        /\ ToSet(order') = OnRouter \cup {r}
        /\ \A x, y : Precedes(order, x, y) /\ x \notin {r} /\ y \notin {r}
                => Precedes(order', x, y)
    BY <1>1, <1>3, <2>1, <2>2, PutBeforeKeepsOrder
  <2> QED BY <1>1, <2>3 DEF Extended, OnRouter
<1> QED BY <1>2, <1>3 DEF CreateSent

LEMMA MoveExtends ==
    ASSUME RulesInv, resCreateUpdate, move' = "moved"
    PROVE  /\ order' \in Seq(Rule \cup Stranger) /\ IsInjective(order')
           /\ ToSet(order') = OnRouter /\ ToSet(Sequence) \subseteq OnRouter
           /\ \A x, y : Precedes(Sequence, x, y) => Precedes(order', x, y)
<1> DEFINE numbers == MoveRequest.numbers
           destination == MoveRequest.destination
<1>1. ToSet(Sequence) \subseteq OnRouter /\ order' = PutBefore(numbers, destination)
  BY DEF resCreateUpdate
<1>2. order \in Seq(Rule \cup Stranger) /\ IsInjective(order)
  BY DEF RulesInv, RulesTypeOK
<1>3. /\ numbers \in Seq(Rule \cup Stranger) /\ IsInjective(numbers)
      /\ ToSet(Sequence) = ToSet(numbers) \cup {destination}
      /\ destination \notin ToSet(numbers)
      /\ \A x, y : Precedes(Sequence, x, y) =>
            Precedes(numbers, x, y) \/ (x \in ToSet(numbers) /\ y = destination)
  BY MoveRequestParts
<1> HIDE DEF numbers, destination
<1>4. destination \in OnRouter \ ToSet(numbers)
  BY <1>1, <1>3
<1>5. /\ order' \in Seq(Rule \cup Stranger) /\ IsInjective(order')
      /\ ToSet(order') = OnRouter \cup ToSet(numbers)
      /\ \A x, y : Precedes(numbers, x, y) => Precedes(order', x, y)
      /\ \A x \in ToSet(numbers) : Precedes(order', x, destination)
  BY <1>1, <1>2, <1>3, <1>4, PutBeforeKeepsOrder
<1> QED BY <1>1, <1>3, <1>5

\* What other people do to the list leaves no rule twice.
LEMMA OthersKeepRules ==
    ASSUME RulesInv, OutsideAdds \/ OutsideRemoves \/ OutsideMoves
    PROVE  /\ order' \in Seq(Rule \cup Stranger) /\ IsInjective(order')
           /\ ToSet(order') \subseteq OnRouter \cup Stranger
<1>1. order \in Seq(Rule \cup Stranger) /\ IsInjective(order)
  BY DEF RulesInv, RulesTypeOK
<1>2. CASE OutsideAdds
  <2>1. PICK r \in Stranger : r \notin OnRouter /\ order' = Append(order, r)
    BY <1>2 DEF OutsideAdds
  <2> QED BY <1>1, <2>1, AppendKeepsOrder DEF OnRouter
<1>3. CASE OutsideRemoves
  <2>1. PICK r \in OnRouter : order' = Among(order, OnRouter \ {r})
    BY <1>3 DEF OutsideRemoves
  <2> QED BY <1>1, <2>1, AmongKeepsOrder DEF OnRouter
<1>4. CASE OutsideMoves
  <2>1. PICK r \in OnRouter, s \in OnRouter : r # s /\ order' = PutBefore(<<r>>, s)
    BY <1>4 DEF OutsideMoves
  <2>2. r \in Rule \cup Stranger
    BY <1>1 DEF OnRouter, ToSet
  <2>3. <<r>> \in Seq(Rule \cup Stranger) /\ IsInjective(<<r>>) /\ ToSet(<<r>>) = {r}
    BY <2>2 DEF IsInjective, ToSet
  <2> DEFINE moved == <<r>>
  <2>4. /\ moved \in Seq(Rule \cup Stranger) /\ IsInjective(moved)
        /\ ToSet(moved) = {r} /\ order' = PutBefore(moved, s)
    BY <2>1, <2>3
  <2> HIDE DEF moved
  <2>5. s \in OnRouter \ ToSet(moved)
    BY <2>1, <2>4
  <2>6. /\ PutBefore(moved, s) \in Seq(Rule \cup Stranger)
        /\ IsInjective(PutBefore(moved, s))
        /\ ToSet(PutBefore(moved, s)) = OnRouter \cup ToSet(moved)
    BY <1>1, <2>4, <2>5, PutBeforeKeepsOrder
  <2>7. OnRouter \cup ToSet(moved) = OnRouter
    BY <2>1, <2>4
  <2> QED BY <2>4, <2>6, <2>7
<1> QED BY <1>2, <1>3, <1>4

LEMMA RulesTypeStep == RulesInv /\ [RulesNext]_rulesVars => RulesTypeOK'
<1> SUFFICES ASSUME RulesInv, [RulesNext]_rulesVars PROVE RulesTypeOK'
  OBVIOUS
<1> USE DEF RulesInv
<1>1. ASSUME NEW r \in Rule, CreateCalled(r) PROVE RulesTypeOK'
  BY <1>1 DEF CreateCalled, RulesTypeOK
<1>2. ASSUME NEW r \in Rule, UpdateCalled(r) PROVE RulesTypeOK'
  BY <1>2 DEF UpdateCalled, schemaWithSkipFields, SharedAfter, RulesTypeOK
<1>3. ASSUME NEW r \in Rule, CreateSent(r) PROVE RulesTypeOK'
  <2>1. order' \in Seq(Rule \cup Stranger) /\ IsInjective(order')
    BY <1>3, CreateExtends DEF Extended, RulesTypeOK
  <2> QED BY <1>3, <2>1 DEF CreateSent, Request, Idle, RulesTypeOK
<1>4. ASSUME NEW r \in Rule, UpdateSent(r) PROVE RulesTypeOK'
  BY <1>4 DEF UpdateSent, Request, Idle, RulesTypeOK
<1>5. CASE resCreateUpdate
  BY <1>5, MoveExtends DEF resCreateUpdate, RulesTypeOK
<1>6. CASE resRead
  <2>1. Listed(order) \in Seq(Rule \cup Stranger)
    BY AmongKeepsOrder DEF Listed, RulesTypeOK
  <2>2. <<>> \in Seq(Rule \cup Stranger)
    OBVIOUS
  <2> QED BY <1>6, <2>1, <2>2 DEF resRead, RulesTypeOK
<1>7. CASE OutsideAdds \/ OutsideRemoves \/ OutsideMoves
  <2>1. Overtaking
    BY <1>7 DEF OutsideAdds, OutsideRemoves, OutsideMoves
  <2>2. moves' \in 0 .. MaxMoves
    BY <2>1, RulesAssumption DEF Overtaking, RulesTypeOK
  <2> QED BY <1>7, <2>1, <2>2, OthersKeepRules DEF Overtaking, RulesTypeOK
<1>8. CASE UNCHANGED rulesVars
  BY <1>8 DEF rulesVars, RulesTypeOK
<1> QED BY <1>1, <1>2, <1>3, <1>4, <1>5, <1>6, <1>7, <1>8 DEF RulesNext

LEMMA NotYetOnRouterStep == RulesInv /\ [RulesNext]_rulesVars => NotYetOnRouter'
<1> SUFFICES ASSUME RulesInv, [RulesNext]_rulesVars PROVE NotYetOnRouter'
  OBVIOUS
<1> USE DEF RulesInv, NotYetOnRouter, RulesTypeOK
<1>1. ASSUME NEW r \in Rule, CreateCalled(r) PROVE NotYetOnRouter'
  BY <1>1 DEF CreateCalled, OnRouter
<1>2. ASSUME NEW r \in Rule, UpdateCalled(r) PROVE NotYetOnRouter'
  BY <1>2 DEF UpdateCalled, OnRouter
<1>3. ASSUME NEW r \in Rule, CreateSent(r) PROVE NotYetOnRouter'
  <2>1. OnRouter' = OnRouter \cup {r} \/ OnRouter' = OnRouter
    BY <1>3, CreateExtends DEF Extended, OnRouter
  <2>2. call' = [call EXCEPT ![r] = Idle]
    BY <1>3 DEF CreateSent
  <2> QED BY <2>1, <2>2 DEF Idle
<1>4. ASSUME NEW r \in Rule, UpdateSent(r) PROVE NotYetOnRouter'
  BY <1>4 DEF UpdateSent, Idle, OnRouter
<1>5. CASE resCreateUpdate
  <2>1. OnRouter' = OnRouter
    BY <1>5, MoveExtends DEF resCreateUpdate, OnRouter
  <2> QED BY <1>5, <2>1 DEF resCreateUpdate
<1>6. CASE resRead
  BY <1>6 DEF resRead, OnRouter
<1>7. CASE OutsideAdds \/ OutsideRemoves \/ OutsideMoves
  <2>1. OnRouter' \subseteq OnRouter \cup Stranger
    BY <1>7, OthersKeepRules DEF OnRouter
  <2>2. UNCHANGED call
    BY <1>7 DEF OutsideAdds, OutsideRemoves, OutsideMoves, Overtaking
  <2> QED BY <2>1, <2>2, RulesAssumption
<1>8. CASE UNCHANGED rulesVars
  BY <1>8 DEF rulesVars, OnRouter
<1> QED BY <1>1, <1>2, <1>3, <1>4, <1>5, <1>6, <1>7, <1>8 DEF RulesNext

LEMMA StandsInOrderStep == RulesInv /\ [RulesNext]_rulesVars => StandsInOrder'
<1> SUFFICES ASSUME RulesInv, [RulesNext]_rulesVars, move' = "moved"
             PROVE  /\ ToSet(Sequence) \subseteq OnRouter'
                    /\ \A x, y : Precedes(Sequence, x, y) => Precedes(order', x, y)
  BY DEF StandsInOrder, OnRouter, Precedes
<1>1. ASSUME NEW r \in Rule, CreateSent(r)
      PROVE  /\ ToSet(Sequence) \subseteq OnRouter'
             /\ \A x, y : Precedes(Sequence, x, y) => Precedes(order', x, y)
  <2>1. /\ ToSet(Sequence) \subseteq OnRouter
        /\ \A x, y : Precedes(Sequence, x, y) => Precedes(order, x, y)
    BY <1>1 DEF CreateSent, RulesInv, StandsInOrder
  <2>2. CASE order' = order
    BY <2>1, <2>2 DEF OnRouter
  <2>3. CASE Extended({r})
    BY <2>1, <2>3, PrecedesMembers DEF Extended, OnRouter
  <2> QED BY <1>1, <2>2, <2>3, CreateExtends
<1>2. CASE resCreateUpdate
  BY <1>2, MoveExtends DEF OnRouter
<1>3. CASE UNCHANGED <<order, move>>
  BY <1>3 DEF RulesInv, StandsInOrder, OnRouter
<1>4. \/ \E r \in Rule : CreateSent(r)
      \/ resCreateUpdate
      \/ UNCHANGED <<order, move>>
  BY DEF RulesNext, rulesVars, CreateCalled, UpdateCalled, UpdateSent, resRead,
     OutsideAdds, OutsideRemoves, OutsideMoves, Overtaking
<1> QED BY <1>1, <1>2, <1>3, <1>4

LEMMA RulesInvStep == RulesInv /\ [RulesNext]_rulesVars => RulesInv'
BY RulesTypeStep, NotYetOnRouterStep, StandsInOrderStep DEF RulesInv

\* Whoever creates, updates and moves rules, no rule is in the list twice, no
\* call skips a field that does not exist, and the other variables keep their
\* types.
THEOREM RulesTyped == RulesSpec => []RulesTypeOK
<1>1. RulesInv => RulesTypeOK
  BY DEF RulesInv
<1> QED BY <1>1, RulesInvInit, RulesInvStep, PTL DEF RulesSpec

\* ResourceMoveItems: when rules were put in order and nobody has moved, added or
\* removed one since, whatever other rules the provider has created meanwhile,
\* the read that follows records exactly the configured sequence.
THEOREM OrderAlwaysSettles == RulesSpec => OrderSettles
<1>1. ASSUME RulesInv, [RulesNext]_rulesVars, move = "moved", move' = "read"
      PROVE  recorded' = Sequence
  <2>1. resRead
    BY <1>1 DEF RulesNext, rulesVars, CreateCalled, UpdateCalled, CreateSent, UpdateSent,
       resCreateUpdate, OutsideAdds, OutsideRemoves, OutsideMoves, Overtaking
  <2>2. recorded' = Among(order, ToSet(Sequence))
    BY <1>1, <2>1 DEF resRead, Listed, KnownOrder
  <2>3. /\ order \in Seq(Rule \cup Stranger) /\ IsInjective(order)
        /\ ToSet(Sequence) \subseteq ToSet(order)
        /\ \A x, y : Precedes(Sequence, x, y) => Precedes(order, x, y)
    BY <1>1 DEF RulesInv, RulesTypeOK, StandsInOrder, OnRouter
  <2>4. /\ recorded' \in Seq(Rule \cup Stranger) /\ IsInjective(recorded')
        /\ ToSet(recorded') = ToSet(order) \cap ToSet(Sequence)
        /\ \A x, y : Precedes(recorded', x, y) <=>
              Precedes(order, x, y) /\ x \in ToSet(Sequence) /\ y \in ToSet(Sequence)
    BY <2>2, <2>3, AmongKeepsOrder
  <2>5. ToSet(recorded') = ToSet(Sequence)
    BY <2>3, <2>4
  <2>6. \A x, y : Precedes(Sequence, x, y) => Precedes(recorded', x, y)
    BY <2>3, <2>4, PrecedesMembers
  <2> QED BY <2>4, <2>5, <2>6, OrderDetermines, RulesAssumption
<1>2. RulesInv /\ [RulesNext]_rulesVars =>
          [move = "moved" /\ move' = "read" => recorded' = Sequence]_rulesVars
  BY <1>1
<1> QED BY <1>2, RulesInvInit, RulesInvStep, PTL DEF RulesSpec, OrderSettles

-----------------------------------------------------------------------------
(* A reply: its fields are taken in any order.                             *)

TakenFields == reply \ left

\* The classes that are read into nothing but a warning.
Lost ==
    {"unknown", "lost part"} \cup
    (IF reader = "resource" THEN {} ELSE {"part", "number part", "set part", "key"})

Silent == {"service", "skipped"}

\* Whatever was gathered is kept until the end, so a value that does not parse
\* has left an error: its own, or the one of a later field that replaced it.
ErrorInv ==
    (\E f \in TakenFields : Unparsable(f)) => \E d \in diags : d.severity = "error"

\* Of a reply that parses, what has been set or gathered and what has been
\* warned of are functions of the fields that were taken.
OrderInv ==
    (\A f \in reply : ~Unparsable(f)) =>
        /\ err = FALSE
        /\ values \cup gathered =
               {f.name : f \in {g \in TakenFields : g.class \notin Lost \cup Silent}}
        /\ diags = {Warning(f) : f \in {g \in TakenFields : g.class \in Lost}}

-----------------------------------------------------------------------------
(* The type invariant.                                                     *)

LEMMA ReplyTypeInit == ReplyInit => ReplyTypeOK
BY DEF ReplyInit, ReplyTypeOK

\* Diagnostics stay well typed when a field of the reply is added to them.
LEMMA DiagsTyped ==
    ASSUME ReplyTypeOK, NEW f \in reply
    PROVE  LET Diag == [field : {g.name : g \in reply}, severity : {"warning", "error"}]
           IN  /\ diags \cup {Warning(f)} \subseteq Diag
               /\ diags \cup {Error(f)} \subseteq Diag
               /\ Replaced(f) \subseteq Diag
               /\ Replaced(f) \cup {Error(f)} \subseteq Diag
<1> DEFINE Diag == [field : {g.name : g \in reply}, severity : {"warning", "error"}]
<1>1. diags \subseteq Diag
  BY DEF ReplyTypeOK
<1>2. f.name \in {g.name : g \in reply}
  OBVIOUS
<1>3. Warning(f) \in Diag /\ Error(f) \in Diag
  BY <1>2 DEF Warning, Error
<1> HIDE DEF Diag
<1>4. /\ diags \cup {Warning(f)} \subseteq Diag
      /\ diags \cup {Error(f)} \subseteq Diag
      /\ {Error(f)} \subseteq Diag
  BY <1>1, <1>3
<1> QED BY <1>4 DEF Diag, Replaced

LEMMA ReplyTypeStep == ReplyTypeOK /\ [ReplyNext]_replyVars => ReplyTypeOK'
<1> SUFFICES ASSUME ReplyTypeOK, [ReplyNext]_replyVars PROVE ReplyTypeOK'
  OBVIOUS
<1>1. ASSUME NEW f \in left, left' = left \ {f}, UNCHANGED <<reader, reply>>, ResourceField(f)
      PROVE  ReplyTypeOK'
  <2> USE DEF ReplyTypeOK
  <2>1. f \in reply /\ f \in Field /\ f.good \in BOOLEAN
    BY <1>1, FieldAssumption
  <2>2. CASE Ignored(f)
    BY <1>1, <2>1, <2>2, DiagsTyped DEF Ignored
  <2>3. CASE TextTaken(f)
    BY <1>1, <2>1, <2>3 DEF TextTaken, Ended
  <2>4. CASE NumberTaken(f)
    BY <1>1, <2>1, <2>4, DiagsTyped DEF NumberTaken, Ended
  <2>5. CASE NumbersTaken(f)
    BY <1>1, <2>1, <2>5, DiagsTyped DEF NumbersTaken, Ended
  <2>6. CASE PartGathered(f)
    BY <1>1, <2>1, <2>6, DiagsTyped DEF PartGathered, Ended
  <2>7. CASE KeyGathered(f)
    BY <1>1, <2>1, <2>7, DiagsTyped DEF KeyGathered, WithKey, Ended
  <2> QED BY <1>1, <2>2, <2>3, <2>4, <2>5, <2>6, <2>7 DEF ResourceField
<1>2. ASSUME NEW f \in left, left' = left \ {f}, UNCHANGED <<reader, reply>>, DatasourceField(f)
      PROVE  ReplyTypeOK'
  BY <1>2, DiagsTyped DEF DatasourceField, ReplyTypeOK
<1>3. CASE ReplyDone
  BY <1>3 DEF ReplyDone, ReplyTypeOK
<1>4. CASE UNCHANGED replyVars
  BY <1>4 DEF replyVars, ReplyTypeOK
<1> QED BY <1>1, <1>2, <1>3, <1>4 DEF ReplyNext, TakeField

\* Every variable of the reading of a reply keeps its type.
THEOREM ReplyTyped == ReplySpec => []ReplyTypeOK
BY ReplyTypeInit, ReplyTypeStep, PTL DEF ReplySpec

-----------------------------------------------------------------------------
(* Errors survive.                                                         *)

\* An error that was gathered is gone only when another one replaces it.
LEMMA ErrorKept ==
    ASSUME ReplyTypeOK, NEW f \in left, ResourceField(f) \/ DatasourceField(f),
           \E d \in diags : d.severity = "error"
    PROVE  \E d \in diags' : d.severity = "error"
<1> DEFINE HasError(ds) == \E d \in ds : d.severity = "error"
<1>1. HasError(Replaced(f)) /\ \A ds : HasError(diags \cup ds)
  BY DEF Replaced, Error
<1>2. \A ds, e : HasError(ds) => HasError(IF e THEN ds \cup {Error(f)} ELSE ds)
  OBVIOUS
<1>3. CASE DatasourceField(f)
  BY <1>1, <1>3 DEF DatasourceField
<1>4. CASE ResourceField(f)
  BY <1>1, <1>2, <1>4 DEF ResourceField, Ignored, TextTaken, NumberTaken,
     NumbersTaken, PartGathered, KeyGathered, Ended
<1> QED BY <1>3, <1>4

\* A field that does not parse leaves an error.
LEMMA ErrorMade ==
    ASSUME ReplyTypeOK, NEW f \in left, Unparsable(f),
           IF reader = "resource" THEN ResourceField(f) ELSE DatasourceField(f)
    PROVE  \E d \in diags' : d.severity = "error"
<1>1. ~f.good /\ f.class \in Parsed /\ Error(f).severity = "error"
  BY FieldAssumption DEF ReplyTypeOK, Unparsable, Error
<1>2. CASE reader = "resource"
  BY <1>1, <1>2 DEF Parsed, ResourceField, Ignored, TextTaken, NumberTaken,
     NumbersTaken, PartGathered, KeyGathered, Ended, Replaced
<1>3. CASE reader # "resource"
  BY <1>1, <1>3 DEF Unparsable, DatasourceField
<1> QED BY <1>2, <1>3

LEMMA ErrorStep == ReplyTypeOK /\ ErrorInv /\ [ReplyNext]_replyVars => ErrorInv'
<1> SUFFICES ASSUME ReplyTypeOK, ErrorInv, [ReplyNext]_replyVars PROVE ErrorInv'
  OBVIOUS
<1>1. CASE TakeField
  <2> PICK f \in left :
        /\ IF reader = "resource" THEN ResourceField(f) ELSE DatasourceField(f)
        /\ left' = left \ {f} /\ UNCHANGED <<reader, reply>>
    BY <1>1 DEF TakeField
  <2>1. TakenFields' = TakenFields \cup {f}
    BY DEF TakenFields, ReplyTypeOK
  <2>2. \A g : Unparsable(g)' <=> Unparsable(g)
    BY DEF Unparsable
  <2>3. CASE Unparsable(f)
    BY <2>3, ErrorMade DEF ErrorInv
  <2>4. CASE ~Unparsable(f)
    BY <2>1, <2>2, <2>4, ErrorKept DEF ErrorInv
  <2> QED BY <2>3, <2>4
<1>2. CASE ReplyDone
  BY <1>2 DEF ReplyDone, ErrorInv, TakenFields, Unparsable
<1>3. CASE UNCHANGED replyVars
  BY <1>3 DEF replyVars, ErrorInv, TakenFields, Unparsable
<1> QED BY <1>1, <1>2, <1>3 DEF ReplyNext

\* In whatever order the fields of a reply are taken, one that does not parse
\* is reported: MikrotikResourceDataToTerraform never returns without an error.
THEOREM ErrorsAlwaysSurvive == ReplySpec => []ErrorsSurvive
<1>1. ReplyInit => ErrorInv
  BY DEF ReplyInit, ErrorInv, TakenFields
<1>2. ErrorInv => ErrorsSurvive
  BY DEF ErrorInv, ErrorsSurvive, ReplyRead, TakenFields
<1> QED BY <1>1, <1>2, ReplyTyped, ErrorStep, PTL DEF ReplySpec

-----------------------------------------------------------------------------
(* The order is no matter.                                                 *)

\* A field that parses adds what it is read into, or its warning, and no error.
LEMMA GoodFieldTaken ==
    ASSUME ReplyTypeOK, NEW f \in left, ~Unparsable(f), err = FALSE,
           IF reader = "resource" THEN ResourceField(f) ELSE DatasourceField(f)
    PROVE  /\ err' = FALSE
           /\ values' \cup gathered' =
                  values \cup gathered \cup
                      (IF f.class \in Lost \cup Silent THEN {} ELSE {f.name})
           /\ diags' = diags \cup (IF f.class \in Lost THEN {Warning(f)} ELSE {})
<1>1. CASE reader = "resource"
  <2> USE DEF Lost, Silent
  <2>1. f.good
    BY <1>1, FieldAssumption DEF Unparsable
  <2>2. CASE Ignored(f)
    BY <1>1, <2>2 DEF Ignored
  <2>3. CASE TextTaken(f)
    BY <1>1, <2>3 DEF TextTaken, Ended
  <2>4. CASE NumberTaken(f)
    BY <1>1, <2>1, <2>4 DEF NumberTaken, Ended
  <2>5. CASE NumbersTaken(f)
    BY <1>1, <2>1, <2>5 DEF NumbersTaken, Ended
  <2>6. CASE PartGathered(f)
    BY <1>1, <2>1, <2>6 DEF PartGathered, Ended
  <2>7. CASE KeyGathered(f)
    BY <1>1, <2>7 DEF KeyGathered, WithKey, Ended
  <2> QED BY <1>1, <2>2, <2>3, <2>4, <2>5, <2>6, <2>7 DEF ResourceField
<1>2. CASE reader # "resource"
  <2>1. f.class = "number" => f.good
    BY <1>2 DEF Unparsable
  <2> QED BY <1>2, <2>1 DEF DatasourceField, Lost, Silent
<1> QED BY <1>1, <1>2

LEMMA OrderStep == ReplyTypeOK /\ OrderInv /\ [ReplyNext]_replyVars => OrderInv'
<1> SUFFICES ASSUME ReplyTypeOK, OrderInv, [ReplyNext]_replyVars,
                    (\A f \in reply : ~Unparsable(f))'
             PROVE  (/\ err = FALSE
                     /\ values \cup gathered =
                            {f.name : f \in {g \in TakenFields : g.class \notin Lost \cup Silent}}
                     /\ diags = {Warning(f) : f \in {g \in TakenFields : g.class \in Lost}})'
  BY DEF OrderInv
<1>1. CASE TakeField
  <2> PICK f \in left :
        /\ IF reader = "resource" THEN ResourceField(f) ELSE DatasourceField(f)
        /\ left' = left \ {f} /\ UNCHANGED <<reader, reply>>
    BY <1>1 DEF TakeField
  <2>1. f \in reply /\ TakenFields' = TakenFields \cup {f} /\ Lost' = Lost
    BY DEF TakenFields, Lost, ReplyTypeOK
  <2>2. \A g \in reply : ~Unparsable(g)
    BY DEF Unparsable
  <2>3. /\ err = FALSE
        /\ values \cup gathered =
               {g.name : g \in {h \in TakenFields : h.class \notin Lost \cup Silent}}
        /\ diags = {Warning(g) : g \in {h \in TakenFields : h.class \in Lost}}
    BY <2>2 DEF OrderInv
  <2>4. /\ err' = FALSE
        /\ values' \cup gathered' =
               values \cup gathered \cup
                   (IF f.class \in Lost \cup Silent THEN {} ELSE {f.name})
        /\ diags' = diags \cup (IF f.class \in Lost THEN {Warning(f)} ELSE {})
    BY <2>1, <2>2, <2>3, GoodFieldTaken
  <2>5. {g.name : g \in {h \in TakenFields' : h.class \notin Lost' \cup Silent}} =
        {g.name : g \in {h \in TakenFields : h.class \notin Lost \cup Silent}} \cup
            (IF f.class \in Lost \cup Silent THEN {} ELSE {f.name})
    BY <2>1
  <2>6. {Warning(g) : g \in {h \in TakenFields' : h.class \in Lost'}} =
        {Warning(g) : g \in {h \in TakenFields : h.class \in Lost}} \cup
            (IF f.class \in Lost THEN {Warning(f)} ELSE {})
    BY <2>1
  <2>7. Silent' = Silent /\ \A g : Warning(g)' = Warning(g)
    BY DEF Silent, Warning
  <2> QED BY <2>3, <2>4, <2>5, <2>6, <2>7 DEF Warning
<1>2. CASE ReplyDone
  BY <1>2 DEF ReplyDone, OrderInv, TakenFields, Unparsable, Lost, Silent, Warning
<1>3. CASE UNCHANGED replyVars
  BY <1>3 DEF replyVars, OrderInv, TakenFields, Unparsable, Lost, Silent, Warning
<1> QED BY <1>1, <1>2, <1>3 DEF ReplyNext

\* A reply of fields that parse is read into the same values, and with the same
\* warnings, in every order in which Go gives the fields of its map.
THEOREM OrderNeverMatters == ReplySpec => []OrderIsNoMatter
<1>1. ReplyInit => OrderInv
  BY DEF ReplyInit, OrderInv, TakenFields
<1>2. ReplyTypeOK /\ OrderInv => OrderIsNoMatter
  <2> SUFFICES ASSUME ReplyTypeOK, OrderInv, left = {}, gathered = {},
                      \A f \in reply : ~Unparsable(f)
               PROVE  /\ values = {f.name : f \in {g \in reply : g.class \notin Lost \cup Silent}}
                      /\ diags = {Warning(f) : f \in {g \in reply : g.class \in Lost}}
    BY DEF OrderIsNoMatter, ReplyRead, Lost, Silent
  <2>1. TakenFields = reply
    BY DEF TakenFields
  <2> QED BY <2>1 DEF OrderInv
<1> QED BY <1>1, <1>2, ReplyTyped, OrderStep, PTL DEF ReplySpec

-----------------------------------------------------------------------------
(* The upgrade of a state, while others rename, remove and create objects. *)

\* Before its upgrade a state stands for what it was written for; from then
\* on its id is the one of the object that it was found to stand for, until it
\* is dropped; and an obsolete attribute comes only from the router.
UpgradeInv ==
    /\ UpgradeTypeOK
    /\ stored.version = 0 =>
           /\ step \in {"written", "failed"}
           /\ upgrade.cleared = {} => ~stored.obsolete
           /\ ~upgrade.toId => stored.id \in Object
    /\ stored.version = 1 =>
           /\ step \in {"upgraded", "read", "dropped"}
           /\ stored.obsolete => knows
           /\ step # "dropped" => stored.id = meant \/ (stored.id = "" /\ meant = Gone)
           /\ step = "read" => stored.id = meant /\ stored.value = "read"
           /\ step = "dropped" /\ calm => meant = Gone \/ objects[meant] = Gone

LEMMA UpgradeInvInit == UpgradeInit => UpgradeInv
<1> SUFFICES ASSUME UpgradeInit PROVE UpgradeInv
  OBVIOUS
<1>1. PICK id \in IF upgrade.toId THEN {"n"} ELSE Object :
          stored = [version |-> 0, id |-> id, value |-> "old",
                    obsolete |-> upgrade.cleared # {}]
  BY DEF UpgradeInit
<1>2. UpgradeTypeOK
  BY <1>1 DEF UpgradeInit, UpgradeTypeOK
<1>3. /\ stored.version = 0 /\ stored.id = id
      /\ upgrade.cleared = {} => ~stored.obsolete
  BY <1>1
<1> QED BY <1>1, <1>2, <1>3 DEF UpgradeInit, UpgradeInv

\* What the upgrade makes of a state, with the id that it finds.
LEMMA UpgradedState ==
    ASSUME UpgradeInv, stored.version = 0, NEW id \in Object \cup {""},
           stored' = Upgraded(id)
    PROVE  /\ stored' \in [version : {0, 1}, id : Object \cup {"n", ""},
                           value : {"old", "empty", "read"}, obsolete : BOOLEAN]
           /\ stored'.version = 1 /\ stored'.id = id /\ ~stored'.obsolete
BY DEF UpgradeInv, UpgradeTypeOK, Upgraded

LEMMA UpgradeInvStep == UpgradeInv /\ [UpgradeNext]_upgradeVars => UpgradeInv'
<1> SUFFICES ASSUME UpgradeInv, [UpgradeNext]_upgradeVars PROVE UpgradeInv'
  OBVIOUS
<1>1. CASE Upgrade
  <2>1. PICK id \in Object \cup {""} :
            /\ stored' = Upgraded(id)
            /\ (id = meant' /\ meant' \in Object) \/ (id = "" /\ meant' = Gone)
    BY <1>1 DEF Upgrade, UpgradeInv, Named, GetID
  <2> QED BY <1>1, <2>1, UpgradedState DEF Upgrade, UpgradeInv, UpgradeTypeOK
<1>2. CASE UpgradeFails
  BY <1>2 DEF UpgradeFails, UpgradeInv, UpgradeTypeOK
<1>3. CASE RefreshUpgraded
  <2>1. CASE stored.id \in Object /\ objects[stored.id] # Gone
    <3>1. stored.id = meant
      BY <1>3, <2>1, ObjectAssumption DEF RefreshUpgraded, UpgradeInv, UpgradeTypeOK
    <3> QED BY <1>3, <2>1, <3>1 DEF RefreshUpgraded, UpgradeInv, UpgradeTypeOK
  <2>2. CASE ~(stored.id \in Object /\ objects[stored.id] # Gone)
    <3>1. meant = Gone \/ objects[meant] = Gone
      BY <1>3, <2>2 DEF RefreshUpgraded, UpgradeInv, UpgradeTypeOK
    <3> QED BY <1>3, <2>2, <3>1 DEF RefreshUpgraded, UpgradeInv, UpgradeTypeOK
  <2> QED BY <2>1, <2>2
<1>4. CASE OthersAct
  BY <1>4 DEF OthersAct, UpgradeInv, UpgradeTypeOK
<1>5. CASE UNCHANGED upgradeVars
  BY <1>5 DEF upgradeVars, UpgradeInv, UpgradeTypeOK
<1> QED BY <1>1, <1>2, <1>3, <1>4, <1>5 DEF UpgradeNext

\* Whatever others do between the upgrade of a state and its refresh, the
\* refresh reads the object that the state stood for, and drops the state only
\* when that object is gone; with any number of objects.
THEOREM UpgradesAreAsRead == UpgradeSpec => []UpgradedIsAsRead
<1>1. UpgradeInv => UpgradedIsAsRead
  BY DEF UpgradeInv, UpgradeTypeOK, UpgradedIsAsRead
<1> QED BY <1>1, UpgradeInvInit, UpgradeInvStep, PTL DEF UpgradeSpec

-----------------------------------------------------------------------------
(* One container: the status is the router's, and handlers only wait for   *)
(* it, so that little relates the two.  What is proved is that every way   *)
(* on, every way to give up and every death leaves a handler where it can  *)
(* be; what comes of it in the end is liveness, which TLC checks.          *)

KnownType == [there : BOOLEAN, tainted : BOOLEAN, running : BOOLEAN]

LEMMA ContainerTypeInit == ContainerInit => ContainerTypeOK
<1> SUFFICES ASSUME ContainerInit PROVE ContainerTypeOK
  OBVIOUS
<1>1. known \in [there : BOOLEAN, tainted : BOOLEAN, running : BOOLEAN]
  BY DEF ContainerInit, Unknown
<1>2. troubles \in 0 .. MaxTroubles
  BY TroublesAssumption DEF ContainerInit
<1> QED BY <1>1, <1>2 DEF ContainerInit, ContainerTypeOK, Stages

\* Troubles are counted up to their bound.
LEMMA TroubleCounted ==
    ASSUME ContainerTypeOK, Trouble \/ NoTrouble
    PROVE  troubles' \in 0 .. MaxTroubles
BY TroublesAssumption DEF Trouble, NoTrouble, ContainerTypeOK

\* What a handler that returns an error leaves in the state.
LEMMA ReturnTyped ==
    ASSUME ContainerTypeOK, ReturnsError
    PROVE  /\ known' \in KnownType /\ handler' = "none" /\ stage' = "none" /\ fresh' = FALSE
           /\ UNCHANGED <<wanted, tagged>>
<1>1. [Unknown EXCEPT !.there = TRUE, !.tainted = TRUE] \in KnownType
  BY DEF Unknown, KnownType
<1>2. [known EXCEPT !.running = (wanted = "running")] \in KnownType
  BY DEF ContainerTypeOK, KnownType
<1>3. known \in KnownType
  BY DEF ContainerTypeOK, KnownType
<1>4. handler \in {"create", "update"} \/ handler \notin {"create", "update"}
  OBVIOUS
<1> QED BY <1>1, <1>2, <1>3, <1>4 DEF ReturnsError, Returns

LEMMA ContainerTypeStep ==
    ContainerTypeOK /\ [ContainerNext]_containerVars => ContainerTypeOK'
<1> SUFFICES ASSUME ContainerTypeOK, [ContainerNext]_containerVars
             PROVE  ContainerTypeOK'
  OBVIOUS
<1> USE DEF ContainerTypeOK, Stages
<1>1. CASE ContainerCreate
  BY <1>1 DEF ContainerCreate, StartWanted, NoTrouble
<1>2. CASE ContainerUpdate \/ ContainerDelete
  BY <1>2, TroubleCounted DEF ContainerUpdate, ContainerDelete, stopContainer, NoTrouble
<1>3. CASE Stopped
  BY <1>3 DEF Stopped, Goto, AfterStop, NoTrouble
<1>4. CASE Updates
  BY <1>4, TroubleCounted, ReturnTyped DEF Updates, Goto, StartWanted, KnownType
<1>5. CASE Deletes
  <2>1. Unknown \in KnownType
    BY DEF Unknown, KnownType
  <2>2. CASE ReturnsError /\ UNCHANGED status
    BY <1>5, <2>2, TroubleCounted, ReturnTyped DEF Deletes, KnownType
  <2>3. CASE status' = "absent" /\ NoTrouble /\ Returns(Unknown)
    BY <2>1, <2>3 DEF Returns, NoTrouble, KnownType
  <2> QED BY <1>5, <2>2, <2>3 DEF Deletes
<1>6. CASE Starts
  BY <1>6, TroubleCounted DEF Starts, Goto
<1>7. CASE Started
  BY <1>7 DEF Started, Goto, NoTrouble
<1>8. CASE WaitEnds
  BY <1>8 DEF WaitEnds, Waits, Goto, AfterWait, AfterStop, NoTrouble
<1>9. CASE WaitGivesUp
  BY <1>9, TroubleCounted DEF WaitGivesUp, Waits, Goto, AfterWait, AfterStop
<1>10. CASE WaitPanics
  BY <1>10, TroubleCounted DEF WaitPanics, Returns
<1>11. CASE Reads
  <2>1. CASE ReturnsError /\ UNCHANGED status
    BY <1>11, <2>1, TroubleCounted, ReturnTyped DEF Reads, KnownType
  <2>2. CASE NoTrouble /\ Returns(IF status = "absent" THEN Unknown
                 ELSE [there |-> TRUE, tainted |-> FALSE, running |-> wanted = "running"])
    <3>1. known' \in KnownType
      BY <2>2 DEF Returns, Unknown, KnownType
    <3> QED BY <1>11, <2>2, <3>1 DEF Reads, Returns, NoTrouble, KnownType
  <2> QED BY <1>11, <2>1, <2>2 DEF Reads
<1>12. CASE ContainerRefresh
  <2>1. RunningRead \in BOOLEAN
    BY DEF RunningRead
  <2>2. known' \in KnownType
    BY <1>12, <2>1 DEF ContainerRefresh, Unknown, KnownType
  <2> QED BY <1>12, <2>2 DEF ContainerRefresh, NoTrouble, KnownType
<1>13. CASE RunEnds
  BY <1>13 DEF RunEnds
<1>14. CASE Reconfigured
  BY <1>14, TroubleCounted DEF Reconfigured
<1>15. CASE RouterWorks
  BY <1>15 DEF RouterWorks
<1>16. CASE RouterTroubles
  BY <1>16, TroubleCounted DEF RouterTroubles
<1>17. CASE UNCHANGED containerVars
  BY <1>17 DEF containerVars
<1> QED BY <1>1, <1>2, <1>3, <1>4, <1>5, <1>6, <1>7, <1>8, <1>9, <1>10, <1>11, <1>12,
           <1>13, <1>14, <1>15, <1>16, <1>17
        DEF ContainerNext, HandlerSteps, Runs

\* However the waits of a handler end, and whatever the router does meanwhile,
\* the container, the state and the handler are in a state of theirs: a create
\* has nothing to stop, and a delete never starts a container.
THEOREM ContainerTyped == ContainerSpec => []ContainerTypeOK
BY ContainerTypeInit, ContainerTypeStep, PTL DEF ContainerSpec

-----------------------------------------------------------------------------
(* A certificate: any sequence of creations, failed steps and removals.    *)

Device ==
    [there : BOOLEAN, signed : BOOLEAN, keyed : BOOLEAN, trusts : BOOLEAN,
     files : SUBSET {"cert", "key"}]

ImportSteps ==
    {"check-cert", "upload-cert", "check-key", "upload-key", "import-cert", "import-key",
     "look-up", "apply-settings"}

\* What the handler has done when it comes to a step.
StepsInv ==
    /\ pending \in ImportSteps \cup {"create", "sign", "read", "remove-file", "none"}
    /\ pending \in ImportSteps => making.how = "import"
    /\ pending = "create" => making.how # "import"
    /\ pending = "sign" => making.how = "sign"
    /\ pending = "upload-key" => making.key # "none"
    /\ pending \in {"sign", "apply-settings", "read"} => managed = "tainted" /\ device.there
    /\ pending \in {"sign", "read"} => (making.trust => device.trusts)
    /\ pending \in {"import-key", "look-up", "apply-settings", "read"} =>
           (making.how = "import" => device.there /\ device.signed)
    /\ pending \in {"look-up", "apply-settings", "read"} =>
           (making.how = "import" /\ making.key # "none" => device.keyed)
    /\ pending = "read" => (making.how = "sign" => device.signed /\ device.keyed)

\* No step of the handler follows one that has failed, but the removal of the
\* file, and success is reported by the last one.
FailureInv ==
    /\ pending \notin {"none", "remove-file"} => failures = {} /\ ~succeeded
    /\ pending = "none" => ~removal
    /\ pending \in {"check-cert", "upload-cert"} => ~removal

\* While there is an uploaded file, its removal is deferred, or the request
\* that imports the key is still to come, or something has failed.
FilesInv ==
    /\ "cert" \in device.files =>
           removal \/ failures \cap {"upload-cert", "remove-file"} # {}
    /\ "key" \in device.files =>
           \/ pending \in {"import-cert", "import-key"} /\ making.key # "none"
           \/ failures \cap {"upload-key", "import-cert", "import-key"} # {}

\* CertificateTypeOK of the creation under way.
CreationTypeOK ==
    /\ making \in Making /\ device \in Device
    /\ removal \in BOOLEAN /\ succeeded \in BOOLEAN
    /\ managed \in {"nothing", "created", "tainted"}

CreationInv ==
    CreationTypeOK /\ StepsInv /\ FailureInv /\ FilesInv /\ CertificateIsComplete

LEMMA CreationInvInit == CertificateInit => CreationInv
<1> SUFFICES ASSUME CertificateInit PROVE CreationInv
  OBVIOUS
<1>1. device \in Device /\ device.files = {}
  BY DEF CertificateInit, NoCertificate, Device
<1>2. CreationTypeOK
  BY <1>1 DEF CertificateInit, CreationTypeOK, Device
<1> QED BY <1>1, <1>2 DEF CertificateInit, CreationInv, StepsInv, FailureInv, FilesInv,
       CertificateIsComplete, ImportSteps

\* A step that fails, executed or not, may leave the file that it uploads or
\* was to import, and is not followed by another one.
LEMMA FailedStep ==
    ASSUME CreationInv, pending \notin {"none", "remove-file"},
           NEW result \in Device, Failed(result), UNCHANGED <<making, removal>>,
           "cert" \in result.files => "cert" \in device.files \/ pending = "upload-cert",
           "key" \in result.files => "key" \in device.files \/ pending = "upload-key"
    PROVE  CreationInv'
<1>1. /\ device' \in {device, result} /\ device' \in Device
      /\ failures' = failures \cup {pending}
      /\ pending' = IF removal THEN "remove-file" ELSE "none"
      /\ UNCHANGED <<making, removal, managed, succeeded>>
  BY DEF Failed, AtEnd, CreationInv, CreationTypeOK, Device
<1>2. ~succeeded
  BY DEF CreationInv, FailureInv
<1>3. CreationTypeOK'
  BY <1>1 DEF CreationInv, CreationTypeOK, Device
<1>4. StepsInv' /\ FailureInv' /\ CertificateIsComplete'
  BY <1>1, <1>2 DEF StepsInv, FailureInv, CertificateIsComplete, ImportSteps
<1>5. FilesInv'
  <2>1. "cert" \in device'.files => removal' \/ failures' \cap {"upload-cert", "remove-file"} # {}
    BY <1>1 DEF CreationInv, FilesInv
  <2>2. "key" \in device'.files => pending \in {"upload-key", "import-cert", "import-key"}
    <3>1. failures = {}
      BY DEF CreationInv, FailureInv
    <3> QED BY <1>1, <3>1 DEF CreationInv, FilesInv
  <2> QED BY <1>1, <2>1, <2>2 DEF FilesInv
<1> QED BY <1>3, <1>4, <1>5 DEF CreationInv

LEMMA CreationInvStep ==
    CreationInv /\ [CertificateNext]_certificateVars => CreationInv'
<1> SUFFICES ASSUME CreationInv, [CertificateNext]_certificateVars PROVE CreationInv'
  OBVIOUS
<1>0. device \in Device
  BY DEF CreationInv, CreationTypeOK, Device
<1> USE DEF CreationInv, CreationTypeOK, StepsInv, FailureInv, FilesInv,
        CertificateIsComplete, ImportSteps
<1>1. CASE CheckCert
  <2>2. /\ pending = "check-cert" /\ UNCHANGED making
        /\ \/ Failed(device) /\ UNCHANGED removal
           \/ /\ device' = device /\ removal' = removal /\ UNCHANGED failures
              /\ pending' = (IF making.cert = "content" THEN "upload-cert" ELSE "check-key")
              /\ UNCHANGED <<managed, succeeded>>
    BY <1>1 DEF CheckCert, Answered
  <2>3. CASE Failed(device) /\ UNCHANGED removal
    BY <1>0, <2>2, <2>3, FailedStep
  <2>4. CASE ~(Failed(device) /\ UNCHANGED removal)
    <3>1. CreationTypeOK'
      BY <1>0, <2>2, <2>4 DEF Device, Making
    <3>2. StepsInv'
      BY <1>0, <2>2, <2>4 DEF Device, Making
    <3>3. FailureInv'
      BY <1>0, <2>2, <2>4 DEF Device, Making
    <3>4. FilesInv'
      BY <1>0, <2>2, <2>4 DEF Device, Making
    <3>5. CertificateIsComplete'
      BY <1>0, <2>2, <2>4 DEF Device, Making
    <3> QED BY <3>1, <3>2, <3>3, <3>4, <3>5
  <2> QED BY <2>3, <2>4
<1>2. CASE UploadCert
  <2> DEFINE result == [device EXCEPT !.files = @ \cup {"cert"}]
  <2>1. /\ result \in Device
        /\ result.there = device.there
        /\ result.signed = device.signed
        /\ result.keyed = device.keyed
        /\ result.trusts = device.trusts
        /\ result.files = device.files \cup {"cert"}
    BY <1>0 DEF Device
  <2>2. /\ pending = "upload-cert" /\ UNCHANGED making
        /\ \/ Failed(result) /\ UNCHANGED removal
           \/ /\ device' = result /\ removal' = TRUE /\ UNCHANGED failures
              /\ pending' = "check-key"
              /\ UNCHANGED <<managed, succeeded>>
    BY <1>2 DEF UploadCert, Answered, Deferred
  <2> HIDE DEF result
  <2>3. CASE Failed(result) /\ UNCHANGED removal
    BY <2>1, <2>2, <2>3, FailedStep
  <2>4. CASE ~(Failed(result) /\ UNCHANGED removal)
    <3>1. CreationTypeOK'
      BY <2>1, <2>2, <2>4 DEF Device, Making
    <3>2. StepsInv'
      BY <2>1, <2>2, <2>4 DEF Device, Making
    <3>3. FailureInv'
      BY <2>1, <2>2, <2>4 DEF Device, Making
    <3>4. FilesInv'
      BY <2>1, <2>2, <2>4 DEF Device, Making
    <3>5. CertificateIsComplete'
      BY <2>1, <2>2, <2>4 DEF Device, Making
    <3> QED BY <3>1, <3>2, <3>3, <3>4, <3>5
  <2> QED BY <2>3, <2>4
<1>3. CASE CheckKey
  <2>2. /\ pending = "check-key" /\ UNCHANGED making
        /\ \/ Failed(device) /\ UNCHANGED removal
           \/ /\ device' = device /\ removal' = removal /\ UNCHANGED failures
              /\ pending' = (IF making.key = "content" THEN "upload-key" ELSE "import-cert")
              /\ UNCHANGED <<managed, succeeded>>
    BY <1>3 DEF CheckKey, Answered
  <2>3. CASE Failed(device) /\ UNCHANGED removal
    BY <1>0, <2>2, <2>3, FailedStep
  <2>4. CASE ~(Failed(device) /\ UNCHANGED removal)
    <3>1. CreationTypeOK'
      BY <1>0, <2>2, <2>4 DEF Device, Making
    <3>2. StepsInv'
      BY <1>0, <2>2, <2>4 DEF Device, Making
    <3>3. FailureInv'
      BY <1>0, <2>2, <2>4 DEF Device, Making
    <3>4. FilesInv'
      BY <1>0, <2>2, <2>4 DEF Device, Making
    <3>5. CertificateIsComplete'
      BY <1>0, <2>2, <2>4 DEF Device, Making
    <3> QED BY <3>1, <3>2, <3>3, <3>4, <3>5
  <2> QED BY <2>3, <2>4
<1>4. CASE UploadKey
  <2> DEFINE result == [device EXCEPT !.files = @ \cup {"key"}]
  <2>1. /\ result \in Device
        /\ result.there = device.there
        /\ result.signed = device.signed
        /\ result.keyed = device.keyed
        /\ result.trusts = device.trusts
        /\ result.files = device.files \cup {"key"}
    BY <1>0 DEF Device
  <2>2. /\ pending = "upload-key" /\ UNCHANGED making
        /\ \/ Failed(result) /\ UNCHANGED removal
           \/ /\ device' = result /\ removal' = removal /\ UNCHANGED failures
              /\ pending' = "import-cert"
              /\ UNCHANGED <<managed, succeeded>>
    BY <1>4 DEF UploadKey, Asks, Answered
  <2> HIDE DEF result
  <2>3. CASE Failed(result) /\ UNCHANGED removal
    BY <2>1, <2>2, <2>3, FailedStep
  <2>4. CASE ~(Failed(result) /\ UNCHANGED removal)
    <3>1. CreationTypeOK'
      BY <2>1, <2>2, <2>4 DEF Device, Making
    <3>2. StepsInv'
      BY <2>1, <2>2, <2>4 DEF Device, Making
    <3>3. FailureInv'
      BY <2>1, <2>2, <2>4 DEF Device, Making
    <3>4. FilesInv'
      BY <2>1, <2>2, <2>4 DEF Device, Making
    <3>5. CertificateIsComplete'
      BY <2>1, <2>2, <2>4 DEF Device, Making
    <3> QED BY <3>1, <3>2, <3>3, <3>4, <3>5
  <2> QED BY <2>3, <2>4
<1>5. CASE ImportCert
  <2> DEFINE result == [device EXCEPT !.there = TRUE, !.signed = TRUE]
  <2>1. /\ result \in Device
        /\ result.there = TRUE
        /\ result.signed = TRUE
        /\ result.keyed = device.keyed
        /\ result.trusts = device.trusts
        /\ result.files = device.files
    BY <1>0 DEF Device
  <2>2. /\ pending = "import-cert" /\ UNCHANGED making
        /\ \/ Failed(result) /\ UNCHANGED removal
           \/ /\ device' = result /\ removal' = removal /\ UNCHANGED failures
              /\ pending' = (IF making.key = "none" THEN "look-up" ELSE "import-key")
              /\ UNCHANGED <<managed, succeeded>>
    BY <1>5 DEF ImportCert, Asks, Answered
  <2> HIDE DEF result
  <2>3. CASE Failed(result) /\ UNCHANGED removal
    BY <2>1, <2>2, <2>3, FailedStep
  <2>4. CASE ~(Failed(result) /\ UNCHANGED removal)
    <3>1. CreationTypeOK'
      BY <2>1, <2>2, <2>4 DEF Device, Making
    <3>2. StepsInv'
      BY <2>1, <2>2, <2>4 DEF Device, Making
    <3>3. FailureInv'
      BY <2>1, <2>2, <2>4 DEF Device, Making
    <3>4. FilesInv'
      BY <2>1, <2>2, <2>4 DEF Device, Making
    <3>5. CertificateIsComplete'
      BY <2>1, <2>2, <2>4 DEF Device, Making
    <3> QED BY <3>1, <3>2, <3>3, <3>4, <3>5
  <2> QED BY <2>3, <2>4
<1>6. CASE ImportKey
  <2> DEFINE result == [device EXCEPT !.keyed = TRUE, !.files = @ \ {"key"}]
  <2>1. /\ result \in Device
        /\ result.there = device.there
        /\ result.signed = device.signed
        /\ result.keyed = TRUE
        /\ result.trusts = device.trusts
        /\ result.files = device.files \ {"key"}
    BY <1>0 DEF Device
  <2>2. /\ pending = "import-key" /\ UNCHANGED making
        /\ \/ Failed(result) /\ UNCHANGED removal
           \/ /\ device' = result /\ removal' = removal /\ UNCHANGED failures
              /\ pending' = "look-up"
              /\ UNCHANGED <<managed, succeeded>>
    BY <1>6 DEF ImportKey, Asks, Answered
  <2> HIDE DEF result
  <2>3. CASE Failed(result) /\ UNCHANGED removal
    BY <2>1, <2>2, <2>3, FailedStep
  <2>4. CASE ~(Failed(result) /\ UNCHANGED removal)
    <3>1. CreationTypeOK'
      BY <2>1, <2>2, <2>4 DEF Device, Making
    <3>2. StepsInv'
      BY <2>1, <2>2, <2>4 DEF Device, Making
    <3>3. FailureInv'
      BY <2>1, <2>2, <2>4 DEF Device, Making
    <3>4. FilesInv'
      BY <2>1, <2>2, <2>4 DEF Device, Making
    <3>5. CertificateIsComplete'
      BY <2>1, <2>2, <2>4 DEF Device, Making
    <3> QED BY <3>1, <3>2, <3>3, <3>4, <3>5
  <2> QED BY <2>3, <2>4
<1>7. CASE LookUp
  <2>2. /\ pending = "look-up" /\ UNCHANGED making
        /\ \/ Failed(device) /\ UNCHANGED removal
           \/ /\ device' = device /\ removal' = removal /\ UNCHANGED failures
              /\ pending' = (IF making.trust THEN "apply-settings" ELSE "read")
              /\ managed' = "tainted" /\ device.there /\ UNCHANGED succeeded
    BY <1>7 DEF LookUp, SettingsStep
  <2>3. CASE Failed(device) /\ UNCHANGED removal
    BY <1>0, <2>2, <2>3, FailedStep
  <2>4. CASE ~(Failed(device) /\ UNCHANGED removal)
    <3>1. CreationTypeOK'
      BY <1>0, <2>2, <2>4 DEF Device, Making
    <3>2. StepsInv'
      BY <1>0, <2>2, <2>4 DEF Device, Making
    <3>3. FailureInv'
      BY <1>0, <2>2, <2>4 DEF Device, Making
    <3>4. FilesInv'
      BY <1>0, <2>2, <2>4 DEF Device, Making
    <3>5. CertificateIsComplete'
      BY <1>0, <2>2, <2>4 DEF Device, Making
    <3> QED BY <3>1, <3>2, <3>3, <3>4, <3>5
  <2> QED BY <2>3, <2>4
<1>8. CASE ApplySettings
  <2> DEFINE result == [device EXCEPT !.trusts = TRUE]
  <2>1. /\ result \in Device
        /\ result.there = device.there
        /\ result.signed = device.signed
        /\ result.keyed = device.keyed
        /\ result.trusts = TRUE
        /\ result.files = device.files
    BY <1>0 DEF Device
  <2>2. /\ pending = "apply-settings" /\ UNCHANGED making
        /\ \/ Failed(result) /\ UNCHANGED removal
           \/ /\ device' = result /\ removal' = removal /\ UNCHANGED failures
              /\ pending' = "read"
              /\ UNCHANGED <<managed, succeeded>>
    BY <1>8 DEF ApplySettings, Asks, Answered
  <2> HIDE DEF result
  <2>3. CASE Failed(result) /\ UNCHANGED removal
    BY <2>1, <2>2, <2>3, FailedStep
  <2>4. CASE ~(Failed(result) /\ UNCHANGED removal)
    <3>1. CreationTypeOK'
      BY <2>1, <2>2, <2>4 DEF Device, Making
    <3>2. StepsInv'
      BY <2>1, <2>2, <2>4 DEF Device, Making
    <3>3. FailureInv'
      BY <2>1, <2>2, <2>4 DEF Device, Making
    <3>4. FilesInv'
      BY <2>1, <2>2, <2>4 DEF Device, Making
    <3>5. CertificateIsComplete'
      BY <2>1, <2>2, <2>4 DEF Device, Making
    <3> QED BY <3>1, <3>2, <3>3, <3>4, <3>5
  <2> QED BY <2>3, <2>4
<1>9. CASE CreateCertificate
  BY <1>0, <1>9 DEF CreateCertificate, Device
<1>10. CASE CreateTemplate
  <2> DEFINE result == [device EXCEPT !.there = TRUE, !.trusts = making.trust]
  <2>1. /\ result \in Device
        /\ result.there = TRUE
        /\ result.signed = device.signed
        /\ result.keyed = device.keyed
        /\ result.trusts = making.trust
        /\ result.files = device.files
    BY <1>0 DEF Device, Making
  <2>2. /\ pending = "create" /\ UNCHANGED making
        /\ \/ Failed(result) /\ UNCHANGED removal
           \/ /\ device' = result /\ removal' = removal /\ UNCHANGED failures
              /\ pending' = (IF making.how = "sign" THEN "sign" ELSE "read")
              /\ managed' = "tainted" /\ UNCHANGED succeeded
    BY <1>10 DEF CreateTemplate
  <2> HIDE DEF result
  <2>3. CASE Failed(result) /\ UNCHANGED removal
    BY <2>1, <2>2, <2>3, FailedStep
  <2>4. CASE ~(Failed(result) /\ UNCHANGED removal)
    <3>1. CreationTypeOK'
      BY <2>1, <2>2, <2>4 DEF Device, Making
    <3>2. StepsInv'
      BY <2>1, <2>2, <2>4 DEF Device, Making
    <3>3. FailureInv'
      BY <2>1, <2>2, <2>4 DEF Device, Making
    <3>4. FilesInv'
      BY <2>1, <2>2, <2>4 DEF Device, Making
    <3>5. CertificateIsComplete'
      BY <2>1, <2>2, <2>4 DEF Device, Making
    <3> QED BY <3>1, <3>2, <3>3, <3>4, <3>5
  <2> QED BY <2>3, <2>4
<1>11. CASE Sign
  <2> DEFINE result == [device EXCEPT !.signed = TRUE, !.keyed = TRUE]
  <2>1. /\ result \in Device
        /\ result.there = device.there
        /\ result.signed = TRUE
        /\ result.keyed = TRUE
        /\ result.trusts = device.trusts
        /\ result.files = device.files
    BY <1>0 DEF Device
  <2>2. /\ pending = "sign" /\ UNCHANGED making
        /\ \/ Failed(result) /\ UNCHANGED removal
           \/ /\ device' = result /\ removal' = removal /\ UNCHANGED failures
              /\ pending' = "read"
              /\ UNCHANGED <<managed, succeeded>>
    BY <1>11 DEF Sign, Asks, Answered
  <2> HIDE DEF result
  <2>3. CASE Failed(result) /\ UNCHANGED removal
    BY <2>1, <2>2, <2>3, FailedStep
  <2>4. CASE ~(Failed(result) /\ UNCHANGED removal)
    <3>1. CreationTypeOK'
      BY <2>1, <2>2, <2>4 DEF Device, Making
    <3>2. StepsInv'
      BY <2>1, <2>2, <2>4 DEF Device, Making
    <3>3. FailureInv'
      BY <2>1, <2>2, <2>4 DEF Device, Making
    <3>4. FilesInv'
      BY <2>1, <2>2, <2>4 DEF Device, Making
    <3>5. CertificateIsComplete'
      BY <2>1, <2>2, <2>4 DEF Device, Making
    <3> QED BY <3>1, <3>2, <3>3, <3>4, <3>5
  <2> QED BY <2>3, <2>4
<1>12. CASE ReadCertificate
  <2>2. /\ pending = "read" /\ UNCHANGED making
        /\ \/ Failed(device) /\ UNCHANGED removal
           \/ /\ device' = device /\ removal' = removal /\ UNCHANGED failures
              /\ pending' = (IF removal THEN "remove-file" ELSE "none")
              /\ managed' = "created" /\ succeeded' = TRUE
    BY <1>12 DEF ReadCertificate, AtEnd
  <2>3. CASE Failed(device) /\ UNCHANGED removal
    BY <1>0, <2>2, <2>3, FailedStep
  <2>4. CASE ~(Failed(device) /\ UNCHANGED removal)
    <3>1. CreationTypeOK'
      BY <1>0, <2>2, <2>4 DEF Device, Making
    <3>2. StepsInv'
      BY <1>0, <2>2, <2>4 DEF Device, Making
    <3>3. FailureInv'
      BY <1>0, <2>2, <2>4 DEF Device, Making
    <3>4. FilesInv'
      BY <1>0, <2>2, <2>4 DEF Device, Making
    <3>5. CertificateIsComplete'
      BY <1>0, <2>2, <2>4 DEF Device, Making
    <3> QED BY <3>1, <3>2, <3>3, <3>4, <3>5
  <2> QED BY <2>3, <2>4
<1>13. CASE RemoveFile
  <2> DEFINE result == [device EXCEPT !.files = @ \ {"cert"}]
  <2>1. /\ result \in Device
        /\ result.there = device.there
        /\ result.signed = device.signed
        /\ result.keyed = device.keyed
        /\ result.trusts = device.trusts
        /\ result.files = device.files \ {"cert"}
    BY <1>0 DEF Device
  <2>2. /\ pending = "remove-file" /\ pending' = "none" /\ removal' = FALSE
        /\ \/ device' = result /\ failures' = failures
           \/ device' \in {device, result} /\ failures' = failures \cup {pending}
        /\ UNCHANGED <<making, managed, succeeded>>
    BY <1>13 DEF RemoveFile
  <2> HIDE DEF result
  <2>3. CreationTypeOK'
    BY <1>0, <2>1, <2>2 DEF Device
  <2>4. StepsInv' /\ FailureInv'
    BY <2>2
  <2>5. FilesInv'
    BY <2>1, <2>2
  <2>6. CertificateIsComplete'
    BY <2>1, <2>2
  <2> QED BY <2>3, <2>4, <2>5, <2>6
<1>14. CASE DeleteCertificate
  BY <1>0, <1>14 DEF DeleteCertificate, NoCertificate, Device
<1>15. CASE DropCertificate
  BY <1>0, <1>15 DEF DropCertificate
<1>16. CASE UNCHANGED certificateVars
  BY <1>16 DEF certificateVars
<1> QED BY <1>1, <1>2, <1>3, <1>4, <1>5, <1>6, <1>7, <1>8, <1>9, <1>10, <1>11, <1>12,
           <1>13, <1>14, <1>15, <1>16
        DEF CertificateNext

\* What earlier creations have left is excused by what failed in them.
EarlierInv ==
    /\ earlier \in [files : SUBSET Files, failed : SUBSET Files]
    /\ earlier.files \subseteq earlier.failed

CertificateInv == CreationInv /\ EarlierInv

LEMMA FilesAreExcused ==
    ASSUME CreationInv, pending = "none"
    PROVE  \A f \in device.files : f \in Files /\ Failing(f)
<1>1. device.files \subseteq Files /\ ~removal
  BY DEF CreationInv, CreationTypeOK, Device, FailureInv, Files
<1> QED BY <1>1 DEF CreationInv, FilesInv, Files, Failing, StepsWith

LEMMA CertificateInvInit == CertificateInit => CertificateInv
BY CreationInvInit DEF CertificateInit, CertificateInv, EarlierInv

LEMMA CertificateInvStep ==
    CertificateInv /\ [CertificateNext]_certificateVars => CertificateInv'
<1> SUFFICES ASSUME CertificateInv, [CertificateNext]_certificateVars PROVE CertificateInv'
  OBVIOUS
<1>1. CreationInv'
  BY CreationInvStep DEF CertificateInv
<1>2. CASE CreateCertificate
  <2>1. /\ pending = "none"
        /\ earlier' = [files |-> earlier.files \cup device.files,
                       failed |-> earlier.failed \cup {f \in Files : Failing(f)}]
    BY <1>2 DEF CreateCertificate
  <2>2. device.files \subseteq {f \in Files : Failing(f)}
    BY <2>1, FilesAreExcused DEF CertificateInv
  <2> QED BY <1>1, <2>1, <2>2 DEF CertificateInv, EarlierInv
<1>3. CASE UNCHANGED earlier
  BY <1>1, <1>3 DEF CertificateInv, EarlierInv
<1>4. CreateCertificate \/ UNCHANGED earlier
  BY DEF CertificateNext, certificateVars, CheckCert, UploadCert, CheckKey, UploadKey,
     ImportCert, ImportKey, LookUp, ApplySettings, CreateTemplate, Sign, Asks,
     ReadCertificate, RemoveFile, DeleteCertificate, DropCertificate
<1> QED BY <1>2, <1>3, <1>4

LEMMA CertificatesAreTyped == ASSUME CertificateInv PROVE CertificateTypeOK
BY DEF CertificateInv, EarlierInv, CreationInv, CreationTypeOK, Device, Files,
   CertificateTypeOK

\* A creation that reports success, however many steps of earlier ones have
\* failed, executed or not, leaves a certificate with all that is configured,
\* and no key in a file that it has uploaded itself.  What earlier creations
\* have left in files is not in it: FilesAreRemoved says when there is any.
THEOREM CertificatesAreComplete == CertificateSpec => []CertificateIsComplete
<1>1. CertificateInv => CertificateIsComplete
  BY DEF CertificateInv, CreationInv
<1> QED BY <1>1, CertificateInvInit, CertificateInvStep, PTL DEF CertificateSpec

\* An uploaded file outlives its creation only when a request that concerns it
\* has failed in that creation, the last one or any before: the removal of the
\* certificate's file is deferred before anything else can fail.
THEOREM FilesAreRemoved == CertificateSpec => []FilesRemoved
<1>1. CertificateInv => FilesRemoved
  BY FilesAreExcused DEF CertificateInv, EarlierInv, FilesRemoved
<1> QED BY <1>1, CertificateInvInit, CertificateInvStep, PTL DEF CertificateSpec

-----------------------------------------------------------------------------
(* Items that are built in.  The two of the router are never lost, a third *)
(* is only ever made by a handler that creates, and what is set, made or   *)
(* read is an item or an entry of its kind.                                *)

\* An item that is there, the one that was made, one that is coming, an entry.
AnyItem == [there : {TRUE}, label : Label, value : {0, 1}, on : BOOLEAN]
MadeItem == [there : {TRUE}, label : Label, value : {0, 1}, on : {FALSE}]
ComingItem == [there : {FALSE}, label : {"c"}, value : {0, 1}, on : {FALSE}]
AnyEntry == [id : Slot \cup Label \cup {None}, tainted : BOOLEAN, label : Label,
             value : {0, 1}, on : BOOLEAN, virtual : BOOLEAN]

\* Only handlers that create have a third item.
ItemsInv ==
    /\ items = [i \in Slot |-> items[i]]
    /\ \A i \in BuiltIn : items[i] \in AnyItem
    /\ items[Made] \in {Free} \cup ComingItem \cup MadeItem
    /\ family \notin Creating => items[Made] = Free

\* A handler is under way exactly when it has a request to make.
HandlerInv ==
    /\ doing \in {"nothing", "create", "update", "delete"}
    /\ (doing = "nothing") = (at = "none")
    /\ at = "create" => family \in Creating

\* The id in the state is one under which the handlers look, but while a
\* creation looks for it, and after a creation that has failed.
Ids == {None} \cup (IF family = "service" THEN Label ELSE Slot)
Searching == {"find", "create", "await"}
IdInv ==
    /\ \/ entry.id \in Ids
       \/ doing = "create" /\ at \in Searching
       \/ doing \in {"nothing", "delete"} /\ entry.tainted
    /\ at \in Searching => family # "service"
    /\ doing = "delete" => at \notin {"find", "look-up", "set"}

BuiltInInv ==
    /\ family \in Family /\ wish \in Wishes(family)
    /\ ItemsInv /\ entry \in AnyEntry /\ HandlerInv /\ IdInv
    /\ mishaps \in 0 .. MaxMishaps

LEMMA WishTyped ==
    ASSUME NEW m \in Family, NEW w \in Wishes(m)
    PROVE  w \in [there : BOOLEAN, label : Label, value : {0, 1}, on : BOOLEAN]
<1>1. Labels(m) \subseteq Label
  BY DEF Labels, Label, OneOfAKind
<1>2. (IF m = "sniffer" THEN BOOLEAN ELSE {FALSE}) \subseteq BOOLEAN
  OBVIOUS
<1> QED BY <1>1, <1>2 DEF Wishes

LEMMA NoEntryTyped == NoEntry \in AnyEntry
BY DEF NoEntry, AnyEntry, None, Label

\* What is there has all that an item has.
LEMMA FoundItem ==
    ASSUME ItemsInv, NEW i \in Slot, items[i].there
    PROVE  /\ items[i] \in AnyItem
           /\ i = Made => items[i] \in MadeItem /\ family \in Creating
<1>1. CASE i \in BuiltIn
  BY <1>1 DEF ItemsInv, BuiltIn, Made
<1>2. CASE i = Made
  <2>1. Free.there = FALSE
    BY DEF Free
  <2>2. \A x \in ComingItem : x.there = FALSE
    BY DEF ComingItem
  <2>3. items[Made] \in MadeItem
    BY <1>2, <2>1, <2>2 DEF ItemsInv
  <2>4. family \in Creating
    BY <1>2, <2>1 DEF ItemsInv
  <2>5. MadeItem \subseteq AnyItem
    BY DEF MadeItem, AnyItem
  <2> QED BY <1>2, <2>3, <2>4, <2>5
<1> QED BY <1>1, <1>2 DEF Slot

LEMMA IdentifiedItem ==
    ASSUME ItemsInv, NEW id, NEW i \in Identified(id)
    PROVE  i \in Slot /\ items[i] \in AnyItem
<1>1. CASE family \in OneOfAKind
  <2>1. i = "*1"
    BY <1>1 DEF Identified, OneOfAKind
  <2> QED BY <2>1 DEF ItemsInv, BuiltIn, Slot
<1>2. CASE family = "service"
  <2>1. i \in Slot /\ items[i].there
    BY <1>2 DEF Identified, Bearing, OneOfAKind
  <2> QED BY <2>1, FoundItem
<1>3. CASE family \notin OneOfAKind /\ family # "service"
  <2>1. i \in Slot /\ items[i].there
    BY <1>3 DEF Identified
  <2> QED BY <2>1, FoundItem
<1> QED BY <1>1, <1>2, <1>3

\* One item is changed.
LEMMA ItemChanged ==
    ASSUME ItemsInv, NEW t, NEW item,
           t \in BuiltIn => item \in AnyItem,
           t = Made => item \in {Free} \cup ComingItem \cup MadeItem,
           t = Made /\ item # Free => family \in Creating,
           items' = [items EXCEPT ![t] = item], family' = family
    PROVE  ItemsInv'
<1>1. items' = [i \in Slot |-> IF i = t THEN item ELSE items[i]]
  BY DEF ItemsInv
<1>2. \A i \in Slot : items'[i] = IF i = t THEN item ELSE items[i]
  BY <1>1
<1>3. items' = [i \in Slot |-> items'[i]]
  BY <1>1
<1>4. \A i \in BuiltIn : items'[i] \in AnyItem
  BY <1>2 DEF ItemsInv, Slot
<1>5. items'[Made] = IF Made = t THEN item ELSE items[Made]
  BY <1>2 DEF Slot
<1>6. items'[Made] \in {Free} \cup ComingItem \cup MadeItem
  BY <1>5 DEF ItemsInv
<1>7. family' \notin Creating => items'[Made] = Free
  BY <1>5 DEF ItemsInv
<1> QED BY <1>3, <1>4, <1>6, <1>7 DEF ItemsInv

LEMMA ItemsKept ==
    ASSUME ItemsInv, UNCHANGED <<items, family>>
    PROVE  ItemsInv'
BY DEF ItemsInv

\* A set keeps the kind of the item, and does nothing to one that is not there.
LEMMA SetKeepsItems ==
    ASSUME ItemsInv, family \in Family, wish \in Wishes(family), Accepted,
           items' \in {items, AsSet}, family' = family
    PROVE  ItemsInv'
<1>1. CASE items' = items
  BY <1>1, ItemsKept
<1>2. CASE items' = AsSet
  <2> DEFINE item == [items[Target] EXCEPT !.value = wish.value,
                                           !.label = IF Renames THEN wish.label ELSE @]
  <2>1. items' = [items EXCEPT ![Target] = item]
    BY <1>2 DEF AsSet
  <2>2. wish.label \in Label /\ wish.value \in {0, 1}
    BY WishTyped
  <2>3. ASSUME Target \in Slot PROVE item \in AnyItem
    <3>1. items[Target] \in AnyItem
      BY <2>3, FoundItem DEF Accepted
    <3> QED BY <2>2, <3>1 DEF AnyItem
  <2>4. ASSUME Target = Made PROVE item \in MadeItem /\ family \in Creating
    <3>1. items[Target] \in MadeItem /\ family \in Creating
      BY <2>4, FoundItem DEF Accepted, Slot
    <3> QED BY <2>2, <3>1 DEF MadeItem
  <2> HIDE DEF item
  <2> QED BY <2>1, <2>3, <2>4, ItemChanged DEF Slot
<1> QED BY <1>1, <1>2

\* What the ends of a handler leave in the state.
LEMMA StoresTyped ==
    ASSUME NEW e \in AnyEntry, Stores(e)
    PROVE  entry' \in AnyEntry /\ doing' = "nothing" /\ at' = "none"
BY NoEntryTyped DEF Stores

LEMMA SucceedsTyped ==
    ASSUME NEW e \in AnyEntry, Succeeds(e)
    PROVE  entry' \in AnyEntry /\ doing' = "nothing" /\ at' = "none"
<1>1. [e EXCEPT !.tainted = FALSE] \in AnyEntry
  BY DEF AnyEntry
<1> QED BY <1>1, StoresTyped DEF Succeeds

LEMMA FailsTyped ==
    ASSUME NEW e \in AnyEntry, FailsWith(e)
    PROVE  entry' \in AnyEntry /\ doing' = "nothing" /\ at' = "none"
<1>1. [e EXCEPT !.tainted = TRUE] \in AnyEntry
  BY DEF AnyEntry
<1> QED BY <1>1, StoresTyped DEF FailsWith

LEMMA ReadTyped ==
    ASSUME ItemsInv, entry \in AnyEntry, NEW id, NEW i \in Identified(id)
    PROVE  ReadEntry(i) \in AnyEntry
<1>1. i \in Slot /\ items[i] \in AnyItem
  BY IdentifiedItem
<1>2. items[i].label \in Label /\ items[i].value \in {0, 1}
  BY <1>1 DEF AnyItem
<1>3. "*1" \in Slot
  BY DEF Slot, BuiltIn
<1> QED BY <1>1, <1>2, <1>3 DEF ReadEntry, AnyEntry

LEMMA IdChanged ==
    ASSUME entry \in AnyEntry, NEW id \in Slot \cup Label \cup {None}
    PROVE  [entry EXCEPT !.id = id] \in AnyEntry
BY DEF AnyEntry

LEMMA PlannedTyped ==
    ASSUME BuiltInInv, NEW id \in Slot \cup Label \cup {None}
    PROVE  PlannedEntry(id) \in AnyEntry
BY WishTyped DEF BuiltInInv, PlannedEntry, AnyEntry

LEMMA MishapCounted ==
    ASSUME BuiltInInv, Mishap \/ NoMishap
    PROVE  mishaps' \in 0 .. MaxMishaps
BY MishapsAssumption DEF Mishap, NoMishap, BuiltInInv

LEMMA ContinuesTyped ==
    ASSUME HandlerInv, at # "none", family' = family,
           NEW s, s # "none", Then(s), s = "create" => family \in Creating
    PROVE  HandlerInv'
BY DEF HandlerInv, Then

LEMMA EndsTyped ==
    ASSUME doing' = "nothing", at' = "none"
    PROVE  HandlerInv'
BY DEF HandlerInv

LEMMA BuiltInInvInit == BuiltInInit => BuiltInInv
<1> SUFFICES ASSUME BuiltInInit PROVE BuiltInInv
  OBVIOUS
<1>1. ItemsInv
  <2>1. \A i \in Slot : items[i] = CASE i = "*1" -> AnItem("a", 0, FALSE)
                                 [] i = "*2" -> AnItem("b", 0, FALSE)
                                 [] OTHER -> Free
    BY DEF BuiltInInit
  <2>2. AnItem("a", 0, FALSE) \in AnyItem /\ AnItem("b", 0, FALSE) \in AnyItem
    BY DEF AnItem, AnyItem, Label
  <2>3. items["*1"] = AnItem("a", 0, FALSE) /\ items["*2"] = AnItem("b", 0, FALSE)
        /\ items[Made] = Free
    BY <2>1 DEF Slot, BuiltIn, Made
  <2>4. items = [i \in Slot |-> items[i]]
    BY DEF BuiltInInit
  <2> QED BY <2>2, <2>3, <2>4 DEF ItemsInv, BuiltIn
<1>2. mishaps \in 0 .. MaxMishaps
  BY MishapsAssumption DEF BuiltInInit
<1>3. HandlerInv
  BY DEF BuiltInInit, HandlerInv
<1>4. IdInv
  BY DEF BuiltInInit, IdInv, Ids, NoEntry, Searching
<1> QED BY <1>1, <1>2, <1>3, <1>4, NoEntryTyped DEF BuiltInInit, BuiltInInv

\* The requests of handlers.
LEMMA RequestsKeepItems ==
    ASSUME BuiltInInv, BuiltInRequests PROVE ItemsInv'
<1> USE DEF Stays
<1>0. ItemsInv /\ family \in Family /\ wish \in Wishes(family) /\ HandlerInv
  BY DEF BuiltInInv
<1>1. CASE FindItem \/ AwaitItem \/ LookUpItem \/ ReadItem \/ LookUpToRemove
  <2>1. UNCHANGED <<items, family>>
    BY <1>1 DEF FindItem, AwaitItem, LookUpItem, ReadItem, LookUpToRemove
  <2> QED BY <1>0, <2>1, ItemsKept
<1>2. CASE CreateItemOf
  <2> DEFINE made == AnItem(wish.label, wish.value, FALSE)
             coming == Coming(wish.value)
  <2>1. family \in Creating /\ family' = family
    BY <1>0, <1>2 DEF CreateItemOf, HandlerInv
  <2>2. wish.label \in Label /\ wish.value \in {0, 1}
    BY <1>0, WishTyped
  <2>3. made \in MadeItem
    BY <2>2 DEF AnItem, MadeItem
  <2>4. coming \in ComingItem
    BY <2>2 DEF Coming, AnItem, ComingItem
  <2>5. \/ items' = items
        \/ items' = [items EXCEPT ![Made] = made]
        \/ items' = [items EXCEPT ![Made] = coming]
    BY <1>2 DEF CreateItemOf
  <2> HIDE DEF made, coming
  <2>6. Made \notin BuiltIn
    BY DEF Made, BuiltIn
  <2>7. CASE items' = items
    BY <1>0, <2>1, <2>7, ItemsKept
  <2>8. CASE items' = [items EXCEPT ![Made] = made]
    BY <1>0, <2>1, <2>3, <2>6, <2>8, ItemChanged
  <2>9. CASE items' = [items EXCEPT ![Made] = coming]
    BY <1>0, <2>1, <2>4, <2>6, <2>9, ItemChanged
  <2> QED BY <2>5, <2>7, <2>8, <2>9
<1>3. CASE SetItemOf
  <2>1. family' = family
    BY <1>3 DEF SetItemOf
  <2>2. CASE Accepted /\ items' \in {items, AsSet}
    BY <1>0, <2>1, <2>2, SetKeepsItems
  <2>3. CASE items' = items
    BY <1>0, <2>1, <2>3, ItemsKept
  <2> QED BY <1>3, <2>2, <2>3 DEF SetItemOf
<1>4. ASSUME NEW on \in BOOLEAN, SnifferIs(on), family' = family PROVE ItemsInv'
  <2> DEFINE item == [items["*1"] EXCEPT !.on = on]
  <2>1. "*1" \in BuiltIn /\ "*1" # Made
    BY DEF BuiltIn, Made
  <2>2. item \in AnyItem
    BY <1>0, <2>1 DEF ItemsInv, AnyItem
  <2>3. items' = items \/ items' = [items EXCEPT !["*1"] = item]
    BY <1>4 DEF SnifferIs
  <2> HIDE DEF item
  <2>4. CASE items' = items
    BY <1>0, <1>4, <2>4, ItemsKept
  <2>5. CASE items' = [items EXCEPT !["*1"] = item]
    BY <1>0, <1>4, <2>1, <2>2, <2>5, ItemChanged
  <2> QED BY <2>3, <2>4, <2>5
<1>5. CASE StopSniffer
  BY <1>4, <1>5 DEF StopSniffer
<1>6. CASE SetSnifferState
  <2>1. wish.on \in BOOLEAN
    BY <1>0, WishTyped
  <2> QED BY <1>4, <1>6, <2>1 DEF SetSnifferState
<1>7. CASE ResetDns
  <2> DEFINE item == [items["*1"] EXCEPT !.value = 0]
  <2>1. "*1" \in BuiltIn /\ "*1" # Made
    BY DEF BuiltIn, Made
  <2>2. item \in AnyItem
    BY <1>0, <2>1 DEF ItemsInv, AnyItem
  <2>3. family' = family /\ (items' = items \/ items' = [items EXCEPT !["*1"] = item])
    BY <1>7 DEF ResetDns
  <2> HIDE DEF item
  <2>4. CASE items' = items
    BY <1>0, <2>3, <2>4, ItemsKept
  <2>5. CASE items' = [items EXCEPT !["*1"] = item]
    BY <1>0, <2>1, <2>2, <2>3, <2>5, ItemChanged
  <2> QED BY <2>3, <2>4, <2>5
<1>8. CASE RemoveItem
  <2>1. family' = family
    BY <1>8 DEF RemoveItem
  <2>2. items' = items \/ (aim = Made /\ items' = [items EXCEPT ![aim] = Free])
    BY <1>8 DEF RemoveItem
  <2>3. Made \notin BuiltIn
    BY DEF Made, BuiltIn
  <2>4. CASE items' = items
    BY <1>0, <2>1, <2>4, ItemsKept
  <2>5. CASE aim = Made /\ items' = [items EXCEPT ![aim] = Free]
    BY <1>0, <2>1, <2>3, <2>5, ItemChanged
  <2> QED BY <2>2, <2>4, <2>5
<1> QED BY <1>1, <1>2, <1>3, <1>5, <1>6, <1>7, <1>8 DEF BuiltInRequests

LEMMA RequestsKeepHandler ==
    ASSUME BuiltInInv, BuiltInRequests
    PROVE  HandlerInv' /\ entry' \in AnyEntry /\ mishaps' \in 0 .. MaxMishaps
<1> DEFINE Typed == HandlerInv' /\ entry' \in AnyEntry
<1>0. ItemsInv /\ entry \in AnyEntry /\ HandlerInv /\ family' = family
  BY DEF BuiltInInv, BuiltInRequests, Stays, FindItem, AwaitItem, LookUpItem, ReadItem,
         LookUpToRemove, CreateItemOf, SetItemOf, StopSniffer, SetSnifferState, ResetDns,
         RemoveItem
<1>1. ASSUME NEW s, s # "none", at # "none", Then(s), s # "create", entry' \in AnyEntry
      PROVE  Typed
  BY <1>0, <1>1, ContinuesTyped
<1>2. ASSUME Fails PROVE Typed
  BY <1>0, <1>2, FailsTyped, EndsTyped DEF Fails
<1>3. ASSUME NEW id \in Slot \cup Label \cup {None}, FailsWith([entry EXCEPT !.id = id])
      PROVE  Typed
  BY <1>0, <1>3, IdChanged, FailsTyped, EndsTyped
<1>4. ASSUME NEW e \in AnyEntry, Succeeds(e) PROVE Typed
  BY <1>4, SucceedsTyped, EndsTyped
<1>5. ASSUME EntryGone PROVE Typed
  BY <1>5, NoEntryTyped, EndsTyped DEF EntryGone
<1>6. None \in Slot \cup Label \cup {None} /\ Made \in Slot
  BY DEF Slot
<1>7. CASE FindItem
  <2>2. ASSUME family = "wireless", Then("create"), UNCHANGED entry PROVE Typed
    <3>1. HandlerInv'
      BY <1>0, <1>7, <2>2, ContinuesTyped DEF FindItem, Creating
    <3> QED BY <1>0, <2>2, <3>1
  <2>3. ASSUME FailsWith([entry EXCEPT !.id = None]) PROVE Typed
    BY <1>3, <1>6, <2>3
  <2>4. ASSUME NEW i \in Bearing(wish.label), entry' = [entry EXCEPT !.id = FoundId(i)],
               Then(IF family = "w60g" THEN "set" ELSE "look-up")
        PROVE  Typed
    <3>1. entry' \in AnyEntry
      BY <1>0, <2>4, IdChanged DEF Bearing, FoundId
    <3> QED BY <1>1, <1>7, <2>4, <3>1 DEF FindItem
  <2>5. Typed
    BY <1>2, <1>7, <2>2, <2>3, <2>4 DEF FindItem
  <2> QED BY <1>7, <2>5, MishapCounted DEF FindItem
<1>8. CASE CreateItemOf
  <2>1. ASSUME Fails PROVE Typed
    BY <1>2, <2>1
  <2>2. ASSUME entry' = [entry EXCEPT !.id = IF family = "key" THEN None ELSE Made],
               Then(IF family = "key" THEN "await" ELSE "read")
        PROVE  Typed
    <3>1. entry' \in AnyEntry
      BY <1>0, <1>6, <2>2, IdChanged
    <3> QED BY <1>1, <1>8, <2>2, <3>1 DEF CreateItemOf
  <2>3. ASSUME Then("await"), UNCHANGED entry PROVE Typed
    BY <1>0, <1>1, <1>8, <2>3 DEF CreateItemOf
  <2>4. Typed
    BY <1>8, <2>1, <2>2, <2>3 DEF CreateItemOf
  <2> QED BY <1>8, <2>4, MishapCounted DEF CreateItemOf
<1>9. CASE AwaitItem
  <2>1. ASSUME NEW i \in Bearing(wish.label), entry' = [entry EXCEPT !.id = i], Then("read")
        PROVE  Typed
    <3>1. entry' \in AnyEntry
      BY <1>0, <2>1, IdChanged DEF Bearing
    <3> QED BY <1>1, <1>9, <2>1, <3>1 DEF AwaitItem
  <2>2. Typed
    BY <1>2, <1>9, <2>1 DEF AwaitItem
  <2> QED BY <1>9, <2>2, MishapCounted DEF AwaitItem
<1>10. CASE LookUpItem
  <2>1. Typed
    BY <1>0, <1>1, <1>2, <1>3, <1>6, <1>10 DEF LookUpItem
  <2> QED BY <1>10, <2>1, MishapCounted DEF LookUpItem
<1>11. CASE SetItemOf
  <2>1. Typed
    BY <1>0, <1>1, <1>2, <1>4, <1>11 DEF SetItemOf
  <2> QED BY <1>11, <2>1, MishapCounted DEF SetItemOf
<1>12. CASE StopSniffer
  <2>1. Typed
    BY <1>0, <1>1, <1>4, <1>12, NoEntryTyped DEF StopSniffer
  <2> QED BY <1>12, <2>1, MishapCounted DEF StopSniffer, SnifferIs
<1>13. CASE SetSnifferState
  <2>1. Typed
    BY <1>0, <1>1, <1>13 DEF SetSnifferState
  <2> QED BY <1>13, <2>1, MishapCounted DEF SetSnifferState, SnifferIs
<1>14. CASE ReadItem
  <2>1. ASSUME NEW i \in Identified(entry.id), entry' = ReadEntry(i), Then("switch")
        PROVE  Typed
    <3>1. entry' \in AnyEntry
      BY <1>0, <2>1, ReadTyped
    <3>2. at # "none"
      BY <1>14 DEF ReadItem
    <3> QED BY <1>1, <2>1, <3>1, <3>2
  <2>2. ASSUME NEW i \in Identified(entry.id), Succeeds(ReadEntry(i))
        PROVE  Typed
    BY <1>0, <1>4, <2>2, ReadTyped
  <2>3. Typed
    BY <1>2, <1>4, <1>14, <2>1, <2>2, NoEntryTyped DEF ReadItem
  <2> QED BY <1>14, <2>3, MishapCounted DEF ReadItem
<1>15. CASE ResetDns
  <2>1. Typed
    BY <1>2, <1>5, <1>15 DEF ResetDns
  <2> QED BY <1>15, <2>1, MishapCounted DEF ResetDns
<1>16. CASE LookUpToRemove
  <2>1. Typed
    BY <1>0, <1>1, <1>2, <1>5, <1>16 DEF LookUpToRemove
  <2> QED BY <1>16, <2>1, MishapCounted DEF LookUpToRemove
<1>17. CASE RemoveItem
  <2>1. Typed
    BY <1>2, <1>5, <1>17 DEF RemoveItem
  <2> QED BY <1>17, <2>1, MishapCounted DEF RemoveItem
<1> HIDE DEF Typed
<1> QED BY <1>7, <1>8, <1>9, <1>10, <1>11, <1>12, <1>13, <1>14, <1>15, <1>16, <1>17
        DEF BuiltInRequests

\* How the id fares when a handler ends, and when it goes on.
LEMMA StoresId ==
    ASSUME NEW e \in AnyEntry, Stores(e), e.id \in Ids \/ e.tainted, family' = family
    PROVE  IdInv'
<1>1. Ids' = Ids
  BY DEF Ids
<1>2. /\ entry'.id \in Ids \/ entry'.tainted
      /\ doing' = "nothing" /\ at' = "none"
  BY DEF Stores, NoEntry, Ids
<1> QED BY <1>1, <1>2 DEF IdInv, Searching

LEMMA SucceedsId ==
    ASSUME NEW e \in AnyEntry, Succeeds(e), e.id \in Ids, family' = family
    PROVE  IdInv'
<1> DEFINE t == [e EXCEPT !.tainted = FALSE]
<1>1. t \in AnyEntry /\ t.id = e.id
  BY DEF AnyEntry
<1>2. Stores(t)
  BY DEF Succeeds
<1> HIDE DEF t
<1> QED BY <1>1, <1>2, StoresId

LEMMA FailsId ==
    ASSUME NEW e \in AnyEntry, FailsWith(e), family' = family,
           \/ doing = "create" \/ e.id \in Ids \/ e.tainted
    PROVE  IdInv'
<1> DEFINE t == [e EXCEPT !.tainted = TRUE]
<1>1. t \in AnyEntry /\ t.tainted
  BY DEF AnyEntry
<1>2. Stores(IF doing = "create" THEN t ELSE e)
  BY DEF FailsWith
<1> HIDE DEF t
<1> QED BY <1>1, <1>2, StoresId

LEMMA GoneId == EntryGone /\ family' = family => IdInv'
BY DEF EntryGone, IdInv, Ids, NoEntry, Searching

LEMMA FoundUnderId ==
    ASSUME NEW s, s \notin Searching, Then(s), family' = family, entry'.id \in Ids,
           doing = "delete" => s \notin {"look-up", "set"}
    PROVE  IdInv'
<1>1. Ids' = Ids
  BY DEF Ids
<1> QED BY <1>1 DEF IdInv, Then, Searching

LEMMA SameId ==
    ASSUME IdInv, NEW s, Then(s), UNCHANGED <<entry, family>>,
           s \in Searching => family # "service",
           s \in Searching \/ at \notin Searching,
           doing = "delete" => s \notin {"find", "look-up", "set"}
    PROVE  IdInv'
<1>1. Ids' = Ids
  BY DEF Ids
<1> QED BY <1>1 DEF IdInv, Then, Searching

LEMMA IdentifiedId ==
    ASSUME ItemsInv, entry \in AnyEntry, NEW id, NEW i \in Identified(id)
    PROVE  ReadEntry(i).id \in Ids
<1>1. i \in Slot /\ items[i].label \in Label
  BY IdentifiedItem DEF AnyItem
<1>2. "*1" \in Slot
  BY DEF Slot, BuiltIn
<1>3. ReadEntry(i).id = IF family = "service" THEN items[i].label
                         ELSE IF family \in OneOfAKind THEN "*1" ELSE i
  BY DEF ReadEntry, AnyEntry
<1> QED BY <1>1, <1>2, <1>3 DEF Ids, OneOfAKind

\* The requests keep the id.
LEMMA RequestsKeepIds ==
    ASSUME BuiltInInv, BuiltInRequests PROVE IdInv'
<1>0. /\ ItemsInv /\ entry \in AnyEntry /\ HandlerInv /\ IdInv
      /\ family \in Family /\ wish \in Wishes(family) /\ family' = family
  BY DEF BuiltInInv, BuiltInRequests, Stays, FindItem, AwaitItem, LookUpItem, ReadItem,
         LookUpToRemove, CreateItemOf, SetItemOf, StopSniffer, SetSnifferState, ResetDns,
         RemoveItem
<1>1. None \in Ids
  BY DEF Ids
<1>2. ASSUME Fails, at # "none" PROVE IdInv'
  <2>1. doing = "create" \/ entry.id \in Ids \/ entry.tainted
    BY <1>0 DEF IdInv
  <2> QED BY <1>0, <1>2, <2>1, FailsId DEF Fails
<1>3. ASSUME FailsWith([entry EXCEPT !.id = None]) PROVE IdInv'
  <2> DEFINE e == [entry EXCEPT !.id = None]
  <2>1. e \in AnyEntry /\ e.id = None
    BY <1>0 DEF AnyEntry
  <2>2. FailsWith(e)
    BY <1>3
  <2> HIDE DEF e
  <2> QED BY <1>0, <1>1, <2>1, <2>2, FailsId
<1>4. ASSUME NEW i \in Identified(entry.id), Succeeds(ReadEntry(i)) PROVE IdInv'
  BY <1>0, <1>4, IdentifiedId, ReadTyped, SucceedsId
<1>5. ASSUME Succeeds(NoEntry) PROVE IdInv'
  BY <1>0, <1>1, <1>5, NoEntryTyped, SucceedsId DEF NoEntry
<1>6. ASSUME NEW i \in Slot, family # "service", entry' = [entry EXCEPT !.id = i]
      PROVE  entry'.id \in Ids
  BY <1>0, <1>6 DEF Ids, AnyEntry
<1>7. CASE FindItem
  <2>1. at = "find" /\ family # "service" /\ doing # "delete"
    BY <1>0, <1>7 DEF FindItem, IdInv, Searching
  <2>2. ASSUME family = "wireless", Then("create"), UNCHANGED entry PROVE IdInv'
    BY <1>0, <2>1, <2>2, SameId DEF Searching
  <2>3. ASSUME NEW i \in Bearing(wish.label), entry' = [entry EXCEPT !.id = FoundId(i)],
               Then(IF family = "w60g" THEN "set" ELSE "look-up")
        PROVE  IdInv'
    <3>1. entry'.id \in Ids
      BY <1>6, <2>1, <2>3 DEF Bearing, FoundId
    <3> QED BY <1>0, <2>1, <2>3, <3>1, FoundUnderId DEF Searching
  <2> QED BY <1>2, <1>3, <1>7, <2>1, <2>2, <2>3 DEF FindItem
<1>8. CASE CreateItemOf
  <2>1. at = "create" /\ family # "service"
    BY <1>0, <1>8 DEF CreateItemOf, IdInv, Searching
  <2>2. ASSUME entry' = [entry EXCEPT !.id = IF family = "key" THEN None ELSE Made],
               Then(IF family = "key" THEN "await" ELSE "read")
        PROVE  IdInv'
    <3>1. CASE family = "key"
      <4>1. entry'.id = None
        BY <1>0, <2>2, <3>1 DEF AnyEntry
      <4> QED BY <1>0, <1>1, <2>1, <2>2, <3>1, <4>1 DEF IdInv, Then, Searching, Ids
    <3>2. CASE family # "key"
      <4>1. entry'.id \in Ids
        BY <1>6, <2>1, <2>2, <3>2 DEF Slot
      <4> QED BY <1>0, <2>2, <3>2, <4>1, FoundUnderId DEF Searching
    <3> QED BY <3>1, <3>2
  <2>3. ASSUME Then("await"), UNCHANGED entry PROVE IdInv'
    BY <1>0, <2>1, <2>3, SameId DEF Searching
  <2> QED BY <1>2, <1>8, <2>1, <2>2, <2>3 DEF CreateItemOf
<1>9. CASE AwaitItem
  <2>1. at = "await" /\ family # "service"
    BY <1>0, <1>9 DEF AwaitItem, IdInv, Searching
  <2>2. ASSUME NEW i \in Bearing(wish.label), entry' = [entry EXCEPT !.id = i], Then("read")
        PROVE  IdInv'
    <3>1. entry'.id \in Ids
      BY <1>6, <2>1, <2>2 DEF Bearing
    <3> QED BY <1>0, <2>2, <3>1, FoundUnderId DEF Searching
  <2> QED BY <1>2, <1>9, <2>1, <2>2 DEF AwaitItem
<1>10. CASE LookUpItem
  <2>1. at = "look-up" /\ doing # "delete"
    BY <1>0, <1>10 DEF LookUpItem, IdInv
  <2>2. ASSUME Then("set"), UNCHANGED entry PROVE IdInv'
    BY <1>0, <2>1, <2>2, SameId DEF Searching
  <2> QED BY <1>2, <1>3, <1>10, <2>1, <2>2 DEF LookUpItem
<1>11. CASE SetItemOf
  <2>1. at = "set" /\ doing \notin {"delete", "nothing"}
    BY <1>0, <1>11 DEF SetItemOf, IdInv, HandlerInv
  <2>2. entry.id \in Ids
    BY <1>0, <2>1 DEF IdInv, Searching
  <2>3. ASSUME Then("read"), UNCHANGED entry PROVE IdInv'
    BY <1>0, <2>1, <2>3, SameId DEF Searching
  <2>4. ASSUME Succeeds(entry) PROVE IdInv'
    BY <1>0, <2>2, <2>4, SucceedsId
  <2> QED BY <1>2, <1>11, <2>1, <2>3, <2>4 DEF SetItemOf
<1>12. CASE StopSniffer
  <2>1. at = "stop"
    BY <1>12 DEF StopSniffer
  <2>2. ASSUME doing # "delete", Then("set"), UNCHANGED entry PROVE IdInv'
    BY <1>0, <2>1, <2>2, SameId DEF Searching
  <2> QED BY <1>5, <1>12, <2>2 DEF StopSniffer
<1>13. CASE SetSnifferState
  <2>1. at = "switch" /\ Then("read-again") /\ UNCHANGED entry
    BY <1>13 DEF SetSnifferState
  <2> QED BY <1>0, <2>1, SameId DEF Searching
<1>14. CASE ReadItem
  <2>1. at \in {"read", "read-again"}
    BY <1>14 DEF ReadItem
  <2>2. ASSUME NEW i \in Identified(entry.id), entry' = ReadEntry(i), Then("switch")
        PROVE  IdInv'
    <3>1. entry'.id \in Ids
      BY <1>0, <2>2, IdentifiedId
    <3> QED BY <1>0, <2>2, <3>1, FoundUnderId DEF Searching
  <2> QED BY <1>2, <1>4, <1>5, <1>14, <2>1, <2>2 DEF ReadItem
<1>15. CASE ResetDns
  BY <1>0, <1>2, <1>15, GoneId DEF ResetDns
<1>16. CASE LookUpToRemove
  <2>1. ASSUME at = "look-up-to-remove", Then("remove"), UNCHANGED entry PROVE IdInv'
    BY <1>0, <2>1, SameId DEF Searching
  <2> QED BY <1>0, <1>2, <1>16, <2>1, GoneId DEF LookUpToRemove
<1>17. CASE RemoveItem
  BY <1>0, <1>2, <1>17, GoneId DEF RemoveItem
<1> QED BY <1>7, <1>8, <1>9, <1>10, <1>11, <1>12, <1>13, <1>14, <1>15, <1>16, <1>17
        DEF BuiltInRequests

\* The runs of Terraform keep it.
LEMMA RunsKeepIds ==
    ASSUME BuiltInInv, BuiltInRuns PROVE IdInv'
<1>0. /\ ItemsInv /\ entry \in AnyEntry /\ HandlerInv /\ IdInv
      /\ family \in Family /\ wish \in Wishes(family) /\ family' = family
  BY DEF BuiltInInv, BuiltInRuns, Stays, RefreshBuiltIn, RunOver, CreateBuiltIn,
         UpdateBuiltIn, DeleteBuiltIn
<1>1. None \in Ids /\ Ids' = Ids
  BY <1>0 DEF Ids
<1>2. wish.label \in Label
  BY <1>0, WishTyped
<1>3. ASSUME NEW id PROVE PlannedEntry(id).id = id
  BY DEF PlannedEntry
<1>4. CASE RefreshBuiltIn
  <2>1. doing = "nothing" /\ UNCHANGED <<doing, at>> /\ at = "none"
    BY <1>0, <1>4 DEF RefreshBuiltIn, HandlerInv
  <2>2. ASSUME NEW i \in Identified(entry.id)
        PROVE  [ReadEntry(i) EXCEPT !.on = items[i].on].id \in Ids
    BY <1>0, IdentifiedId, ReadTyped DEF AnyEntry
  <2>3. entry' = entry \/ entry'.id \in Ids
    <3>1. CASE entry' = NoEntry
      BY <1>1, <3>1 DEF NoEntry
    <3>2. ASSUME NEW i \in Identified(entry.id),
                 entry' = [ReadEntry(i) EXCEPT !.on = items[i].on]
          PROVE  entry'.id \in Ids
      BY <2>2, <3>2
    <3> QED BY <1>4, <3>1, <3>2 DEF RefreshBuiltIn
  <2> QED BY <1>0, <1>1, <2>1, <2>3 DEF IdInv
<1>5. CASE RunOver
  BY <1>0, <1>1, <1>5 DEF RunOver, IdInv
<1>6. CASE CreateBuiltIn
  <2>1. doing' = "create" /\ at' = FirstRequest
        /\ entry'.id = IF family = "service" \/ BuiltInAction THEN wish.label ELSE None
    BY <1>3, <1>6 DEF CreateBuiltIn
  <2>2. at' \in Searching => family # "service"
    BY <2>1 DEF FirstRequest, BuiltInAction, Searching
  <2>3. at' \in Searching \/ entry'.id \in Ids
    BY <1>1, <1>2, <2>1 DEF FirstRequest, BuiltInAction, Searching, Ids
  <2> QED BY <1>0, <1>1, <2>1, <2>2, <2>3 DEF IdInv
<1>7. CASE UpdateBuiltIn
  <2>1. entry.id \in Ids
    BY <1>0, <1>7 DEF UpdateBuiltIn, IdInv
  <2>2. entry'.id = (IF family = "service" THEN wish.label ELSE entry.id) /\ doing' = "update"
    BY <1>3, <1>7 DEF UpdateBuiltIn
  <2>3. entry'.id \in Ids
    BY <1>2, <2>1, <2>2 DEF Ids
  <2>4. at' \in Searching => family # "service"
    BY <1>7 DEF UpdateBuiltIn, Searching
  <2> QED BY <1>0, <1>1, <2>2, <2>3, <2>4 DEF IdInv
<1>8. CASE DeleteBuiltIn
  <2>1. CASE EntryGone
    BY <1>0, <2>1, GoneId
  <2>2. CASE /\ doing' = "delete" /\ UNCHANGED entry
             /\ at' = CASE family = "dns" -> "reset" [] family = "sniffer" -> "stop"
                        [] OTHER -> "look-up-to-remove"
    <3>1. at' \in {"reset", "stop", "look-up-to-remove"}
      BY <2>2
    <3>2. entry.id \in Ids \/ entry.tainted
      BY <1>0, <1>8 DEF DeleteBuiltIn, IdInv
    <3> QED BY <1>1, <2>2, <3>1, <3>2 DEF IdInv, Searching
  <2> QED BY <1>8, <2>1, <2>2 DEF DeleteBuiltIn
<1> QED BY <1>4, <1>5, <1>6, <1>7, <1>8 DEF BuiltInRuns

\* What Terraform runs.
LEMMA RunsKeep ==
    ASSUME BuiltInInv, BuiltInRuns PROVE BuiltInInv'
<1>0. /\ ItemsInv /\ entry \in AnyEntry /\ HandlerInv
      /\ family \in Family /\ wish \in Wishes(family)
      /\ UNCHANGED <<family, wish, items, mishaps>>
  BY DEF BuiltInInv, BuiltInRuns, Stays, NoMishap, RefreshBuiltIn, RunOver, CreateBuiltIn,
         UpdateBuiltIn, DeleteBuiltIn
<1>1. ItemsInv'
  BY <1>0, ItemsKept
<1>2. wish.label \in Label
  BY <1>0, WishTyped
<1>3. entry.id \in Slot \cup Label \cup {None}
  BY <1>0 DEF AnyEntry
<1>4. entry' \in AnyEntry /\ HandlerInv'
  <2>1. CASE RefreshBuiltIn
    <3>1. ASSUME NEW i \in Identified(entry.id) 
          PROVE  [ReadEntry(i) EXCEPT !.on = items[i].on] \in AnyEntry
      BY <1>0, ReadTyped, IdentifiedItem DEF AnyEntry, AnyItem
    <3>2. entry' \in AnyEntry
      BY <1>0, <2>1, <3>1, NoEntryTyped DEF RefreshBuiltIn
    <3> QED BY <1>0, <2>1, <3>2 DEF RefreshBuiltIn, HandlerInv
  <2>2. CASE RunOver
    BY <1>0, <2>2 DEF RunOver, HandlerInv
  <2>3. CASE CreateBuiltIn
    <3>1. entry' \in AnyEntry
      BY <1>2, <2>3, PlannedTyped DEF CreateBuiltIn
    <3>2. FirstRequest # "none" /\ (FirstRequest = "create" => family \in Creating)
      BY DEF FirstRequest, Creating
    <3> QED BY <1>0, <2>3, <3>1, <3>2 DEF CreateBuiltIn, HandlerInv
  <2>4. CASE UpdateBuiltIn
    <3>1. entry' \in AnyEntry
      BY <1>2, <1>3, <2>4, PlannedTyped DEF UpdateBuiltIn
    <3>2. at' \notin {"none", "create"}
      BY <2>4 DEF UpdateBuiltIn
    <3> QED BY <1>0, <2>4, <3>1, <3>2 DEF UpdateBuiltIn, HandlerInv
  <2>5. CASE DeleteBuiltIn
    <3>1. CASE EntryGone
      BY <3>1, NoEntryTyped DEF EntryGone, HandlerInv
    <3>2. CASE /\ doing' = "delete" /\ UNCHANGED entry
               /\ at' = CASE family = "dns" -> "reset" [] family = "sniffer" -> "stop"
                          [] OTHER -> "look-up-to-remove"
      <4>1. at' \notin {"none", "create"}
        BY <3>2
      <4> QED BY <1>0, <3>2, <4>1 DEF HandlerInv
    <3> QED BY <2>5, <3>1, <3>2 DEF DeleteBuiltIn
  <2> QED BY <2>1, <2>2, <2>3, <2>4, <2>5 DEF BuiltInRuns
<1> QED BY <1>0, <1>1, <1>4, RunsKeepIds DEF BuiltInInv

\* What others do, and the router.
LEMMA OthersKeep ==
    ASSUME BuiltInInv, OthersChange \/ KeyIsReady PROVE ItemsInv'
<1>0. ItemsInv /\ family' = family
  BY DEF BuiltInInv, OthersChange, KeyIsReady, Stays
<1>1. CASE OthersChange
  <2>1. PICK i \in Slot :
          /\ items[i].there
          /\ \/ family # "key" /\ items' = [items EXCEPT ![i].value = 1 - @]
             \/ family = "sniffer" /\ items' = [items EXCEPT ![i].on = ~@]
             \/ \E l \in Label : items' = [items EXCEPT ![i].label = l]
             \/ i = Made /\ items' = [items EXCEPT ![i] = Free]
    BY <1>1 DEF OthersChange
  <2>2. items[i] \in AnyItem /\ (i = Made => items[i] \in MadeItem /\ family \in Creating)
    BY <1>0, <2>1, FoundItem
  <2>3. PICK item : /\ items' = [items EXCEPT ![i] = item]
                    /\ \/ item \in AnyItem /\ (i = Made => item \in MadeItem)
                       \/ i = Made /\ item = Free
    <3>1. CASE family # "key" /\ items' = [items EXCEPT ![i].value = 1 - @]
      <4> DEFINE it == [items[i] EXCEPT !.value = 1 - @]
      <4>1. 1 - items[i].value \in {0, 1}
        <5>1. items[i].value \in {0, 1}
          BY <2>2 DEF AnyItem
        <5> QED BY <5>1
      <4>2. it \in AnyItem /\ (i = Made => it \in MadeItem)
        BY <2>2, <4>1 DEF AnyItem, MadeItem
      <4>3. items' = [items EXCEPT ![i] = it]
        BY <3>1
      <4> QED BY <4>2, <4>3
    <3>2. CASE family = "sniffer" /\ items' = [items EXCEPT ![i].on = ~@]
      <4> DEFINE it == [items[i] EXCEPT !.on = ~@]
      <4>1. i # Made
        BY <2>2, <3>2 DEF Creating
      <4>2. it \in AnyItem
        BY <2>2 DEF AnyItem
      <4>3. items' = [items EXCEPT ![i] = it]
        BY <3>2
      <4> QED BY <4>1, <4>2, <4>3
    <3>3. ASSUME NEW l \in Label, items' = [items EXCEPT ![i].label = l]
          PROVE \E item : /\ items' = [items EXCEPT ![i] = item]
                    /\ \/ item \in AnyItem /\ (i = Made => item \in MadeItem)
                       \/ i = Made /\ item = Free
      <4> DEFINE it == [items[i] EXCEPT !.label = l]
      <4>2. it \in AnyItem /\ (i = Made => it \in MadeItem)
        BY <2>2 DEF AnyItem, MadeItem
      <4>3. items' = [items EXCEPT ![i] = it]
        BY <3>3
      <4> QED BY <4>2, <4>3
    <3> QED BY <2>1, <3>1, <3>2, <3>3
  <2>4. Made \notin BuiltIn
    BY DEF Made, BuiltIn
  <2> QED BY <1>0, <2>2, <2>3, <2>4, ItemChanged
<1>2. CASE KeyIsReady
  <2> DEFINE item == [items[Made] EXCEPT !.there = TRUE]
  <2>1. items[Made] \in ComingItem
    BY <1>0, <1>2 DEF KeyIsReady, ItemsInv, MadeItem
  <2>2. item \in MadeItem
    BY <2>1 DEF ComingItem, MadeItem, Label
  <2>3. items' = [items EXCEPT ![Made] = item]
    BY <1>2 DEF KeyIsReady
  <2>4. family \in Creating
    BY <1>0, <1>2 DEF KeyIsReady, ItemsInv
  <2>5. Made \notin BuiltIn
    BY DEF Made, BuiltIn
  <2> HIDE DEF item
  <2> QED BY <1>0, <2>2, <2>3, <2>4, <2>5, ItemChanged
<1> QED BY <1>1, <1>2

LEMMA BuiltInInvStep ==
    BuiltInInv /\ [BuiltInNext]_builtInVars => BuiltInInv'
<1> SUFFICES ASSUME BuiltInInv, [BuiltInNext]_builtInVars PROVE BuiltInInv'
  OBVIOUS
<1>1. CASE BuiltInRequests
  <2>1. UNCHANGED <<family, wish>>
    BY <1>1 DEF BuiltInRequests, Stays, FindItem, AwaitItem, LookUpItem, ReadItem,
         LookUpToRemove, CreateItemOf, SetItemOf, StopSniffer, SetSnifferState, ResetDns,
         RemoveItem
  <2>2. family' \in Family /\ wish' \in Wishes(family)'
    BY <2>1 DEF BuiltInInv
  <2> QED BY <1>1, <2>2, RequestsKeepItems, RequestsKeepHandler, RequestsKeepIds
          DEF BuiltInInv
<1>2. CASE BuiltInRuns
  BY <1>2, RunsKeep
<1>3. CASE Edited
  <2>1. wish' \in Wishes(family) /\ family' = family /\ UNCHANGED <<items, entry, doing, at>>
    BY <1>3 DEF Edited
  <2>2. mishaps' \in 0 .. MaxMishaps
    BY <1>3, MishapCounted DEF Edited
  <2>3. ItemsInv' /\ HandlerInv' /\ IdInv'
    BY <2>1, ItemsKept DEF BuiltInInv, HandlerInv, IdInv, Ids
  <2> QED BY <2>1, <2>2, <2>3 DEF BuiltInInv
<1>4. CASE OthersChange \/ KeyIsReady
  <2>1. UNCHANGED <<family, wish, entry, doing, at>>
    BY <1>4 DEF OthersChange, KeyIsReady, Stays
  <2>2. mishaps' \in 0 .. MaxMishaps
    BY <1>4, MishapCounted DEF OthersChange, KeyIsReady, NoMishap
  <2>3. HandlerInv' /\ IdInv'
    BY <2>1 DEF BuiltInInv, HandlerInv, IdInv, Ids
  <2> QED BY <1>4, <2>1, <2>2, <2>3, OthersKeep DEF BuiltInInv
<1>5. CASE UNCHANGED builtInVars
  BY <1>5, ItemsKept DEF builtInVars, BuiltInInv, HandlerInv, IdInv, Ids
<1> QED BY <1>1, <1>2, <1>3, <1>4, <1>5 DEF BuiltInNext

LEMMA BuiltInsAreTyped == BuiltInInv => BuiltInTypeOK
<1> SUFFICES ASSUME BuiltInInv PROVE BuiltInTypeOK
  OBVIOUS
<1>1. \A i \in BuiltIn : items[i].there
  BY DEF BuiltInInv, ItemsInv, AnyItem
<1>4. entry.id \in Slot \cup Label \cup {None}
  BY DEF BuiltInInv, AnyEntry
<1>5. items[Made] \in {Free} \cup ComingItem \cup MadeItem
  BY DEF BuiltInInv, ItemsInv
<1>6. doing = "nothing" /\ ~entry.tainted =>
          entry.id \in {None} \cup (IF family = "service" THEN Label ELSE Slot)
  BY DEF BuiltInInv, IdInv, Ids
<1> QED BY <1>1, <1>4, <1>5, <1>6
        DEF BuiltInInv, BuiltInTypeOK, HandlerInv, ComingItem, MadeItem

\* No handler, and nobody else, removes an item that is built in or leaves an
\* item half made but a key that is coming, whatever fails; and after every
\* handler, but a creation that failed, the id in the state is one under which
\* the handlers look: the name of a service, an internal id of any other item.
THEOREM BuiltInsTyped == BuiltInSpec => []BuiltInTypeOK
BY BuiltInInvInit, BuiltInInvStep, BuiltInsAreTyped, PTL DEF BuiltInSpec

-----------------------------------------------------------------------------
(* A duration: numbers of any length with any units, in words of any width.*)

\* As long as the text is not rejected the word, and the number that is being
\* read, are what they would be in unbounded arithmetic.
DurationInv ==
    /\ DurationTypeOK /\ DurationIsExact
    /\ number \in [v : 0 .. MaxWord, f : NoFraction .. 9]
    /\ exact \in [number : Nat, sum : Nat]
    /\ word # Invalid => number.v = exact.number

LEMMA SmallRemainder ==
    ASSUME NEW m \in Nat \ {0}, NEW n \in 0 .. (m - 1)
    PROVE  n % m = n
BY SMT

\* Up to twice the largest word, a value that wraps round is negative.
LEMMA WrappedOnce ==
    ASSUME NEW n \in Nat, n <= 2 * MaxWord + 1
    PROVE  /\ n <= MaxWord => Wrapped(n) = n
           /\ n > MaxWord => Wrapped(n) < 0
<1>1. n \in 0 .. (2 * (MaxWord + 1) - 1) /\ 2 * (MaxWord + 1) \in Nat \ {0}
  BY DurationAssumption
<1>2. n % (2 * (MaxWord + 1)) = n
  BY <1>1, SmallRemainder
<1> QED BY <1>2, DurationAssumption DEF Wrapped

\* The number that a digit makes, or Invalid when it is too large.
LEMMA DigitRead ==
    ASSUME NEW x \in 0 .. MaxWord, NEW c \in Digit
    PROVE  leadingInt(x, c) = IF x * 10 + c <= MaxWord THEN x * 10 + c ELSE Invalid
<1>1. c \in 0 .. 9 /\ MaxWord \in Nat /\ MaxWord > 9
  BY DurationAssumption
<1>2. x > MaxWord \div 10 <=> x * 10 > MaxWord
  BY <1>1
<1>3. CASE x * 10 > MaxWord
  BY <1>1, <1>2, <1>3 DEF leadingInt
<1>4. CASE ~(x * 10 > MaxWord)
  BY <1>1, <1>2, <1>4, WrappedOnce DEF leadingInt, Invalid
<1> QED BY <1>3, <1>4

\* A product is too large exactly when the number is larger than the quotient.
LEMMA ProductFits ==
    ASSUME NEW m \in Nat, NEW u \in Nat \ {0}, NEW x \in Nat
    PROVE  x > m \div u <=> x * u > m
<1>1. x > m \div u => x * u > m
  BY SMT
<1>2. x <= m \div u => x * u <= m
  BY SMT
<1>3. m \div u \in Int
  OBVIOUS
<1> QED BY <1>1, <1>2, <1>3

\* A fraction is less than its unit.
LEMMA FractionFits ==
    ASSUME DurationInv, NEW unit \in TimeUnit
    PROVE  Fraction(unit) \in 0 .. (unit - 1)
<1>1. unit \in Nat \ {0} /\ number.f \in NoFraction .. 9
  BY DurationAssumption DEF DurationInv, DurationTypeOK
<1>2. CASE number.f > 0
  <2>1. number.f \in 0 .. 9
    BY <1>1, <1>2 DEF NoFraction
  <2>2. number.f * unit \in 0 .. (9 * unit)
    BY <1>1, <2>1
  <2>3. (number.f * unit) \div 10 \in 0 .. (unit - 1)
    BY <1>1, <2>2
  <2> QED BY <1>2, <2>3 DEF Fraction
<1>3. CASE ~(number.f > 0)
  BY <1>1, <1>3 DEF Fraction
<1> QED BY <1>2, <1>3

\* The sum with one more number, or Invalid when it is too large.
LEMMA TermAdded ==
    ASSUME DurationInv, word # Invalid, NEW unit \in TimeUnit
    PROVE  LET sum == word + number.v * unit + Fraction(unit)
           IN  Added(unit) = IF sum <= MaxWord THEN sum ELSE Invalid
<1> DEFINE product == number.v * unit
           v == product + Fraction(unit)
<1>1. /\ MaxWord \in Nat /\ unit \in 1 .. MaxWord
      /\ word \in 0 .. MaxWord /\ number.v \in 0 .. MaxWord
  BY DurationAssumption DEF DurationInv, DurationTypeOK, Invalid
<1>2. Fraction(unit) \in 0 .. (unit - 1)
  BY FractionFits
<1>3. product \in Nat
  BY <1>1
<1>4. number.v > MaxWord \div unit <=> product > MaxWord
  BY <1>1, ProductFits
<1> HIDE DEF product
<1>5. CASE product > MaxWord
  BY <1>1, <1>2, <1>3, <1>4, <1>5 DEF Added, product
<1>6. CASE product <= MaxWord
  <2>1. Wrapped(product) = product
    BY <1>1, <1>3, <1>6, WrappedOnce
  <2>2. v \in Nat /\ v <= 2 * MaxWord + 1
    BY <1>1, <1>2, <1>3, <1>6
  <2> HIDE DEF v
  <2>3. Added(unit) = IF Wrapped(v) < 0 \/ Wrapped(word + Wrapped(v)) < 0 THEN Invalid
                      ELSE Wrapped(word + Wrapped(v))
    BY <1>1, <1>3, <1>4, <1>6, <2>1 DEF Added, v, product
  <2>4. CASE v > MaxWord
    <3>1. Added(unit) = Invalid
      BY <2>2, <2>3, <2>4, WrappedOnce
    <3>2. word + product + Fraction(unit) > MaxWord
      BY <1>1, <1>2, <1>3, <2>4 DEF v
    <3> QED BY <1>1, <1>2, <1>3, <3>1, <3>2 DEF product
  <2>5. CASE v <= MaxWord
    <3>1. Wrapped(v) = v
      BY <2>2, <2>5, WrappedOnce
    <3>2. word + v \in Nat /\ word + v <= 2 * MaxWord + 1
      BY <1>1, <2>2, <2>5
    <3>3. /\ word + v <= MaxWord => Wrapped(word + v) = word + v
          /\ word + v > MaxWord => Wrapped(word + v) < 0
      BY <3>2, WrappedOnce
    <3>4. word + product + Fraction(unit) = word + v
      BY <1>1, <1>2, <1>3 DEF v
    <3> QED BY <1>1, <2>2, <2>3, <3>1, <3>2, <3>3, <3>4 DEF product
  <2> QED BY <1>1, <2>2, <2>4, <2>5
<1> QED BY <1>1, <1>3, <1>5, <1>6

LEMMA DurationInvInit == DurationInit => DurationInv
BY DurationAssumption DEF DurationInit, DurationInv, DurationTypeOK, DurationIsExact,
   NoNumber, NoFraction, Invalid

LEMMA DurationInvStep == DurationInv /\ [DurationNext]_durationVars => DurationInv'
<1> SUFFICES ASSUME DurationInv, [DurationNext]_durationVars PROVE DurationInv'
  OBVIOUS
<1> USE DEF DurationInv, DurationTypeOK
<1>1. ASSUME NEW c \in Digit, ReadsDigit(c) PROVE DurationInv'
  <2>1. /\ number.v \in 0 .. MaxWord /\ number.v = exact.number /\ c \in 0 .. 9
        /\ word = exact.sum /\ word # Invalid /\ MaxWord \in Nat /\ MaxDigits \in Nat
    BY <1>1, DurationAssumption DEF ReadsDigit, DurationIsExact
  <2>2. leadingInt(number.v, c) =
            IF number.v * 10 + c <= MaxWord THEN number.v * 10 + c ELSE Invalid
    BY <2>1, DigitRead
  <2>3. /\ exact' = [exact EXCEPT !.number = number.v * 10 + c]
        /\ digits' \in 0 .. MaxDigits /\ terms' = terms
    BY <1>1, <2>1 DEF ReadsDigit
  <2>4. CASE number.v * 10 + c <= MaxWord
    <3>1. number' = [number EXCEPT !.v = number.v * 10 + c] /\ word' = word
      BY <1>1, <2>1, <2>2, <2>4 DEF ReadsDigit, Invalid
    <3> QED BY <2>1, <2>3, <2>4, <3>1 DEF DurationIsExact
  <2>5. CASE ~(number.v * 10 + c <= MaxWord)
    <3>1. number' = number /\ word' = Invalid
      BY <1>1, <2>2, <2>5 DEF ReadsDigit
    <3> QED BY <2>1, <2>3, <2>5, <3>1 DEF DurationIsExact, Invalid
  <2> QED BY <2>4, <2>5
<1>2. ASSUME NEW c \in Digit, ReadsFraction(c) PROVE DurationInv'
  <2>1. c \in NoFraction .. 9
    BY DurationAssumption DEF NoFraction
  <2> QED BY <1>2, <2>1 DEF ReadsFraction, DurationIsExact
<1>3. ASSUME NEW unit \in TimeUnit, ReadsUnit(unit) PROVE DurationInv'
  <2> DEFINE sum == word + number.v * unit + Fraction(unit)
  <2>1. /\ word # Invalid /\ word = exact.sum /\ number.v = exact.number
        /\ word \in 0 .. MaxWord /\ number.v \in Nat
    BY <1>3 DEF ReadsUnit, DurationIsExact, Invalid
  <2>2. unit \in Nat /\ Fraction(unit) \in Nat /\ MaxWord \in Nat /\ MaxParts \in Nat
            /\ MaxDigits \in Nat
    BY DurationAssumption, FractionFits
  <2>3. number.v * unit \in Nat /\ sum \in Nat
    BY <2>1, <2>2
  <2>4. /\ exact' = [number |-> 0, sum |-> sum]
        /\ word' = IF sum <= MaxWord THEN sum ELSE Invalid
        /\ number' = NoNumber /\ digits' = 0 /\ terms' \in 0 .. MaxParts
    BY <1>3, <2>1, <2>2, TermAdded DEF ReadsUnit
  <2> HIDE DEF sum
  <2> QED BY <2>2, <2>3, <2>4 DEF DurationIsExact, NoNumber, NoFraction, Invalid
<1>4. CASE UNCHANGED durationVars
  BY <1>4 DEF durationVars, DurationIsExact
<1> QED BY <1>1, <1>2, <1>3, <1>4 DEF DurationNext

\* The two checks of a digit and the three of a unit reject exactly what does
\* not fit: for words of any width, so for those of 64 bits that the code has,
\* and for texts of any length.
THEOREM DurationsAreExact == DurationSpec => []DurationIsExact
<1>1. DurationInv => DurationIsExact
  BY DEF DurationInv
<1> QED BY <1>1, DurationInvInit, DurationInvStep, PTL DEF DurationSpec

-----------------------------------------------------------------------------
(* A range of addresses of any width.  The provers know nothing of the     *)
(* exponent, so that the laws of powers are hypotheses of the theorem.     *)

PowersOfTwo ==
    /\ 2 ^ 0 = 1
    /\ \A i \in Nat : 2 ^ i \in Nat \ {0}
    /\ \A i, j \in Nat : 2 ^ (i + j) = 2 ^ i * 2 ^ j

\* The block that has been found so far begins with the range and fits.
RangeInv ==
    /\ RangeTypeOK
    /\ range.first <= range.last =>
           range.first % 2 ^ hosts = 0 /\ BlockEnd(hosts) <= range.last
    /\ RangeIsTheSame

LEMMA MultipleDivides ==
    ASSUME NEW x \in Nat, NEW a \in Nat \ {0}, NEW b \in Nat \ {0}, x % (a * b) = 0
    PROVE  x % a = 0
<1> DEFINE k == x \div (a * b)
<1>1. a * b \in Nat \ {0} /\ k \in Nat
  BY SMT
<1>2. \A m \in Nat \ {0} : x % m = 0 => x = (x \div m) * m
  BY SMT
<1>3. x = k * (a * b)
  BY <1>1, <1>2
<1> HIDE DEF k
<1>4. x = (k * b) * a /\ k * b \in Nat
  BY <1>1, <1>3, SMT
<1>5. \A m \in Nat : (m * a) % a = 0
  BY SMT
<1> QED BY <1>4, <1>5

\* A shorter block is part of a longer one.
LEMMA ShorterBlock ==
    ASSUME PowersOfTwo, NEW i \in Nat, NEW j \in Nat, i <= j
    PROVE  /\ 2 ^ i <= 2 ^ j
           /\ \A x \in Nat : x % 2 ^ j = 0 => x % 2 ^ i = 0
<1> DEFINE k == j - i
<1>1. k \in Nat /\ j = i + k
  OBVIOUS
<1> HIDE DEF k
<1>2. 2 ^ j = 2 ^ i * 2 ^ k /\ 2 ^ i \in Nat \ {0} /\ 2 ^ k \in Nat \ {0}
  BY <1>1 DEF PowersOfTwo
<1>3. \A a, b \in Nat \ {0} : a <= a * b
  BY SMT
<1> QED BY <1>2, <1>3, MultipleDivides

LEMMA RangeInvInit == PowersOfTwo /\ RangeInit => RangeInv
<1> SUFFICES ASSUME PowersOfTwo, RangeInit PROVE RangeInv
  OBVIOUS
<1>1. range.first \in Nat /\ range.last \in Nat /\ 2 ^ hosts = 1 /\ hosts = 0
  BY DEF RangeInit, Addresses, PowersOfTwo
<1>2. range.first % 1 = 0 /\ range.first + 1 - 1 = range.first
  BY <1>1
<1>3. RangeTypeOK
  BY RangeAssumption DEF RangeInit, RangeTypeOK, NotYet
<1>4. RangeIsTheSame
  BY DEF RangeInit, RangeIsTheSame, NotYet
<1>5. range.first <= range.last =>
          range.first % 2 ^ hosts = 0 /\ BlockEnd(hosts) <= range.last
  BY <1>1, <1>2 DEF BlockEnd
<1> QED BY <1>3, <1>4, <1>5 DEF RangeInv

\* What is returned, when the block cannot be lengthened any more.
LEMMA ReturnedIsTheSame ==
    ASSUME PowersOfTwo, RangeInv, Return
    PROVE  RangeIsTheSame'
<1> DEFINE top == 2 ^ AddressBits
           end == BlockEnd(hosts)
<1>1. /\ top \in Nat \ {0} /\ 2 ^ hosts \in Nat \ {0} /\ hosts \in Nat
      /\ range.first \in 0 .. (top - 1) /\ range.last \in 0 .. (top - 1)
  BY RangeAssumption DEF PowersOfTwo, RangeInv, RangeTypeOK, Addresses
<1>2. range' = range /\ hosts' = hosts
  BY DEF Return
<1>3. CASE range.first > range.last
  BY <1>3 DEF Return, RangeIsTheSame
<1>4. CASE ~(range.first > range.last)
  <2>1. end \in Nat /\ end <= range.last /\ range.first % 2 ^ hosts = 0
    BY <1>1, <1>4 DEF RangeInv, BlockEnd
  <2>2. /\ ~NextFits
        /\ shown' = IF range.last < (end + 1) % top
                    THEN [kind |-> "block", hosts |-> hosts]
                    ELSE [kind |-> "range", hosts |-> 0]
    BY <1>4 DEF Return
  <2> HIDE DEF top, end
  <2>3. CASE end + 1 < top
    <3>1. (end + 1) % top = end + 1
      <4>1. end + 1 \in 0 .. (top - 1)
        BY <1>1, <2>1, <2>3
      <4>2. top \in Nat \ {0}
        BY <1>1
      <4> QED BY <4>1, <4>2, SmallRemainder
    <3>2. CASE range.last = end
      <4>1. shown' = [kind |-> "block", hosts |-> hosts]
        BY <1>1, <2>1, <2>2, <3>1, <3>2
      <4>2. IsBlock(hosts)'
        BY <1>2, <2>1, <3>2 DEF IsBlock, BlockEnd, end
      <4> QED BY <1>2, <4>1, <4>2 DEF RangeIsTheSame, IsBlock, BlockEnd
    <3>3. CASE range.last # end
      <4>1. shown' = [kind |-> "range", hosts |-> 0]
        BY <1>1, <2>1, <2>2, <3>1, <3>3
      <4>2. ASSUME NEW bits \in 0 .. AddressBits, IsBlock(bits) PROVE FALSE
        <5>1. /\ bits \in Nat /\ 2 ^ bits \in Nat \ {0}
              /\ range.first % 2 ^ bits = 0 /\ range.last = range.first + 2 ^ bits - 1
          BY <4>2 DEF PowersOfTwo, IsBlock, BlockEnd
        <5>2. 2 ^ hosts < 2 ^ bits
          BY <1>1, <2>1, <3>3, <5>1 DEF end, BlockEnd
        <5>3. ~(bits <= hosts)
          BY <1>1, <5>1, <5>2, ShorterBlock
        <5>4. hosts + 1 \in Nat /\ hosts + 1 <= bits /\ hosts < AddressBits
          BY <1>1, <5>1, <5>3, RangeAssumption
        <5>5. /\ 2 ^ (hosts + 1) <= 2 ^ bits /\ 2 ^ (hosts + 1) \in Nat
              /\ range.first % 2 ^ (hosts + 1) = 0
          <6>1. range.first \in Nat /\ range.first % 2 ^ bits = 0
            BY <1>1, <5>1
          <6>2. 2 ^ (hosts + 1) \in Nat
            BY <5>4 DEF PowersOfTwo
          <6> QED BY <5>1, <5>4, <6>1, <6>2, ShorterBlock
        <5>6. BlockEnd(hosts + 1) <= range.last
          BY <1>1, <5>1, <5>5 DEF BlockEnd
        <5> QED BY <2>2, <5>4, <5>5, <5>6 DEF NextFits
      <4> QED BY <1>2, <4>1, <4>2 DEF RangeIsTheSame, IsBlock, BlockEnd
    <3> QED BY <3>2, <3>3
  <2>4. CASE ~(end + 1 < top)
    <3>1. end + 1 = top /\ range.last = top - 1
      BY <1>1, <2>1, <2>4
    <3>2. (end + 1) % top = 0
      BY <1>1, <3>1
    <3>3. shown' = [kind |-> "range", hosts |-> 0]
      BY <1>1, <2>2, <3>2
    <3> QED BY <1>2, <3>1, <3>3 DEF RangeIsTheSame, top
  <2> QED BY <2>3, <2>4
<1> QED BY <1>3, <1>4

LEMMA RangeInvStep ==
    PowersOfTwo /\ RangeInv /\ [RangeNext]_rangeVars => RangeInv'
<1> SUFFICES ASSUME PowersOfTwo, RangeInv, [RangeNext]_rangeVars
             PROVE  RangeInv'
  OBVIOUS
<1>1. CASE Lengthen
  <2>1. /\ hosts' = hosts + 1 /\ range' = range /\ shown' = shown /\ hosts' \in 0 .. AddressBits
        /\ range.first % 2 ^ hosts' = 0 /\ BlockEnd(hosts') <= range.last
    BY <1>1, RangeAssumption DEF Lengthen, NextFits, RangeInv, RangeTypeOK
  <2>2. RangeIsTheSame'
    BY <2>1 DEF RangeInv, RangeIsTheSame, IsBlock, BlockEnd
  <2>3. RangeTypeOK'
    BY <2>1 DEF RangeInv, RangeTypeOK
  <2> QED BY <2>1, <2>2, <2>3 DEF RangeInv, BlockEnd
<1>2. CASE Return
  <2>1. range' = range /\ hosts' = hosts
    BY <1>2 DEF Return
  <2>2. shown' \in [kind : {"none", "error", "block", "range"}, hosts : 0 .. AddressBits]
    BY <1>2, RangeAssumption DEF Return, RangeInv, RangeTypeOK
  <2>3. RangeTypeOK'
    BY <2>1, <2>2 DEF RangeInv, RangeTypeOK, Addresses
  <2> QED BY <1>2, <2>1, <2>3, ReturnedIsTheSame DEF RangeInv, BlockEnd
<1>3. CASE UNCHANGED rangeVars
  BY <1>3 DEF rangeVars, RangeInv, RangeTypeOK, RangeIsTheSame, Addresses, BlockEnd, IsBlock
<1> QED BY <1>1, <1>2, <1>3 DEF RangeNext

\* A range is shown as a block exactly when it is one, and as that block, for
\* addresses of any width, so for those of 32 bits that the code has.
THEOREM RangesAreTheSame ==
    PowersOfTwo /\ RangeSpec => []RangeIsTheSame
<1>1. RangeInv => RangeIsTheSame
  BY DEF RangeInv
<1>2. ASSUME PowersOfTwo PROVE RangeSpec => []RangeIsTheSame
  <2>1. RangeInit => RangeInv
    BY <1>2, RangeInvInit
  <2>2. RangeInv /\ [RangeNext]_rangeVars => RangeInv'
    BY <1>2, RangeInvStep
  <2> QED BY <1>1, <2>1, <2>2, PTL DEF RangeSpec
<1> QED BY <1>2

-----------------------------------------------------------------------------
(* All parts side by side, as the run Parts has them.  A step of one part  *)
(* leaves the others alone, so that each part does what its own            *)
(* specification says, and what is proved of it holds in the run.  The     *)
(* fairness of the run is that of a container and of items that are built  *)
(* in, and the safety of those two needs none.                             *)

\* The kind of the attribute that rests: an optional text, which schemas have.
RestingKind ==
    [type |-> "text", traits |-> Optional, nested |-> FALSE, computedBlock |-> FALSE]

LEMMA ConversionRestsInit == RestingKind \in Kind /\ ConversionRests => ConversionInit
<1> SUFFICES ASSUME RestingKind \in Kind, ConversionRests PROVE ConversionInit
  OBVIOUS
<1>1. /\ kind \in Kind /\ kind.type = "text" /\ kind.traits = {"optional"} /\ ~kind.nested
  BY DEF ConversionRests, RestingKind, Optional
<1>2. habit = [unset |-> Nowhere, beside |-> FALSE, set |-> "plain"]
  BY DEF ConversionRests
<1>3. habit \in Habit /\ Fits(kind, habit)
  BY <1>1, <1>2 DEF Habit, Fits, Nowhere, Default
<1>4. Valid(config, declared)
  BY <1>1 DEF ConversionRests, Valid, Has
<1> QED BY <1>1, <1>3, <1>4 DEF ConversionRests, ConversionInit

LEMMA ReplyRestsInit == ReplyRests => ReplyInit
<1> SUFFICES ASSUME ReplyRests PROVE ReplyInit
  OBVIOUS
<1>1. Cardinality(reply) <= MaxFields
  BY FieldAssumption, FS_EmptySet DEF ReplyRests
<1> QED BY <1>1 DEF ReplyRests, ReplyInit

\* What each part does at the beginning, and in each step.
PartsBegin ==
    /\ ConversionInit /\ NamesInit /\ RulesInit /\ ReplyInit /\ UpgradeInit
    /\ ContainerInit /\ CertificateInit /\ BuiltInInit /\ DurationInit /\ RangeInit

PartsStep ==
    /\ [ConversionNext]_conversionVars /\ [NamesNext]_namesVars /\ [RulesNext]_rulesVars
    /\ [ReplyNext]_replyVars /\ [UpgradeNext]_upgradeVars /\ [ContainerNext]_containerVars
    /\ [CertificateNext]_certificateVars /\ [BuiltInNext]_builtInVars
    /\ [DurationNext]_durationVars /\ [RangeNext]_rangeVars

LEMMA EachBegins == RestingKind \in Kind /\ PartsInit => PartsBegin
BY ConversionRestsInit, ReplyRestsInit
   DEF PartsInit, PartsBegin, NamesRest, RulesRest, UpgradeRests, ContainerRests,
       CertificateRests, BuiltInsRest, RangeRests

LEMMA EachSteps == [PartsNext]_partsVars => PartsStep
<1> SUFFICES ASSUME [PartsNext]_partsVars PROVE PartsStep
  OBVIOUS
<1> USE DEF PartsStep
<1>1. CASE ConversionSteps
  BY <1>1 DEF ConversionSteps
<1>2. CASE NamesSteps
  BY <1>2 DEF NamesSteps
<1>3. CASE RulesSteps
  BY <1>3 DEF RulesSteps
<1>4. CASE ReplySteps
  BY <1>4 DEF ReplySteps
<1>5. CASE UpgradeSteps
  BY <1>5 DEF UpgradeSteps
<1>6. CASE ContainerSteps
  BY <1>6 DEF ContainerSteps, InContainer
<1>7. CASE CertificateSteps
  BY <1>7 DEF CertificateSteps
<1>8. CASE BuiltInSteps
  BY <1>8 DEF BuiltInSteps, InBuiltIns
<1>9. CASE DurationSteps
  BY <1>9 DEF DurationSteps
<1>10. CASE RangeSteps
  BY <1>10 DEF RangeSteps
<1>11. CASE UNCHANGED partsVars
  BY <1>11 DEF partsVars
<1> QED BY <1>1, <1>2, <1>3, <1>4, <1>5, <1>6, <1>7, <1>8, <1>9, <1>10, <1>11
        DEF PartsNext

\* The run is one of every part: whichever part moves, no other is disturbed.
THEOREM PartsAreTheirOwn ==
    RestingKind \in Kind /\ PartsSpec =>
        /\ ConversionSpec /\ NamesSpec /\ RulesSpec /\ ReplySpec /\ UpgradeSpec
        /\ CertificateSpec /\ DurationSpec /\ RangeSpec
        /\ ContainerInit /\ [][ContainerNext]_containerVars
        /\ BuiltInInit /\ [][BuiltInNext]_builtInVars
<1> SUFFICES ASSUME RestingKind \in Kind
             PROVE  PartsSpec =>
        /\ ConversionSpec /\ NamesSpec /\ RulesSpec /\ ReplySpec /\ UpgradeSpec
        /\ CertificateSpec /\ DurationSpec /\ RangeSpec
        /\ ContainerInit /\ [][ContainerNext]_containerVars
        /\ BuiltInInit /\ [][BuiltInNext]_builtInVars
  OBVIOUS
<1>1. PartsInit => PartsBegin
  BY EachBegins
<1> QED BY <1>1, EachSteps, PTL
        DEF PartsSpec, PartsBegin, PartsStep, ConversionSpec, NamesSpec, RulesSpec,
            ReplySpec, UpgradeSpec, CertificateSpec, DurationSpec, RangeSpec

\* What is proved of the parts holds in the run: conversions tell the truth and
\* settle, secrets survive, what is removed is cleared and what is not
\* configured is kept; names match, rules are placed once and settle in order;
\* errors survive and no order of fields matters; upgraded states are as read,
\* certificates complete and their files removed; durations and ranges exact.
THEOREM PartsKeepTheirPromises ==
    ASSUME RestingKind \in Kind, PowersOfTwo,
           \A v \in RouterVersions : \A m \in Renamed : Matching(v, v, m)
    PROVE  PartsSpec =>
        /\ [](NoChangesIsTrue /\ SecondPlanIsEmpty /\ SecretsSurvive /\ RemovedIsCleared)
        /\ UnconfiguredKept
        /\ [](NamesMatch /\ PlacedOnceAndForAll) /\ OrderSettles
        /\ [](ErrorsSurvive /\ OrderIsNoMatter)
        /\ []UpgradedIsAsRead /\ [](CertificateIsComplete /\ FilesRemoved)
        /\ [](DurationIsExact /\ RangeIsTheSame)
<1>1. PartsSpec =>
        /\ ConversionSpec /\ NamesSpec /\ RulesSpec /\ ReplySpec /\ UpgradeSpec
        /\ CertificateSpec /\ DurationSpec /\ RangeSpec
  BY PartsAreTheirOwn
<1>2. NamesSpec => []NamesMatch
  BY NamesAlwaysMatch
<1>3. RangeSpec => []RangeIsTheSame
  BY RangesAreTheSame
<1> QED BY <1>1, <1>2, <1>3, NoChangesIsAlwaysTrue, SecondPlanIsAlwaysEmpty,
           SecretsAlwaysSurvive, RemovedIsAlwaysCleared, UnconfiguredIsAlwaysKept,
           AlwaysPlacedOnce, OrderAlwaysSettles, ErrorsAlwaysSurvive, OrderNeverMatters,
           UpgradesAreAsRead, CertificatesAreComplete, FilesAreRemoved,
           DurationsAreExact, PTL

\* The inductive invariants of all parts.
EachTyped ==
    /\ MaskInv /\ NamesTypeOK /\ RulesInv /\ ReplyTypeOK /\ UpgradeInv /\ ContainerTypeOK
    /\ CertificateInv /\ BuiltInInv /\ DurationInv /\ RangeInv

\* Every variable of every part stays in its type: of a conversion, of names, of
\* rules, of replies, of upgrades, of a container, of a certificate, of items
\* that are built in, of a duration and of a range.
THEOREM PartsTyped == RestingKind \in Kind /\ PowersOfTwo /\ PartsSpec => []TypesOK
<1> SUFFICES ASSUME RestingKind \in Kind, PowersOfTwo PROVE PartsSpec => []TypesOK
  OBVIOUS
<1>1. PartsInit => EachTyped
  BY EachBegins, MaskInvInit, NamesTypeInit, RulesInvInit, ReplyTypeInit, UpgradeInvInit,
     ContainerTypeInit, CertificateInvInit, BuiltInInvInit, DurationInvInit, RangeInvInit
     DEF PartsBegin, EachTyped
<1>2. EachTyped /\ [PartsNext]_partsVars => EachTyped'
  BY EachSteps, MaskInvStep, NamesTypeStep, RulesInvStep, ReplyTypeStep, UpgradeInvStep,
     ContainerTypeStep, CertificateInvStep, BuiltInInvStep, DurationInvStep, RangeInvStep
     DEF PartsStep, EachTyped
<1>3. EachTyped => TypesOK
  BY BuiltInsAreTyped, CertificatesAreTyped
     DEF EachTyped, TypesOK, MaskInv, RulesInv, UpgradeInv, DurationInv,
         RangeInv
<1> QED BY <1>1, <1>2, <1>3, PTL DEF PartsSpec

=============================================================================
