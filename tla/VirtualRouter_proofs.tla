------------------------ MODULE VirtualRouter_proofs ------------------------
(***************************************************************************)
(* What the routing of virtual models promises, for any targets, virtual   *)
(* models, conversations and requests.  The affinity store never outgrows  *)
(* its cap, never answers a wrong pin and never loses one early; and a     *)
(* walk over the candidates gives a client the bytes of one target, keeps  *)
(* a conversation where it is served, and fails when every target has.     *)
(***************************************************************************)
EXTENDS VirtualRouter, FiniteSetTheorems, NaturalsInduction, WellFoundedInduction, TLAPS

-----------------------------------------------------------------------------
(* VirtualAffinity.                                                       *)

\* The initial state satisfies the invariant.
LEMMA AffinityInitInv == AffinityInit => AffinityInv
  <1> SUFFICES ASSUME AffinityInit PROVE AffinityInv
    OBVIOUS
  <1> USE ConstantsAssumption
  <1>1. DOMAIN entries = {} /\ DOMAIN served = {} /\ now = 0
    BY DEF AffinityInit, NoEntries
  <1>2. IsFiniteSet({}) /\ Cardinality({}) = 0
    BY FS_EmptySet
  <1>3. CapHeld
    BY <1>1, <1>2 DEF CapHeld
  <1>4. AffinityTypeOK
    BY <1>1 DEF AffinityTypeOK, Dated
  <1>5. History
    BY <1>1, <1>2 DEF History
  <1> QED
    BY <1>3, <1>4, <1>5 DEF AffinityInv

\* The number of conversations used since an older one only grows.
LEMMA UsedSinceGrows ==
    ASSUME AffinityInv, NEW k \in Keys, NEW t \in Targets, Record(k, t),
           NEW i \in DOMAIN served, i # k
    PROVE  /\ UsedSince(i) \subseteq UsedSince(i)'
           /\ k \in UsedSince(i)'
           /\ IsFiniteSet(UsedSince(i)')
  <1> DEFINE entry == [target |-> t, lastUsed |-> now]
  <1>1. served' = [j \in DOMAIN served \cup {k} |-> IF j = k THEN entry ELSE served[j]]
    BY DEF Record
  <1>2. /\ DOMAIN served' = DOMAIN served \cup {k}
        /\ served'[k].lastUsed = now
        /\ \A j \in DOMAIN served \ {k} : served'[j] = served[j]
    BY <1>1
  <1>3. \A j \in DOMAIN served : served[j].lastUsed \in 0 .. MaxNow
    BY DEF AffinityInv, AffinityTypeOK, Entries
  <1>4. served[i].lastUsed <= now
    BY DEF AffinityInv, AffinityTypeOK, Dated
  <1>5. now \in Nat
    BY DEF AffinityInv, AffinityTypeOK
  <1>6. UsedSince(i)' = {j \in DOMAIN served' \ {i} :
                             served'[j].lastUsed >= served'[i].lastUsed}
    BY DEF UsedSince
  <1>7. UsedSince(i) \subseteq UsedSince(i)' /\ k \in UsedSince(i)'
    BY <1>2, <1>3, <1>4, <1>5, <1>6 DEF UsedSince
  <1>8. IsFiniteSet(DOMAIN served')
    BY <1>2, FS_AddElement DEF AffinityInv, History
  <1> QED
    BY <1>6, <1>7, <1>8, FS_Subset

\* What record leaves, in numbers.
LEMMA SurvivorsBounded ==
    ASSUME AffinityInv, NEW k \in Keys, NEW K \in Survivors(k)
    PROVE  /\ K \subseteq Unexpired \ {k}
           /\ IsFiniteSet(K \cup {k}) /\ Cardinality(K \cup {k}) <= Cap
           /\ \A i \in Unexpired \ (K \cup {k}) :
                  /\ k \notin Unexpired /\ i \in Oldest(Unexpired)
                  /\ Cardinality(Unexpired) >= Cap
  <1> USE ConstantsAssumption
  <1>1. Unexpired \subseteq DOMAIN entries
    BY DEF Unexpired
  <1>2. /\ IsFiniteSet(Unexpired) /\ Cardinality(Unexpired) <= Cap
        /\ Cardinality(Unexpired) \in Nat
    <2>1. IsFiniteSet(DOMAIN entries) /\ Cardinality(DOMAIN entries) <= Cap
      BY DEF AffinityInv, CapHeld
    <2>2. IsFiniteSet(Unexpired) /\ Cardinality(Unexpired) <= Cardinality(DOMAIN entries)
      BY <1>1, <2>1, FS_Subset
    <2>3. Cardinality(Unexpired) \in Nat /\ Cardinality(DOMAIN entries) \in Nat
      BY <2>1, <2>2, FS_CardinalityType
    <2> QED
      BY <2>1, <2>2, <2>3
  <1>3. CASE k \in Unexpired
    <2>1. K = Unexpired \ {k}
      BY <1>3 DEF Survivors
    <2>2. K \cup {k} = Unexpired
      BY <1>3, <2>1
    <2> QED
      BY <1>2, <2>1, <2>2
  <1>4. CASE k \notin Unexpired /\ Cardinality(Unexpired) < Cap
    <2>1. K = Unexpired
      BY <1>4 DEF Survivors
    <2>2. /\ IsFiniteSet(Unexpired \cup {k})
          /\ Cardinality(Unexpired \cup {k}) = Cardinality(Unexpired) + 1
      BY <1>2, <1>4, FS_AddElement
    <2> QED
      BY <1>2, <1>4, <2>1, <2>2
  <1>5. CASE k \notin Unexpired /\ ~(Cardinality(Unexpired) < Cap)
    <2>1. PICK j \in Oldest(Unexpired) : K = Unexpired \ {j}
      BY <1>5 DEF Survivors
    <2>2. j \in Unexpired
      BY DEF Oldest
    <2>3. IsFiniteSet(K) /\ Cardinality(K) = Cardinality(Unexpired) - 1
      BY <1>2, <2>1, <2>2, FS_RemoveElement
    <2>4. IsFiniteSet(K \cup {k}) /\ Cardinality(K \cup {k}) = Cardinality(K) + 1
      BY <1>5, <2>1, <2>3, FS_AddElement
    <2> QED
      BY <1>2, <1>5, <2>1, <2>2, <2>3, <2>4
  <1> QED
    BY <1>3, <1>4, <1>5

\* Recording a pin preserves the invariant.
LEMMA RecordInv ==
    ASSUME AffinityInv, NEW k \in Keys, NEW t \in Targets, Record(k, t)
    PROVE  AffinityInv'
  <1> USE ConstantsAssumption
  <1> DEFINE entry == [target |-> t, lastUsed |-> now]
  <1>1. PICK K \in Survivors(k) :
            entries' = [j \in K \cup {k} |-> IF j = k THEN entry ELSE entries[j]]
    BY DEF Record
  <1>2. /\ served' = [j \in DOMAIN served \cup {k} |-> IF j = k THEN entry ELSE served[j]]
        /\ now' = now
    BY DEF Record
  <1>3. /\ K \subseteq Unexpired \ {k} /\ Unexpired \subseteq DOMAIN entries
        /\ IsFiniteSet(K \cup {k}) /\ Cardinality(K \cup {k}) <= Cap
    BY SurvivorsBounded DEF Unexpired
  <1>4. /\ DOMAIN entries' = K \cup {k} /\ entries'[k] = entry
        /\ \A j \in K : entries'[j] = entries[j]
    BY <1>1, <1>3
  <1>5. /\ DOMAIN served' = DOMAIN served \cup {k} /\ served'[k] = entry
        /\ \A j \in DOMAIN served \ {k} : served'[j] = served[j]
    BY <1>2
  <1>6. entry \in Entries /\ entry.lastUsed = now
    BY DEF AffinityInv, AffinityTypeOK, Entries
  <1> HIDE DEF entry
  <1>7. AffinityTypeOK'
    <2>1. \A j \in DOMAIN entries' : entries'[j] \in Entries
      BY <1>3, <1>4, <1>6 DEF AffinityInv, AffinityTypeOK
    <2>2. \A j \in DOMAIN served' : served'[j] \in Entries
      BY <1>5, <1>6 DEF AffinityInv, AffinityTypeOK
    <2>3. DOMAIN entries' \subseteq Keys /\ DOMAIN served' \subseteq Keys
      BY <1>3, <1>4, <1>5 DEF AffinityInv, AffinityTypeOK
    <2>4. \A j \in DOMAIN served' : served'[j].lastUsed <= now'
      BY <1>2, <1>5, <1>6 DEF AffinityInv, AffinityTypeOK, Dated
    <2> QED
      BY <1>2, <2>1, <2>2, <2>3, <2>4 DEF AffinityInv, AffinityTypeOK, Dated
  <1>8. CapHeld'
    BY <1>3, <1>4 DEF CapHeld
  <1>9. History'
    <2>1. IsFiniteSet(DOMAIN served')
      BY <1>5, FS_AddElement DEF AffinityInv, History
    <2>2. \A j \in DOMAIN entries' : j \in DOMAIN served' /\ entries'[j] = served'[j]
      BY <1>3, <1>4, <1>5 DEF AffinityInv, History
    <2>3. ASSUME NEW i \in DOMAIN served' \ DOMAIN entries' PROVE ~Remembered(i)'
      <3>1. i \in DOMAIN served /\ i # k /\ i \notin K /\ served'[i] = served[i]
        BY <1>4, <1>5, <2>3
      <3>2. /\ UsedSince(i) \subseteq UsedSince(i)' /\ k \in UsedSince(i)'
            /\ IsFiniteSet(UsedSince(i)')
        BY <3>1, UsedSinceGrows
      <3>3. CASE Expired(served[i])
        BY <1>2, <3>1, <3>3 DEF Remembered, Expired
      <3>4. CASE i \notin DOMAIN entries /\ ~Expired(served[i])
        <4>1. ~(Cardinality(UsedSince(i)) < Cap)
          BY <3>1, <3>4 DEF AffinityInv, History, Remembered
        <4>2. /\ IsFiniteSet(UsedSince(i))
              /\ Cardinality(UsedSince(i)) <= Cardinality(UsedSince(i)')
          BY <3>2, FS_Subset
        <4>3. Cardinality(UsedSince(i)) \in Nat /\ Cardinality(UsedSince(i)') \in Nat
          BY <3>2, <4>2, FS_CardinalityType
        <4> QED
          BY <4>1, <4>2, <4>3 DEF Remembered
      <3>5. CASE i \in DOMAIN entries /\ ~Expired(served[i])
        <4>1. i \in Unexpired
          BY <3>1, <3>5 DEF Unexpired, AffinityInv, History
        <4>2. /\ k \notin Unexpired /\ i \in Oldest(Unexpired)
              /\ Cardinality(Unexpired) >= Cap
          BY <3>1, <4>1, SurvivorsBounded
        <4>3. Unexpired \ {i} \subseteq UsedSince(i)
          <5>1. \A j \in Unexpired : j \in DOMAIN served /\ entries[j] = served[j]
            BY <1>3 DEF AffinityInv, History
          <5>2. \A j \in DOMAIN served : served[j].lastUsed \in 0 .. MaxNow
            BY DEF AffinityInv, AffinityTypeOK, Entries
          <5> QED
            BY <4>1, <4>2, <5>1, <5>2 DEF Oldest, UsedSince
        <4> DEFINE others == (Unexpired \ {i}) \cup {k}
        <4>4. IsFiniteSet(Unexpired)
          BY <1>3, FS_Subset DEF AffinityInv, CapHeld
        <4>5. /\ IsFiniteSet(Unexpired \ {i})
              /\ Cardinality(Unexpired \ {i}) = Cardinality(Unexpired) - 1
          BY <4>1, <4>4, FS_RemoveElement
        <4>6. IsFiniteSet(others) /\ Cardinality(others) = Cardinality(Unexpired \ {i}) + 1
          BY <4>2, <4>5, FS_AddElement
        <4>7. Cardinality(others) <= Cardinality(UsedSince(i)')
          BY <3>2, <4>3, FS_Subset
        <4>8. Cardinality(Unexpired) \in Nat /\ Cardinality(UsedSince(i)') \in Nat
          BY <3>2, <4>4, FS_CardinalityType
        <4>9. Cardinality(others) = Cardinality(Unexpired)
          BY <4>5, <4>6, <4>8
        <4> HIDE DEF others
        <4> QED
          BY <4>2, <4>7, <4>8, <4>9 DEF Remembered
      <3> QED
        BY <3>3, <3>4, <3>5
    <2> QED
      BY <2>1, <2>2, <2>3 DEF History
  <1> QED
    BY <1>7, <1>8, <1>9 DEF AffinityInv

\* So does the passing of time.
LEMMA AffinityTickInv == ASSUME AffinityInv, AffinityTick PROVE AffinityInv'
  <1> USE ConstantsAssumption
  <1>1. /\ now' = now + 1 /\ now \in Nat /\ now' \in 0 .. MaxNow
        /\ entries' = entries /\ served' = served
    BY DEF AffinityTick, AffinityInv, AffinityTypeOK
  <1>2. \A k \in DOMAIN served : served[k].lastUsed \in Nat
    BY DEF AffinityInv, AffinityTypeOK, Entries
  <1>3. AffinityTypeOK'
    BY <1>1, <1>2 DEF AffinityInv, AffinityTypeOK, Dated
  <1>4. CapHeld'
    BY <1>1 DEF AffinityInv, CapHeld
  <1>5. \A k \in DOMAIN served : Expired(served[k]) => Expired(served[k])'
    BY <1>1, <1>2 DEF Expired
  <1>6. \A k : UsedSince(k)' = UsedSince(k)
    BY <1>1 DEF UsedSince
  <1>7. History'
    BY <1>1, <1>5, <1>6 DEF AffinityInv, History, Remembered
  <1> QED
    BY <1>3, <1>4, <1>7 DEF AffinityInv

\* And a step of another machine.
LEMMA AffinityStutters == AffinityInv /\ UNCHANGED affinityVars => AffinityInv'
  BY DEF AffinityInv, AffinityTypeOK, Dated, CapHeld, History, Remembered, UsedSince, Expired,
         affinityVars

\* The store answers a pin while it is due, and no other.
LEMMA PinsAnswered == AffinityInv => LookupHonest /\ PinsKept
  BY DEF AffinityInv, History, LookupHonest, PinsKept, Lookup, Remembered

\* The invariant holds in every reachable state.
THEOREM AffinityInvariance == AffinitySpec => []AffinityInv
  <1>1. AffinityInv /\ UNCHANGED affinityVars => AffinityInv'
    BY AffinityStutters
  <1>2. AffinityInv /\ AffinityNext => AffinityInv'
    BY RecordInv, AffinityTickInv DEF AffinityNext
  <1> QED
    BY <1>1, <1>2, AffinityInitInv, PTL DEF AffinitySpec

\* The map of pins is bounded by its cap.
THEOREM Bounded == AffinitySpec => []CapHeld
  BY AffinityInvariance, PTL DEF AffinityInv

\* lookup answers the last target recorded for the conversation, or nothing, and
\* a conversation used within the TTL keeps its pin until Cap others were used.
THEOREM Exact == AffinitySpec => []PinsExact
  <1>1. AffinityInv => PinsExact
    BY PinsAnswered DEF PinsExact
  <1> QED
    BY <1>1, AffinityInvariance, PTL

-----------------------------------------------------------------------------
(* VirtualRouter.                                                         *)

\* A set of numbers that is not empty has a least one.
LEMMA LeastPlace ==
  ASSUME NEW S \in SUBSET Nat, S # {}
  PROVE  \E x \in S : \A y \in S : x <= y
  <1>1. PICK x \in S : \A y \in S : <<y, x>> \notin OpToRel(<, Nat)
    BY NatLessThanWellFounded, WFMin
  <1>2. \A y \in S : ~(y < x)
    BY <1>1 DEF OpToRel
  <1> QED
    BY <1>2

\* Whatever the registry believes, every declared target is a candidate.
LEMMA CandidatesAreDeclared ==
  ASSUME NEW v \in Virtuals, NEW online, NEW order \in Candidates(v, online)
  PROVE  /\ order \in Seq(Targets)
         /\ {order[i] : i \in DOMAIN order} = DeclaredTargets(v)
  <1> DEFINE places == DOMAIN Declared[v]
  <1>1. Declared[v] \in Seq(Targets)
    BY RouterAssumption
  <1>2. PICK n \in Nat : n = Len(Declared[v]) /\ places = 1 .. n
    BY <1>1
  <1>3. \A i \in 1 .. n : Declared[v][i] \in Targets
    BY <1>1, <1>2
  <1>4. PICK p \in Bijection(places, places) : order = [i \in places |-> Declared[v][p[i]]]
    BY DEF Candidates
  <1>5. /\ p \in [places -> places]
        /\ \A k \in places : \E i \in places : p[i] = k
    BY <1>4 DEF Bijection, Injection, Surjection
  <1> HIDE DEF places
  <1>6. order \in [1 .. n -> Targets]
    BY <1>2, <1>3, <1>4, <1>5
  <1>7. {order[i] : i \in DOMAIN order} = {Declared[v][k] : k \in places}
    BY <1>4, <1>5
  <1>8. order \in Seq(Targets)
    BY <1>2, <1>6
  <1>9. {Declared[v][k] : k \in places} = DeclaredTargets(v)
    BY DEF DeclaredTargets, places
  <1> QED
    BY <1>7, <1>8, <1>9

\* Functions that take each other's values have the same ones.
LEMMA SameValues ==
  ASSUME NEW f, NEW g, DOMAIN f = DOMAIN g,
         \A i \in DOMAIN g : \E j \in DOMAIN g : f[i] = g[j],
         \A j \in DOMAIN g : \E i \in DOMAIN g : f[i] = g[j]
  PROVE  {f[i] : i \in DOMAIN f} = {g[i] : i \in DOMAIN g}
  OBVIOUS

\* A pin changes the order of the candidates and nothing else, and comes first if
\* it is one of them.
LEMMA AffinityReorders ==
  ASSUME NEW order \in Seq(Targets), NEW pinned, NEW new, new = ApplyAffinity(order, pinned)
  PROVE  /\ new \in Seq(Targets)
         /\ {new[i] : i \in DOMAIN new} = {order[i] : i \in DOMAIN order}
         /\ pinned \in {order[i] : i \in DOMAIN order} => new # <<>> /\ Head(new) = pinned
  <1> DEFINE at == {i \in DOMAIN order : order[i] = pinned}
             first == CHOOSE i \in at : \A j \in at : i <= j
  <1>1. PICK n \in Nat : n = Len(order) /\ DOMAIN order = 1 .. n
    OBVIOUS
  <1>2. \A i \in 1 .. n : order[i] \in Targets
    BY <1>1
  <1>3. CASE at = {}
    <2>1. new = order
      BY <1>3 DEF ApplyAffinity
    <2>2. pinned \notin {order[i] : i \in DOMAIN order}
      BY <1>3
    <2> QED
      BY <2>1, <2>2
  <1>4. CASE at # {}
    <2>1. at \in SUBSET Nat
      BY <1>1
    <2>2. first \in at
      BY <1>4, <2>1, LeastPlace
    <2>3. PICK idx \in 1 .. n : idx = first /\ order[idx] = pinned
      BY <1>1, <2>2
    <2>4. new = [i \in 1 .. n |-> IF i = 1 THEN pinned ELSE order[IF i <= idx THEN i - 1 ELSE i]]
      BY <1>1, <1>4, <2>3 DEF ApplyAffinity
    <2>5. DOMAIN new = 1 .. n /\ new[1] = pinned
      BY <1>1, <2>3, <2>4
    <2>6. \A i \in 1 .. n : \E j \in 1 .. n : new[i] = order[j]
      <3>1. ASSUME NEW i \in 1 .. n PROVE \E j \in 1 .. n : new[i] = order[j]
        <4>1. CASE i = 1
          BY <2>3, <2>5, <4>1
        <4>2. CASE i # 1 /\ i <= idx
          <5>1. i - 1 \in 1 .. n /\ new[i] = order[i - 1]
            BY <1>1, <2>3, <2>4, <4>2
          <5> QED
            BY <5>1
        <4>3. CASE i # 1 /\ ~(i <= idx)
          <5>1. new[i] = order[i]
            BY <2>4, <4>3
          <5> QED
            BY <5>1
        <4> QED
          BY <4>1, <4>2, <4>3
      <3> QED
        BY <3>1
    <2>7. \A j \in 1 .. n : \E i \in 1 .. n : new[i] = order[j]
      <3>1. ASSUME NEW j \in 1 .. n PROVE \E i \in 1 .. n : new[i] = order[j]
        <4>1. CASE j = idx
          <5>1. 1 \in 1 .. n /\ new[1] = order[j]
            BY <1>1, <2>3, <2>5, <4>1
          <5> QED
            BY <5>1
        <4>2. CASE j < idx
          <5>1. j + 1 \in 1 .. n /\ j + 1 # 1 /\ j + 1 <= idx /\ (j + 1) - 1 = j
            BY <1>1, <2>3, <4>2
          <5>2. new[j + 1] = order[j]
            BY <2>4, <5>1
          <5> QED
            BY <5>1, <5>2
        <4>3. CASE idx < j
          <5>1. j # 1 /\ ~(j <= idx)
            BY <1>1, <2>3, <4>3
          <5>2. new[j] = order[j]
            BY <2>4, <5>1
          <5> QED
            BY <5>2
        <4> QED
          BY <1>1, <2>3, <4>1, <4>2, <4>3
      <3> QED
        BY <3>1
    <2>8. \A i \in 1 .. n : new[i] \in Targets
      BY <1>2, <2>6
    <2>9. new \in [1 .. n -> Targets]
      BY <2>4, <2>5, <2>8
    <2>10. new \in Seq(Targets) /\ Len(new) = n /\ n # 0
      BY <1>1, <2>3, <2>5, <2>9
    <2>11. DOMAIN new = DOMAIN order /\ DOMAIN order = 1 .. n
      BY <1>1, <2>5
    <2>12. {new[i] : i \in DOMAIN new} = {order[i] : i \in DOMAIN order}
      <3> HIDE DEF at, first
      <3>1. /\ \A i \in DOMAIN order : \E j \in DOMAIN order : new[i] = order[j]
            /\ \A j \in DOMAIN order : \E i \in DOMAIN order : new[i] = order[j]
        BY <2>6, <2>7, <2>11
      <3> QED
        BY <2>11, <3>1, SameValues
    <2>13. new # <<>> /\ Head(new) = pinned
      BY <2>5, <2>10
    <2> QED
      BY <2>10, <2>12, <2>13
  <1> QED
    BY <1>3, <1>4

\* A request that moves leaves the others and the store alone.
LEMMA Moves ==
  ASSUME WalkInv, NEW r \in Requests, NEW q \in Requested, Walked(q),
         Becomes(r, q), UNCHANGED affinityVars
  PROVE  WalkInv'
  <1>1. req' = [req EXCEPT ![r] = q] /\ req \in [Requests -> Requested]
    BY DEF Becomes, WalkInv
  <1>2. req' \in [Requests -> Requested] /\ \A s \in Requests : req'[s] = IF s = r THEN q ELSE req[s]
    BY <1>1
  <1>3. \A s \in Requests : Walked(req'[s])
    BY <1>2 DEF WalkInv
  <1>4. AffinityInv' /\ PinsAreDeclared'
    BY AffinityStutters DEF WalkInv, PinsAreDeclared, affinityVars
  <1> QED
    BY <1>2, <1>3, <1>4 DEF WalkInv

\* No request is one.
LEMMA NoRequestIsWalked == NoRequest \in Requested /\ Walked(NoRequest)
  <1>1. NoRequest \in Requested
    BY DEF NoRequest, Requested, Labels, Statuses
  <1> QED
    BY <1>1 DEF NoRequest, Walked

\* A request that ends leaves the others and the store alone.
LEMMA Finishes ==
  ASSUME WalkInv, NEW r \in Requests, Finish(r), UNCHANGED affinityVars
  PROVE  WalkInv'
  BY Moves, NoRequestIsWalked DEF Finish

\* A request is its fields.
Whole(q) ==
    q = [pc |-> q.pc, virtual |-> q.virtual, conversation |-> q.conversation,
         order |-> q.order, target |-> q.target, wrote |-> q.wrote, status |-> q.status,
         header |-> q.header, over |-> q.over, tried |-> q.tried, sent |-> q.sent, due |-> q.due]

\* A request, field by field.
LEMMA Fields ==
  ASSUME NEW q \in Requested
  PROVE  /\ Whole(q)
         /\ q.order \in Seq(Targets) /\ q.pc \in Labels /\ q.wrote \in BOOLEAN /\ q.over \in BOOLEAN
         /\ q.virtual \in Virtuals \cup {None} /\ q.conversation \in Conversations \cup {None}
         /\ {q.target, q.header, q.due} \subseteq Targets \cup {None} /\ q.status \in Statuses
         /\ q.tried \in SUBSET Targets /\ q.sent \in SUBSET Targets
  BY DEF Requested, Whole

\* What a virtual model declares are targets.
LEMMA DeclaredAreTargets ==
  ASSUME NEW v \in Virtuals
  PROVE  DeclaredTargets(v) \subseteq Targets /\ None \notin DeclaredTargets(v)
  <1>1. Declared[v] \in Seq(Targets)
    BY RouterAssumption
  <1>2. \A i \in DOMAIN Declared[v] : Declared[v][i] \in Targets
    BY <1>1
  <1> QED
    BY <1>2, ConstantsAssumption DEF DeclaredTargets

\* WalkInv holds before the first request.
LEMMA WalkInit == Init => WalkInv
  <1> SUFFICES ASSUME Init PROVE WalkInv
    OBVIOUS
  <1>1. AffinityInv
    BY AffinityInitInv DEF Init
  <1>2. PinsAreDeclared
    BY DEF Init, AffinityInit, NoEntries, PinsAreDeclared
  <1>3. req \in [Requests -> Requested] /\ \A r \in Requests : Walked(req[r])
    BY NoRequestIsWalked DEF Init
  <1> QED
    BY <1>1, <1>2, <1>3 DEF WalkInv

\* Arriving, all declared targets are to come.
LEMMA ArriveWalks ==
  ASSUME WalkInv, NEW r \in Requests, NEW v \in Virtuals, NEW k \in Conversations \cup {None},
         NEW online \in SUBSET Endpoints, Arrive(r, v, k, online)
  PROVE  WalkInv'
  <1>1. PICK order \in Candidates(v, online) :
            Becomes(r, [NoRequest EXCEPT !.pc = "pinning", !.virtual = v, !.conversation = k,
                                         !.order = order])
    BY DEF Arrive
  <1>2. order \in Seq(Targets) /\ {order[i] : i \in DOMAIN order} = DeclaredTargets(v)
    BY CandidatesAreDeclared
  <1>3. PICK q : /\ q = [NoRequest EXCEPT !.pc = "pinning", !.virtual = v, !.conversation = k,
                                          !.order = order]
                 /\ Becomes(r, q)
    BY <1>1
  <1>4. q = [pc |-> "pinning", virtual |-> v, conversation |-> k, order |-> order, target |-> None,
             wrote |-> FALSE, status |-> None, header |-> None, over |-> FALSE, tried |-> {},
             sent |-> {}, due |-> None]
    BY <1>3 DEF NoRequest
  <1>5. q \in Requested
    BY <1>2, <1>4 DEF Requested, Labels, Statuses
  <1>6. Left(q) = DeclaredTargets(v)
    BY <1>2, <1>4 DEF Left
  <1>7. Walked(q)
    BY <1>4, <1>6 DEF Walked
  <1> QED
    BY <1>3, <1>5, <1>7, Moves DEF Arrive

\* The pin reorders what is to come: a due target comes first.
LEMMA PinWalks ==
  ASSUME WalkInv, NEW r \in Requests, Pin(r)
  PROVE  WalkInv'
  <1>1. PICK p : p = req[r]
    OBVIOUS
  <1>2. p \in Requested /\ Walked(p) /\ p.pc = "pinning"
    BY <1>1 DEF WalkInv, Pin
  <1>3. PICK key : key = Key(r) /\ key = <<p.virtual, p.conversation>>
    BY <1>1 DEF Key
  <1>4. PICK pinned : pinned = IF p.conversation # None THEN Lookup(key) ELSE None
    OBVIOUS
  <1>5. PICK due : due = IF p.conversation # None /\ Remembered(key) THEN served[key].target ELSE None
    OBVIOUS
  <1>6. PICK order : order = ApplyAffinity(p.order, pinned)
    OBVIOUS
  <1>7. PICK q : /\ q = [p EXCEPT !.pc = "walking", !.order = order, !.due = due]
                 /\ Becomes(r, q)
    BY <1>1, <1>3, <1>4, <1>5, <1>6 DEF Pin
  <1>8. q = [pc |-> "walking", virtual |-> p.virtual, conversation |-> p.conversation,
             order |-> order, target |-> p.target, wrote |-> p.wrote, status |-> p.status,
             header |-> p.header, over |-> p.over, tried |-> p.tried, sent |-> p.sent, due |-> due]
    <2>1. Whole(p)
      BY <1>2, Fields
    <2> QED
      BY <2>1, <1>7 DEF Whole
  <1>9. /\ p.virtual \in Virtuals /\ p.sent = {} /\ p.tried = {}
        /\ DeclaredTargets(p.virtual) = Left(p)
    BY <1>2 DEF Walked
  <1>10. /\ order \in Seq(Targets) /\ Left(q) = Left(p)
         /\ pinned \in Left(p) => order # <<>> /\ Head(order) = pinned
    <2>1. p.order \in Seq(Targets) /\ q.order = order
      BY <1>2, <1>8, Fields
    <2>2. /\ order \in Seq(Targets)
          /\ {order[i] : i \in DOMAIN order} = {p.order[i] : i \in DOMAIN p.order}
          /\ pinned \in {p.order[i] : i \in DOMAIN p.order} => order # <<>> /\ Head(order) = pinned
      BY <1>6, <2>1, AffinityReorders
    <2>3. /\ Left(p) = {p.order[i] : i \in DOMAIN p.order}
          /\ Left(q) = {order[i] : i \in DOMAIN order}
      BY <2>1 DEF Left
    <2> QED
      BY <2>2, <2>3
  <1>11. due # None => due = pinned /\ due \in Left(p)
    <2> SUFFICES ASSUME due # None PROVE due = pinned /\ due \in Left(p)
      OBVIOUS
    <2>1. p.conversation # None /\ Remembered(key) /\ due = served[key].target
      BY <1>5
    <2>2. key \in Keys /\ key[1] = p.virtual
      BY <1>2, <1>3, <1>9, <2>1, Fields, RouterAssumption
    <2>3. Lookup(key) = served[key].target
      BY <2>1, <2>2, PinsAnswered DEF WalkInv, PinsKept
    <2>4. served[key].target \in DeclaredTargets(p.virtual)
      BY <2>1, <2>2 DEF WalkInv, PinsAreDeclared, Remembered
    <2> QED
      BY <1>4, <1>9, <2>1, <2>3, <2>4
  <1>12. due \in Targets \cup {None}
    BY <1>9, <1>11, DeclaredAreTargets
  <1>13. q \in Requested
    BY <1>2, <1>8, <1>10, <1>12, Fields DEF Requested, Labels
  <1>14. Walked(q)
    BY <1>8, <1>9, <1>10, <1>11 DEF Walked
  <1> QED
    BY <1>7, <1>13, <1>14, Moves DEF Pin

\* The head and the tail of what is to come.
LEMMA HeadAndTail ==
  ASSUME NEW s \in Seq(Targets), s # <<>>
  PROVE  /\ Head(s) \in Targets /\ Tail(s) \in Seq(Targets)
         /\ {s[i] : i \in DOMAIN s} = {Head(s)} \cup {Tail(s)[i] : i \in DOMAIN Tail(s)}
  <1>1. PICK n \in Nat : n = Len(s) /\ DOMAIN s = 1 .. n /\ n # 0
    OBVIOUS
  <1>2. Tail(s) \in Seq(Targets) /\ DOMAIN Tail(s) = 1 .. n - 1 /\ Head(s) = s[1]
    BY <1>1
  <1>3. \A i \in 1 .. n - 1 : Tail(s)[i] = s[i + 1]
    BY <1>1
  <1>4. Head(s) \in Targets
    BY <1>1, <1>2
  <1>5. ASSUME NEW x \in {s[i] : i \in DOMAIN s}
        PROVE  x \in {Head(s)} \cup {Tail(s)[i] : i \in DOMAIN Tail(s)}
    <2>1. PICK i \in 1 .. n : x = s[i]
      BY <1>1
    <2>2. CASE i = 1
      BY <1>2, <2>1, <2>2
    <2>3. CASE i # 1
      <3>1. i - 1 \in 1 .. n - 1 /\ (i - 1) + 1 = i
        BY <1>1, <2>3
      <3>2. Tail(s)[i - 1] = x
        BY <1>3, <2>1, <3>1
      <3> QED
        BY <1>2, <3>1, <3>2
    <2> QED
      BY <2>2, <2>3
  <1>6. Head(s) \in {s[i] : i \in DOMAIN s}
    BY <1>1, <1>2
  <1>7. ASSUME NEW x \in {Tail(s)[i] : i \in DOMAIN Tail(s)} PROVE x \in {s[i] : i \in DOMAIN s}
    <2>1. PICK i \in 1 .. n - 1 : x = Tail(s)[i]
      BY <1>2
    <2>2. i + 1 \in 1 .. n /\ x = s[i + 1]
      BY <1>1, <1>3, <2>1
    <2> QED
      BY <1>1, <2>2
  <1> QED
    BY <1>2, <1>4, <1>5, <1>6, <1>7

\* The first candidate is attempted.
LEMMA AttemptWalks ==
  ASSUME WalkInv, NEW r \in Requests, Attempt(r)
  PROVE  WalkInv'
  <1>1. PICK p : p = req[r]
    OBVIOUS
  <1>2. p \in Requested /\ Walked(p) /\ p.pc = "walking" /\ p.order # <<>>
    BY <1>1 DEF WalkInv, Attempt
  <1>3. PICK t : t = Head(p.order)
    OBVIOUS
  <1>4. PICK rest : rest = Tail(p.order)
    OBVIOUS
  <1>5. PICK q : /\ q = [p EXCEPT !.pc = "attempting", !.target = t, !.header = t, !.wrote = FALSE,
                                  !.order = rest]
                 /\ Becomes(r, q)
    BY <1>1, <1>3, <1>4 DEF Attempt
  <1>6. q = [pc |-> "attempting", virtual |-> p.virtual, conversation |-> p.conversation,
             order |-> rest, target |-> t, wrote |-> FALSE, status |-> p.status,
             header |-> t, over |-> p.over, tried |-> p.tried, sent |-> p.sent, due |-> p.due]
    <2>1. Whole(p)
      BY <1>2, Fields
    <2> QED
      BY <2>1, <1>5 DEF Whole
  <1>7. t \in Targets /\ rest \in Seq(Targets) /\ Left(p) = {t} \cup Left(q)
    <2>1. p.order \in Seq(Targets) /\ q.order = rest
      BY <1>2, <1>6, Fields
    <2>2. /\ t \in Targets /\ rest \in Seq(Targets)
          /\ {p.order[i] : i \in DOMAIN p.order} = {t} \cup {rest[i] : i \in DOMAIN rest}
      BY <1>2, <1>3, <1>4, <2>1, HeadAndTail
    <2>3. /\ Left(p) = {p.order[i] : i \in DOMAIN p.order}
          /\ Left(q) = {rest[i] : i \in DOMAIN rest}
      BY <2>1 DEF Left
    <2> QED
      BY <2>2, <2>3
  <1>8. q \in Requested
    BY <1>2, <1>6, <1>7, Fields DEF Requested, Labels
  <1>9. Walked(q)
    BY <1>2, <1>3, <1>6, <1>7 DEF Walked
  <1> QED
    BY <1>5, <1>8, <1>9, Moves DEF Attempt

\* A failure before any byte joins the target to the tried ones.
LEMMA FailsWalks ==
  ASSUME WalkInv, NEW r \in Requests, Fails(r)
  PROVE  WalkInv'
  <1>1. CASE req[r].wrote
    BY <1>1, Finishes DEF Fails
  <1>2. CASE ~req[r].wrote
    <2>1. PICK p : p = req[r]
      OBVIOUS
    <2>2. p \in Requested /\ Walked(p) /\ p.pc = "attempting" /\ ~p.wrote
      BY <1>2, <2>1 DEF WalkInv, Fails
    <2>3. PICK q : q = [p EXCEPT !.pc = "walking", !.tried = p.tried \cup {p.target}] /\ Becomes(r, q)
      BY <1>2, <2>1 DEF Fails, Retries
    <2>4. q = [pc |-> "walking", virtual |-> p.virtual, conversation |-> p.conversation,
               order |-> p.order, target |-> p.target, wrote |-> p.wrote, status |-> p.status,
               header |-> p.header, over |-> p.over, tried |-> p.tried \cup {p.target},
               sent |-> p.sent, due |-> p.due]
      <3>1. Whole(p)
        BY <2>2, Fields
      <3> QED
        BY <3>1, <2>3 DEF Whole
    <2>5. p.target \in Targets
      BY <2>2, DeclaredAreTargets DEF Walked
    <2>6. q \in Requested
      BY <2>2, <2>4, <2>5, Fields DEF Requested, Labels
    <2>7. Left(q) = Left(p)
      BY <2>4 DEF Left
    <2>8. Walked(q)
      BY <2>2, <2>4, <2>7 DEF Walked
    <2> QED
      BY <2>3, <2>6, <2>8, Moves DEF Fails
  <1> QED
    BY <1>1, <1>2

\* What the client is sent comes from the target being attempted.
LEMMA InformsWalks ==
  ASSUME WalkInv, NEW r \in Requests, Informs(r)
  PROVE  WalkInv'
  <1>1. PICK p : p = req[r]
    OBVIOUS
  <1>2. p \in Requested /\ Walked(p) /\ p.pc = "attempting"
    BY <1>1 DEF WalkInv, Informs
  <1>3. PICK q : /\ q = [p EXCEPT !.wrote = TRUE, !.header = None, !.sent = p.sent \cup {p.target}]
                 /\ Becomes(r, q)
    BY <1>1 DEF Informs, Sends
  <1>4. q = [pc |-> p.pc, virtual |-> p.virtual, conversation |-> p.conversation,
             order |-> p.order, target |-> p.target, wrote |-> TRUE, status |-> p.status,
             header |-> None, over |-> p.over, tried |-> p.tried,
             sent |-> p.sent \cup {p.target}, due |-> p.due]
    <2>1. Whole(p)
      BY <1>2, Fields
    <2> QED
      BY <2>1, <1>3 DEF Whole
  <1>5. p.target \in Targets
    BY <1>2, DeclaredAreTargets DEF Walked
  <1>6. q \in Requested
    BY <1>2, <1>4, <1>5, Fields DEF Requested
  <1>7. Left(q) = Left(p)
    BY <1>4 DEF Left
  <1>8. Walked(q)
    BY <1>2, <1>4, <1>7 DEF Walked
  <1> QED
    BY <1>3, <1>6, <1>8, Moves DEF Informs

\* So does the answer.
LEMMA AnswersWalks ==
  ASSUME WalkInv, NEW r \in Requests, NEW status \in Statuses \ {None}, Answers(r, status)
  PROVE  WalkInv'
  <1>1. PICK p : p = req[r]
    OBVIOUS
  <1>2. p \in Requested /\ Walked(p) /\ p.pc = "attempting"
    BY <1>1 DEF WalkInv, Answers
  <1>3. PICK q : /\ q = [p EXCEPT !.pc = "answering", !.wrote = TRUE, !.order = <<>>,
                                  !.status = status, !.sent = p.sent \cup {p.target}]
                 /\ Becomes(r, q)
    BY <1>1 DEF Answers, Sends
  <1>4. q = [pc |-> "answering", virtual |-> p.virtual, conversation |-> p.conversation,
             order |-> <<>>, target |-> p.target, wrote |-> TRUE, status |-> status,
             header |-> p.header, over |-> p.over, tried |-> p.tried,
             sent |-> p.sent \cup {p.target}, due |-> p.due]
    <2>1. Whole(p)
      BY <1>2, Fields
    <2> QED
      BY <2>1, <1>3 DEF Whole
  <1>5. p.target \in Targets
    BY <1>2, DeclaredAreTargets DEF Walked
  <1>6. q \in Requested
    BY <1>2, <1>4, <1>5, Fields DEF Requested, Labels
  <1>7. Walked(q)
    BY <1>2, <1>4 DEF Walked
  <1> QED
    BY <1>3, <1>6, <1>7, Moves DEF Answers

\* The body, and a client that goes, change nothing of the walk.
LEMMA CompletesWalks ==
  ASSUME WalkInv, NEW r \in Requests, Completes(r) \/ Cancel(r)
  PROVE  WalkInv'
  <1>1. PICK p : p = req[r]
    OBVIOUS
  <1>2. p \in Requested /\ Walked(p)
    BY <1>1 DEF WalkInv
  <1>3. PICK pc, over : /\ \/ p.pc = "answering" /\ pc = "recording" /\ over = p.over
                           \/ pc = p.pc /\ over = TRUE
                        /\ Becomes(r, [p EXCEPT !.pc = pc, !.over = over])
    <2>1. CASE Completes(r)
      <3>1. [p EXCEPT !.pc = "recording"] = [p EXCEPT !.pc = "recording", !.over = p.over]
        BY <1>2, Fields
      <3> QED
        BY <1>1, <2>1, <3>1 DEF Completes
    <2>2. CASE Cancel(r)
      <3>1. [p EXCEPT !.over = TRUE] = [p EXCEPT !.pc = p.pc, !.over = TRUE]
        BY <1>2, Fields
      <3> QED
        BY <1>1, <2>2, <3>1 DEF Cancel
    <2> QED
      BY <2>1, <2>2
  <1>4. PICK q : q = [p EXCEPT !.pc = pc, !.over = over] /\ Becomes(r, q)
    BY <1>3
  <1>5. q = [pc |-> pc, virtual |-> p.virtual, conversation |-> p.conversation,
             order |-> p.order, target |-> p.target, wrote |-> p.wrote, status |-> p.status,
             header |-> p.header, over |-> over, tried |-> p.tried, sent |-> p.sent, due |-> p.due]
    <2>1. Whole(p)
      BY <1>2, Fields
    <2> QED
      BY <2>1, <1>4 DEF Whole
  <1>6. pc \in Labels /\ over \in BOOLEAN
    BY <1>2, <1>3, Fields DEF Labels
  <1>7. q \in Requested
    BY <1>2, <1>5, <1>6, Fields DEF Requested
  <1>8. Left(q) = Left(p)
    BY <1>5 DEF Left
  <1>9. Walked(q)
    BY <1>2, <1>3, <1>5, <1>8 DEF Walked
  <1> QED
    BY <1>4, <1>7, <1>9, Moves DEF Completes, Cancel

\* What is pinned is a declared target.
LEMMA PinsWalks ==
  ASSUME WalkInv, NEW r \in Requests, Pins(r)
  PROVE  WalkInv'
  <1>1. CASE ~Pinned(r)
    BY <1>1, Finishes DEF Pins
  <1>2. CASE Pinned(r)
    <2>1. PICK p : p = req[r]
      OBVIOUS
    <2>2. p \in Requested /\ Walked(p) /\ p.pc = "recording" /\ p.conversation # None
      BY <1>2, <2>1 DEF WalkInv, Pins, Pinned
    <2>3. p.virtual \in Virtuals /\ p.target \in DeclaredTargets(p.virtual) /\ p.target \in Targets
      BY <2>2, DeclaredAreTargets DEF Walked
    <2>4. PICK key \in Keys : key = Key(r) /\ key[1] = p.virtual
      <3>1. p.conversation \in Conversations /\ Key(r) = <<p.virtual, p.conversation>>
        BY <2>1, <2>2, Fields DEF Key
      <3> QED
        BY <2>3, <3>1, RouterAssumption
    <2>5. PICK t : t = p.target
      OBVIOUS
    <2>6. Record(key, t)
      BY <1>2, <2>1, <2>4, <2>5 DEF Pins
    <2>7. AffinityInv'
      BY <2>3, <2>5, <2>6, RecordInv DEF WalkInv
    <2>8. /\ DOMAIN served' = DOMAIN served \cup {key} /\ served'[key].target = t
          /\ \A k \in DOMAIN served \ {key} : served'[k] = served[k]
      BY <2>6 DEF Record
    <2>9. PinsAreDeclared'
      BY <2>3, <2>4, <2>5, <2>8 DEF WalkInv, PinsAreDeclared
    <2>10. req' = [req EXCEPT ![r] = NoRequest] /\ req \in [Requests -> Requested]
      BY DEF Pins, Finish, Becomes, WalkInv
    <2>11. /\ req' \in [Requests -> Requested]
           /\ \A s \in Requests : req'[s] = IF s = r THEN NoRequest ELSE req[s]
      BY <2>10, NoRequestIsWalked
    <2>12. \A s \in Requests : Walked(req'[s])
      BY <2>11, NoRequestIsWalked DEF WalkInv
    <2> QED
      BY <2>7, <2>9, <2>11, <2>12 DEF WalkInv
  <1> QED
    BY <1>1, <1>2

\* WalkInv is inductive.
LEMMA WalkStep == WalkInv /\ [Next]_vars => WalkInv'
  <1> SUFFICES ASSUME WalkInv, [Next]_vars PROVE WalkInv'
    OBVIOUS
  <1>1. ASSUME NEW r \in Requests, Step(r) \/ Cancel(r) PROVE WalkInv'
    <2>1. CASE Abandon(r) \/ AllFailed(r) \/ Breaks(r)
      BY <2>1, Finishes DEF Abandon, AllFailed, Breaks
    <2>2. CASE Pin(r)
      BY <2>2, PinWalks
    <2>3. CASE Attempt(r)
      BY <2>3, AttemptWalks
    <2>4. CASE Fails(r)
      BY <2>4, FailsWalks
    <2>5. CASE Informs(r)
      BY <2>5, InformsWalks
    <2>6. ASSUME NEW status \in Statuses \ {None}, Answers(r, status) PROVE WalkInv'
      BY <2>6, AnswersWalks
    <2>7. CASE Completes(r) \/ Cancel(r)
      BY <2>7, CompletesWalks
    <2>8. CASE Pins(r)
      BY <2>8, PinsWalks
    <2> QED
      BY <1>1, <2>1, <2>2, <2>3, <2>4, <2>5, <2>6, <2>7, <2>8 DEF Step
  <1>2. ASSUME NEW r \in Requests, NEW v \in Virtuals, NEW k \in Conversations \cup {None},
               NEW online \in SUBSET Endpoints, Arrive(r, v, k, online)
        PROVE  WalkInv'
    BY <1>2, ArriveWalks
  <1>3. CASE Tick
    <2>1. AffinityInv'
      BY <1>3, AffinityTickInv DEF WalkInv, Tick
    <2>2. served' = served /\ req' = req
      BY <1>3 DEF Tick, AffinityTick
    <2> QED
      BY <2>1, <2>2 DEF WalkInv, PinsAreDeclared
  <1>4. CASE UNCHANGED vars
    <2>1. UNCHANGED affinityVars /\ served' = served /\ req' = req
      BY <1>4 DEF vars, affinityVars
    <2>2. AffinityInv'
      BY <2>1, AffinityStutters DEF WalkInv
    <2> QED
      BY <2>1, <2>2 DEF WalkInv, PinsAreDeclared
  <1> QED
    BY <1>1, <1>2, <1>3, <1>4 DEF Next

\* WalkInv holds in every reachable state.
LEMMA WalkInvariance == Spec => []WalkInv
  <1> QED
    BY WalkInit, WalkStep, PTL DEF Spec

\* The store and the requests stay well formed.
THEOREM TypeCorrect == Spec => []TypeOK
  <1>1. WalkInv => TypeOK
    BY DEF WalkInv, AffinityInv, TypeOK
  <1> QED
    BY <1>1, WalkInvariance, PTL

\* A client reads the bytes of one target, and of the one that serves its
\* conversation unless that failed in this very request (routeVirtualWith).
THEOREM OneServes == Spec => []ServedByOne
  <1>1. WalkInv => ServedByOne
    <2> SUFFICES ASSUME WalkInv PROVE ServedByOne
      OBVIOUS
    <2>1. ASSUME NEW r \in Requests PROVE Cardinality(req[r].sent) <= 1
      <3>1. PICK p : p = req[r] /\ p \in Requested /\ Walked(p)
        BY DEF WalkInv
      <3>2. p.sent = {} \/ p.sent = {p.target}
        BY <3>1, Fields DEF Walked, Labels
      <3>3. Cardinality({}) = 0 /\ Cardinality({p.target}) = 1
        BY FS_EmptySet, FS_Singleton
      <3> QED
        BY <3>1, <3>2, <3>3
    <2>2. NoSwitch
      BY DEF WalkInv, Walked, NoSwitch
    <2> QED
      BY <2>1, <2>2 DEF ServedByOne, OneTargetAnswers
  <1> QED
    BY <1>1, WalkInvariance, PTL

\* A walk fails only when every target of the virtual model has failed in it,
\* whatever the registry believes of their endpoints (routeVirtualWith).
THEOREM FailsWhenAllDo == Spec => FailsAfterAll
  <1>1. WalkInv => [\A r \in Requests : AllFailed(r) =>
                        req[r].tried = DeclaredTargets(req[r].virtual)]_vars
    <2> SUFFICES ASSUME WalkInv, NEW r \in Requests, AllFailed(r)
                 PROVE  req[r].tried = DeclaredTargets(req[r].virtual)
      OBVIOUS
    <2>1. req[r].order = <<>> /\ DeclaredTargets(req[r].virtual) = req[r].tried \cup Left(req[r])
      BY DEF AllFailed, WalkInv, Walked
    <2>2. Left(req[r]) = {}
      BY <2>1 DEF Left
    <2> QED
      BY <2>1, <2>2
  <1> QED
    BY <1>1, WalkInvariance, PTL DEF FailsAfterAll
=============================================================================
