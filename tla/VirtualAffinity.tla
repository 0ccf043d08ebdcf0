-------------------------- MODULE VirtualAffinity --------------------------
(***************************************************************************)
(* internal/router/router_virtual_affinity.go: the store that pins the     *)
(* conversations of virtual models to the target that served them.  A key  *)
(* is a pair of a virtual model and a conversation.  Every operation is    *)
(* one critical section of virtualAffinityStore.mu; expiry and the cap are *)
(* enforced on the write path only.                                        *)
(***************************************************************************)
EXTENDS Naturals, FiniteSets

CONSTANTS
    Keys,    \* virtualAffinityKey values
    Targets, \* target identities
    TTL,     \* virtualAffinityTTL in ticks of the clock
    Cap,     \* virtualAffinityCap
    MaxNow,  \* bound on the clock
    None     \* no pin

ASSUME ConstantsAssumption ==
    /\ TTL \in Nat /\ MaxNow \in Nat /\ Cap \in Nat \ {0}
    /\ None \notin Targets

VARIABLES
    entries, \* s.entries: a function on the keys that have an entry
    now,     \* the clock
    served   \* history: the last record of every key, as a store without
             \* expiry or cap would remember it

affinityVars == <<entries, now, served>>

Entries == [target : Targets, lastUsed : 0 .. MaxNow]

\* Nothing was used after now.
Dated == \A k \in DOMAIN served : served[k].lastUsed <= now

AffinityTypeOK ==
    /\ now \in 0 .. MaxNow
    /\ DOMAIN entries \subseteq Keys
    /\ \A k \in DOMAIN entries : entries[k] \in Entries
    /\ DOMAIN served \subseteq Keys
    /\ \A k \in DOMAIN served : served[k] \in Entries
    /\ Dated

NoEntries == [k \in {} |-> None]

AffinityInit == entries = NoEntries /\ now = 0 /\ served = NoEntries

-----------------------------------------------------------------------------
Expired(entry) == now > entry.lastUsed + TTL

\* lookup: an expired entry is a miss, though it is still in the map.
Lookup(k) ==
    IF k \in DOMAIN entries /\ ~Expired(entries[k]) THEN entries[k].target ELSE None

\* expireLocked keeps these.
Unexpired == {k \in DOMAIN entries : ~Expired(entries[k])}

\* evictLRULocked drops one of these: entries tie when they were used at the
\* same instant, and the map is iterated in any order.
Oldest_Newest(K) ==
    {k \in K : \A j \in K : entries[j].lastUsed <= entries[k].lastUsed}

Oldest(K) == {k \in K : \A j \in K : entries[k].lastUsed <= entries[j].lastUsed}

\* What record leaves beside k's own entry.  Refreshing an entry evicts nothing.
Survivors_NoCap(k) == {Unexpired \ {k}}

Survivors(k) ==
    IF k \in Unexpired \/ Cardinality(Unexpired) < Cap
    THEN {Unexpired \ {k}}
    ELSE {Unexpired \ {j} : j \in Oldest(Unexpired)}

Record(k, t) ==
    LET entry == [target |-> t, lastUsed |-> now]
    IN  /\ \E K \in Survivors(k) :
               entries' = [j \in K \cup {k} |-> IF j = k THEN entry ELSE entries[j]]
        /\ served' = [j \in DOMAIN served \cup {k} |-> IF j = k THEN entry ELSE served[j]]
        /\ UNCHANGED now

AffinityTick ==
    /\ now < MaxNow
    /\ now' = now + 1
    /\ UNCHANGED <<entries, served>>

AffinityNext == AffinityTick \/ \E k \in Keys, t \in Targets : Record(k, t)

AffinitySpec == AffinityInit /\ [][AffinityNext]_affinityVars

-----------------------------------------------------------------------------
(***************************************************************************)
(* Properties.                                                             *)
(***************************************************************************)

\* However many conversations come and go, the map never outgrows its cap.
CapHeld == IsFiniteSet(DOMAIN entries) /\ Cardinality(DOMAIN entries) <= Cap

\* Other conversations used no earlier than k.
UsedSince(k) == {j \in DOMAIN served \ {k} : served[j].lastUsed >= served[k].lastUsed}

\* The store remembers k: its last record is within the TTL and fewer than Cap
\* other conversations were used since.
Remembered(k) ==
    /\ k \in DOMAIN served /\ ~Expired(served[k])
    /\ Cardinality(UsedSince(k)) < Cap

\* A pin is never wrong: lookup answers the last recorded target or nothing, and
\* nothing once the TTL has passed.
LookupHonest ==
    \A k \in Keys : Lookup(k) # None =>
        k \in DOMAIN served /\ ~Expired(served[k]) /\ Lookup(k) = served[k].target

\* A pin is never lost early: neither expiry nor eviction drops a conversation
\* used within the TTL while fewer than Cap others were used after it.
PinsKept == \A k \in Keys : Remembered(k) => Lookup(k) = served[k].target

\* Between the two, a lookup answers the last pin of its conversation, exactly
\* while that pin is due.
PinsExact == LookupHonest /\ PinsKept

\* The inductive invariant behind the three: an entry is the last record of its
\* key, and a key without one has expired or was pushed out by Cap others.
History ==
    /\ IsFiniteSet(DOMAIN served)
    /\ \A k \in DOMAIN entries : k \in DOMAIN served /\ entries[k] = served[k]
    /\ \A k \in DOMAIN served \ DOMAIN entries : ~Remembered(k)

AffinityInv == AffinityTypeOK /\ CapHeld /\ History
=============================================================================
