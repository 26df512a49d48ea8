-------------------------- MODULE ModuleCacheProofs --------------------------
(***************************************************************************)
(* The compiled-module cache for any keys, sizes, capacity and TTL and any *)
(* finite number of callers: its capacity, its byte count and its eviction *)
(* count.                                                                  *)
(***************************************************************************)
EXTENDS ModuleCache, SequenceTheorems, FiniteSetTheorems, TLAPS

-----------------------------------------------------------------------------
(* The recency list: sequences of keys without repetition *)

\* A list of distinct keys.
Listing(s) == s \in Seq(Keys) /\ IsInjective(s)

\* An entry that is unlinked leaves the other keys listed once, in order.
LEMMA Unlinked ==
  ASSUME NEW s, Listing(s), NEW p \in 1 .. Len(s), NEW r, r = RemoveAt(s, p)
  PROVE  /\ Listing(r)
         /\ Len(r) = Len(s) - 1
         /\ ToSet(r) = ToSet(s) \ {s[p]}
         /\ \A i \in 1 .. Len(r) : r[i] = IF i < p THEN s[i] ELSE s[i + 1]
<1> DEFINE a == SubSeq(s, 1, p - 1)
           b == SubSeq(s, p + 1, Len(s))
<1>a. s \in Seq(Keys) /\ IsInjective(s) /\ Len(s) \in Nat /\ DOMAIN s = 1 .. Len(s)
  BY LenProperties DEF Listing
<1>1. /\ a \in Seq(Keys) /\ Len(a) = p - 1
      /\ \A i \in 1 .. p - 1 : a[i] = s[i]
  <2>1. 1 \in 1 .. Len(s) + 1 /\ p - 1 \in 0 .. Len(s)
    BY <1>a
  <2> QED
    BY <1>a, <2>1, SubSeqProperties
<1>2. /\ b \in Seq(Keys) /\ Len(b) = Len(s) - p
      /\ \A i \in 1 .. Len(s) - p : b[i] = s[i + p]
  <2>1. p + 1 \in 1 .. Len(s) + 1 /\ Len(s) \in p .. Len(s)
    BY <1>a
  <2> QED
    BY <1>a, <2>1, SubSeqProperties
<1>3. r = a \o b
  BY DEF RemoveAt
<1> HIDE DEF a, b
<1>4. /\ r \in Seq(Keys)
      /\ Len(r) = Len(s) - 1
      /\ \A i \in 1 .. Len(r) : r[i] = IF i <= p - 1 THEN a[i] ELSE b[i - (p - 1)]
  <2>1. /\ a \o b \in Seq(Keys)
        /\ Len(a \o b) = Len(a) + Len(b)
        /\ \A i \in 1 .. Len(a) + Len(b) :
             (a \o b)[i] = IF i <= Len(a) THEN a[i] ELSE b[i - Len(a)]
    BY <1>1, <1>2, ConcatProperties
  <2>2. Len(a) + Len(b) = Len(s) - 1
    BY <1>a, <1>1, <1>2
  <2> QED
    BY <1>1, <1>3, <2>1, <2>2
<1>5. \A i \in 1 .. Len(r) : r[i] = IF i < p THEN s[i] ELSE s[i + 1]
  <2> SUFFICES ASSUME NEW i \in 1 .. Len(r)
               PROVE  r[i] = IF i < p THEN s[i] ELSE s[i + 1]
    OBVIOUS
  <2>1. CASE i < p
    BY <1>a, <1>1, <1>4, <2>1
  <2>2. CASE ~(i < p)
    <3> DEFINE j == i - (p - 1)
    <3>1. j \in 1 .. Len(s) - p /\ j + p = i + 1 /\ ~(i <= p - 1)
      BY <1>a, <1>4, <2>2
    <3>2. r[i] = b[j]
      BY <1>4, <3>1
    <3> HIDE DEF j
    <3>3. b[j] = s[j + p]
      BY <1>2, <3>1
    <3> QED
      BY <2>2, <3>1, <3>2, <3>3
  <2> QED
    BY <2>1, <2>2
<1>6. DOMAIN r = 1 .. Len(r)
  BY <1>4, LenProperties
<1>7. IsInjective(r)
  <2> SUFFICES ASSUME NEW i \in 1 .. Len(r), NEW j \in 1 .. Len(r), r[i] = r[j]
               PROVE  i = j
    BY <1>6 DEF IsInjective
  <2> DEFINE from(n) == IF n < p THEN n ELSE n + 1
  <2>1. r[i] = s[from(i)] /\ r[j] = s[from(j)]
    BY <1>5
  <2>2. from(i) \in 1 .. Len(s) /\ from(j) \in 1 .. Len(s)
    BY <1>a, <1>4
  <2>3. from(i) = from(j)
    BY <1>a, <2>1, <2>2 DEF IsInjective
  <2> QED
    BY <2>3
<1>8. ToSet(r) = ToSet(s) \ {s[p]}
  <2>1. ASSUME NEW i \in 1 .. Len(r) PROVE r[i] \in ToSet(s) \ {s[p]}
    BY <1>a, <1>4, <1>5 DEF IsInjective, ToSet
  <2>2. ASSUME NEW j \in 1 .. Len(s), s[j] # s[p] PROVE s[j] \in ToSet(r)
    <3>1. CASE j < p
      BY <1>a, <1>4, <1>5, <1>6, <3>1 DEF ToSet
    <3>2. CASE ~(j < p)
      <4>1. j - 1 \in 1 .. Len(r) /\ ~(j - 1 < p) /\ j - 1 + 1 = j
        BY <1>a, <1>4, <2>2, <3>2
      <4> QED
        BY <1>5, <1>6, <4>1 DEF ToSet
    <3> QED
      BY <3>1, <3>2
  <2> QED
    BY <1>a, <1>6, <2>1, <2>2 DEF ToSet
<1> QED
  BY <1>4, <1>5, <1>7, <1>8 DEF Listing

\* A new key goes to the end.
LEMMA Appended ==
  ASSUME NEW s, Listing(s), NEW k \in Keys, k \notin ToSet(s), NEW r, r = Append(s, k)
  PROVE  /\ Listing(r)
         /\ Len(r) = Len(s) + 1
         /\ ToSet(r) = ToSet(s) \cup {k}
<1>a. s \in Seq(Keys) /\ IsInjective(s) /\ Len(s) \in Nat /\ DOMAIN s = 1 .. Len(s)
  BY LenProperties DEF Listing
<1>1. /\ r \in Seq(Keys)
      /\ Len(r) = Len(s) + 1
      /\ \A i \in 1 .. Len(s) : r[i] = s[i]
      /\ r[Len(s) + 1] = k
      /\ DOMAIN r = 1 .. Len(s) + 1
  BY <1>a, AppendProperties, LenProperties
<1>2. \A i \in 1 .. Len(s) : s[i] \in ToSet(s)
  BY <1>a DEF ToSet
<1>3. IsInjective(r)
  BY <1>a, <1>1, <1>2 DEF IsInjective
<1>4. ToSet(r) = ToSet(s) \cup {k}
  BY <1>a, <1>1 DEF ToSet
<1> QED
  BY <1>1, <1>3, <1>4 DEF Listing

\* The least recently used entry goes.
LEMMA Tailed ==
  ASSUME NEW s, Listing(s), s # <<>>, NEW r, r = Tail(s)
  PROVE  /\ Listing(r)
         /\ Len(r) = Len(s) - 1
         /\ Head(s) \in ToSet(s)
         /\ ToSet(r) = ToSet(s) \ {Head(s)}
<1>a. /\ s \in Seq(Keys) /\ IsInjective(s) /\ Len(s) \in Nat /\ DOMAIN s = 1 .. Len(s)
      /\ Len(s) >= 1
  BY LenProperties, EmptySeq DEF Listing
<1>1. /\ r \in Seq(Keys)
      /\ Len(r) = Len(s) - 1
      /\ \A i \in 1 .. Len(r) : r[i] = s[i + 1]
      /\ Head(s) = s[1]
      /\ DOMAIN r = 1 .. Len(s) - 1
  BY <1>a, HeadTailProperties, LenProperties
<1>2. IsInjective(r)
  BY <1>a, <1>1 DEF IsInjective
<1>3. ToSet(r) = ToSet(s) \ {s[1]}
  <2>1. ASSUME NEW i \in 1 .. Len(s) - 1 PROVE r[i] \in ToSet(s) \ {s[1]}
    BY <1>a, <1>1 DEF IsInjective, ToSet
  <2>2. ASSUME NEW j \in 1 .. Len(s), s[j] # s[1] PROVE s[j] \in ToSet(r)
    <3>1. j - 1 \in 1 .. Len(s) - 1 /\ j - 1 + 1 = j
      BY <1>a, <2>2
    <3> QED
      BY <1>1, <3>1 DEF ToSet
  <2> QED
    BY <1>a, <1>1, <2>1, <2>2 DEF ToSet
<1> QED
  BY <1>a, <1>1, <1>2, <1>3 DEF Listing, ToSet
-----------------------------------------------------------------------------
(* What the operations make of the list *)

\* A popped key, if it was listed, is gone and the rest stays.
LEMMA WithoutListing ==
  ASSUME Listing(lru), NEW k
  PROVE  /\ Listing(Without(k))
         /\ ToSet(Without(k)) = Cached \ {k}
         /\ Len(Without(k)) = IF k \in Cached THEN Len(lru) - 1 ELSE Len(lru)
<1>1. CASE k \in Cached
  <2>1. Position(k) \in 1 .. Len(lru) /\ lru[Position(k)] = k
    BY <1>1, LenProperties DEF Position, Cached, ToSet, Listing
  <2> QED
    BY <1>1, <2>1, Unlinked DEF Without, Cached
<1>2. CASE k \notin Cached
  BY <1>2 DEF Without, Cached
<1> QED
  BY <1>1, <1>2

\* A used key moves to the end of the list, which lists what it listed.
LEMMA PromotedListing ==
  ASSUME Listing(lru), NEW k \in Cached
  PROVE  /\ Listing(Promoted(k))
         /\ ToSet(Promoted(k)) = Cached
         /\ Len(Promoted(k)) = Len(lru)
<1>1. k \in Keys /\ Len(lru) \in Nat
  BY LenProperties, ElementOfSeq DEF Listing, Cached, ToSet
<1>2. /\ Listing(Without(k)) /\ k \notin ToSet(Without(k))
      /\ ToSet(Without(k)) = Cached \ {k} /\ Len(Without(k)) = Len(lru) - 1
  BY WithoutListing
<1>3. /\ Listing(Promoted(k))
      /\ ToSet(Promoted(k)) = ToSet(Without(k)) \cup {k}
      /\ Len(Promoted(k)) = Len(Without(k)) + 1
  BY <1>1, <1>2, Appended, Zenon DEF Promoted
<1>4. (Cached \ {k}) \cup {k} = Cached /\ Len(lru) - 1 + 1 = Len(lru)
  BY <1>1
<1> QED
  BY <1>2, <1>3, <1>4

\* What put makes of the list: a listed key is promoted, a new one is added,
\* at the expense of the least recently used one when the cache is full.
LEMMA PutListing ==
  ASSUME Listing(lru), Len(lru) <= Cap, NEW k \in Keys
  PROVE  /\ Listing(Put(k))
         /\ Len(Put(k)) = IF k \in Cached \/ AtCap THEN Len(lru) ELSE Len(lru) + 1
         /\ ToSet(Put(k)) = IF k \notin Cached /\ AtCap
                            THEN (Cached \ {Head(lru)}) \cup {k} ELSE Cached \cup {k}
         /\ AtCap => Head(lru) \in Cached
<1>a. Len(lru) \in Nat /\ Cap \in Nat /\ Cap >= 1
  BY LenProperties, CacheAssumption DEF Listing
<1>b. AtCap => lru # <<>>
  BY <1>a, EmptySeq DEF AtCap
<1>1. CASE k \in Cached
  <2>1. Put(k) = Promoted(k) /\ Cached \cup {k} = Cached
    BY <1>1 DEF Put
  <2>2. AtCap => Head(lru) \in Cached
    BY <1>b, Tailed DEF Cached
  <2> QED
    BY <1>1, <2>1, <2>2, PromotedListing
<1>2. CASE k \notin Cached /\ ~AtCap
  BY <1>2, Appended DEF Put, Cached
<1>3. CASE k \notin Cached /\ AtCap
  <2>1. /\ Listing(Tail(lru)) /\ Len(Tail(lru)) = Len(lru) - 1
        /\ Head(lru) \in Cached /\ ToSet(Tail(lru)) = Cached \ {Head(lru)}
    BY <1>b, <1>3, Tailed DEF Cached
  <2>2. k \notin ToSet(Tail(lru)) /\ Put(k) = Append(Tail(lru), k)
    BY <1>3, <2>1 DEF Put
  <2>3. /\ Listing(Put(k))
        /\ ToSet(Put(k)) = ToSet(Tail(lru)) \cup {k}
        /\ Len(Put(k)) = Len(Tail(lru)) + 1
    BY <2>1, <2>2, Appended, Zenon
  <2> QED
    BY <1>a, <1>3, <2>1, <2>3
<1> QED
  BY <1>1, <1>2, <1>3
-----------------------------------------------------------------------------
(* Types *)

\* The cached keys are keys.
LEMMA CachedKeys == ASSUME Listing(lru) PROVE Cached \subseteq Keys
BY LenProperties, ElementOfSeq DEF Listing, Cached, ToSet

\* The list, and everything else the cache keeps.
ListOK == Listing(lru) /\ Len(lru) <= Cap

CountsOK ==
    /\ age \in [Keys -> 0 .. TTL]
    /\ compiling \in [Callers -> Compilation]
    /\ total_wasm_bytes \in Nat
    /\ misses \in 0 .. MaxMisses
    /\ evictions \in Nat
    /\ aborted \in Nat
    /\ overlaps \in BOOLEAN

LEMMA TypeParts == TypeOK <=> ListOK /\ CountsOK
BY DEF TypeOK, ListOK, CountsOK, Listing

LEMMA InitTypes == ASSUME Init PROVE TypeOK
<1>1. <<>> \in Seq(Keys) /\ Len(<<>>) = 0 /\ IsInjective(<<>>)
  BY EmptySeq DEF IsInjective
<1>2. ListOK
  BY <1>1, CacheAssumption DEF Init, ListOK, Listing
<1>3. {} \in Compilation /\ 0 \in 0 .. TTL /\ 0 \in 0 .. MaxMisses
  BY CacheAssumption DEF Compilation
<1>4. CountsOK
  BY <1>3 DEF Init, CountsOK
<1> QED
  BY <1>2, <1>4, TypeParts

\* Every operation keeps the keys distinct and within the capacity.
LEMMA StepList == ASSUME ListOK, CountsOK, [Next]_vars PROVE ListOK'
<1> USE CacheAssumption DEF ListOK
<1>a. Len(lru) \in Nat
  BY LenProperties DEF Listing
<1>b. ASSUME NEW k, lru' = Without(k) PROVE ListOK'
  BY <1>a, <1>b, WithoutListing
<1>1. ASSUME NEW k \in Keys, Hit(k) PROVE ListOK'
  BY <1>1, PromotedListing DEF Hit, Fresh
<1>2. ASSUME NEW k \in Keys, DropExpired(k) \/ Invalidate(k) PROVE ListOK'
  BY <1>b, <1>2 DEF DropExpired, Invalidate
<1>3. ASSUME NEW c \in Callers, Insert(c) PROVE ListOK'
  <2>1. PICK k \in compiling[c] : lru' = Put(k)
    BY <1>3 DEF Insert
  <2>2. k \in Keys
    BY DEF CountsOK, Compilation
  <2> QED
    BY <1>a, <2>1, <2>2, PutListing DEF AtCap
<1>4. CASE UNCHANGED lru
  BY <1>4
<1> QED
  BY <1>1, <1>2, <1>3, <1>4
  DEF Next, GetCached, BeginCompile, Absent, AbortCompile, Tick, vars

\* Every operation keeps the types of the rest.
LEMMA StepCounts == ASSUME ListOK, CountsOK, [Next]_vars PROVE CountsOK'
<1> USE CacheAssumption DEF CountsOK
<1>a. ASSUME NEW k \in Keys, DropExpired(k)
      PROVE  /\ age' \in [Keys -> 0 .. TTL]
             /\ total_wasm_bytes' \in Nat
             /\ evictions' \in Nat
  BY <1>a DEF DropExpired, SaturatingSub
<1>1. ASSUME NEW k \in Keys, GetCached(k) PROVE CountsOK'
  BY <1>a, <1>1 DEF GetCached, Hit
<1>2. ASSUME NEW k \in Keys, Invalidate(k) PROVE CountsOK'
  BY <1>2 DEF Invalidate
<1>3. ASSUME NEW c \in Callers, NEW k \in Keys, BeginCompile(c, k) PROVE CountsOK'
  <2>1. /\ misses' \in 0 .. MaxMisses
        /\ UNCHANGED <<aborted, overlaps>>
    BY <1>3 DEF BeginCompile
  <2>2. compiling' \in [Callers -> Compilation]
    BY <1>3 DEF BeginCompile, Compilation
  <2> QED
    BY <1>3, <1>a, <2>1, <2>2 DEF BeginCompile, Absent
<1>4. ASSUME NEW c \in Callers, AbortCompile(c) PROVE CountsOK'
  BY <1>4 DEF AbortCompile, Compilation
<1>5. ASSUME NEW c \in Callers, Insert(c) PROVE CountsOK'
  <2>1. PICK k \in compiling[c] :
          /\ age' = [j \in Keys |-> IF j \in ToSet(Put(k)) /\ j # k THEN age[j] ELSE 0]
          /\ total_wasm_bytes' =
               (IF AtCap THEN SaturatingSub(total_wasm_bytes, Size[Head(lru)])
                         ELSE total_wasm_bytes) + Size[k]
          /\ overlaps' = (overlaps \/ k \in Cached)
    BY <1>5 DEF Insert
  <2>2. k \in Keys
    BY DEF Compilation
  <2>3. AtCap => Head(lru) \in Keys
    BY <2>2, PutListing, CachedKeys DEF ListOK
  <2>4. Size[k] \in Nat /\ (AtCap => Size[Head(lru)] \in Nat)
    BY <2>2, <2>3
  <2>5. total_wasm_bytes' \in Nat
    BY <2>1, <2>4 DEF SaturatingSub
  <2>6. age' \in [Keys -> 0 .. TTL]
    BY <2>1
  <2>7. compiling' \in [Callers -> Compilation]
    BY <1>5 DEF Insert, Compilation
  <2>8. evictions' \in Nat /\ misses' \in 0 .. MaxMisses /\ aborted' \in Nat
    BY <1>5 DEF Insert
  <2>9. overlaps' \in BOOLEAN
    BY <2>1
  <2> QED
    BY <2>5, <2>6, <2>7, <2>8, <2>9
<1>6. CASE Tick
  BY <1>6 DEF Tick
<1>7. CASE UNCHANGED vars
  BY <1>7 DEF vars
<1> QED
  BY <1>1, <1>2, <1>3, <1>4, <1>5, <1>6, <1>7 DEF Next

LEMMA StepTypes == ASSUME TypeOK, [Next]_vars PROVE TypeOK'
<1>1. (ListOK /\ CountsOK)'
  BY TypeParts, StepList, StepCounts
<1> QED
  BY <1>1 DEF TypeOK, ListOK, CountsOK, Listing

\* The cache never exceeds its capacity and lists no module twice, however
\* many callers insert the same module.
THEOREM CacheTypes == Spec => []TypeOK
BY InitTypes, StepTypes, PTL DEF Spec
-----------------------------------------------------------------------------
(* The byte count *)

BytesOf(S) == UNION {{k} \X (1 .. Size[k]) : k \in S}

\* Disjoint finite sets add up.
LEMMA DisjointUnion ==
  ASSUME NEW A, NEW B, IsFiniteSet(A), IsFiniteSet(B), A \cap B = {}
  PROVE  IsFiniteSet(A \cup B) /\ Cardinality(A \cup B) = Cardinality(A) + Cardinality(B)
<1>1. Cardinality(A) \in Nat /\ Cardinality(B) \in Nat /\ Cardinality(A \cap B) = 0
  BY FS_CardinalityType, FS_EmptySet
<1>2. /\ IsFiniteSet(A \cup B)
      /\ Cardinality(A \cup B) = Cardinality(A) + Cardinality(B) - Cardinality(A \cap B)
  BY FS_Union
<1> QED
  BY <1>1, <1>2

\* A module adds its size to the bytes of a set of modules it is not in.
LEMMA BytesAdded ==
  ASSUME NEW S \in SUBSET Keys, IsFiniteSet(BytesOf(S)), NEW k \in Keys, k \notin S
  PROVE  /\ IsFiniteSet(BytesOf(S \cup {k}))
         /\ Cardinality(BytesOf(S \cup {k})) = Cardinality(BytesOf(S)) + Size[k]
<1> DEFINE own == {k} \X (1 .. Size[k])
<1>1. Size[k] \in Nat \ {0}
  BY CacheAssumption
<1>2. IsFiniteSet(own) /\ Cardinality(own) = Size[k]
  <2>1. IsFiniteSet({k}) /\ Cardinality({k}) = 1
    BY FS_Singleton
  <2>2. IsFiniteSet(1 .. Size[k]) /\ Cardinality(1 .. Size[k]) = Size[k]
    BY <1>1, FS_Interval
  <2>3. IsFiniteSet(own) /\ Cardinality(own) = 1 * Size[k]
    BY <2>1, <2>2, FS_Product
  <2> QED
    BY <1>1, <2>3
<1>3. BytesOf(S \cup {k}) = BytesOf(S) \cup own
  BY DEF BytesOf
<1>4. BytesOf(S) \cap own = {}
  BY DEF BytesOf
<1> HIDE DEF own
<1> QED
  BY <1>2, <1>3, <1>4, DisjointUnion

\* A module that leaves takes its size away, and there was that much.
LEMMA BytesRemoved ==
  ASSUME NEW S \in SUBSET Keys, IsFiniteSet(BytesOf(S)), NEW k \in S
  PROVE  /\ IsFiniteSet(BytesOf(S \ {k}))
         /\ Cardinality(BytesOf(S)) >= Size[k]
         /\ Cardinality(BytesOf(S \ {k})) = Cardinality(BytesOf(S)) - Size[k]
<1> DEFINE R == S \ {k}
<1>1. BytesOf(R) \subseteq BytesOf(S)
  BY DEF BytesOf
<1>2. IsFiniteSet(BytesOf(R)) /\ Cardinality(BytesOf(R)) \in Nat
  BY <1>1, FS_Subset, FS_CardinalityType
<1>3. S = R \cup {k} /\ k \in Keys /\ Size[k] \in Nat
  BY CacheAssumption
<1>4. R \in SUBSET Keys /\ k \notin R
  OBVIOUS
<1> HIDE DEF R
<1>5. Cardinality(BytesOf(S)) = Cardinality(BytesOf(R)) + Size[k]
  BY <1>2, <1>3, <1>4, BytesAdded
<1>6. /\ IsFiniteSet(BytesOf(R))
      /\ Cardinality(BytesOf(S)) >= Size[k]
      /\ Cardinality(BytesOf(R)) = Cardinality(BytesOf(S)) - Size[k]
  BY <1>2, <1>3, <1>5
<1> QED
  BY <1>6 DEF R

\* Inductive form of BytesMatch: there are finitely many bytes.
BytesInv == IsFiniteSet(BytesOf(Cached)) /\ (~overlaps => total_wasm_bytes = Cardinality(BytesOf(Cached)))

\* Every operation keeps the byte count exact.
LEMMA StepBytes ==
  ASSUME ListOK, CountsOK, BytesInv, [Next]_vars PROVE BytesInv'
<1> USE DEF BytesInv, ListOK
<1>a. Cached \in SUBSET Keys /\ total_wasm_bytes \in Nat /\ \A k \in Keys : Size[k] \in Nat
  BY CachedKeys, CacheAssumption DEF CountsOK
<1>b. Cardinality(BytesOf(Cached)) \in Nat
  BY FS_CardinalityType
<1>c. (BytesOf(Cached))' = BytesOf(Cached')
  BY DEF BytesOf
<1>1. ASSUME NEW k \in Keys, Hit(k), UNCHANGED overlaps PROVE BytesInv'
  <2>1. Cached' = Cached
    BY <1>1, PromotedListing DEF Hit, Fresh, Cached
  <2> QED
    BY <1>1, <1>c, <2>1 DEF Hit
<1>2. ASSUME NEW k \in Keys, DropExpired(k), UNCHANGED overlaps PROVE BytesInv'
  <2>1. Cached' = Cached \ {k} /\ k \in Cached
    BY <1>2, WithoutListing DEF DropExpired, Expired, Cached
  <2>2. total_wasm_bytes' = SaturatingSub(total_wasm_bytes, Size[k])
    BY <1>2 DEF DropExpired
  <2>3. /\ IsFiniteSet(BytesOf(Cached'))
        /\ Cardinality(BytesOf(Cached)) >= Size[k]
        /\ Cardinality(BytesOf(Cached')) = Cardinality(BytesOf(Cached)) - Size[k]
    BY <1>a, <2>1, BytesRemoved
  <2> QED
    BY <1>2, <1>a, <1>b, <1>c, <2>2, <2>3 DEF SaturatingSub
<1>3. ASSUME NEW k \in Keys, Invalidate(k) PROVE BytesInv'
  <2>1. Cached' = Cached \ {k}
    BY <1>3, WithoutListing DEF Invalidate, Cached
  <2>2. CASE k \in Cached
    <3>1. IsFiniteSet(BytesOf(Cached')) /\ overlaps'
      BY <1>3, <1>a, <2>1, <2>2, BytesRemoved DEF Invalidate
    <3> QED
      BY <1>c, <3>1
  <2>3. CASE k \notin Cached
    BY <1>3, <1>c, <2>1, <2>3 DEF Invalidate
  <2> QED
    BY <2>2, <2>3
<1>4. ASSUME NEW c \in Callers, Insert(c) PROVE BytesInv'
  <2>1. PICK k \in compiling[c] :
          /\ lru' = Put(k)
          /\ total_wasm_bytes' =
               (IF AtCap THEN SaturatingSub(total_wasm_bytes, Size[Head(lru)])
                         ELSE total_wasm_bytes) + Size[k]
          /\ overlaps' = (overlaps \/ k \in Cached)
    BY <1>4 DEF Insert
  <2>2. k \in Keys
    BY DEF CountsOK, Compilation
  <2>3. /\ Cached' = IF k \notin Cached /\ AtCap
                     THEN (Cached \ {Head(lru)}) \cup {k} ELSE Cached \cup {k}
        /\ AtCap => Head(lru) \in Cached
    BY <2>1, <2>2, PutListing DEF Cached
  <2>4. CASE k \in Cached
    <3>1. Cached' = Cached /\ overlaps'
      BY <2>1, <2>3, <2>4
    <3> QED
      BY <1>c, <3>1
  <2>5. CASE k \notin Cached /\ ~AtCap
    <3>1. Cached' = Cached \cup {k} /\ total_wasm_bytes' = total_wasm_bytes + Size[k]
      BY <2>1, <2>3, <2>5
    <3>2. overlaps' = overlaps
      BY <2>1, <2>5 DEF CountsOK
    <3> QED
      BY <1>a, <1>c, <2>2, <2>5, <3>1, <3>2, BytesAdded
  <2>6. CASE k \notin Cached /\ AtCap
    <3> DEFINE h == Head(lru)
               rest == Cached \ {h}
    <3>1. h \in Cached /\ Cached' = rest \cup {k} /\ k \notin rest /\ rest \in SUBSET Keys
      BY <1>a, <2>3, <2>6
    <3>2. total_wasm_bytes' = SaturatingSub(total_wasm_bytes, Size[h]) + Size[k]
      BY <2>1, <2>6
    <3>3. overlaps' = overlaps
      BY <2>1, <2>6 DEF CountsOK
    <3>4. /\ IsFiniteSet(BytesOf(rest))
          /\ Cardinality(BytesOf(Cached)) >= Size[h]
          /\ Cardinality(BytesOf(rest)) = Cardinality(BytesOf(Cached)) - Size[h]
      BY <1>a, <3>1, BytesRemoved
    <3>5. Size[h] \in Nat /\ Size[k] \in Nat
      BY <1>a, <2>2, <3>1
    <3> HIDE DEF h, rest
    <3>6. /\ IsFiniteSet(BytesOf(Cached'))
          /\ Cardinality(BytesOf(Cached')) = Cardinality(BytesOf(rest)) + Size[k]
      BY <2>2, <3>1, <3>4, BytesAdded
    <3> QED
      BY <1>a, <1>b, <1>c, <3>2, <3>3, <3>4, <3>5, <3>6 DEF SaturatingSub
  <2> QED
    BY <2>4, <2>5, <2>6
<1>5. CASE UNCHANGED <<lru, total_wasm_bytes, overlaps>>
  BY <1>5 DEF Cached
<1> QED
  BY <1>1, <1>2, <1>3, <1>4, <1>5
  DEF Next, GetCached, BeginCompile, Absent, AbortCompile, Tick, vars

-----------------------------------------------------------------------------
(* The eviction count *)

\* An entry that expires when its key is missed is counted where it went.
LEMMA ExpiryBalance ==
  ASSUME NEW m \in Nat, NEW a \in Nat, NEW c \in Nat, NEW n \in Nat, NEW e \in Nat
  PROVE  /\ a + (c + 1) + (n - 1) + (e + 1) = a + c + n + e + 1
         /\ a + c + n + e <= m => a + c + n + e + 1 <= m + 1
OBVIOUS

\* Every operation accounts for every miss.
LEMMA StepEvictions ==
  ASSUME ListOK, CountsOK, EvictionsExact, [Next]_vars PROVE EvictionsExact'
<1> USE DEF EvictionsExact, AccountedFor, ListOK
<1>a. /\ Len(lru) \in Nat /\ misses \in Nat /\ evictions \in Nat /\ aborted \in Nat
      /\ overlaps \in BOOLEAN
  BY LenProperties, CacheAssumption DEF CountsOK, Listing
<1>b. IsFiniteSet(Compiling) /\ Cardinality(Compiling) \in Nat
  BY FS_Subset, FS_CardinalityType, CacheAssumption DEF Compiling
<1>c. ASSUME NEW c \in Callers, compiling[c] = {}, NEW k,
             compiling' = [compiling EXCEPT ![c] = {k}]
      PROVE  Cardinality(Compiling') = Cardinality(Compiling) + 1
  <2>1. Compiling' = Compiling \cup {c} /\ c \notin Compiling
    BY <1>c DEF Compiling, CountsOK
  <2> QED
    BY <1>b, <2>1, FS_AddElement
<1>d. ASSUME NEW c \in Callers, compiling[c] # {}, compiling' = [compiling EXCEPT ![c] = {}]
      PROVE  Cardinality(Compiling') = Cardinality(Compiling) - 1
  <2>1. Compiling' = Compiling \ {c} /\ c \in Compiling
    BY <1>d DEF Compiling, CountsOK
  <2> QED
    BY <1>b, <2>1, FS_RemoveElement
<1>e. ASSUME NEW k \in Keys, DropExpired(k)
      PROVE  Len(lru') = Len(lru) - 1 /\ evictions' = evictions + 1
  BY <1>e, WithoutListing DEF DropExpired, Expired
<1>1. ASSUME NEW k \in Keys, GetCached(k) PROVE EvictionsExact'
  <2>1. Compiling' = Compiling /\ UNCHANGED <<misses, aborted, overlaps>>
    BY <1>1 DEF GetCached, Compiling
  <2>2. CASE Hit(k)
    <3>1. Len(lru') = Len(lru) /\ evictions' = evictions
      BY <2>2, PromotedListing DEF Hit, Fresh
    <3> QED
      BY <2>1, <3>1
  <2>3. CASE DropExpired(k)
    <3>1. Len(lru') = Len(lru) - 1 /\ evictions' = evictions + 1
      BY <1>e, <2>3
    <3> QED
      BY <1>a, <1>b, <2>1, <3>1
  <2> QED
    BY <1>1, <2>2, <2>3 DEF GetCached
<1>2. ASSUME NEW k \in Keys, Invalidate(k) PROVE EvictionsExact'
  <2>1. Compiling' = Compiling /\ UNCHANGED <<misses, aborted, evictions>>
    BY <1>2 DEF Invalidate, Compiling
  <2>2. ASSUME ~overlaps' PROVE ~overlaps /\ Len(lru') = Len(lru)
    BY <1>2, <1>a, <2>2, WithoutListing DEF Invalidate
  <2>3. Len(lru') \in Nat /\ Len(lru') <= Len(lru)
    BY <1>2, <1>a, WithoutListing DEF Invalidate
  <2> QED
    BY <1>a, <1>b, <2>1, <2>2, <2>3
<1>3. ASSUME NEW c \in Callers, NEW k \in Keys, BeginCompile(c, k) PROVE EvictionsExact'
  <2>1. /\ Cardinality(Compiling') = Cardinality(Compiling) + 1
        /\ misses' = misses + 1
        /\ UNCHANGED <<aborted, overlaps>>
    BY <1>3, <1>c DEF BeginCompile
  <2>2. CASE DropExpired(k)
    <3>1. Len(lru') = Len(lru) - 1 /\ evictions' = evictions + 1
      BY <1>e, <2>2
    <3>2. /\ aborted + (Cardinality(Compiling) + 1) + (Len(lru) - 1) + (evictions + 1)
               = AccountedFor + 1
          /\ AccountedFor <= misses => AccountedFor + 1 <= misses + 1
      BY <1>a, <1>b, ExpiryBalance, Zenon
    <3>3. AccountedFor' = AccountedFor + 1
      BY <2>1, <3>1, <3>2
    <3> HIDE DEF AccountedFor
    <3> QED
      BY <2>1, <3>2, <3>3
  <2>3. CASE Absent(k)
    <3>1. Len(lru') = Len(lru) /\ evictions' = evictions
      BY <2>3 DEF Absent
    <3> QED
      BY <1>a, <1>b, <2>1, <3>1
  <2> QED
    BY <1>3, <2>2, <2>3 DEF BeginCompile
<1>4. ASSUME NEW c \in Callers, AbortCompile(c) PROVE EvictionsExact'
  <2>1. /\ Cardinality(Compiling') = Cardinality(Compiling) - 1
        /\ aborted' = aborted + 1
        /\ UNCHANGED <<lru, misses, evictions, overlaps>>
    BY <1>4, <1>d DEF AbortCompile
  <2> QED
    BY <1>a, <1>b, <2>1
<1>5. ASSUME NEW c \in Callers, Insert(c) PROVE EvictionsExact'
  <2>1. PICK k \in compiling[c] : lru' = Put(k) /\ overlaps' = (overlaps \/ k \in Cached)
    BY <1>5 DEF Insert
  <2>2. k \in Keys
    BY DEF CountsOK, Compilation
  <2>3. /\ Cardinality(Compiling') = Cardinality(Compiling) - 1
        /\ UNCHANGED <<misses, aborted>>
        /\ evictions' = IF AtCap THEN evictions + 1 ELSE evictions
    BY <1>5, <1>d DEF Insert
  <2>4. Len(lru') = IF k \in Cached \/ AtCap THEN Len(lru) ELSE Len(lru) + 1
    BY <2>1, <2>2, PutListing
  <2>5. ASSUME ~overlaps' PROVE ~overlaps /\ k \notin Cached
    BY <1>a, <2>1, <2>5
  <2> QED
    BY <1>a, <1>b, <2>3, <2>4, <2>5
<1>6. CASE UNCHANGED <<lru, compiling, misses, evictions, aborted, overlaps>>
  BY <1>6 DEF Compiling
<1> QED
  BY <1>1, <1>2, <1>3, <1>4, <1>5, <1>6 DEF Next, Tick, vars

-----------------------------------------------------------------------------
(* Safety *)

\* The inductive invariant.
CacheInv == ListOK /\ CountsOK /\ BytesInv /\ EvictionsExact

LEMMA CacheInvInit == ASSUME Init PROVE CacheInv
<1>1. ListOK /\ CountsOK
  BY InitTypes, TypeParts
<1>2. Cached = {} /\ Compiling = {} /\ Len(lru) = 0
  BY EmptySeq DEF Init, Cached, ToSet, Compiling
<1>3. BytesOf({}) = {}
  BY DEF BytesOf
<1> QED
  BY <1>1, <1>2, <1>3, FS_EmptySet DEF Init, CacheInv, BytesInv, EvictionsExact, AccountedFor

LEMMA CacheInvStep == ASSUME CacheInv, [Next]_vars PROVE CacheInv'
BY StepList, StepCounts, StepBytes, StepEvictions DEF CacheInv

\* total_wasm_bytes is exactly the number of bytes of the cached modules, for
\* any sizes, capacity and TTL, as long as compilations of one key do not
\* overlap: evictions guessed from the length and saturating subtractions
\* lose nothing.
THEOREM CacheBytes == Spec => []BytesMatch
<1>1. CacheInv => BytesMatch
  BY DEF CacheInv, BytesInv, BytesMatch, CachedBytes, BytesOf
<1> QED
  BY <1>1, CacheInvInit, CacheInvStep, PTL DEF Spec

\* Every miss is compiling, aborted, cached or counted as an eviction, for
\* any number of callers, under the same proviso; and overlapping callers
\* never count more evictions than there were insertions.
THEOREM CacheEvictions == Spec => []EvictionsExact
<1>1. CacheInv => EvictionsExact
  BY DEF CacheInv
<1> QED
  BY <1>1, CacheInvInit, CacheInvStep, PTL DEF Spec
=============================================================================
