----------------------------- MODULE ModuleCache -----------------------------
(***************************************************************************)
(* The edge node's cache of compiled WASM modules                          *)
(* (crates/wasm-runtime/src/cache.rs): an LRU of bounded size with a TTL   *)
(* checked on access, behind a mutex that get_or_compile releases while    *)
(* the module compiles.                                                    *)
(*                                                                         *)
(* lru lists the cached keys, least recently used first.  age[k] is the    *)
(* time since k was cached, saturating at the TTL.  A key stands for one   *)
(* module, so its size is a constant.                                      *)
(***************************************************************************)
EXTENDS Integers, Sequences, FiniteSets, SequencesExt

CONSTANTS Keys, Callers,
          Size,              \* Size[k]: length of k's WASM bytes
          Cap,               \* CACHE_MAX_SIZE
          TTL,               \* CACHE_TTL_SECS, in ticks
          Invalidated,       \* keys invalidate may be called with: none in the
                             \* edge node, which never calls it
          MaxMisses          \* bound on get_or_compile calls that compile

ASSUME CacheAssumption ==
    /\ IsFiniteSet(Callers)
    /\ Size \in [Keys -> Nat \ {0}]
    /\ Cap \in Nat \ {0}
    /\ TTL \in Nat \ {0}
    /\ Invalidated \subseteq Keys
    /\ MaxMisses \in Nat

VARIABLES lru, age,
          compiling,         \* compiling[c]: {k} while c compiles k, else {}
          total_wasm_bytes, misses, evictions,
          aborted,           \* history: misses that never inserted a module
          overlaps           \* history: an insertion found its key cached by
                             \* another caller, or invalidate removed a key

Compilation == {{}} \cup {{k} : k \in Keys}

vars == <<lru, age, compiling, total_wasm_bytes, misses, evictions, aborted, overlaps>>

Cached == ToSet(lru)

SaturatingSub(x, y) == IF x >= y THEN x - y ELSE 0

Position(k) == CHOOSE i \in DOMAIN lru : lru[i] = k

\* LruCache::pop unlinks the entry, if there is one.
Without(k) == IF k \in Cached THEN RemoveAt(lru, Position(k)) ELSE lru

\* LruCache::get_mut makes the key the most recently used.
Promoted(k) == Append(Without(k), k)

Compiling == {c \in Callers : compiling[c] # {}}

Fresh(k) == k \in Cached /\ age[k] < TTL
Expired(k) == k \in Cached /\ age[k] >= TTL

Init ==
    /\ lru = <<>>
    /\ age = [k \in Keys |-> 0]
    /\ compiling = [c \in Callers |-> {}]
    /\ total_wasm_bytes = 0
    /\ misses = 0
    /\ evictions = 0
    /\ aborted = 0
    /\ overlaps = FALSE

Hit(k) ==
    /\ Fresh(k)
    /\ lru' = Promoted(k)
    /\ UNCHANGED <<age, total_wasm_bytes, evictions>>

\* Mutant: an expired entry is dropped without giving its bytes back.
DropExpiredKeepsBytes(k) ==
    /\ Expired(k)
    /\ lru' = Without(k)
    /\ age' = [age EXCEPT ![k] = 0]
    /\ evictions' = evictions + 1
    /\ UNCHANGED total_wasm_bytes

DropExpired(k) ==
    /\ Expired(k)
    /\ lru' = Without(k)
    /\ age' = [age EXCEPT ![k] = 0]
    /\ total_wasm_bytes' = SaturatingSub(total_wasm_bytes, Size[k])
    /\ evictions' = evictions + 1

Absent(k) ==
    /\ k \notin Cached
    /\ UNCHANGED <<lru, age, total_wasm_bytes, evictions>>

GetCached(k) ==
    /\ Hit(k) \/ DropExpired(k)
    /\ UNCHANGED <<compiling, misses, aborted, overlaps>>

\* get_or_compile, first critical section, when it leads to a compilation
\* (a hit is GetCached's).
BeginCompile(c, k) ==
    /\ compiling[c] = {}
    /\ misses < MaxMisses
    /\ DropExpired(k) \/ Absent(k)
    /\ misses' = misses + 1
    /\ compiling' = [compiling EXCEPT ![c] = {k}]
    /\ UNCHANGED <<aborted, overlaps>>

\* The bytes do not compile, or the caller is dropped while they do.
AbortCompile(c) ==
    /\ compiling[c] # {}
    /\ compiling' = [compiling EXCEPT ![c] = {}]
    /\ aborted' = aborted + 1
    /\ UNCHANGED <<lru, age, total_wasm_bytes, misses, evictions, overlaps>>

AtCap == Len(lru) = Cap

\* Mutant: the full cache is recognised one entry too late.
PutOverfills(k) ==
    IF k \in Cached THEN Promoted(k)
    ELSE Append(IF Len(lru) > Cap THEN Tail(lru) ELSE lru, k)

\* LruCache::put: replaces an entry in place, and otherwise pops the least
\* recently used one if it is full.
Put(k) ==
    IF k \in Cached THEN Promoted(k)
    ELSE Append(IF AtCap THEN Tail(lru) ELSE lru, k)

\* Mutant: an eviction is not counted.
InsertUncounted(c) ==
    \E k \in compiling[c] :
        /\ lru' = Put(k)
        /\ age' = [j \in Keys |-> IF j \in ToSet(Put(k)) /\ j # k THEN age[j] ELSE 0]
        /\ total_wasm_bytes' =
             (IF AtCap THEN SaturatingSub(total_wasm_bytes, Size[Head(lru)])
                       ELSE total_wasm_bytes) + Size[k]
        /\ compiling' = [compiling EXCEPT ![c] = {}]
        /\ overlaps' = (overlaps \/ k \in Cached)
        /\ UNCHANGED <<misses, evictions, aborted>>

\* get_or_compile, second critical section.  Whether the put will evict is
\* guessed from the length alone.
Insert(c) ==
    \E k \in compiling[c] :
        /\ lru' = Put(k)
        /\ age' = [j \in Keys |-> IF j \in ToSet(Put(k)) /\ j # k THEN age[j] ELSE 0]
        /\ total_wasm_bytes' =
             (IF AtCap THEN SaturatingSub(total_wasm_bytes, Size[Head(lru)])
                       ELSE total_wasm_bytes) + Size[k]
        /\ evictions' = IF AtCap THEN evictions + 1 ELSE evictions
        /\ compiling' = [compiling EXCEPT ![c] = {}]
        /\ overlaps' = (overlaps \/ k \in Cached)
        /\ UNCHANGED <<misses, aborted>>

Invalidate(k) ==
    /\ k \in Invalidated
    /\ lru' = Without(k)
    /\ age' = [age EXCEPT ![k] = 0]
    /\ overlaps' = (overlaps \/ k \in Cached)
    /\ UNCHANGED <<compiling, total_wasm_bytes, misses, evictions, aborted>>

Tick ==
    /\ age' = [k \in Keys |-> IF k \in Cached /\ age[k] < TTL THEN age[k] + 1 ELSE age[k]]
    /\ UNCHANGED <<lru, compiling, total_wasm_bytes, misses, evictions, aborted, overlaps>>

Next ==
    \/ \E k \in Keys : GetCached(k) \/ Invalidate(k)
    \/ \E c \in Callers, k \in Keys : BeginCompile(c, k)
    \/ \E c \in Callers : AbortCompile(c) \/ Insert(c)
    \/ Tick

Spec == Init /\ [][Next]_vars

-----------------------------------------------------------------------------
(* Properties *)

\* Type invariant, with the capacity LruCache enforces.
TypeOK ==
    /\ lru \in Seq(Keys) /\ Len(lru) <= Cap /\ IsInjective(lru)
    /\ age \in [Keys -> 0 .. TTL]
    /\ compiling \in [Callers -> Compilation]
    /\ total_wasm_bytes \in Nat
    /\ misses \in 0 .. MaxMisses
    /\ evictions \in Nat
    /\ aborted \in Nat
    /\ overlaps \in BOOLEAN

\* The bytes of the modules in the cache, one pair for each.
CachedBytes == UNION {{k} \X (1 .. Size[k]) : k \in Cached}

\* cache.rs lines 49 and 58: total_wasm_bytes is the sum of the sizes of the
\* modules that are in the cache, across misses, expiries, evictions and
\* compilations that overlap, until two callers insert the same module or
\* invalidate is called.
BytesMatch == ~overlaps => total_wasm_bytes = Cardinality(CachedBytes)

\* The misses that are still compiling, were aborted, are cached or were
\* counted as evictions.
AccountedFor == aborted + Cardinality(Compiling) + Len(lru) + evictions

\* cache.rs line 47: evictions counts the entries that left the cache.  So
\* every miss is compiling, aborted, cached or evicted (with the same
\* proviso), and never is more counted as evicted than was inserted: not even
\* by an insertion into a full cache that finds its key there, which counts
\* an eviction although none happens.
EvictionsExact ==
    /\ AccountedFor <= misses
    /\ ~overlaps => misses = AccountedFor
=============================================================================
