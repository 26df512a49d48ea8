------------------------- MODULE DistributionProofs -------------------------
(***************************************************************************)
(* HashHonoured holds for any blobs, nodes, calls, TTL and number of       *)
(* control-plane restarts.                                                 *)
(*                                                                         *)
(* The invariant that carries it: whatever is on its way to a cache, in a  *)
(* cache or about to run was registered in some life, and a call's hash is *)
(* what its own life registered.  Bytes damaged on their way are in a      *)
(* call's hands until the check, and in no other place.                    *)
(***************************************************************************)
EXTENDS Distribution, TLAPS

\* b was registered by this control plane or an earlier one.
Registered(b) == b \in Blobs /\ \E l \in 0 .. life : stored[l] = b

RegistryOK ==
    /\ life \in Lives
    /\ stored \in [Lives -> Blobs \cup {None}]
    /\ registry = stored[life]
    /\ \A l \in Lives : l > life => stored[l] = None

WarmOK ==
    /\ \A b \in pending : Registered(b)
    /\ warm \subseteq [node : Nodes, blob : Blobs, compiling : BOOLEAN]
    /\ \A w \in warm : Registered(w.blob)

CacheOK ==
    /\ cache \in [Nodes -> [blob : Blobs \cup {None}, age : 0 .. TTL]]
    /\ \A n \in Nodes : cache[n].blob # None => Registered(cache[n].blob)

\* What holds of the record r of a call.
RecordOK(r) ==
    /\ r \in Call
    /\ r.at \in OnNode => r.node \in Nodes
    /\ r.at \in {"fetched", "compiling", "running"} => r.blob # None
    /\ r.at \notin {"fetched", "rejected"} /\ r.blob # None => Registered(r.blob)
    /\ r.at # "idle" => /\ r.born <= life
                        /\ r.hash = stored[r.born]
                        /\ r.hash # None

CallsOK == call \in [Calls -> Call] /\ \A c \in Calls : RecordOK(call[c])

IInv == RegistryOK /\ WarmOK /\ CacheOK /\ CallsOK

-----------------------------------------------------------------------------
LEMMA InitOK == Init => IInv
BY DistributionAssumption
   DEF Init, IInv, RegistryOK, WarmOK, CacheOK, CallsOK, RecordOK, Registered,
       Call, Idle, Absent, OnNode, Lives

\* A step that leaves life and stored alone leaves what is registered alone.
LEMMA RegisteredStays ==
    ASSUME UNCHANGED <<life, stored>>, NEW b
    PROVE  Registered(b)' <=> Registered(b)
BY DEF Registered

\* What was registered stays registered in any step that only adds to stored
\* and only raises life.
LEMMA RegisteredGrows ==
    ASSUME RegistryOK, RegistryOK', life <= life',
           \A l \in 0 .. life : stored[l] # None => stored'[l] = stored[l],
           NEW b, Registered(b)
    PROVE  Registered(b)'
<1>1. PICK l \in 0 .. life : stored[l] = b
  BY DEF Registered
<1>2. b \in Blobs /\ b # None
  BY DistributionAssumption DEF Registered
<1>3. stored'[l] = b /\ l \in 0 .. life'
  BY <1>1, <1>2 DEF RegistryOK, Lives
<1> QED
  BY <1>2, <1>3 DEF Registered

\* The same for a call's record.
LEMMA RecordStays ==
    ASSUME RegistryOK, RegistryOK', life <= life',
           \A l \in 0 .. life : stored[l] # None => stored'[l] = stored[l],
           NEW r, RecordOK(r)
    PROVE  RecordOK(r)'
<1>1. Registered(r.blob) => Registered(r.blob)'
  BY RegisteredGrows
<1>2. r.at # "idle" => r.born <= life' /\ r.hash = stored'[r.born]
  <2>1. r.born \in Nat
    BY DEF RecordOK, Call, Lives
  <2>2. r.at # "idle" => r.born \in 0 .. life
    BY <2>1 DEF RecordOK, RegistryOK, Lives
  <2> QED
    BY <2>2 DEF RecordOK, RegistryOK, Lives
<1>3. r \in Call'
  BY DEF RecordOK, Call, OnNode, Lives
<1> QED
  BY <1>1, <1>2, <1>3 DEF RecordOK

\* Replacing one call's record by one that is in order.
LEMMA OneCall ==
    ASSUME CallsOK, NEW c \in Calls, NEW r,
           call' = [call EXCEPT ![c] = r],
           UNCHANGED <<life, stored>>, RecordOK(r)
    PROVE  CallsOK'
<1>1. \A b : Registered(b)' <=> Registered(b)
  BY RegisteredStays
<1>2. \A s : RecordOK(s) => RecordOK(s)'
  BY <1>1 DEF RecordOK, Call, OnNode, Lives
<1>3. r \in Call
  BY DEF RecordOK
<1>4. call' \in [Calls -> Call]
  BY <1>3 DEF CallsOK
<1>5. \A d \in Calls : call'[d] = IF d = c THEN r ELSE call[d]
  BY DEF CallsOK
<1>6. \A d \in Calls : RecordOK(call'[d])
  BY <1>5 DEF CallsOK
<1>7. \A d \in Calls : RecordOK(call[d])'
  BY <1>2, <1>6 DEF RecordOK, Call, OnNode, Lives, Registered
<1> QED
  BY <1>4, <1>7 DEF CallsOK, Call, OnNode, Lives

\* A step that leaves the control plane and the calls alone.
LEMMA CallsUnchanged ==
    ASSUME CallsOK, UNCHANGED <<life, stored, call>>
    PROVE  CallsOK'
BY RegisteredStays DEF CallsOK, RecordOK, Call, OnNode, Lives, Registered

LEMMA RegistryUnchanged ==
    ASSUME RegistryOK, UNCHANGED upVars
    PROVE  RegistryOK'
BY DEF RegistryOK, upVars, Lives

LEMMA WarmUnchanged ==
    ASSUME WarmOK, UNCHANGED <<upVars, warm>>
    PROVE  WarmOK'
BY DEF WarmOK, upVars, Registered

LEMMA CacheUnchanged ==
    ASSUME CacheOK, UNCHANGED <<life, stored, cache>>
    PROVE  CacheOK'
BY DEF CacheOK, Registered

\* Writing an entry that is in order.
LEMMA CacheWrite ==
    ASSUME CacheOK, NEW n \in Nodes, NEW b \in Blobs \cup {None}, NEW a \in 0 .. TTL,
           cache' = [cache EXCEPT ![n] = [blob |-> b, age |-> a]],
           UNCHANGED <<life, stored>>, b # None => Registered(b)
    PROVE  CacheOK'
BY RegisteredStays DEF CacheOK

LEMMA DropOK ==
    ASSUME CacheOK, NEW n \in Nodes, cache' = [cache EXCEPT ![n] = Absent],
           UNCHANGED <<life, stored>>
    PROVE  CacheOK'
<1>1. 0 \in 0 .. TTL
  BY DistributionAssumption
<1>2. cache' = [cache EXCEPT ![n] = [blob |-> None, age |-> 0]]
  BY DEF Absent
<1> QED
  BY <1>1, <1>2, CacheWrite

LEMMA InsertOK ==
    ASSUME CacheOK, NEW n \in Nodes, NEW b, Registered(b), Insert(n, b),
           UNCHANGED <<life, stored>>
    PROVE  CacheOK'
<1>1. 0 \in 0 .. TTL
  BY DistributionAssumption
<1>2. b \in Blobs \cup {None}
  BY DEF Registered
<1>3. cache' = [cache EXCEPT ![n] = [blob |-> b, age |-> 0]]
  BY DEF Insert
<1> QED
  BY <1>1, <1>2, <1>3, CacheWrite

\* A call that is not idle keeps its ModuleRef wherever it goes.
LEMMA MovedOK ==
    ASSUME CallsOK, UNCHANGED <<life, stored>>, NEW c \in Calls, call[c].at # "idle",
           NEW l \in OnNode \cup {"resolved", "rejected", "failed"},
           NEW n \in Nodes \cup {None}, l \in OnNode => n \in Nodes,
           NEW b \in Blobs \cup {None, Garbled},
           l \in {"fetched", "rejected"} \/ b = None \/ Registered(b),
           l \in {"fetched", "compiling", "running"} => b # None,
           Moved(c, l, n, b)
    PROVE  CallsOK'
<1> DEFINE r == [at |-> l, node |-> n, hash |-> call[c].hash, born |-> call[c].born, blob |-> b]
<1>1. RecordOK(call[c]) /\ call[c] \in Call
  BY DEF CallsOK
<1>2. r \in Call
  BY <1>1 DEF Call
<1>3. RecordOK(r)
  BY <1>1, <1>2 DEF RecordOK, OnNode
<1>4. call' = [call EXCEPT ![c] = r]
  BY DEF Moved
<1> HIDE DEF r
<1> QED
  BY <1>3, <1>4, OneCall

-----------------------------------------------------------------------------
LEMMA UploadOK == ASSUME IInv, NEW b \in Blobs, Upload(b) PROVE IInv'
<1>1. life \in Lives /\ stored[life] = None /\ stored' = [stored EXCEPT ![life] = b]
      /\ registry' = b /\ life' = life
  BY DEF IInv, RegistryOK, Upload
<1>2. RegistryOK'
  BY <1>1 DEF IInv, RegistryOK, Lives
<1>3. \A l \in 0 .. life : stored[l] # None => stored'[l] = stored[l]
  BY <1>1 DEF IInv, RegistryOK, Lives
<1>4. life <= life'
  BY <1>1 DEF Lives
<1>5. \A x : Registered(x) => Registered(x)'
  BY <1>2, <1>3, <1>4, RegisteredGrows DEF IInv
<1>6. Registered(b)'
  BY <1>1 DEF Registered, IInv, RegistryOK, Lives
<1>7. WarmOK'
  BY <1>5, <1>6 DEF IInv, WarmOK, Upload
<1>8. CacheOK'
  BY <1>5 DEF IInv, CacheOK, Upload
<1>9. CallsOK'
  BY <1>2, <1>3, <1>4, RecordStays DEF IInv, CallsOK, Upload, Call, OnNode, Lives
<1> QED
  BY <1>2, <1>7, <1>8, <1>9 DEF IInv

LEMMA WarmNodesOK ==
    ASSUME IInv, NEW b \in Blobs, NEW healthy \in SUBSET Nodes, WarmNodes(b, healthy)
    PROVE  IInv'
<1>1. UNCHANGED <<registry, life, stored, cache, call>>
  BY DEF WarmNodes
<1>2. RegistryOK'
  BY <1>1 DEF IInv, RegistryOK, Lives
<1>3. WarmOK'
  <2>1. \A x : Registered(x)' <=> Registered(x)
    BY <1>1, RegisteredStays
  <2>2. Registered(b)
    BY DEF WarmNodes, IInv, WarmOK
  <2>3. \A w \in warm' : w \in warm \/ w \in [node : healthy, blob : {b}, compiling : {FALSE}]
    BY DEF WarmNodes
  <2>4. \A w \in [node : healthy, blob : {b}, compiling : {FALSE}] :
           w \in [node : Nodes, blob : Blobs, compiling : BOOLEAN] /\ w.blob = b
    OBVIOUS
  <2>5. \A w \in warm' : w \in [node : Nodes, blob : Blobs, compiling : BOOLEAN] /\ Registered(w.blob)
    BY <2>2, <2>3, <2>4 DEF IInv, WarmOK
  <2>6. \A x \in pending' : Registered(x)
    BY DEF WarmNodes, IInv, WarmOK
  <2> QED
    BY <2>1, <2>5, <2>6 DEF WarmOK
<1> QED
  BY <1>1, <1>2, <1>3, CacheUnchanged, CallsUnchanged DEF IInv

LEMMA RestartControlPlaneOK == ASSUME IInv, RestartControlPlane PROVE IInv'
<1>1. life' = life + 1 /\ life \in Nat /\ life' \in Lives /\ stored' = stored /\ registry' = None
      /\ UNCHANGED <<warm, cache>> /\ pending' = {}
  BY DistributionAssumption DEF RestartControlPlane, IInv, RegistryOK, Lives
<1>2. RegistryOK'
  BY <1>1 DEF IInv, RegistryOK, Lives
<1>3. \A l \in 0 .. life : stored[l] # None => stored'[l] = stored[l]
  BY <1>1
<1>4. life <= life'
  BY <1>1
<1>5. \A x : Registered(x) => Registered(x)'
  BY <1>2, <1>3, <1>4, RegisteredGrows DEF IInv
<1>6. WarmOK'
  BY <1>1, <1>5 DEF IInv, WarmOK
<1>7. CacheOK'
  BY <1>1, <1>5 DEF IInv, CacheOK
<1>8. CallsOK'
  <2>1. RecordOK(Idle)
    BY <1>1, DistributionAssumption DEF RecordOK, Idle, Call, OnNode, Lives
  <2>2. \A c \in Calls : RecordOK(call'[c])
    BY <2>1 DEF RestartControlPlane, IInv, CallsOK
  <2>3. \A r : RecordOK(r) => RecordOK(r)'
    BY <1>2, <1>3, <1>4, RecordStays DEF IInv
  <2>4. call' \in [Calls -> Call]
    BY <2>1, <2>2 DEF RestartControlPlane, IInv, CallsOK, RecordOK
  <2>5. \A c \in Calls : RecordOK(call[c])'
    <3>1. ASSUME NEW c \in Calls PROVE RecordOK(call[c])'
      <4>1. PICK r : r = call'[c]
        OBVIOUS
      <4>2. RecordOK(r)'
        BY <4>1, <2>2, <2>3
      <4> QED
        BY <4>1, <4>2 DEF RecordOK, Registered, Call, OnNode, Lives
    <3> QED
      BY <3>1
  <2> QED
    BY <2>4, <2>5 DEF CallsOK, Call, OnNode, Lives
<1> QED
  BY <1>2, <1>6, <1>7, <1>8 DEF IInv

LEMMA ResolveOK == ASSUME IInv, NEW c \in Calls, Resolve(c) PROVE IInv'
<1> DEFINE r == [at |-> "resolved", node |-> None, hash |-> registry, born |-> life, blob |-> None]
<1>1. registry \in Blobs /\ life \in Lives /\ registry = stored[life] /\ life \in Nat
  BY DEF IInv, RegistryOK, Resolve, Lives
<1>2. r \in Call
  BY <1>1 DEF Call
<1>3. RecordOK(r)
  BY <1>1, <1>2, DistributionAssumption DEF RecordOK, OnNode
<1>4. call' = [call EXCEPT ![c] = r]
  BY DEF Resolve
<1> HIDE DEF r
<1>5. CallsOK'
  BY <1>3, <1>4, OneCall DEF Resolve, upVars, IInv
<1> QED
  BY <1>5, RegistryUnchanged, WarmUnchanged, CacheUnchanged DEF Resolve, IInv, upVars

LEMMA EndOK == ASSUME IInv, NEW c \in Calls, End(c) PROVE IInv'
<1>1. RecordOK(Idle)
  BY DistributionAssumption DEF RecordOK, Idle, Call, OnNode, Lives
<1>2. CallsOK'
  BY <1>1, OneCall DEF End, upVars, IInv
<1> QED
  BY <1>2, RegistryUnchanged, WarmUnchanged, CacheUnchanged DEF End, IInv, upVars

LEMMA SendOK == ASSUME IInv, NEW c \in Calls, NEW n \in Nodes, Send(c, n) PROVE IInv'
<1>1. CallsOK'
  BY MovedOK DEF Send, IInv, upVars, OnNode
<1> QED
  BY <1>1, RegistryUnchanged, WarmUnchanged, CacheUnchanged DEF Send, IInv, upVars

LEMMA RetryOK == ASSUME IInv, NEW c \in Calls, Retry(c) PROVE IInv'
<1>1. CallsOK'
  BY MovedOK DEF Retry, IInv, upVars, OnNode
<1> QED
  BY <1>1, RegistryUnchanged, WarmUnchanged, CacheUnchanged DEF Retry, IInv, upVars

LEMMA LookupOK == ASSUME IInv, NEW c \in Calls, Lookup(c) PROVE IInv'
<1> DEFINE n == call[c].node
<1>1. call[c].at = "lookup" /\ UNCHANGED <<upVars, warm>>
  BY DEF Lookup
<1>2. n \in Nodes
  BY <1>1 DEF IInv, CallsOK, RecordOK, OnNode
<1>3. CASE Fresh(n) /\ Hit(n) /\ Moved(c, "running", n, cache[n].blob)
  <2>1. Registered(cache[n].blob) /\ cache[n].blob \in Blobs /\ cache[n].blob # None
    BY <1>2, <1>3 DEF Fresh, IInv, CacheOK, Registered
  <2>2. CallsOK'
    BY <1>1, <1>2, <1>3, <2>1, MovedOK DEF IInv, upVars, OnNode
  <2> QED
    BY <1>1, <1>3, <2>2, RegistryUnchanged, WarmUnchanged, CacheUnchanged DEF IInv, upVars, Hit
<1>4. CASE DropExpired(n) /\ Moved(c, "downloading", n, None)
  <2>1. CallsOK'
    BY <1>1, <1>2, <1>4, MovedOK DEF IInv, upVars, OnNode
  <2>2. CacheOK'
    BY <1>1, <1>2, <1>4, DropOK DEF IInv, upVars, DropExpired
  <2> QED
    BY <1>1, <2>1, <2>2, RegistryUnchanged, WarmUnchanged DEF IInv
<1> QED
  BY <1>3, <1>4 DEF Lookup

\* The bytes are in the call's hands; nobody has looked at them.
LEMMA DownloadOK == ASSUME IInv, NEW c \in Calls, Download(c) PROVE IInv'
<1>1. call[c].at = "downloading" /\ registry # None /\ UNCHANGED <<upVars, warm, cache>>
      /\ \E b \in {registry, Garbled} : Moved(c, "fetched", call[c].node, b)
  BY DEF Download
<1>2. call[c].node \in Nodes /\ RecordOK(call[c])
  BY <1>1 DEF IInv, CallsOK, RecordOK, OnNode
<1>3. PICK b \in {registry, Garbled} : Moved(c, "fetched", call[c].node, b)
  BY <1>1
<1>4. b \in Blobs \cup {Garbled} /\ b # None
  BY <1>1, DistributionAssumption DEF IInv, RegistryOK, Lives
<1>5. CallsOK'
  BY <1>1, <1>2, <1>3, <1>4, MovedOK DEF IInv, upVars, OnNode
<1> QED
  BY <1>1, <1>5, RegistryUnchanged, WarmUnchanged, CacheUnchanged DEF IInv, upVars

LEMMA VerifyOK == ASSUME IInv, NEW c \in Calls, Verify(c) PROVE IInv'
<1> DEFINE n == call[c].node
<1>1. call[c].at = "fetched" /\ UNCHANGED <<upVars, warm>>
  BY DEF Verify
<1>2. n \in Nodes /\ call[c].blob \in Blobs \cup {Garbled} /\ call[c].blob # None
  BY <1>1 DEF IInv, CallsOK, RecordOK, OnNode, Call
<1>3. CASE call[c].blob # call[c].hash /\ Moved(c, "rejected", n, call[c].blob) /\ UNCHANGED cache
  <2>1. CallsOK'
    BY <1>1, <1>2, <1>3, MovedOK DEF IInv, upVars, OnNode
  <2> QED
    BY <1>1, <1>3, <2>1, RegistryUnchanged, WarmUnchanged, CacheUnchanged DEF IInv, upVars
<1>4. CASE Fresh(n) /\ Hit(n) /\ Moved(c, "running", n, cache[n].blob)
  <2>1. Registered(cache[n].blob) /\ cache[n].blob \in Blobs /\ cache[n].blob # None
    BY <1>2, <1>4 DEF Fresh, IInv, CacheOK, Registered
  <2>2. CallsOK'
    BY <1>1, <1>2, <1>4, <2>1, MovedOK DEF IInv, upVars, OnNode
  <2> QED
    BY <1>1, <1>4, <2>2, RegistryUnchanged, WarmUnchanged, CacheUnchanged DEF IInv, upVars, Hit
<1>5. CASE call[c].blob = call[c].hash /\ DropExpired(n) /\ Moved(c, "compiling", n, call[c].blob)
  <2>1. Registered(call[c].blob)
    <3>1. RecordOK(call[c]) /\ call[c].born \in Nat /\ life \in Nat
      BY DEF IInv, CallsOK, RecordOK, Call, RegistryOK, Lives
    <3>2. call[c].hash = stored[call[c].born] /\ call[c].born \in 0 .. life /\ call[c].hash \in Blobs
      BY <1>1, <3>1 DEF RecordOK, Call
    <3> QED
      BY <1>5, <3>2 DEF Registered
  <2>2. CallsOK'
    BY <1>1, <1>2, <1>5, <2>1, MovedOK DEF IInv, upVars, OnNode
  <2>3. CacheOK'
    BY <1>1, <1>2, <1>5, DropOK DEF IInv, upVars, DropExpired
  <2> QED
    BY <1>1, <2>2, <2>3, RegistryUnchanged, WarmUnchanged DEF IInv
<1> QED
  BY <1>3, <1>4, <1>5 DEF Verify

LEMMA CompiledOrFailOK == ASSUME IInv, NEW c \in Calls, Compiled(c) \/ Fail(c) PROVE IInv'
<1>1. CASE Compiled(c)
  <2>1. call[c].at = "compiling" /\ UNCHANGED <<upVars, warm>>
        /\ Insert(call[c].node, call[c].blob)
        /\ Moved(c, "running", call[c].node, call[c].blob)
    BY <1>1 DEF Compiled
  <2>2. call[c].node \in Nodes /\ Registered(call[c].blob) /\ call[c].blob # None
        /\ call[c].blob \in Blobs
    BY <2>1 DEF IInv, CallsOK, RecordOK, OnNode, Registered
  <2>3. CallsOK'
    BY <2>1, <2>2, MovedOK DEF IInv, upVars, OnNode
  <2>4. CacheOK'
    BY <2>1, <2>2, InsertOK DEF IInv, upVars
  <2> QED
    BY <2>1, <2>3, <2>4, RegistryUnchanged, WarmUnchanged DEF IInv
<1>2. CASE Fail(c)
  <2>1. call[c] \in Call
    BY DEF IInv, CallsOK
  <2>2. CallsOK'
    BY <1>2, <2>1, MovedOK DEF Fail, IInv, upVars, OnNode, Call
  <2> QED
    BY <1>2, <2>2, RegistryUnchanged, WarmUnchanged, CacheUnchanged DEF Fail, IInv, upVars
<1> QED
  BY <1>1, <1>2

LEMMA WarmingOK == ASSUME IInv, NEW w \in warm, Warming(w) PROVE IInv'
<1>1. w.node \in Nodes /\ w.blob \in Blobs /\ Registered(w.blob) /\ UNCHANGED <<upVars, call>>
  BY DEF IInv, WarmOK, Warming, WarmArrives, WarmCompiled, WarmLost
<1>2. \A x : Registered(x)' <=> Registered(x)
  BY <1>1, RegisteredStays DEF upVars
<1>3. WarmOK'
  <2>1. CASE warm' = warm \ {w}
    BY <1>1, <1>2, <2>1 DEF IInv, WarmOK, upVars
  <2>2. CASE warm' = (warm \ {w}) \cup {[node |-> w.node, blob |-> w.blob, compiling |-> TRUE]}
    <3> DEFINE v == [node |-> w.node, blob |-> w.blob, compiling |-> TRUE]
    <3>1. v \in [node : Nodes, blob : Blobs, compiling : BOOLEAN] /\ v.blob = w.blob
      BY <1>1
    <3>2. warm' = (warm \ {w}) \cup {v}
      BY <2>2
    <3> HIDE DEF v
    <3>3. \A x \in warm' : x \in [node : Nodes, blob : Blobs, compiling : BOOLEAN] /\ Registered(x.blob)
      BY <1>1, <3>1, <3>2 DEF IInv, WarmOK
    <3> QED
      BY <1>1, <1>2, <3>3 DEF IInv, WarmOK, upVars
  <2> QED
    BY <2>1, <2>2 DEF Warming, WarmArrives, WarmCompiled, WarmLost
<1>4. CacheOK'
  <2>1. CASE UNCHANGED cache
    BY <1>1, <2>1, CacheUnchanged DEF IInv, upVars
  <2>2. CASE DropExpired(w.node)
    BY <1>1, <2>2, DropOK DEF IInv, upVars, DropExpired
  <2>3. CASE Insert(w.node, w.blob)
    BY <1>1, <2>3, InsertOK DEF IInv, upVars
  <2> QED
    BY <2>1, <2>2, <2>3 DEF Warming, WarmArrives, WarmCompiled, WarmLost, Hit
<1> QED
  BY <1>1, <1>3, <1>4, RegistryUnchanged, CallsUnchanged DEF IInv, upVars

LEMMA CacheStepOK == ASSUME IInv, NEW n \in Nodes, Tick(n) \/ Evict(n) PROVE IInv'
<1>1. UNCHANGED <<upVars, warm, call>>
  BY DEF Tick, Evict
<1>2. CacheOK'
  <2>1. CASE Tick(n)
    <3>1. cache[n].blob \in Blobs \cup {None} /\ cache[n].age + 1 \in 0 .. TTL
          /\ (cache[n].blob # None => Registered(cache[n].blob))
      BY <2>1, DistributionAssumption DEF Tick, Fresh, IInv, CacheOK
    <3> QED
      BY <1>1, <2>1, <3>1, CacheWrite DEF Tick, IInv, upVars
  <2>2. CASE Evict(n)
    BY <1>1, <2>2, DropOK DEF Evict, IInv, upVars
  <2> QED
    BY <2>1, <2>2
<1> QED
  BY <1>1, <1>2, RegistryUnchanged, WarmUnchanged, CallsUnchanged DEF IInv, upVars

LEMMA RestartNodeOK == ASSUME IInv, NEW n \in Nodes, RestartNode(n) PROVE IInv'
<1>1. UNCHANGED upVars
  BY DEF RestartNode
<1>2. \A x : Registered(x)' <=> Registered(x)
  BY <1>1, RegisteredStays DEF upVars
<1>3. WarmOK'
  BY <1>1, <1>2 DEF RestartNode, IInv, WarmOK, upVars
<1>4. CacheOK'
  BY <1>1, DropOK DEF RestartNode, IInv, upVars
<1>5. CallsOK'
  <2> DEFINE failed(r) == [at |-> "failed", node |-> n, hash |-> r.hash,
                           born |-> r.born, blob |-> None]
  <2>1. ASSUME NEW r, RecordOK(r), r.at \in OnNode PROVE RecordOK(failed(r))
    <3>1. r \in Call
      BY <2>1 DEF RecordOK
    <3>2. failed(r) \in Call
      BY <3>1 DEF Call
    <3> QED
      BY <2>1, <3>2 DEF RecordOK, OnNode
  <2>2. \A c \in Calls : call'[c] = call[c] \/ (call[c].at \in OnNode /\ call'[c] = failed(call[c]))
    BY DEF RestartNode
  <2> HIDE DEF failed
  <2>3. \A c \in Calls : RecordOK(call'[c])
    BY <2>1, <2>2 DEF IInv, CallsOK
  <2>4. call' = [c \in Calls |-> call'[c]]
    BY DEF RestartNode
  <2>5. call' \in [Calls -> Call]
    BY <2>3, <2>4 DEF RecordOK
  <2>6. \A c \in Calls : RecordOK(call[c])'
    BY <1>1, <2>3 DEF RecordOK, Registered, Call, OnNode, Lives, upVars
  <2> QED
    BY <2>5, <2>6 DEF CallsOK, Call, OnNode, Lives
<1> QED
  BY <1>1, <1>3, <1>4, <1>5, RegistryUnchanged DEF IInv

LEMMA StutterOK == ASSUME IInv, UNCHANGED vars PROVE IInv'
BY RegistryUnchanged, WarmUnchanged, CacheUnchanged, CallsUnchanged DEF IInv, vars, upVars

-----------------------------------------------------------------------------
LEMMA NextOK == ASSUME IInv, [Next]_vars PROVE IInv'
<1>1. CASE \E b \in Blobs : Upload(b) \/ \E healthy \in SUBSET Nodes : WarmNodes(b, healthy)
  BY <1>1, UploadOK, WarmNodesOK
<1>2. CASE RestartControlPlane
  BY <1>2, RestartControlPlaneOK
<1>3. CASE \E c \in Calls : Resolve(c) \/ End(c)
  BY <1>3, ResolveOK, EndOK
<1>4. CASE \E c \in Calls : Retry(c) \/ \E n \in Nodes : Send(c, n)
  BY <1>4, RetryOK, SendOK
<1>5. CASE \E c \in Calls : OnEdge(c)
  BY <1>5, LookupOK, DownloadOK, VerifyOK, CompiledOrFailOK DEF OnEdge
<1>6. CASE \E w \in warm : Warming(w)
  BY <1>6, WarmingOK
<1>7. CASE \E n \in Nodes : Tick(n) \/ Evict(n) \/ RestartNode(n)
  BY <1>7, CacheStepOK, RestartNodeOK
<1>8. CASE UNCHANGED vars
  BY <1>8, StutterOK
<1> QED
  BY <1>1, <1>2, <1>3, <1>4, <1>5, <1>6, <1>7, <1>8 DEF Next

\* Whatever the registry, the caches and the calls hold was registered.
THEOREM DistributionSafety == Spec => []IInv
<1>1. Init => IInv
  BY InitOK
<1>2. IInv /\ [Next]_vars => IInv'
  BY NextOK
<1> QED
  BY <1>1, <1>2, PTL DEF Spec

\* The state stays well formed, and a call past its download has bytes in hand.
THEOREM DistributionTypes == Spec => []TypeOK
<1>1. IInv => TypeOK
  BY DEF IInv, TypeOK, RegistryOK, WarmOK, CacheOK, CallsOK, RecordOK, Registered
<1> QED
  BY <1>1, DistributionSafety, PTL

\* A task that runs another blob than its hash names (execute_task does not
\* check a hit) runs what another life registered under that name and
\* version.
THEOREM DistributionHashHonoured == Spec => []HashHonoured
<1>1. IInv => HashHonoured
  <2> SUFFICES ASSUME IInv, NEW c \in Calls, call[c].at = "running", call[c].blob # call[c].hash
               PROVE  \E l \in 0 .. life : l # call[c].born /\ stored[l] = call[c].blob
    BY DEF HashHonoured
  <2>1. RecordOK(call[c])
    BY DEF IInv, CallsOK
  <2>2. PICK l \in 0 .. life : stored[l] = call[c].blob
    BY <2>1 DEF RecordOK, Registered
  <2>3. call[c].hash = stored[call[c].born]
    BY <2>1 DEF RecordOK
  <2> QED
    BY <2>2, <2>3
<1> QED
  BY <1>1, DistributionSafety, PTL
=============================================================================
