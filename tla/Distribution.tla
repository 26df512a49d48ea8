---------------------------- MODULE Distribution ----------------------------
(***************************************************************************)
(* How one WASM module, a name:version, reaches the edge nodes: the        *)
(* control plane's registry, the pre-warm requests sent after an upload,   *)
(* the download by an edge node that misses its cache, the SHA-256 check,  *)
(* and the compiled entry in each node's cache.  Both sides key everything *)
(* by name:version, so other modules only show as evictions.               *)
(*                                                                         *)
(* A blob is the bytes of an upload and stands for their hash too.  The    *)
(* registry is in memory: it starts empty with the control plane's process *)
(* and is lost with it, while the nodes' caches and the calls under way on *)
(* them go on.                                                             *)
(*                                                                         *)
(* call[c].at is where a task that names the module is:                    *)
(*   idle       not submitted, or over                                     *)
(*   resolved   its ModuleRef is built; the dispatcher picks a node        *)
(*   lookup, downloading, fetched, compiling   ExecuteTask on call[c].node *)
(*   running    the compiled call[c].blob runs                             *)
(*   rejected   refused: "module hash mismatch"                            *)
(*   failed     the download, the compilation or the node failed           *)
(***************************************************************************)
EXTENDS Integers

CONSTANTS Blobs, Nodes, Calls,
          None,              \* no blob, no node
          Garbled,           \* bytes nobody uploaded: damaged or forged
          TTL,               \* CACHE_TTL_SECS, in ticks
          MaxRestarts        \* bound on control-plane restarts

ASSUME DistributionAssumption ==
    /\ None \notin Blobs \cup Nodes
    /\ Garbled \notin Blobs \cup {None}
    /\ TTL \in Nat \ {0}
    /\ MaxRestarts \in Nat

VARIABLES registry,          \* ModuleRegistry.modules at this key
          life,              \* control-plane restarts so far
          stored,            \* history: stored[l], the blob registered in life l
          pending,           \* uploads stored, the nodes to warm not yet read
          warm,              \* POST /cache/warm requests under way
          cache,             \* cache[n]: the entry of node n and its age
          call

upVars == <<registry, life, stored, pending>>
vars   == <<upVars, warm, cache, call>>

Lives == 0 .. MaxRestarts

\* CompiledModuleCache without an entry for the module.
Absent == [blob |-> None, age |-> 0]

OnNode == {"lookup", "downloading", "fetched", "compiling", "running"}

Call == [at   : OnNode \cup {"idle", "resolved", "rejected", "failed"},
         node : Nodes \cup {None},
         hash : Blobs \cup {None},     \* ModuleRef.hash
         born : Lives,                 \* the life whose dispatcher sends it
         blob : Blobs \cup {None, Garbled}]     \* downloaded bytes or compiled module

Idle == [at |-> "idle", node |-> None, hash |-> None, born |-> 0, blob |-> None]

Init ==
    /\ registry = None
    /\ life = 0
    /\ stored = [l \in Lives |-> None]
    /\ pending = {}
    /\ warm = {}
    /\ cache = [n \in Nodes |-> Absent]
    /\ call = [c \in Calls |-> Idle]

\* Call c goes to place l of node n with b in hand; its ModuleRef stays.
Moved(c, l, n, b) ==
    call' = [call EXCEPT ![c] = [at   |-> l,
                                 node |-> n,
                                 hash |-> call[c].hash,
                                 born |-> call[c].born,
                                 blob |-> b]]

-----------------------------------------------------------------------------
(* Control plane *)

\* upload_module up to the end of store, under the write lock.  The bytes
\* are not looked into.  AlreadyExists ends the request and changes nothing.
Upload(b) ==
    /\ registry = None
    /\ registry' = b
    /\ stored' = [stored EXCEPT ![life] = b]
    /\ pending' = pending \cup {b}
    /\ UNCHANGED <<life, warm, cache, call>>

\* The rest of upload_module, under a read lock of its own: a spawned task
\* sends one request to every node that is healthy by then.  None is sent if
\* the uploading client has left.
WarmNodes(b, healthy) ==
    /\ b \in pending
    /\ pending' = pending \ {b}
    /\ warm' = warm \cup [node : healthy, blob : {b}, compiling : {FALSE}]
    /\ UNCHANGED <<registry, life, stored, cache, call>>

\* All the control plane knows is gone.  The tasks it was about to send die
\* with it; the calls on the nodes are cancelled when the broken connection is
\* noticed, and go on until then.
RestartControlPlane ==
    /\ life < MaxRestarts
    /\ life' = life + 1
    /\ registry' = None
    /\ pending' = {}
    /\ call' = [c \in Calls |-> IF call[c].at = "resolved" THEN Idle ELSE call[c]]
    /\ UNCHANGED <<stored, warm, cache>>

\* resolve_task_inputs: an unregistered module ends the request.
Resolve(c) ==
    /\ call[c].at = "idle"
    /\ registry # None
    /\ call' = [call EXCEPT ![c] = [at   |-> "resolved",
                                    node |-> None,
                                    hash |-> registry,
                                    born |-> life,
                                    blob |-> None]]
    /\ UNCHANGED <<upVars, warm, cache>>

\* dispatch_task sends the same ModuleRef in every attempt.
Send(c, n) ==
    /\ call[c].at = "resolved"
    /\ Moved(c, "lookup", n, None)
    /\ UNCHANGED <<upVars, warm, cache>>

\* An attempt has failed.  Its dispatcher, if it is alive, tries again (the
\* limits are Dispatch's).
Retry(c) ==
    /\ call[c].at \in {"rejected", "failed", "running"}
    /\ call[c].born = life
    /\ Moved(c, "resolved", None, None)
    /\ UNCHANGED <<upVars, warm, cache>>

\* The task is over, its client has left, or the node has noticed that the
\* control plane is gone.
End(c) ==
    /\ call[c].at # "idle"
    /\ call' = [call EXCEPT ![c] = Idle]
    /\ UNCHANGED <<upVars, warm, cache>>

-----------------------------------------------------------------------------
(* Edge nodes *)

Fresh(n) == cache[n].blob # None /\ cache[n].age < TTL

\* An entry that has expired is dropped by the access that finds it.
DropExpired(n) == cache' = [cache EXCEPT ![n] = Absent]

\* Mutant: a hit makes the entry young again.
HitRefreshes(n) == cache' = [cache EXCEPT ![n] = [blob |-> cache[n].blob, age |-> 0]]

\* A hit leaves cached_at as it is.
Hit(n) == UNCHANGED cache

\* get_cached: whatever is cached under the key is used; the ModuleRef's hash
\* is not looked at.
Lookup(c) ==
    LET n == call[c].node
    IN  /\ call[c].at = "lookup"
        /\ \/ /\ Fresh(n)
              /\ Hit(n)
              /\ Moved(c, "running", n, cache[n].blob)
           \/ /\ ~Fresh(n)
              /\ DropExpired(n)
              /\ Moved(c, "downloading", n, None)
        /\ UNCHANGED <<upVars, warm>>

\* Mutant: the body of an error answer is taken for the module.
DownloadIgnoresStatus(c) ==
    /\ call[c].at = "downloading"
    /\ Moved(c, "fetched", call[c].node, registry)
    /\ UNCHANGED <<upVars, warm, cache>>

\* GET /modules/{name}/{version} of the control plane that runs by now.  The
\* bytes arrive as they were stored or not.
Download(c) ==
    /\ call[c].at = "downloading"
    /\ registry # None
    /\ \E b \in {registry, Garbled} : Moved(c, "fetched", call[c].node, b)
    /\ UNCHANGED <<upVars, warm, cache>>

\* Mutant: the bytes are compiled and cached before the hash is looked at.
VerifyAfterCompile(c) ==
    LET n == call[c].node
    IN  /\ call[c].at = "fetched"
        /\ \/ /\ call[c].blob # call[c].hash
              /\ cache' = [cache EXCEPT ![n] = [blob |-> call[c].blob, age |-> 0]]
              /\ Moved(c, "rejected", n, call[c].blob)
           \/ /\ call[c].blob = call[c].hash
              /\ cache' = [cache EXCEPT ![n] = [blob |-> call[c].blob, age |-> 0]]
              /\ Moved(c, "running", n, call[c].blob)
        /\ UNCHANGED <<upVars, warm>>

\* verify_hash, then the first critical section of get_or_compile, which may
\* find an entry that another call or a warm request has inserted meanwhile.
Verify(c) ==
    LET n == call[c].node
    IN  /\ call[c].at = "fetched"
        /\ \/ /\ call[c].blob # call[c].hash
              /\ Moved(c, "rejected", n, call[c].blob)
              /\ UNCHANGED cache
           \/ /\ call[c].blob = call[c].hash
              /\ Fresh(n)
              /\ Hit(n)
              /\ Moved(c, "running", n, cache[n].blob)
           \/ /\ call[c].blob = call[c].hash
              /\ ~Fresh(n)
              /\ DropExpired(n)
              /\ Moved(c, "compiling", n, call[c].blob)
        /\ UNCHANGED <<upVars, warm>>

\* The second critical section: put replaces any entry.
Insert(n, b) == cache' = [cache EXCEPT ![n] = [blob |-> b, age |-> 0]]

Compiled(c) ==
    /\ call[c].at = "compiling"
    /\ Insert(call[c].node, call[c].blob)
    /\ Moved(c, "running", call[c].node, call[c].blob)
    /\ UNCHANGED <<upVars, warm>>

\* The control plane does not answer or answers 404, or the bytes do not
\* compile.
Fail(c) ==
    /\ call[c].at \in {"downloading", "compiling"}
    /\ Moved(c, "failed", call[c].node, None)
    /\ UNCHANGED <<upVars, warm, cache>>

\* warm_cache_handler: get_or_compile, first critical section ...
WarmArrives(w) ==
    /\ w \in warm
    /\ ~w.compiling
    /\ \/ /\ Fresh(w.node)
          /\ Hit(w.node)
          /\ warm' = warm \ {w}
       \/ /\ ~Fresh(w.node)
          /\ DropExpired(w.node)
          /\ warm' = (warm \ {w}) \cup {[node |-> w.node, blob |-> w.blob, compiling |-> TRUE]}
    /\ UNCHANGED <<upVars, call>>

\* ... and second.
WarmCompiled(w) ==
    /\ w \in warm
    /\ w.compiling
    /\ Insert(w.node, w.blob)
    /\ warm' = warm \ {w}
    /\ UNCHANGED <<upVars, call>>

\* The request is lost, times out after 30 s or does not compile.
WarmLost(w) ==
    /\ w \in warm
    /\ warm' = warm \ {w}
    /\ UNCHANGED <<upVars, cache, call>>

Tick(n) ==
    /\ Fresh(n)
    /\ cache' = [cache EXCEPT ![n] = [blob |-> cache[n].blob, age |-> cache[n].age + 1]]
    /\ UNCHANGED <<upVars, warm, call>>

\* Other modules push the entry out of the LRU.
Evict(n) ==
    /\ cache[n] # Absent
    /\ cache' = [cache EXCEPT ![n] = Absent]
    /\ UNCHANGED <<upVars, warm, call>>

RestartNode(n) ==
    /\ cache' = [cache EXCEPT ![n] = Absent]
    /\ warm' = {w \in warm : w.node = n => ~w.compiling}
    /\ call' = [c \in Calls |->
                  IF call[c].node = n /\ call[c].at \in OnNode
                  THEN [at |-> "failed", node |-> n, hash |-> call[c].hash,
                        born |-> call[c].born, blob |-> None]
                  ELSE call[c]]
    /\ UNCHANGED upVars

-----------------------------------------------------------------------------
OnEdge(c) == Lookup(c) \/ Download(c) \/ Verify(c) \/ Compiled(c) \/ Fail(c)

Warming(w) == WarmArrives(w) \/ WarmCompiled(w) \/ WarmLost(w)

Next ==
    \/ \E b \in Blobs : Upload(b) \/ \E healthy \in SUBSET Nodes : WarmNodes(b, healthy)
    \/ RestartControlPlane
    \/ \E c \in Calls : Resolve(c) \/ Retry(c) \/ End(c) \/ OnEdge(c)
    \/ \E c \in Calls, n \in Nodes : Send(c, n)
    \/ \E w \in warm : Warming(w)
    \/ \E n \in Nodes : Tick(n) \/ Evict(n) \/ RestartNode(n)

Spec == Init /\ [][Next]_vars

\* Time passes, a call that has its bytes goes on, and a warm request ends (it
\* has a timeout).  A download may hang (the client has no timeout), and
\* nothing makes anyone upload, submit or end a task.
Fairness ==
    /\ \A n \in Nodes : WF_vars(Tick(n))
    /\ \A c \in Calls : WF_vars(Verify(c) \/ Compiled(c))
    /\ \A n \in Nodes, b \in Blobs, x \in BOOLEAN :
         WF_vars(Warming([node |-> n, blob |-> b, compiling |-> x]))

FairSpec == Spec /\ Fairness

-----------------------------------------------------------------------------
(* Properties *)

\* Type invariant; a call past its download has bytes in hand.
TypeOK ==
    /\ registry \in Blobs \cup {None}
    /\ life \in Lives
    /\ stored \in [Lives -> Blobs \cup {None}]
    /\ pending \subseteq Blobs
    /\ warm \subseteq [node : Nodes, blob : Blobs, compiling : BOOLEAN]
    /\ cache \in [Nodes -> [blob : Blobs \cup {None, Garbled}, age : 0 .. TTL]]
    /\ call \in [Calls -> Call]
    /\ \A c \in Calls : call[c].at \in {"fetched", "compiling", "running"}
                       => call[c].blob # None

\* SYSTEM_DESIGN.md line 93 and the check in execute_task: a task runs the
\* blob its ModuleRef's hash names.  A hit is not checked, so what holds is:
\* if it runs another blob, that one was registered under the same name and
\* version by a control plane before or after the one that resolved the
\* task.  Without a restart no interleaving of uploads, warm requests,
\* downloads, retries and expiries runs the wrong code, and bytes damaged on
\* their way are neither run by the call that downloads them nor left in the
\* cache for another one.
HashHonoured ==
    \A c \in Calls :
        call[c].at = "running" /\ call[c].blob # call[c].hash
        => \E l \in 0 .. life : l # call[c].born /\ stored[l] = call[c].blob

\* SYSTEM_DESIGN.md line 258, "control-plane registry authoritative": once the
\* control plane stays up, every entry the nodes would still use comes to be
\* the registered blob (and to be absent if none is registered), although a
\* hit checks nothing and warm requests and downloads of earlier lives are
\* still under way.
RegistryPrevails ==
    \A n \in Nodes : <>[](Fresh(n) => cache[n].blob = registry)
=============================================================================
