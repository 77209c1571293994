------------------------------- MODULE Server ------------------------------
(***************************************************************************)
(* The prompt service over the store: the handlers of                      *)
(* internal/server/server.go, the L2 cache of cache.go and redis_cache.go, *)
(* and the notifications they send.  A handler runs its store calls step   *)
(* by step (the actions of Store), then drops the cache entry and tells    *)
(* the subscribers; a reader looks in the cache, then in the store, then   *)
(* fills the cache.  Handlers of one node share an in-process cache, those *)
(* of all nodes share Redis.                                               *)
(*                                                                         *)
(* Time is counted in ticks: an entry is served for Ttl ticks, and a       *)
(* reader takes at most FillDelay ticks from its read to its fill.         *)
(***************************************************************************)
EXTENDS Store

CONSTANTS
  Valid,       \* contents that validate.Prompt accepts
  SeedUri,     \* the demo prompt that seedDemo creates
  Cache,       \* the L2 caches
  CacheOf,     \* the cache each handler uses
  Volatile,    \* caches that live in a server process
  Ttl,         \* -cache-ttl
  FillDelay,   \* bound on a reader's time between its read and its fill
  Faulty       \* whether handlers die and cache or bus operations get lost

ASSUME ValidAssumption == Valid \subseteq Content
ASSUME SeedAssumption == SeedUri \subseteq Uri
ASSUME CacheAssumption == CacheOf \in [Proc -> Cache] /\ Volatile \subseteq Cache
ASSUME TimeAssumption == Ttl \in Nat /\ FillDelay \in Nat
ASSUME FaultyAssumption == Faulty \in BOOLEAN

VARIABLES
  rpc,         \* frame of the handler each process is in
  cache,       \* entry of each prompt in each cache
  told,        \* version in the last notification for each prompt
  heads,       \* history: versions each prompt's HEAD has had
  gone         \* history: ticks since each version was the HEAD, saturating

serverVars == <<rpc, cache, told>>

historyVars == <<heads, gone>>

vars == <<commits, refs, prompts, call, dag, rpc, cache, told, heads, gone>>

-----------------------------------------------------------------------------
Free == [stage |-> "free"]

\* PublishPrompt and seedDemo, past their look at the HEAD.
PublishFrame == [stage : {"publish", "seed"}, uri : Uri, branch : Branch,
                 content : Content, meta : Meta]

\* Inside a store call.  What the handler will announce, None for nothing.
StoreFrame == [stage : {"store"}, op : {"publish", "seed", "merge", "set", "fork"},
               uri : Uri, branch : Branch, version : Content \cup {None}]

\* The HEAD has moved: the cache entry, then the subscribers.
HeadFrame == [stage : {"drop", "tell"}, uri : Uri, version : Content \cup {None}]

\* GetPrompt after a cache miss, after its read, and with its answer.
FetchFrame == [stage : {"fetch"}, uri : Uri]

FillFrame == [stage : {"fill"}, uri : Uri, content : Content, held : 0 .. FillDelay]

ReplyFrame == [stage : {"reply"}, uri : Uri, content : Content]

RpcFrame == {Free} \cup PublishFrame \cup StoreFrame \cup HeadFrame
              \cup FetchFrame \cup FillFrame \cup ReplyFrame

NoEntry == [left |-> -1]

Entry == {NoEntry} \cup [content : Content, left : 0 .. Ttl]

MaxAge == Ttl + FillDelay + 1

-----------------------------------------------------------------------------
Goto(p, f) == rpc' = [rpc EXCEPT ![p] = f]

At(p, s) == rpc[p].stage = s

\* The history variables follow the prompts table.
TrackHead ==
  /\ heads' = [u \in Uri |-> heads[u] \cup ({prompts'[u]} \ {None})]
  /\ gone' = [u \in Uri |-> [c \in Content |-> IF c = prompts'[u] THEN 0 ELSE gone[u][c]]]

\* ttlCache and redisCache.
SetEntry(k, u, e) == cache' = [cache EXCEPT ![k] = [@ EXCEPT ![u] = e]]

CacheHit(k, u) == cache[k][u] # NoEntry

CachePut(k, u, c) == SetEntry(k, u, [content |-> c, left |-> Ttl])

Invalidate(k, u) == SetEntry(k, u, NoEntry)

-----------------------------------------------------------------------------
\* PublishPrompt up to the store call: validation, and on main the look at the
\* HEAD that makes republishing it a no-op.  A look that fails is passed over, and
\* the HEAD's own content is committed and announced again.
PublishPrompt(p, u, b, c, m) ==
  /\ At(p, "free")
  /\ c \in Valid
  /\ b = Main => prompts[u] # c \/ Faulty
  /\ Goto(p, [stage |-> "publish", uri |-> u, branch |-> b, content |-> c,
              meta |-> m])
  /\ UNCHANGED <<commits, refs, prompts, call, dag, cache, told, heads, gone>>

\* seedDemo, run when a server starts: only an absent demo prompt is written.
SeedDemo(p, u, c, m) ==
  /\ At(p, "free")
  /\ u \in SeedUri
  /\ c \in Valid
  /\ prompts[u] = None
  /\ Goto(p, [stage |-> "seed", uri |-> u, branch |-> Main, content |-> c,
              meta |-> m])
  /\ UNCHANGED <<commits, refs, prompts, call, dag, cache, told, heads, gone>>

\* The two call Store.Commit, which reads the branch tip.
CommitCall(p) ==
  /\ rpc[p].stage \in {"publish", "seed"}
  /\ LET f == rpc[p]
     IN /\ Commit(p, f.uri, f.branch, f.content, f.meta)
        /\ Goto(p, [stage |-> "store", op |-> f.stage, uri |-> f.uri,
                    branch |-> f.branch, version |-> f.content])
  /\ UNCHANGED <<cache, told, heads, gone>>

\* MergeBranch: Store.Merge reads one tip, then the other.
MergeBranch(p, u, into, from, m) ==
  /\ At(p, "free")
  /\ Merge(p, u, into, from, m)
  /\ Goto(p, [stage |-> "store", op |-> "merge", uri |-> u, branch |-> into,
              version |-> None])
  /\ UNCHANGED <<cache, told, heads, gone>>

MergeBranchFrom(p) ==
  /\ At(p, "store")
  /\ MergeFrom(p)
  /\ UNCHANGED <<rpc, cache, told, heads, gone>>

\* SetBranch: rollback or pin.  (Its look at the HEAD only feeds the verdict.)
SetBranchCall(p, u, b, h) ==
  /\ At(p, "free")
  /\ SetBranch(p, u, b, h)
  /\ Goto(p, [stage |-> "store", op |-> "set", uri |-> u, branch |-> b,
              version |-> commits[h].content])
  /\ UNCHANGED <<cache, told, heads, gone>>

\* CreateBranch: a fork, and nothing for the cache or the subscribers.
CreateBranchCall(p, u, name, from) ==
  /\ At(p, "free")
  /\ CreateBranch(p, u, name, from)
  /\ Goto(p, [stage |-> "store", op |-> "fork", uri |-> u, branch |-> name,
              version |-> None])
  /\ UNCHANGED <<cache, told, heads, gone>>

CreateBranchInsert(p) ==
  /\ At(p, "store")
  /\ BranchInsert(p)
  /\ Goto(p, Free)
  /\ UNCHANGED <<cache, told, heads, gone>>

\* Mutant: a merge is forgotten among the operations that move the HEAD.
AfterTxNotMerge(f) ==
  IF f.branch = Main /\ f.op \notin {"seed", "merge"}
  THEN [stage |-> "drop", uri |-> f.uri, version |-> f.version]
  ELSE Free

\* A write to a side branch is over; one to main has moved the HEAD.  seedDemo
\* leaves the cache and the subscribers alone.
AfterTx(f) ==
  IF f.branch = Main /\ f.op # "seed"
  THEN [stage |-> "drop", uri |-> f.uri, version |-> f.version]
  ELSE Free

\* The transaction of PublishPrompt, MergeBranch, SetBranch or seedDemo.
WriteTx(p) ==
  /\ At(p, "store")
  /\ CommitTx(p) \/ SetBranchTx(p)
  /\ Goto(p, AfterTx(rpc[p]))
  /\ TrackHead
  /\ UNCHANGED <<cache, told>>

\* The store call returns an error, and so does the handler.
StoreFails(p) ==
  /\ At(p, "store")
  /\ Abort(p)
  /\ Goto(p, Free)
  /\ UNCHANGED <<cache, told, heads, gone>>

\* Cache.Invalidate: an error of Redis is ignored.  MergeBranch ends here.
DropEntry(p) ==
  /\ At(p, "drop")
  /\ \/ Invalidate(CacheOf[p], rpc[p].uri)
     \/ Faulty /\ UNCHANGED cache
  /\ Goto(p, IF rpc[p].version = None THEN Free
             ELSE [stage |-> "tell", uri |-> rpc[p].uri, version |-> rpc[p].version])
  /\ UNCHANGED <<commits, refs, prompts, call, dag, told, heads, gone>>

\* Notifier.Publish, best effort.
Notify(p) ==
  /\ At(p, "tell")
  /\ \/ told' = [told EXCEPT ![rpc[p].uri] = rpc[p].version]
     \/ Faulty /\ UNCHANGED told
  /\ Goto(p, Free)
  /\ UNCHANGED <<commits, refs, prompts, call, dag, cache, heads, gone>>

-----------------------------------------------------------------------------
\* Mutant: a hit renews the entry's life.
GetHitSliding(p, u) ==
  /\ At(p, "free")
  /\ CacheHit(CacheOf[p], u)
  /\ CachePut(CacheOf[p], u, cache[CacheOf[p]][u].content)
  /\ Goto(p, [stage |-> "reply", uri |-> u, content |-> cache[CacheOf[p]][u].content])
  /\ UNCHANGED <<commits, refs, prompts, call, dag, told, heads, gone>>

\* GetPrompt of the HEAD: a cache hit is the answer.
GetHit(p, u) ==
  /\ At(p, "free")
  /\ CacheHit(CacheOf[p], u)
  /\ Goto(p, [stage |-> "reply", uri |-> u, content |-> cache[CacheOf[p]][u].content])
  /\ UNCHANGED <<commits, refs, prompts, call, dag, cache, told, heads, gone>>

\* A miss, or an error of Redis.
GetMiss(p, u) ==
  /\ At(p, "free")
  /\ ~ CacheHit(CacheOf[p], u) \/ Faulty
  /\ Goto(p, [stage |-> "fetch", uri |-> u])
  /\ UNCHANGED <<commits, refs, prompts, call, dag, cache, told, heads, gone>>

\* Mutant: what the store holds is served as it is.
GetFetchUnvalidated(p) ==
  /\ At(p, "fetch")
  /\ LET u == rpc[p].uri
     IN Goto(p, IF prompts[u] # None
                THEN [stage |-> "fill", uri |-> u, content |-> prompts[u], held |-> 0]
                ELSE Free)
  /\ UNCHANGED <<commits, refs, prompts, call, dag, cache, told, heads, gone>>

\* Mutant: a missing prompt is not an error.
GetFetchMissing(p) ==
  /\ At(p, "fetch")
  /\ LET u == rpc[p].uri
     IN Goto(p, IF prompts[u] \in Valid \cup {None}
                THEN [stage |-> "fill", uri |-> u, content |-> prompts[u], held |-> 0]
                ELSE Free)
  /\ UNCHANGED <<commits, refs, prompts, call, dag, cache, told, heads, gone>>

\* Store.Get, and serve-time validation: NotFound and DataLoss end the call.
GetFetch(p) ==
  /\ At(p, "fetch")
  /\ LET u == rpc[p].uri
     IN Goto(p, IF prompts[u] \in Valid
                THEN [stage |-> "fill", uri |-> u, content |-> prompts[u], held |-> 0]
                ELSE Free)
  /\ UNCHANGED <<commits, refs, prompts, call, dag, cache, told, heads, gone>>

\* Cache.Put of what was read, and the answer.
GetFill(p) ==
  /\ At(p, "fill")
  /\ \/ CachePut(CacheOf[p], rpc[p].uri, rpc[p].content)
     \/ Faulty /\ UNCHANGED cache
  /\ Goto(p, [stage |-> "reply", uri |-> rpc[p].uri, content |-> rpc[p].content])
  /\ UNCHANGED <<commits, refs, prompts, call, dag, told, heads, gone>>

\* Mutant: pinned reads fill the cache too.
GetByRefCached(p, u, h) ==
  /\ At(p, "free")
  /\ h # NoHash
  /\ h \in {Tip(u, b) : b \in Branch} \/ h = ResolveHash(u, h)
  /\ commits[h].content \in Valid
  /\ CachePut(CacheOf[p], u, commits[h].content)
  /\ Goto(p, [stage |-> "reply", uri |-> u, content |-> commits[h].content])
  /\ UNCHANGED <<commits, refs, prompts, call, dag, told, heads, gone>>

\* getByRef: a branch tip or a commit of the prompt, validated, not cached.
GetByRef(p, u, h) ==
  /\ At(p, "free")
  /\ h # NoHash
  /\ h \in {Tip(u, b) : b \in Branch} \/ h = ResolveHash(u, h)
  /\ commits[h].content \in Valid
  /\ Goto(p, [stage |-> "reply", uri |-> u, content |-> commits[h].content])
  /\ UNCHANGED <<commits, refs, prompts, call, dag, cache, told, heads, gone>>

Reply(p) ==
  /\ At(p, "reply")
  /\ Goto(p, Free)
  /\ UNCHANGED <<commits, refs, prompts, call, dag, cache, told, heads, gone>>

-----------------------------------------------------------------------------
\* A handler stops anywhere: its process dies, or a transaction that took
\* effect is reported as failed and the handler returns before its last steps.
Kill(p) ==
  /\ Faulty
  /\ rpc[p] # Free
  /\ Return(p)
  /\ Goto(p, Free)
  /\ UNCHANGED <<commits, refs, prompts, dag, cache, told, heads, gone>>

\* A server process starts again with an empty in-process cache.
Restart(k) ==
  /\ Faulty
  /\ k \in Volatile
  /\ \A p \in Proc : CacheOf[p] = k => rpc[p] = Free
  /\ \E u \in Uri : CacheHit(k, u)
  /\ cache' = [cache EXCEPT ![k] = [u \in Uri |-> NoEntry]]
  /\ UNCHANGED <<commits, refs, prompts, call, dag, rpc, told, heads, gone>>

\* `promptnet put` writes a validated prompt behind the service's back.  (It
\* may refuse one, after a look at the HEAD: a structural change.)
PutCmd(u, c) ==
  /\ c \in Valid
  /\ Put(u, c)
  /\ TrackHead
  /\ UNCHANGED <<rpc, cache, told>>

\* `promptnet restore` writes what the backup holds, one prompt at a time.
Restore(u, c) ==
  /\ Put(u, c)
  /\ TrackHead
  /\ UNCHANGED <<rpc, cache, told>>

\* Mutant: an entry stored without an expiry.
OlderNever(e) == e

\* The clock: an entry is a hit until its expiry is in the past.
Older(e) == IF e = NoEntry \/ e.left = 0 THEN NoEntry ELSE [e EXCEPT !.left = @ - 1]

Tick ==
  /\ \A p \in Proc : At(p, "fill") => rpc[p].held < FillDelay
  /\ rpc' = [p \in Proc |-> IF At(p, "fill") THEN [rpc[p] EXCEPT !.held = @ + 1]
                            ELSE rpc[p]]
  /\ cache' = [k \in Cache |-> [u \in Uri |-> Older(cache[k][u])]]
  /\ gone' = [u \in Uri |-> [c \in Content |->
                IF c = prompts[u] \/ gone[u][c] = MaxAge THEN gone[u][c]
                ELSE gone[u][c] + 1]]
  /\ UNCHANGED <<commits, refs, prompts, call, dag, told, heads>>

-----------------------------------------------------------------------------
Init ==
  /\ StoreInit
  /\ rpc = [p \in Proc |-> Free]
  /\ cache = [k \in Cache |-> [u \in Uri |-> NoEntry]]
  /\ told = [u \in Uri |-> None]
  /\ heads = [u \in Uri |-> {}]
  /\ gone = [u \in Uri |-> [c \in Content |-> MaxAge]]

Write(p) ==
  \/ \E u \in Uri, b \in Branch, c \in Content, m \in Meta : PublishPrompt(p, u, b, c, m)
  \/ \E u \in Uri, c \in Content, m \in Meta : SeedDemo(p, u, c, m)
  \/ CommitCall(p)
  \/ \E u \in Uri, into, from \in Branch, m \in Meta : MergeBranch(p, u, into, from, m)
  \/ MergeBranchFrom(p)
  \/ \E u \in Uri, b \in Branch, h \in Hash : SetBranchCall(p, u, b, h)
  \/ \E u \in Uri, name, from \in Branch : CreateBranchCall(p, u, name, from)
  \/ CreateBranchInsert(p)
  \/ WriteTx(p)
  \/ StoreFails(p)
  \/ DropEntry(p)
  \/ Notify(p)

Read(p) ==
  \/ \E u \in Uri : GetHit(p, u) \/ GetMiss(p, u)
  \/ GetFetch(p)
  \/ GetFill(p)
  \/ \E u \in Uri, h \in Hash : GetByRef(p, u, h)
  \/ Reply(p)

Next ==
  \/ \E p \in Proc : Write(p) \/ Read(p) \/ Kill(p)
  \/ \E k \in Cache : Restart(k)
  \/ \E u \in Uri, c \in Content : PutCmd(u, c) \/ Restore(u, c)
  \/ Tick

Spec == Init /\ [][Next]_vars

\* Time does not stop: the clock goes on until every replaced version has been
\* gone for as long as the history counts.
Fairness ==
  \/ []<><<Tick>>_vars
  \/ <>[](\A u \in Uri, c \in Content : c # prompts[u] => gone[u][c] = MaxAge)

FairSpec == Spec /\ Fairness

-----------------------------------------------------------------------------
(***************************************************************************)
(* Properties.                                                             *)
(***************************************************************************)

\* Types of the handlers' frames, the caches and the history variables.
ServerTypeOK ==
  /\ rpc \in [Proc -> RpcFrame]
  /\ cache \in [Cache -> [Uri -> Entry]]
  /\ told \in [Uri -> Content \cup {None}]
  /\ heads \in [Uri -> SUBSET Content]
  /\ gone \in [Uri -> [Content -> 0 .. MaxAge]]

\* "Never hand a malformed prompt to a production agent, and never cache one",
\* though restore stores prompts that nobody validated.
OnlyValidServed ==
  /\ \A p \in Proc : At(p, "reply") => rpc[p].content \in Valid
  /\ \A k \in Cache, u \in Uri : CacheHit(k, u) => cache[k][u].content \in Valid

\* Branch work is invisible to HEAD readers until it is on main: what a cache
\* holds, and what subscribers are told, has been the served HEAD.
OnlyHeadsVisible ==
  /\ \A k \in Cache, u \in Uri : CacheHit(k, u) => cache[k][u].content \in heads[u]
  /\ \A u \in Uri : told[u] # None => told[u] \in heads[u]

\* An entry that differs from the served HEAD.
Stale(k, u) == CacheHit(k, u) /\ cache[k][u].content # prompts[u]

\* "A republish is reflected within ttl": no cache serves a version longer than
\* Ttl, and the time its reader took to fill it, after that version ceased to be
\* the HEAD, whatever invalidation was lost, overtaken or made on another node.
StaleWithinTtl ==
  \A k \in Cache, u \in Uri :
    CacheHit(k, u) => gone[u][cache[k][u].content] <= Ttl + FillDelay

\* "Invalidate drops a URI so the next read reflects a just-published version":
\* when no handler is running, no cache holds anything but the served HEAD.
FreshWhenIdle ==
  (\A p \in Proc : rpc[p] = Free) => \A k \in Cache, u \in Uri : ~ Stale(k, u)

\* The versions of a prompt that a HEAD reader has got, or will get from a cache.
held == [u \in Uri |->
  {cache[k][u].content : k \in {j \in Cache : CacheHit(j, u)}}
    \cup {rpc[p].content : p \in {q \in Proc : At(q, "fill") /\ rpc[q].uri = u}}]

P == INSTANCE Reads WITH head <- prompts, Bound <- Ttl + FillDelay

\* The service keeps the promise of Reads: what it gives to HEAD readers was read
\* as the HEAD, and is not given longer than Bound after it ceased to be.
ImplementsReads == P!Spec

\* TTL is the convergence mechanism: once a prompt's HEAD stays at one version,
\* every cache comes to hold that version or none, for good.
CachesConverge ==
  \A u \in Uri, c \in Content :
    <>[](prompts[u] = c)
      => <>[](\A k \in Cache : CacheHit(k, u) => cache[k][u].content = c)

=============================================================================
