---------------------------- MODULE ServerProofs ---------------------------
(***************************************************************************)
(* Proofs about the prompt service, for any number of prompts, handlers,   *)
(* caches and versions, any TTL, and whatever fails.  Every step of a      *)
(* handler is a step of the store or leaves it alone, so what is proved of *)
(* the store holds under the service; on top of that the staleness of the  *)
(* caches is bounded by an invariant on each entry's remaining life, which *)
(* makes the service an implementation of Reads and its caches converge    *)
(* with time, and what leaves the service is traced back to a HEAD that    *)
(* validated through the store call each handler is in.                    *)
(***************************************************************************)
EXTENDS Server, StoreProofs

\* The store's invariant and the types of the service.
BaseInv == StoreInv /\ ServerTypeOK

\* A handler's frame is of the kind its stage names.
LEMMA RpcKind ==
  ASSUME NEW f \in RpcFrame
  PROVE  /\ f.stage \in {"publish", "seed"} => f \in PublishFrame
         /\ f.stage = "store" => f \in StoreFrame
         /\ f.stage \in {"drop", "tell"} => f \in HeadFrame
         /\ f.stage = "fetch" => f \in FetchFrame
         /\ f.stage = "fill" => f \in FillFrame
         /\ f.stage = "reply" => f \in ReplyFrame
  BY DEF RpcFrame, Free, PublishFrame, StoreFrame, HeadFrame, FetchFrame,
         FillFrame, ReplyFrame

\* Types are kept by a step that gives one handler a well-formed frame and
\* leaves the caches, the notifications and the history variables alone.
LEMMA RpcStep ==
  ASSUME ServerTypeOK, NEW p \in Proc, NEW f \in RpcFrame, Goto(p, f),
         UNCHANGED <<cache, told, heads, gone>>
  PROVE  ServerTypeOK'
  BY DEF ServerTypeOK, Goto

\* An entry is put and dropped within its type.
LEMMA CacheTypes ==
  ASSUME ServerTypeOK, NEW k \in Cache, NEW u \in Uri, NEW c \in Content,
         CachePut(k, u, c) \/ Invalidate(k, u)
  PROVE  cache' \in [Cache -> [Uri -> Entry]]
<1>1. NoEntry \in Entry /\ [content |-> c, left |-> Ttl] \in Entry
  BY TimeAssumption DEF Entry
<1>2. ASSUME NEW e \in Entry, SetEntry(k, u, e)
      PROVE  cache' \in [Cache -> [Uri -> Entry]]
  <2>1. [cache[k] EXCEPT ![u] = e] \in [Uri -> Entry]
    BY DEF ServerTypeOK
  <2>2. cache' = [cache EXCEPT ![k] = [cache[k] EXCEPT ![u] = e]]
    BY <1>2 DEF SetEntry
  <2> QED BY <2>1, <2>2 DEF ServerTypeOK
<1> QED BY <1>1, <1>2 DEF CachePut, Invalidate

\* The history variables follow the HEAD within their types.
LEMMA TrackTypes ==
  ASSUME ServerTypeOK, TypeOK', TrackHead
  PROVE  /\ heads' \in [Uri -> SUBSET Content]
         /\ gone' \in [Uri -> [Content -> 0 .. MaxAge]]
<1>1. 0 \in 0 .. MaxAge
  BY TimeAssumption DEF MaxAge
<1>2. \A u \in Uri : {prompts'[u]} \ {None} \subseteq Content
  BY DEF TypeOK
<1> QED BY <1>1, <1>2 DEF ServerTypeOK, TrackHead

-----------------------------------------------------------------------------
\* A step of the service is a step of the store, or none.
LEMMA StoreSimulation ==
  ASSUME BaseInv, [Next]_vars
  PROVE  [StoreNext]_storeVars
<1> USE DEF BaseInv
<1>1. ASSUME NEW p \in Proc, Write(p) PROVE [StoreNext]_storeVars
  <2> SUFFICES StoreStep(p) \/ UNCHANGED storeVars
    BY DEF StoreNext
  <2>1. ASSUME NEW u \in Uri, NEW b \in Branch, NEW c \in Content, NEW m \in Meta,
               PublishPrompt(p, u, b, c, m)
        PROVE  UNCHANGED storeVars
    BY <2>1 DEF PublishPrompt, storeVars
  <2>2. ASSUME NEW u \in Uri, NEW c \in Content, NEW m \in Meta, SeedDemo(p, u, c, m)
        PROVE  UNCHANGED storeVars
    BY <2>2 DEF SeedDemo, storeVars
  <2>3. CASE CommitCall(p)
    <3> DEFINE f == rpc[p]
    <3>1. f \in PublishFrame /\ Commit(p, f.uri, f.branch, f.content, f.meta)
      BY <2>3, RpcKind DEF CommitCall, ServerTypeOK
    <3>2. f.uri \in Uri /\ f.branch \in Branch /\ f.content \in Content /\ f.meta \in Meta
      BY <3>1 DEF PublishFrame
    <3> QED BY <3>1, <3>2 DEF StoreStep
  <2>4. ASSUME NEW u \in Uri, NEW into \in Branch, NEW from \in Branch,
               NEW m \in Meta, MergeBranch(p, u, into, from, m)
        PROVE  StoreStep(p)
    BY <2>4 DEF MergeBranch, StoreStep
  <2>5. CASE MergeBranchFrom(p)
    BY <2>5 DEF MergeBranchFrom, StoreStep
  <2>6. ASSUME NEW u \in Uri, NEW b \in Branch, NEW h \in Hash, SetBranchCall(p, u, b, h)
        PROVE  StoreStep(p)
    BY <2>6 DEF SetBranchCall, StoreStep
  <2>7. ASSUME NEW u \in Uri, NEW name \in Branch, NEW from \in Branch,
               CreateBranchCall(p, u, name, from)
        PROVE  StoreStep(p)
    BY <2>7 DEF CreateBranchCall, StoreStep
  <2>8. CASE CreateBranchInsert(p) \/ WriteTx(p) \/ StoreFails(p)
    BY <2>8 DEF CreateBranchInsert, WriteTx, StoreFails, StoreStep
  <2>9. CASE DropEntry(p) \/ Notify(p)
    BY <2>9 DEF DropEntry, Notify, storeVars
  <2> QED BY <1>1, <2>1, <2>2, <2>3, <2>4, <2>5, <2>6, <2>7, <2>8, <2>9 DEF Write
<1>2. ASSUME NEW p \in Proc, Read(p) PROVE UNCHANGED storeVars
  BY <1>2 DEF Read, GetHit, GetMiss, GetFetch, GetFill, GetByRef, Reply, storeVars
<1>3. ASSUME NEW p \in Proc, Kill(p) PROVE [StoreNext]_storeVars
  <2>1. CASE call[p] = Idle
    <3>1. call' = call
      BY <1>3, <2>1 DEF Kill, Return, StoreInv, TypeOK
    <3> QED BY <1>3, <3>1 DEF Kill, storeVars
  <2>2. CASE call[p] # Idle
    BY <1>3, <2>2 DEF Kill, Abort, Tables, StoreStep, StoreNext
  <2> QED BY <2>1, <2>2
<1>4. ASSUME NEW k \in Cache, Restart(k) PROVE UNCHANGED storeVars
  BY <1>4 DEF Restart, storeVars
<1>5. ASSUME NEW u \in Uri, NEW c \in Content, PutCmd(u, c) \/ Restore(u, c)
      PROVE  StoreNext
  BY <1>5 DEF PutCmd, Restore, StoreNext
<1>6. Tick => UNCHANGED storeVars
  BY DEF Tick, storeVars
<1>7. UNCHANGED vars => UNCHANGED storeVars
  BY DEF vars, storeVars
<1> QED BY <1>1, <1>2, <1>3, <1>4, <1>5, <1>6, <1>7 DEF Next

-----------------------------------------------------------------------------
\* Every step of the service keeps the types.
LEMMA WriteTypes ==
  ASSUME BaseInv, StoreInv', NEW p \in Proc, Write(p)
  PROVE  ServerTypeOK'
<1> USE DEF BaseInv
<1>0. rpc[p] \in RpcFrame /\ Free \in RpcFrame /\ None \in Content \cup {None}
  BY DEF ServerTypeOK, RpcFrame
<1>1. ASSUME NEW u \in Uri, NEW b \in Branch, NEW c \in Content, NEW m \in Meta,
             PublishPrompt(p, u, b, c, m)
      PROVE  ServerTypeOK'
  <2> DEFINE f == [stage |-> "publish", uri |-> u, branch |-> b, content |-> c,
                   meta |-> m]
  <2>1. f \in RpcFrame
    BY DEF RpcFrame, PublishFrame
  <2> QED BY <1>1, <2>1, RpcStep DEF PublishPrompt
<1>2. ASSUME NEW u \in Uri, NEW c \in Content, NEW m \in Meta, SeedDemo(p, u, c, m)
      PROVE  ServerTypeOK'
  <2> DEFINE f == [stage |-> "seed", uri |-> u, branch |-> Main, content |-> c,
                   meta |-> m]
  <2>1. f \in RpcFrame
    BY MainAssumption DEF RpcFrame, PublishFrame
  <2> QED BY <1>2, <2>1, RpcStep DEF SeedDemo
<1>3. CASE CommitCall(p)
  <2> DEFINE f == rpc[p]
             g == [stage |-> "store", op |-> f.stage, uri |-> f.uri,
                   branch |-> f.branch, version |-> f.content]
  <2>1. f \in PublishFrame
    BY <1>0, <1>3, RpcKind DEF CommitCall
  <2>2. g \in RpcFrame
    BY <2>1 DEF PublishFrame, StoreFrame, RpcFrame
  <2> QED BY <1>3, <2>2, RpcStep DEF CommitCall
<1>4. ASSUME NEW u \in Uri, NEW into \in Branch, NEW from \in Branch,
             NEW m \in Meta, MergeBranch(p, u, into, from, m)
      PROVE  ServerTypeOK'
  <2> DEFINE g == [stage |-> "store", op |-> "merge", uri |-> u, branch |-> into,
                   version |-> None]
  <2>1. g \in RpcFrame
    BY DEF StoreFrame, RpcFrame
  <2> QED BY <1>4, <2>1, RpcStep DEF MergeBranch
<1>5. CASE MergeBranchFrom(p)
  BY <1>5 DEF MergeBranchFrom, ServerTypeOK
<1>6. ASSUME NEW u \in Uri, NEW b \in Branch, NEW h \in Hash, SetBranchCall(p, u, b, h)
      PROVE  ServerTypeOK'
  <2> DEFINE g == [stage |-> "store", op |-> "set", uri |-> u, branch |-> b,
                   version |-> commits[h].content]
  <2>1. commits[h] \in Row
    BY <1>6 DEF SetBranchCall, SetBranch, StoreInv, TypeOK
  <2>2. g \in RpcFrame
    BY <2>1 DEF Row, StoreFrame, RpcFrame
  <2> QED BY <1>6, <2>2, RpcStep DEF SetBranchCall
<1>7. ASSUME NEW u \in Uri, NEW name \in Branch, NEW from \in Branch,
             CreateBranchCall(p, u, name, from)
      PROVE  ServerTypeOK'
  <2> DEFINE g == [stage |-> "store", op |-> "fork", uri |-> u, branch |-> name,
                   version |-> None]
  <2>1. g \in RpcFrame
    BY DEF StoreFrame, RpcFrame
  <2> QED BY <1>7, <2>1, RpcStep DEF CreateBranchCall
<1>8. CASE CreateBranchInsert(p) \/ StoreFails(p)
  BY <1>0, <1>8, RpcStep DEF CreateBranchInsert, StoreFails
<1>9. CASE WriteTx(p)
  <2>1. rpc[p] \in StoreFrame
    BY <1>0, <1>9, RpcKind DEF WriteTx, At
  <2>2. AfterTx(rpc[p]) \in RpcFrame
    BY <1>0, <2>1 DEF AfterTx, StoreFrame, HeadFrame, RpcFrame
  <2>3. TypeOK' /\ TrackHead
    BY <1>9 DEF WriteTx, StoreInv
  <2>4. heads' \in [Uri -> SUBSET Content] /\ gone' \in [Uri -> [Content -> 0 .. MaxAge]]
    BY <2>3, TrackTypes
  <2>5. rpc' \in [Proc -> RpcFrame] /\ UNCHANGED <<cache, told>>
    BY <1>9, <2>2 DEF WriteTx, Goto, ServerTypeOK
  <2> QED BY <2>4, <2>5 DEF ServerTypeOK
<1>10. CASE DropEntry(p)
  <2>1. rpc[p] \in HeadFrame /\ CacheOf[p] \in Cache
    BY <1>0, <1>10, RpcKind, CacheAssumption DEF DropEntry, At
  <2>2. rpc[p].uri \in Uri /\ rpc[p].version \in Content \cup {None}
    BY <2>1 DEF HeadFrame
  <2> DEFINE g == IF rpc[p].version = None THEN Free
                  ELSE [stage |-> "tell", uri |-> rpc[p].uri,
                        version |-> rpc[p].version]
  <2>3. g \in RpcFrame
    BY <1>0, <2>2 DEF HeadFrame, RpcFrame
  <2>4. rpc' \in [Proc -> RpcFrame] /\ UNCHANGED <<told, heads, gone>>
    BY <1>10, <2>3 DEF DropEntry, Goto, ServerTypeOK
  <2>5. cache' \in [Cache -> [Uri -> Entry]]
    <3>1. NoEntry \in Entry
      BY DEF Entry
    <3>2. CASE UNCHANGED cache
      BY <3>2 DEF ServerTypeOK
    <3>3. CASE Invalidate(CacheOf[p], rpc[p].uri)
      <4>1. [cache[CacheOf[p]] EXCEPT ![rpc[p].uri] = NoEntry] \in [Uri -> Entry]
        BY <2>1, <2>2, <3>1 DEF ServerTypeOK
      <4> QED BY <2>1, <3>3, <4>1 DEF Invalidate, SetEntry, ServerTypeOK
    <3> QED BY <1>10, <3>2, <3>3 DEF DropEntry
  <2> QED BY <2>4, <2>5 DEF ServerTypeOK
<1>11. CASE Notify(p)
  <2>1. rpc[p] \in HeadFrame
    BY <1>0, <1>11, RpcKind DEF Notify, At
  <2>2. rpc' \in [Proc -> RpcFrame] /\ UNCHANGED <<cache, heads, gone>>
    BY <1>0, <1>11 DEF Notify, Goto, ServerTypeOK
  <2>3. told' \in [Uri -> Content \cup {None}]
    BY <1>11, <2>1 DEF Notify, HeadFrame, ServerTypeOK
  <2> QED BY <2>2, <2>3 DEF ServerTypeOK
<1> QED BY <1>1, <1>2, <1>3, <1>4, <1>5, <1>6, <1>7, <1>8, <1>9, <1>10, <1>11 DEF Write

LEMMA ReadTypes ==
  ASSUME BaseInv, NEW p \in Proc, Read(p)
  PROVE  ServerTypeOK'
<1> USE DEF BaseInv
<1>0. rpc[p] \in RpcFrame /\ Free \in RpcFrame /\ CacheOf[p] \in Cache
  BY CacheAssumption DEF ServerTypeOK, RpcFrame
<1>1. ASSUME NEW u \in Uri, GetHit(p, u) PROVE ServerTypeOK'
  <2> DEFINE e == cache[CacheOf[p]][u]
             g == [stage |-> "reply", uri |-> u, content |-> e.content]
  <2>1. e \in Entry /\ e # NoEntry
    BY <1>0, <1>1 DEF GetHit, CacheHit, ServerTypeOK
  <2>2. e.content \in Content
    BY <2>1 DEF Entry
  <2>3. g \in RpcFrame
    BY <2>2 DEF ReplyFrame, RpcFrame
  <2> QED BY <1>1, <2>3, RpcStep DEF GetHit
<1>2. ASSUME NEW u \in Uri, GetMiss(p, u) PROVE ServerTypeOK'
  <2> DEFINE g == [stage |-> "fetch", uri |-> u]
  <2>1. g \in RpcFrame
    BY DEF FetchFrame, RpcFrame
  <2> QED BY <1>2, <2>1, RpcStep DEF GetMiss
<1>3. CASE GetFetch(p)
  <2> DEFINE u == rpc[p].uri
             g == IF prompts[u] \in Valid
                  THEN [stage |-> "fill", uri |-> u, content |-> prompts[u], held |-> 0]
                  ELSE Free
  <2>1. u \in Uri
    BY <1>0, <1>3, RpcKind DEF GetFetch, At, FetchFrame
  <2>2. g \in RpcFrame
    BY <1>0, <2>1, ValidAssumption, TimeAssumption DEF FillFrame, RpcFrame
  <2> QED BY <1>3, <2>2, RpcStep DEF GetFetch
<1>4. CASE GetFill(p)
  <2> DEFINE f == rpc[p]
             g == [stage |-> "reply", uri |-> f.uri, content |-> f.content]
  <2>1. f.uri \in Uri /\ f.content \in Content
    BY <1>0, <1>4, RpcKind DEF GetFill, At, FillFrame
  <2>2. g \in RpcFrame
    BY <2>1 DEF ReplyFrame, RpcFrame
  <2>3. rpc' \in [Proc -> RpcFrame] /\ UNCHANGED <<told, heads, gone>>
    BY <1>4, <2>2 DEF GetFill, Goto, ServerTypeOK
  <2>4. cache' \in [Cache -> [Uri -> Entry]]
    BY <1>0, <1>4, <2>1, CacheTypes DEF GetFill, ServerTypeOK
  <2> QED BY <2>3, <2>4 DEF ServerTypeOK
<1>5. ASSUME NEW u \in Uri, NEW h \in Hash, GetByRef(p, u, h) PROVE ServerTypeOK'
  <2> DEFINE g == [stage |-> "reply", uri |-> u, content |-> commits[h].content]
  <2>1. g \in RpcFrame
    BY <1>5, ValidAssumption DEF GetByRef, ReplyFrame, RpcFrame
  <2> QED BY <1>5, <2>1, RpcStep DEF GetByRef
<1>6. CASE Reply(p)
  BY <1>0, <1>6, RpcStep DEF Reply
<1> QED BY <1>1, <1>2, <1>3, <1>4, <1>5, <1>6 DEF Read

LEMMA OtherTypes ==
  ASSUME BaseInv, StoreInv',
         \/ \E p \in Proc : Kill(p)
         \/ \E k \in Cache : Restart(k)
         \/ \E u \in Uri, c \in Content : PutCmd(u, c) \/ Restore(u, c)
         \/ Tick
  PROVE  ServerTypeOK'
<1> USE DEF BaseInv
<1>1. ASSUME NEW p \in Proc, Kill(p) PROVE ServerTypeOK'
  <2>1. Free \in RpcFrame
    BY DEF RpcFrame
  <2> QED BY <1>1, <2>1, RpcStep DEF Kill
<1>2. ASSUME NEW k \in Cache, Restart(k) PROVE ServerTypeOK'
  BY <1>2 DEF Restart, ServerTypeOK, Entry
<1>3. ASSUME NEW u \in Uri, NEW c \in Content, PutCmd(u, c) \/ Restore(u, c)
      PROVE  ServerTypeOK'
  <2>1. TypeOK' /\ TrackHead /\ UNCHANGED <<rpc, cache, told>>
    BY <1>3 DEF PutCmd, Restore, StoreInv
  <2>2. heads' \in [Uri -> SUBSET Content] /\ gone' \in [Uri -> [Content -> 0 .. MaxAge]]
    BY <2>1, TrackTypes
  <2> QED BY <2>1, <2>2 DEF ServerTypeOK
<1>4. CASE Tick
  <2>1. \A p \in Proc : IF At(p, "fill") THEN [rpc[p] EXCEPT !.held = @ + 1] \in RpcFrame
                        ELSE rpc[p] \in RpcFrame
    <3> SUFFICES ASSUME NEW p \in Proc, At(p, "fill")
                 PROVE  [rpc[p] EXCEPT !.held = @ + 1] \in RpcFrame
      BY DEF ServerTypeOK
    <3>1. rpc[p] \in FillFrame /\ rpc[p].held < FillDelay
      BY <1>4, RpcKind DEF Tick, At, ServerTypeOK
    <3>2. [rpc[p] EXCEPT !.held = @ + 1] \in FillFrame
      BY <3>1, TimeAssumption DEF FillFrame
    <3> QED BY <3>2 DEF RpcFrame
  <2>2. \A e \in Entry : Older(e) \in Entry
    BY TimeAssumption DEF Entry, Older, NoEntry
  <2>3. cache' \in [Cache -> [Uri -> Entry]]
    BY <1>4, <2>2 DEF Tick, ServerTypeOK
  <2>4. gone' \in [Uri -> [Content -> 0 .. MaxAge]]
    <3>1. \A u \in Uri, c \in Content : gone[u][c] \in 0 .. MaxAge
      BY DEF ServerTypeOK
    <3>2. \A u \in Uri, c \in Content :
            (IF c = prompts[u] \/ gone[u][c] = MaxAge THEN gone[u][c] ELSE gone[u][c] + 1)
              \in 0 .. MaxAge
      BY <3>1, TimeAssumption DEF MaxAge
    <3> QED BY <1>4, <3>2 DEF Tick
  <2>5. rpc' \in [Proc -> RpcFrame]
    BY <1>4, <2>1 DEF Tick
  <2> QED BY <1>4, <2>3, <2>4, <2>5 DEF Tick, ServerTypeOK
<1> QED BY <1>1, <1>2, <1>3, <1>4

\* The base invariant holds throughout.
LEMMA BaseInvariant == Spec => []BaseInv
<1>1. Init => BaseInv
  <2> SUFFICES ASSUME Init PROVE BaseInv
    OBVIOUS
  <2>1. StoreInv
    BY InitInv DEF Init
  <2>2. Free \in RpcFrame /\ NoEntry \in Entry /\ MaxAge \in 0 .. MaxAge
    BY TimeAssumption DEF RpcFrame, Entry, MaxAge
  <2>3. ServerTypeOK
    BY <2>2 DEF Init, ServerTypeOK
  <2> QED BY <2>1, <2>3 DEF BaseInv
<1>2. BaseInv /\ [Next]_vars => BaseInv'
  <2> SUFFICES ASSUME BaseInv, [Next]_vars PROVE BaseInv'
    OBVIOUS
  <2>1. StoreInv'
    BY StoreSimulation, NextInv DEF BaseInv
  <2>2. ASSUME UNCHANGED vars PROVE ServerTypeOK'
    BY <2>2 DEF vars, BaseInv, ServerTypeOK
  <2>3. ASSUME Next PROVE ServerTypeOK'
    BY <2>1, <2>3, WriteTypes, ReadTypes, OtherTypes DEF Next
  <2> QED BY <2>1, <2>2, <2>3 DEF BaseInv
<1> QED BY <1>1, <1>2, PTL DEF Spec

\* The frames of handlers, the cache entries and the notifications keep their
\* types.
THEOREM ServerTypes == Spec => []ServerTypeOK
<1>1. BaseInv => ServerTypeOK
  BY DEF BaseInv
<1> QED BY <1>1, BaseInvariant, PTL

\* The service uses the store only through the store's operations.
THEOREM ServerImplementsStore == Spec => StoreSpec
<1>1. Init => StoreInit
  BY DEF Init
<1>2. BaseInv /\ [Next]_vars => [StoreNext]_storeVars
  BY StoreSimulation
<1> QED BY <1>1, <1>2, BaseInvariant, PTL DEF Spec, StoreSpec

\* So under the service, too, the HEAD that GetPrompt reads is main's tip.
THEOREM ServerHeadIsMainTip == Spec => []HeadIsMainTip
  BY ServerImplementsStore, HeadServesMain, PTL

\* The service implements, through its store, the registry of branches: each
\* write takes effect at once, and the HEAD moves exactly with main.
THEOREM ServerImplementsRegistry == Spec => ImplementsRegistry
  BY ServerImplementsStore, StoreImplementsRegistry, PTL

-----------------------------------------------------------------------------
\* The HEAD is not gone; a version in a cache will have expired, and one that a
\* reader holds was the HEAD when it was read, before it is gone for too long.
HeadIsHere == \A u \in Uri : prompts[u] # None => gone[u][prompts[u]] = 0

EntryLife(k, u) ==
  CacheHit(k, u) => gone[u][cache[k][u].content] + cache[k][u].left <= Ttl + FillDelay

HeldVersion(p) == At(p, "fill") => gone[rpc[p].uri][rpc[p].content] <= rpc[p].held

StaleInv ==
  /\ HeadIsHere
  /\ \A k \in Cache, u \in Uri : EntryLife(k, u)
  /\ \A p \in Proc : HeldVersion(p)

\* A cache entry present in a cache has a content and a remaining life.
LEMMA HitEntry ==
  ASSUME ServerTypeOK, NEW k \in Cache, NEW u \in Uri, CacheHit(k, u)
  PROVE  cache[k][u] \in [content : Content, left : 0 .. Ttl]
  BY DEF ServerTypeOK, CacheHit, Entry

\* How long a version has been gone is a number.
LEMMA GoneIsNat ==
  ASSUME ServerTypeOK, NEW u \in Uri, NEW c \in Content
  PROVE  gone[u][c] \in Nat /\ gone[u][c] <= MaxAge
<1>1. gone[u][c] \in 0 .. MaxAge
  BY DEF ServerTypeOK
<1> QED BY <1>1, TimeAssumption DEF MaxAge

\* When the HEAD moves, the new one is here, and no version is gone for longer.
LEMMA HeadMoveStale ==
  ASSUME BaseInv, BaseInv', StaleInv, TrackHead, UNCHANGED cache,
         \A q \in Proc : rpc'[q] = rpc[q] \/ rpc'[q].stage # "fill"
  PROVE  StaleInv'
<1>1. \A u \in Uri, c \in Content :
        gone'[u][c] = IF c = prompts'[u] THEN 0 ELSE gone[u][c]
  BY DEF TrackHead
<1>2. \A u \in Uri, c \in Content : gone[u][c] \in Nat /\ gone'[u][c] \in Nat
                                      /\ gone'[u][c] <= gone[u][c]
  BY <1>1, GoneIsNat DEF BaseInv
<1>3. HeadIsHere'
  BY <1>1 DEF HeadIsHere, BaseInv, StoreInv, TypeOK
<1>4. ASSUME NEW k \in Cache, NEW u \in Uri, CacheHit(k, u) PROVE EntryLife(k, u)'
  <2>1. cache[k][u].left \in Nat /\ cache[k][u].content \in Content
    BY <1>4, HitEntry, TimeAssumption DEF BaseInv
  <2>2. gone[u][cache[k][u].content] + cache[k][u].left <= Ttl + FillDelay
    BY <1>4 DEF StaleInv, EntryLife
  <2>3. gone'[u][cache[k][u].content] + cache[k][u].left <= Ttl + FillDelay
    BY <1>2, <2>1, <2>2, TimeAssumption
  <2> QED BY <2>3 DEF EntryLife
<1>5. ASSUME NEW q \in Proc, rpc'[q] = rpc[q], At(q, "fill") PROVE HeldVersion(q)'
  <2>1. rpc[q] \in FillFrame
    BY <1>5, RpcKind DEF At, BaseInv, ServerTypeOK
  <2>2. rpc[q].uri \in Uri /\ rpc[q].content \in Content /\ rpc[q].held \in Nat
    BY <2>1, TimeAssumption DEF FillFrame
  <2>3. gone[rpc[q].uri][rpc[q].content] <= rpc[q].held
    BY <1>5 DEF StaleInv, HeldVersion
  <2>4. gone'[rpc[q].uri][rpc[q].content] <= rpc[q].held
    BY <1>2, <2>2, <2>3
  <2> QED BY <1>5, <2>4 DEF HeldVersion
<1>6. \A k \in Cache, u \in Uri : EntryLife(k, u)'
  BY <1>4 DEF EntryLife, CacheHit
<1>7. \A q \in Proc : HeldVersion(q)'
  BY <1>5 DEF HeldVersion, At
<1> QED BY <1>3, <1>6, <1>7 DEF StaleInv

\* Filling a cache with a version held no longer than FillDelay.
LEMMA FillStale ==
  ASSUME BaseInv, StaleInv, NEW p \in Proc, GetFill(p)
  PROVE  StaleInv'
<1> DEFINE f == rpc[p]
           g == [stage |-> "reply", uri |-> f.uri, content |-> f.content]
<1>1. f \in FillFrame /\ CacheOf[p] \in Cache /\ At(p, "fill")
  BY RpcKind, CacheAssumption DEF BaseInv, ServerTypeOK, GetFill, At
<1>2. f.uri \in Uri /\ f.content \in Content /\ f.held \in 0 .. FillDelay
  BY <1>1 DEF FillFrame
<1>3. UNCHANGED <<prompts, gone>> /\ rpc' = [rpc EXCEPT ![p] = g]
  BY DEF GetFill, Goto
<1>4. ASSUME NEW q \in Proc PROVE HeldVersion(q)'
  <2>1. rpc'[q] = IF q = p THEN g ELSE rpc[q]
    BY <1>3 DEF BaseInv, ServerTypeOK
  <2> QED BY <1>3, <2>1 DEF StaleInv, HeldVersion, At
<1>5. ASSUME NEW k \in Cache, NEW u \in Uri PROVE EntryLife(k, u)'
  <2>1. CASE cache'[k][u] = cache[k][u]
    BY <1>3, <2>1 DEF StaleInv, EntryLife, CacheHit
  <2>2. CASE cache'[k][u] # cache[k][u]
    <3>1. /\ k = CacheOf[p] /\ u = f.uri
          /\ cache'[k][u] = [content |-> f.content, left |-> Ttl]
      <4>1. cache' = [cache EXCEPT ![CacheOf[p]] =
              [cache[CacheOf[p]] EXCEPT ![f.uri] = [content |-> f.content, left |-> Ttl]]]
        BY <2>2 DEF GetFill, CachePut, SetEntry
      <4> QED BY <1>1, <1>2, <2>2, <4>1 DEF BaseInv, ServerTypeOK
    <3>2. gone[u][f.content] <= f.held
      BY <1>1, <3>1 DEF StaleInv, HeldVersion
    <3>3. gone[u][f.content] \in Nat
      BY <1>2, GoneIsNat DEF BaseInv
    <3>4. gone[u][f.content] + Ttl <= Ttl + FillDelay
      BY <1>2, <3>2, <3>3, TimeAssumption
    <3> QED BY <1>3, <3>1, <3>4 DEF EntryLife
  <2> QED BY <2>1, <2>2
<1>6. HeadIsHere'
  BY <1>3 DEF StaleInv, HeadIsHere
<1> QED BY <1>4, <1>5, <1>6 DEF StaleInv

\* A tick makes what is gone older, takes a tick from every entry, and gives
\* one to every reader.
LEMMA TickStale ==
  ASSUME BaseInv, StaleInv, Tick
  PROVE  StaleInv'
<1>0. \A u \in Uri, c \in Content :
        /\ gone[u][c] \in Nat /\ gone'[u][c] \in Nat /\ gone'[u][c] <= gone[u][c] + 1
        /\ c = prompts[u] => gone'[u][c] = gone[u][c]
  BY GoneIsNat, TimeAssumption DEF Tick, BaseInv, MaxAge
<1>1. ASSUME NEW k \in Cache, NEW u \in Uri PROVE EntryLife(k, u)'
  <2> DEFINE e == cache[k][u]
  <2>1. cache'[k][u] = Older(e)
    BY DEF Tick
  <2>2. CASE Older(e) = NoEntry
    BY <2>1, <2>2 DEF EntryLife, CacheHit
  <2>3. CASE Older(e) # NoEntry
    <3>1. e # NoEntry /\ e.left # 0 /\ Older(e) = [e EXCEPT !.left = @ - 1]
      BY <2>3 DEF Older
    <3>2. e \in [content : Content, left : 0 .. Ttl]
      BY <3>1, HitEntry DEF BaseInv, CacheHit
    <3>3. /\ Older(e).content = e.content /\ Older(e).left = e.left - 1
          /\ e.left \in Nat /\ e.content \in Content
      BY <3>1, <3>2, TimeAssumption
    <3>4. gone[u][e.content] + e.left <= Ttl + FillDelay
      BY <3>1 DEF StaleInv, EntryLife, CacheHit
    <3>5. gone'[u][e.content] + (e.left - 1) <= Ttl + FillDelay
      BY <1>0, <3>3, <3>4, TimeAssumption
    <3> QED BY <2>1, <3>3, <3>5 DEF EntryLife
  <2> QED BY <2>2, <2>3
<1>2. ASSUME NEW q \in Proc PROVE HeldVersion(q)'
  <2>1. CASE At(q, "fill")
    <3>1. rpc[q] \in FillFrame
      BY <2>1, RpcKind DEF At, BaseInv, ServerTypeOK
    <3>2. rpc[q].uri \in Uri /\ rpc[q].held \in Nat /\ rpc[q].content \in Content
      BY <3>1, TimeAssumption DEF FillFrame
    <3>3. rpc'[q] = [rpc[q] EXCEPT !.held = @ + 1]
      BY <2>1 DEF Tick
    <3>4. /\ rpc'[q].uri = rpc[q].uri /\ rpc'[q].content = rpc[q].content
          /\ rpc'[q].held = rpc[q].held + 1
      BY <3>1, <3>3 DEF FillFrame
    <3>5. gone[rpc[q].uri][rpc[q].content] <= rpc[q].held
      BY <2>1 DEF StaleInv, HeldVersion
    <3>6. gone'[rpc[q].uri][rpc[q].content] <= rpc[q].held + 1
      BY <1>0, <3>2, <3>5
    <3> QED BY <3>4, <3>6 DEF HeldVersion
  <2>2. CASE ~ At(q, "fill")
    BY <2>2 DEF Tick, HeldVersion, At
  <2> QED BY <2>1, <2>2
<1>3. HeadIsHere'
  <2>1. prompts' = prompts /\ \A u \in Uri : prompts[u] # None => prompts[u] \in Content
    BY DEF Tick, BaseInv, StoreInv, TypeOK
  <2> QED BY <1>0, <2>1 DEF StaleInv, HeadIsHere
<1> QED BY <1>1, <1>2, <1>3 DEF StaleInv

LEMMA NextStale ==
  ASSUME BaseInv, BaseInv', StaleInv, [Next]_vars
  PROVE  StaleInv'
<1>0. rpc \in [Proc -> RpcFrame] /\ Free \in RpcFrame /\ Free.stage # "fill"
  BY DEF BaseInv, ServerTypeOK, RpcFrame, Free
<1>1. ASSUME UNCHANGED <<prompts, cache, gone>>,
             \A q \in Proc : rpc'[q] = rpc[q] \/ rpc'[q].stage # "fill"
      PROVE  StaleInv'
  BY <1>1 DEF StaleInv, HeadIsHere, EntryLife, HeldVersion, CacheHit, At
<1>2. ASSUME NEW p \in Proc, NEW f, rpc' = [rpc EXCEPT ![p] = f], f.stage # "fill"
      PROVE  \A q \in Proc : rpc'[q] = rpc[q] \/ rpc'[q].stage # "fill"
  BY <1>0, <1>2
<1>3. ASSUME NEW p \in Proc, Write(p) PROVE StaleInv'
  <2>1. CASE \/ \E u \in Uri, b \in Branch, c \in Content, m \in Meta :
                  PublishPrompt(p, u, b, c, m)
             \/ \E u \in Uri, c \in Content, m \in Meta : SeedDemo(p, u, c, m)
    <3>1. \A q \in Proc : rpc'[q] = rpc[q] \/ rpc'[q].stage # "fill"
      BY <1>0, <2>1 DEF PublishPrompt, SeedDemo, Goto
    <3>2. UNCHANGED <<prompts, cache, gone>>
      BY <2>1 DEF PublishPrompt, SeedDemo
    <3> QED BY <1>1, <3>1, <3>2
  <2>2. CASE CommitCall(p)
    BY <1>1, <1>2, <2>2 DEF CommitCall, Commit, Tables, Goto
  <2>3. CASE \/ \E u \in Uri, into, from \in Branch, m \in Meta :
                  MergeBranch(p, u, into, from, m)
             \/ \E u \in Uri, b \in Branch, h \in Hash : SetBranchCall(p, u, b, h)
             \/ \E u \in Uri, name, from \in Branch : CreateBranchCall(p, u, name, from)
    <3>1. \A q \in Proc : rpc'[q] = rpc[q] \/ rpc'[q].stage # "fill"
      BY <1>0, <2>3 DEF MergeBranch, SetBranchCall, CreateBranchCall, Goto
    <3>2. UNCHANGED <<prompts, cache, gone>>
      BY <2>3 DEF MergeBranch, Merge, SetBranchCall, SetBranch, CreateBranchCall,
                  CreateBranch, Tables
    <3> QED BY <1>1, <3>1, <3>2
  <2>4. CASE MergeBranchFrom(p)
    BY <1>1, <2>4 DEF MergeBranchFrom, MergeFrom, Tables
  <2>5. CASE CreateBranchInsert(p) \/ StoreFails(p)
    BY <1>0, <1>1, <1>2, <2>5
    DEF CreateBranchInsert, BranchInsert, StoreFails, Abort, Tables, Goto
  <2>6. CASE WriteTx(p)
    <3>1. AfterTx(rpc[p]).stage # "fill"
      BY <1>0 DEF AfterTx
    <3> QED BY <1>2, <2>6, <3>1, HeadMoveStale DEF WriteTx, Goto
  <2>7. CASE DropEntry(p)
    <3> DEFINE g == IF rpc[p].version = None THEN Free
                    ELSE [stage |-> "tell", uri |-> rpc[p].uri,
                          version |-> rpc[p].version]
    <3>1. g.stage # "fill"
      BY <1>0
    <3>2. rpc' = [rpc EXCEPT ![p] = g] /\ UNCHANGED <<prompts, gone>>
      BY <2>7 DEF DropEntry, Goto
    <3>3. \A q \in Proc : rpc'[q] = rpc[q] \/ rpc'[q].stage # "fill"
      <4> HIDE DEF g
      <4> QED BY <1>2, <3>1, <3>2
    <3>4. CASE UNCHANGED cache
      BY <1>1, <3>2, <3>3, <3>4
    <3>5. CASE Invalidate(CacheOf[p], rpc[p].uri)
      <4>1. rpc[p].uri \in Uri /\ CacheOf[p] \in Cache
        BY <1>0, <2>7, RpcKind, CacheAssumption DEF DropEntry, At, HeadFrame
      <4>2. \A k \in Cache, u \in Uri : cache'[k][u] = cache[k][u] \/ cache'[k][u] = NoEntry
        BY <3>5, <4>1 DEF Invalidate, SetEntry, BaseInv, ServerTypeOK
      <4>3. \A k \in Cache, u \in Uri : EntryLife(k, u)'
        BY <3>2, <4>2 DEF StaleInv, EntryLife, CacheHit
      <4>4. \A q \in Proc : HeldVersion(q)'
        BY <3>2, <3>3 DEF StaleInv, HeldVersion, At
      <4>5. HeadIsHere'
        BY <3>2 DEF StaleInv, HeadIsHere
      <4> QED BY <4>3, <4>4, <4>5 DEF StaleInv
    <3> QED BY <2>7, <3>4, <3>5 DEF DropEntry
  <2>8. CASE Notify(p)
    BY <1>0, <1>1, <1>2, <2>8 DEF Notify, Goto
  <2> QED BY <1>3, <2>1, <2>2, <2>3, <2>4, <2>5, <2>6, <2>7, <2>8 DEF Write
<1>4. ASSUME NEW p \in Proc, Read(p) PROVE StaleInv'
  <2>1. CASE \/ \E u \in Uri : GetHit(p, u) \/ GetMiss(p, u)
             \/ \E u \in Uri, h \in Hash : GetByRef(p, u, h)
             \/ Reply(p)
    BY <1>0, <1>1, <1>2, <2>1 DEF GetHit, GetMiss, GetByRef, Reply, Goto
  <2>2. CASE GetFetch(p)
    <3> DEFINE u == rpc[p].uri
               g == IF prompts[u] \in Valid
                    THEN [stage |-> "fill", uri |-> u, content |-> prompts[u], held |-> 0]
                    ELSE Free
    <3>1. rpc' = [rpc EXCEPT ![p] = g] /\ UNCHANGED <<prompts, cache, gone>>
      BY <2>2 DEF GetFetch, Goto
    <3>2. g.stage = "fill" => gone[g.uri][g.content] <= g.held
      <4>1. prompts[u] \in Valid => gone[u][prompts[u]] = 0
        <5>1. rpc[p] \in FetchFrame
          BY <1>0, <2>2, RpcKind DEF GetFetch, At
        <5> QED BY <5>1, ValidAssumption, NoneAssumption DEF StaleInv, HeadIsHere, FetchFrame
      <4> QED BY <1>0, <4>1
    <3>3. ASSUME NEW q \in Proc PROVE HeldVersion(q)'
      <4> HIDE DEF g
      <4>1. rpc'[q] = IF q = p THEN g ELSE rpc[q]
        BY <1>0, <3>1
      <4> QED BY <3>1, <3>2, <4>1 DEF StaleInv, HeldVersion, At
    <3>4. \A k \in Cache, v \in Uri : EntryLife(k, v)'
      BY <3>1 DEF StaleInv, EntryLife, CacheHit
    <3>5. HeadIsHere'
      BY <3>1 DEF StaleInv, HeadIsHere
    <3> QED BY <3>3, <3>4, <3>5 DEF StaleInv
  <2>3. CASE GetFill(p)
    BY <2>3, FillStale
  <2> QED BY <1>4, <2>1, <2>2, <2>3 DEF Read
<1>5. ASSUME NEW p \in Proc, Kill(p) PROVE StaleInv'
  BY <1>0, <1>1, <1>2, <1>5 DEF Kill, Goto
<1>6. ASSUME NEW k \in Cache, Restart(k) PROVE StaleInv'
  <2>1. \A j \in Cache, u \in Uri : cache'[j][u] = cache[j][u] \/ cache'[j][u] = NoEntry
    BY <1>6 DEF Restart, BaseInv, ServerTypeOK
  <2> QED BY <1>6, <2>1 DEF Restart, StaleInv, HeadIsHere, EntryLife, HeldVersion, CacheHit, At
<1>7. ASSUME NEW u \in Uri, NEW c \in Content, PutCmd(u, c) \/ Restore(u, c)
      PROVE  StaleInv'
  BY <1>7, HeadMoveStale DEF PutCmd, Restore
<1>8. CASE Tick
  BY <1>8, TickStale
<1>9. CASE UNCHANGED vars
  BY <1>9 DEF vars, StaleInv, HeadIsHere, EntryLife, HeldVersion, CacheHit, At
<1> QED BY <1>3, <1>4, <1>5, <1>6, <1>7, <1>8, <1>9 DEF Next

\* The entries' lives and the readers' times are bounded throughout.
LEMMA StaleInvariant == Spec => []StaleInv
<1>1. Init => StaleInv
  BY DEF Init, StoreInit, StaleInv, HeadIsHere, EntryLife, HeldVersion, CacheHit, At, Free
<1>2. BaseInv /\ BaseInv' /\ StaleInv /\ [Next]_vars => StaleInv'
  BY NextStale
<1> QED BY <1>1, <1>2, BaseInvariant, PTL DEF Spec

\* The TTL bounds staleness: for every TTL, with any handlers, nodes and
\* caches, though invalidations be lost, late or made elsewhere.
THEOREM StalenessIsBounded == Spec => []StaleWithinTtl
<1>1. BaseInv /\ StaleInv => StaleWithinTtl
  <2> SUFFICES ASSUME BaseInv, StaleInv, NEW k \in Cache, NEW u \in Uri, CacheHit(k, u)
               PROVE  gone[u][cache[k][u].content] <= Ttl + FillDelay
    BY DEF StaleWithinTtl
  <2>1. cache[k][u].left \in Nat /\ cache[k][u].content \in Content
    BY HitEntry, TimeAssumption DEF BaseInv
  <2>2. gone[u][cache[k][u].content] + cache[k][u].left <= Ttl + FillDelay
    BY DEF StaleInv, EntryLife
  <2>3. gone[u][cache[k][u].content] \in Nat
    BY <2>1, GoneIsNat DEF BaseInv
  <2> QED BY <2>1, <2>2, <2>3, TimeAssumption
<1> QED BY <1>1, BaseInvariant, StaleInvariant, PTL

-----------------------------------------------------------------------------
\* How long a version has been gone changes when the HEAD does and by the clock.
LEMMA GoneChanges ==
  ASSUME [Next]_vars
  PROVE  UNCHANGED gone \/ TrackHead \/ Tick
<1>1. ASSUME NEW p \in Proc, Write(p) PROVE UNCHANGED gone \/ TrackHead
  BY <1>1 DEF Write, PublishPrompt, SeedDemo, CommitCall, MergeBranch, MergeBranchFrom,
              SetBranchCall, CreateBranchCall, CreateBranchInsert, WriteTx, StoreFails,
              DropEntry, Notify
<1>2. ASSUME NEW p \in Proc, Read(p) PROVE UNCHANGED gone
  BY <1>2 DEF Read, GetHit, GetMiss, GetFetch, GetFill, GetByRef, Reply
<1>3. ASSUME NEW p \in Proc, Kill(p) PROVE UNCHANGED gone
  BY <1>3 DEF Kill
<1>4. ASSUME NEW k \in Cache, Restart(k) PROVE UNCHANGED gone
  BY <1>4 DEF Restart
<1>5. ASSUME NEW u \in Uri, NEW c \in Content, PutCmd(u, c) \/ Restore(u, c)
      PROVE  TrackHead
  BY <1>5 DEF PutCmd, Restore
<1>6. UNCHANGED vars => UNCHANGED gone
  BY DEF vars
<1> QED BY <1>1, <1>2, <1>3, <1>4, <1>5, <1>6 DEF Next

\* A version that is not the HEAD never becomes less gone, and a tick makes it
\* gone for one tick longer.
LEMMA GoneGrows ==
  ASSUME BaseInv, [Next]_vars, NEW u \in Uri, NEW c \in Content, prompts'[u] # c
  PROVE  /\ gone[u][c] \in Nat /\ gone'[u][c] \in Nat
         /\ gone'[u][c] >= gone[u][c]
         /\ Tick /\ gone[u][c] < MaxAge => gone'[u][c] = gone[u][c] + 1
<1>1. gone[u][c] \in Nat /\ gone[u][c] <= MaxAge
  BY GoneIsNat DEF BaseInv
<1>2. CASE UNCHANGED gone /\ ~ Tick
  BY <1>1, <1>2
<1>3. CASE TrackHead /\ ~ Tick
  <2>1. gone'[u][c] = gone[u][c]
    BY <1>3 DEF TrackHead
  <2> QED BY <1>1, <1>3, <2>1
<1>4. CASE Tick
  <2>1. prompts[u] # c
    BY <1>4 DEF Tick
  <2>2. gone'[u][c] = IF gone[u][c] = MaxAge THEN gone[u][c] ELSE gone[u][c] + 1
    BY <1>4, <2>1 DEF Tick
  <2> QED BY <1>1, <2>2, TimeAssumption DEF MaxAge
<1> QED BY <1>2, <1>3, <1>4, GoneChanges

\* Version c is the HEAD of u, and all others have been gone for n ticks or more.
Settled(u, c, n) ==
  prompts[u] = c /\ \A d \in Content \ {c} : gone[u][d] >= n

\* The clock wears out what was replaced: if it goes on, a HEAD that all other
\* versions have given way to for n ticks comes to be so for one more, up to the
\* time after which no cache holds anything else, or is replaced; whatever the
\* handlers do in the meantime.
THEOREM ClockWearsOut ==
  ASSUME NEW u \in Uri, NEW c \in Content, NEW n \in 0 .. Ttl + FillDelay
  PROVE  Spec /\ []<><<Tick>>_vars
           => (Settled(u, c, n) ~> (prompts[u] # c \/ Settled(u, c, n + 1)))
<1> DEFINE Goal == prompts[u] # c \/ Settled(u, c, n + 1)
<1>0. n \in Nat /\ n < MaxAge /\ MaxAge \in Nat
  BY TimeAssumption DEF MaxAge
<1>1. BaseInv /\ Settled(u, c, n) /\ [Next]_vars => Settled(u, c, n)' \/ Goal'
  <2> SUFFICES ASSUME BaseInv, Settled(u, c, n), [Next]_vars, prompts'[u] = c,
                      NEW d \in Content \ {c}
               PROVE  gone'[u][d] >= n
    BY DEF Settled
  <2>1. gone[u][d] >= n
    BY DEF Settled
  <2>2. gone[u][d] \in Nat /\ gone'[u][d] \in Nat /\ gone'[u][d] >= gone[u][d]
    BY GoneGrows
  <2> QED BY <1>0, <2>1, <2>2
<1>2. BaseInv /\ Settled(u, c, n) /\ [Next]_vars /\ <<Tick>>_vars => Goal'
  <2> SUFFICES ASSUME BaseInv, Settled(u, c, n), [Next]_vars, Tick, prompts'[u] = c,
                      NEW d \in Content \ {c}
               PROVE  gone'[u][d] >= n + 1
    BY DEF Settled
  <2>1. gone[u][d] >= n
    BY DEF Settled
  <2>2. /\ gone[u][d] \in Nat /\ gone'[u][d] \in Nat /\ gone'[u][d] >= gone[u][d]
        /\ gone[u][d] < MaxAge => gone'[u][d] = gone[u][d] + 1
    BY GoneGrows
  <2> QED BY <1>0, <2>1, <2>2
<1> QED BY <1>1, <1>2, BaseInvariant, PTL DEF Spec

\* Time diverges: next to a HEAD that stays, all others come to be gone for as
\* long as the history counts.  (Each step on the way there is ClockWearsOut.)
TimeDiverges ==
  \A u \in Uri, c \in Content : [](prompts[u] = c) ~> Settled(u, c, MaxAge)

\* If time diverges, every cache comes to hold a HEAD that stays, or nothing, for
\* good: no fairness of handlers, notifications or invalidations is needed.
THEOREM TimeMakesCachesConverge == Spec /\ TimeDiverges => CachesConverge
<1> SUFFICES ASSUME NEW u \in Uri, NEW c \in Content
             PROVE  Spec /\ ([](prompts[u] = c) ~> Settled(u, c, MaxAge))
                      => (<>[](prompts[u] = c)
                            => <>[](\A k \in Cache :
                                      CacheHit(k, u) => cache[k][u].content = c))
  BY DEF TimeDiverges, CachesConverge
<1>1. BaseInv /\ Settled(u, c, MaxAge) /\ [Next]_vars /\ (prompts[u] = c)'
        => Settled(u, c, MaxAge)'
  <2> SUFFICES ASSUME BaseInv, Settled(u, c, MaxAge), [Next]_vars, prompts'[u] = c,
                      NEW d \in Content \ {c}
               PROVE  gone'[u][d] >= MaxAge
    BY DEF Settled
  <2>1. gone[u][d] >= MaxAge /\ MaxAge \in Nat
    BY TimeAssumption DEF Settled, MaxAge
  <2>2. gone[u][d] \in Nat /\ gone'[u][d] \in Nat /\ gone'[u][d] >= gone[u][d]
    BY GoneGrows
  <2> QED BY <2>1, <2>2
<1>2. BaseInv /\ StaleWithinTtl /\ Settled(u, c, MaxAge)
        => \A k \in Cache : CacheHit(k, u) => cache[k][u].content = c
  <2> SUFFICES ASSUME BaseInv, StaleWithinTtl, Settled(u, c, MaxAge),
                      NEW k \in Cache, CacheHit(k, u), cache[k][u].content # c
               PROVE  FALSE
    OBVIOUS
  <2>1. cache[k][u].content \in Content \ {c}
    BY HitEntry DEF BaseInv
  <2>2. gone[u][cache[k][u].content] \in Nat /\ gone[u][cache[k][u].content] >= MaxAge
    BY <2>1, GoneIsNat DEF Settled, BaseInv
  <2>3. gone[u][cache[k][u].content] <= Ttl + FillDelay
    BY DEF StaleWithinTtl
  <2> QED BY <2>2, <2>3, TimeAssumption DEF MaxAge
<1> QED BY <1>1, <1>2, BaseInvariant, StalenessIsBounded, PTL DEF Spec

-----------------------------------------------------------------------------
\* Version c of prompt u is in a cache, or in the hands of a reader.
Held(u, c) ==
  \/ \E k \in Cache : CacheHit(k, u) /\ cache[k][u].content = c
  \/ \E p \in Proc : At(p, "fill") /\ rpc[p].uri = u /\ rpc[p].content = c

LEMMA HeldAre ==
  ASSUME NEW u \in Uri, NEW c
  PROVE  (c \in held[u] <=> Held(u, c)) /\ (c \in held'[u] <=> Held(u, c)')
  BY DEF held, Held

LEMMA HeldTypes ==
  ASSUME BaseInv
  PROVE  held \in [Uri -> SUBSET Content]
<1>1. ASSUME NEW u \in Uri, NEW c, Held(u, c) PROVE c \in Content
  <2>1. ASSUME NEW k \in Cache, CacheHit(k, u) PROVE cache[k][u].content \in Content
    BY <2>1, HitEntry DEF BaseInv
  <2>2. ASSUME NEW p \in Proc, At(p, "fill") PROVE rpc[p].content \in Content
    BY <2>2, RpcKind DEF At, BaseInv, ServerTypeOK, FillFrame
  <2> QED BY <1>1, <2>1, <2>2 DEF Held
<1>2. \A u \in Uri : held[u] \subseteq Content
  BY <1>1, HeldAre
<1>3. held = [u \in Uri |-> held[u]]
  BY DEF held
<1> QED BY <1>2, <1>3

\* A step that adds nothing but the HEAD to what readers get is a read.
LEMMA HoldStep ==
  ASSUME BaseInv, UNCHANGED <<prompts, gone>>,
         \A u \in Uri : \A c : Held(u, c)' => Held(u, c) \/ (c = prompts[u] /\ c \in Content)
  PROVE  P!Hold
<1>1. \A u \in Uri : held'[u] \subseteq held[u] \cup {prompts[u]}
  BY HeldAre
<1>2. \A u \in Uri : held'[u] \subseteq Content
  BY HeldAre, HeldTypes
<1>3. held' = [u \in Uri |-> held'[u]]
  BY DEF held
<1>4. held' \in [Uri -> SUBSET Content]
  BY <1>2, <1>3
<1> QED BY <1>1, <1>4 DEF P!Hold

\* No handler comes to hold a version by this step, and no cache does.
LEMMA QuietStep ==
  ASSUME BaseInv, UNCHANGED <<prompts, gone>>,
         \A k \in Cache, u \in Uri : cache'[k][u] = cache[k][u] \/ cache'[k][u] = NoEntry,
         \A q \in Proc : rpc'[q] = rpc[q] \/ rpc'[q].stage # "fill"
  PROVE  P!Hold
<1>1. \A u \in Uri : \A c : Held(u, c)' => Held(u, c)
  BY DEF Held, CacheHit, At
<1> QED BY <1>1, HoldStep

\* A write that moves the HEAD leaves all readers and caches alone.
LEMMA HeadMoves ==
  ASSUME BaseInv, StaleInv, TrackHead, UNCHANGED cache,
         \A q \in Proc : rpc'[q] = rpc[q] \/ (~ At(q, "fill") /\ rpc'[q].stage # "fill"),
         NEW u \in Uri, NEW c \in Content,
         prompts' = prompts \/ prompts' = [prompts EXCEPT ![u] = c]
  PROVE  P!Move(u, c) \/ UNCHANGED P!readVars
<1>1. held' = held
  <2>1. \A v \in Uri : \A d : Held(v, d)' <=> Held(v, d)
    BY DEF Held, CacheHit, At
  <2>2. \A v \in Uri : held'[v] = held[v]
    BY <2>1, HeldAre
  <2>3. held = [v \in Uri |-> held[v]] /\ held' = [v \in Uri |-> held'[v]]
    BY DEF held
  <2> QED BY <2>2, <2>3
<1>2. /\ prompts \in [Uri -> Content \cup {None}] /\ gone \in [Uri -> [Content -> 0 .. MaxAge]]
      /\ \A v \in Uri : prompts[v] \in Content => gone[v][prompts[v]] = 0
  BY NoneAssumption DEF BaseInv, StoreInv, TypeOK, ServerTypeOK, StaleInv, HeadIsHere
<1>3. gone' = [v \in Uri |-> [d \in Content |-> IF d = prompts'[v] THEN 0 ELSE gone[v][d]]]
  BY DEF TrackHead
<1>4. CASE prompts' = prompts
  <2>1. \A v \in Uri, d \in Content : (IF d = prompts'[v] THEN 0 ELSE gone[v][d]) = gone[v][d]
    BY <1>2, <1>4
  <2>2. \A v \in Uri : [d \in Content |-> IF d = prompts'[v] THEN 0 ELSE gone[v][d]] = gone[v]
    BY <1>2, <2>1
  <2>3. gone' = gone
    BY <1>2, <1>3, <2>2
  <2> QED BY <1>1, <1>4, <2>3 DEF P!readVars
<1>5. CASE prompts' = [prompts EXCEPT ![u] = c]
  <2> DEFINE moved == [gone[u] EXCEPT ![c] = 0]
  <2>1. \A v \in Uri : prompts'[v] = IF v = u THEN c ELSE prompts[v]
    BY <1>2, <1>5
  <2>2. [d \in Content |-> IF d = prompts'[u] THEN 0 ELSE gone[u][d]] = moved
    BY <1>2, <2>1
  <2>3. ASSUME NEW v \in Uri, v # u
        PROVE  [d \in Content |-> IF d = prompts'[v] THEN 0 ELSE gone[v][d]] = gone[v]
    <3>1. \A d \in Content : (IF d = prompts'[v] THEN 0 ELSE gone[v][d]) = gone[v][d]
      BY <1>2, <2>1, <2>3
    <3> QED BY <1>2, <3>1
  <2>4. gone' = [gone EXCEPT ![u] = moved]
    <3> HIDE DEF moved
    <3>1. \A v \in Uri : gone'[v] = IF v = u THEN moved ELSE gone[v]
      BY <1>3, <2>2, <2>3
    <3>2. gone' = [v \in Uri |-> gone'[v]]
      BY <1>3
    <3> QED BY <1>2, <3>1, <3>2
  <2> QED BY <1>1, <1>5, <2>4 DEF P!Move
<1> QED BY <1>4, <1>5

\* The transaction of a handler writes one content to one prompt, if any.
LEMMA TxMoves ==
  ASSUME BaseInv, NEW p \in Proc, WriteTx(p)
  PROVE  \E u \in Uri, c \in Content :
           prompts' = prompts \/ prompts' = [prompts EXCEPT ![u] = c]
<1> DEFINE g == call[p]
<1>1. g \in Frame
  BY DEF BaseInv, StoreInv, TypeOK
<1>2. CASE CommitTx(p)
  <2>1. g.op = "commit" /\ Materialize(g.uri, g.branch, g.content)
    BY <1>2 DEF CommitTx
  <2>2. g.uri \in Uri /\ g.content \in Content
    BY <1>1, <2>1, FrameKind DEF CommitFrame
  <2> QED BY <2>1, <2>2 DEF Materialize
<1>3. CASE SetBranchTx(p)
  <2>1. g.op = "set" /\ Materialize(g.uri, g.branch, commits[g.hash].content)
    BY <1>3 DEF SetBranchTx
  <2>2. g \in RefFrame /\ g.hash \in dag[g.uri]
    BY <1>1, <2>1, FrameKind DEF BaseInv, StoreInv, FramesOwned, FrameOwned
  <2>3. g.uri \in Uri
    BY <2>2 DEF RefFrame
  <2>4. g.hash \in DOMAIN commits
    BY <2>2, <2>3 DEF BaseInv, StoreInv, HistoryOwned
  <2>5. commits[g.hash] \in Row
    BY <2>4 DEF BaseInv, StoreInv, TypeOK
  <2>6. commits[g.hash].content \in Content
    BY <2>5 DEF Row
  <2> QED BY <2>1, <2>3, <2>6 DEF Materialize
<1> QED BY <1>2, <1>3 DEF WriteTx

\* The clock takes from the readers what has been gone for too long.
LEMMA TickPasses ==
  ASSUME BaseInv, BaseInv', StaleInv', Tick
  PROVE  P!Pass
<1>0. Ttl \in Nat /\ FillDelay \in Nat /\ MaxAge = Ttl + FillDelay + 1
  BY TimeAssumption DEF MaxAge
<1>1. gone' = [u \in Uri |-> [c \in Content |->
                IF c = prompts[u] \/ gone[u][c] > Ttl + FillDelay THEN gone[u][c]
                ELSE gone[u][c] + 1]]
  <2>1. \A u \in Uri, c \in Content : gone[u][c] > Ttl + FillDelay <=> gone[u][c] = MaxAge
    BY <1>0, GoneIsNat DEF BaseInv
  <2> QED BY <2>1 DEF Tick
<1>2. ASSUME NEW u \in Uri, NEW c, Held(u, c)'
      PROVE  Held(u, c) /\ gone'[u][c] <= Ttl + FillDelay
  <2>1. ASSUME NEW k \in Cache, CacheHit(k, u)', cache'[k][u].content = c
        PROVE  Held(u, c) /\ gone'[u][c] <= Ttl + FillDelay
    <3> DEFINE e == cache[k][u]
    <3>1. cache'[k][u] = Older(e) /\ Older(e) # NoEntry
      BY <2>1 DEF Tick, CacheHit
    <3>2. e # NoEntry /\ e.left # 0 /\ Older(e) = [e EXCEPT !.left = @ - 1]
      BY <3>1 DEF Older
    <3>3. e \in [content : Content, left : 0 .. Ttl]
      BY <3>2, HitEntry DEF BaseInv, CacheHit
    <3>4. /\ e.content = c /\ c \in Content
          /\ e.left - 1 \in Nat /\ cache'[k][u].left = e.left - 1
      BY <1>0, <2>1, <3>1, <3>2, <3>3
    <3>5. gone'[u][c] + (e.left - 1) <= Ttl + FillDelay
      BY <2>1, <3>4 DEF StaleInv, EntryLife
    <3>6. gone'[u][c] \in Nat
      BY <3>4, <1>0 DEF BaseInv, ServerTypeOK
    <3>7. gone'[u][c] <= Ttl + FillDelay
      BY <1>0, <3>4, <3>5, <3>6
    <3> QED BY <3>2, <3>4, <3>7 DEF Held, CacheHit
  <2>2. ASSUME NEW q \in Proc, At(q, "fill")', rpc'[q].uri = u, rpc'[q].content = c
        PROVE  Held(u, c) /\ gone'[u][c] <= Ttl + FillDelay
    <3>1. At(q, "fill") /\ rpc[q] \in FillFrame
      BY <2>2, RpcKind DEF Tick, At, BaseInv, ServerTypeOK
    <3>2. rpc'[q] = [rpc[q] EXCEPT !.held = @ + 1] /\ rpc[q].held < FillDelay
      BY <3>1 DEF Tick
    <3>3. /\ rpc[q].uri = u /\ rpc[q].content = c /\ c \in Content
          /\ rpc'[q].held = rpc[q].held + 1 /\ rpc[q].held \in Nat
      BY <1>0, <2>2, <3>1, <3>2 DEF FillFrame
    <3>4. gone'[u][c] <= rpc[q].held + 1
      BY <2>2, <3>3 DEF StaleInv, HeldVersion
    <3>5. gone'[u][c] \in Nat
      BY <3>3, <1>0 DEF BaseInv, ServerTypeOK
    <3>6. gone'[u][c] <= Ttl + FillDelay
      BY <1>0, <3>2, <3>3, <3>4, <3>5
    <3> QED BY <3>1, <3>3, <3>6 DEF Held
  <2> QED BY <1>2, <2>1, <2>2 DEF Held
<1>3. \A u \in Uri : held'[u] \subseteq {c \in held[u] : gone'[u][c] <= Ttl + FillDelay}
  BY <1>2, HeldAre
<1>4. held' \in [Uri -> SUBSET Content]
  <2>1. \A u \in Uri : held'[u] \subseteq Content
    BY <1>3, HeldTypes
  <2>2. held' = [u \in Uri |-> held'[u]]
    BY DEF held
  <2> QED BY <2>1, <2>2
<1>5. prompts' = prompts
  BY DEF Tick
<1> QED BY <1>1, <1>3, <1>4, <1>5 DEF P!Pass

\* Every step of the service is a step of Reads, or none.
LEMMA ReadsSimulation ==
  ASSUME BaseInv, BaseInv', StaleInv, StaleInv', [Next]_vars
  PROVE  [P!Next]_(P!readVars)
<1>0. rpc \in [Proc -> RpcFrame] /\ Free.stage # "fill"
  BY DEF BaseInv, ServerTypeOK, Free
<1>1. ASSUME NEW p \in Proc, NEW f, rpc' = [rpc EXCEPT ![p] = f], f.stage # "fill"
      PROVE  \A q \in Proc : rpc'[q] = rpc[q] \/ rpc'[q].stage # "fill"
  BY <1>0, <1>1
<1>2. ASSUME NEW p \in Proc, Write(p) PROVE [P!Next]_(P!readVars)
  <2>1. CASE \/ \E u \in Uri, b \in Branch, c \in Content, m \in Meta :
                  PublishPrompt(p, u, b, c, m)
             \/ \E u \in Uri, c \in Content, m \in Meta : SeedDemo(p, u, c, m)
    <3>1. \A q \in Proc : rpc'[q] = rpc[q] \/ rpc'[q].stage # "fill"
      BY <1>0, <2>1 DEF PublishPrompt, SeedDemo, Goto
    <3>2. UNCHANGED <<prompts, cache, gone>>
      BY <2>1 DEF PublishPrompt, SeedDemo
    <3> QED BY <3>1, <3>2, QuietStep DEF P!Next
  <2>2. CASE CommitCall(p)
    BY <1>1, <2>2, QuietStep DEF CommitCall, Commit, Tables, Goto, P!Next
  <2>3. CASE \/ \E u \in Uri, into, from \in Branch, m \in Meta :
                  MergeBranch(p, u, into, from, m)
             \/ \E u \in Uri, b \in Branch, h \in Hash : SetBranchCall(p, u, b, h)
             \/ \E u \in Uri, name, from \in Branch : CreateBranchCall(p, u, name, from)
    <3>1. \A q \in Proc : rpc'[q] = rpc[q] \/ rpc'[q].stage # "fill"
      BY <1>0, <2>3 DEF MergeBranch, SetBranchCall, CreateBranchCall, Goto
    <3>2. UNCHANGED <<prompts, cache, gone>>
      BY <2>3 DEF MergeBranch, Merge, SetBranchCall, SetBranch, CreateBranchCall,
                  CreateBranch, Tables
    <3> QED BY <3>1, <3>2, QuietStep DEF P!Next
  <2>4. CASE MergeBranchFrom(p)
    BY <2>4, QuietStep DEF MergeBranchFrom, MergeFrom, Tables, P!Next
  <2>5. CASE CreateBranchInsert(p) \/ StoreFails(p) \/ Notify(p)
    <3>1. \A q \in Proc : rpc'[q] = rpc[q] \/ rpc'[q].stage # "fill"
      BY <1>0, <1>1, <2>5 DEF CreateBranchInsert, StoreFails, Notify, Goto
    <3>2. UNCHANGED <<prompts, cache, gone>>
      BY <2>5 DEF CreateBranchInsert, BranchInsert, StoreFails, Abort, Tables, Notify
    <3> QED BY <3>1, <3>2, QuietStep DEF P!Next
  <2>6. CASE WriteTx(p)
    <3>1. AfterTx(rpc[p]).stage # "fill" /\ ~ At(p, "fill")
      BY <1>0, <2>6 DEF AfterTx, WriteTx, At
    <3>2. \A q \in Proc : rpc'[q] = rpc[q] \/ (~ At(q, "fill") /\ rpc'[q].stage # "fill")
      BY <1>0, <2>6, <3>1 DEF WriteTx, Goto
    <3>3. PICK u \in Uri, c \in Content :
            prompts' = prompts \/ prompts' = [prompts EXCEPT ![u] = c]
      BY <2>6, TxMoves
    <3>4. P!Move(u, c) \/ UNCHANGED P!readVars
      BY <2>6, <3>2, <3>3, HeadMoves DEF WriteTx
    <3> QED BY <3>4 DEF P!Next
  <2>7. CASE DropEntry(p)
    <3> DEFINE g == IF rpc[p].version = None THEN Free
                    ELSE [stage |-> "tell", uri |-> rpc[p].uri,
                          version |-> rpc[p].version]
    <3>1. g.stage # "fill"
      BY <1>0
    <3>2. rpc' = [rpc EXCEPT ![p] = g] /\ UNCHANGED <<prompts, gone>>
      BY <2>7 DEF DropEntry, Goto
    <3>3. \A q \in Proc : rpc'[q] = rpc[q] \/ rpc'[q].stage # "fill"
      <4> HIDE DEF g
      <4> QED BY <1>1, <3>1, <3>2
    <3>4. rpc[p].uri \in Uri /\ CacheOf[p] \in Cache
      BY <1>0, <2>7, RpcKind, CacheAssumption DEF DropEntry, At, HeadFrame
    <3>5. \A k \in Cache, u \in Uri : cache'[k][u] = cache[k][u] \/ cache'[k][u] = NoEntry
      BY <2>7, <3>4 DEF DropEntry, Invalidate, SetEntry, BaseInv, ServerTypeOK
    <3> QED BY <3>2, <3>3, <3>5, QuietStep DEF P!Next
  <2> QED BY <1>2, <2>1, <2>2, <2>3, <2>4, <2>5, <2>6, <2>7 DEF Write
<1>3. ASSUME NEW p \in Proc, Read(p) PROVE P!Hold
  <2>1. CASE \/ \E u \in Uri : GetHit(p, u) \/ GetMiss(p, u)
             \/ \E u \in Uri, h \in Hash : GetByRef(p, u, h)
             \/ Reply(p)
    <3>1. \A q \in Proc : rpc'[q] = rpc[q] \/ rpc'[q].stage # "fill"
      BY <1>0, <1>1, <2>1 DEF GetHit, GetMiss, GetByRef, Reply, Goto
    <3>2. UNCHANGED <<prompts, cache, gone>>
      BY <2>1 DEF GetHit, GetMiss, GetByRef, Reply
    <3> QED BY <3>1, <3>2, QuietStep
  <2>2. CASE GetFetch(p)
    <3> DEFINE v == rpc[p].uri
               g == IF prompts[v] \in Valid
                    THEN [stage |-> "fill", uri |-> v, content |-> prompts[v], held |-> 0]
                    ELSE Free
    <3>1. rpc' = [rpc EXCEPT ![p] = g] /\ UNCHANGED <<prompts, cache, gone>>
      BY <2>2 DEF GetFetch, Goto
    <3>2. g.stage = "fill" => g.content = prompts[g.uri] /\ g.content \in Content
      BY <1>0, ValidAssumption
    <3>3. ASSUME NEW u \in Uri, NEW c, Held(u, c)'
          PROVE  Held(u, c) \/ (c = prompts[u] /\ c \in Content)
      <4> HIDE DEF g
      <4>1. \A q \in Proc : rpc'[q] = IF q = p THEN g ELSE rpc[q]
        BY <1>0, <3>1
      <4> QED BY <3>1, <3>2, <3>3, <4>1 DEF Held, CacheHit, At
    <3> QED BY <3>1, <3>3, HoldStep
  <2>3. CASE GetFill(p)
    <3> DEFINE f == rpc[p]
               g == [stage |-> "reply", uri |-> f.uri, content |-> f.content]
    <3>1. f \in FillFrame /\ CacheOf[p] \in Cache /\ At(p, "fill")
      BY <1>0, <2>3, RpcKind, CacheAssumption DEF GetFill, At
    <3>2. f.uri \in Uri
      BY <3>1 DEF FillFrame
    <3>3. UNCHANGED <<prompts, gone>> /\ rpc' = [rpc EXCEPT ![p] = g]
      BY <2>3 DEF GetFill, Goto
    <3>4. \A q \in Proc : rpc'[q] = IF q = p THEN g ELSE rpc[q]
      BY <1>0, <3>3
    <3>5. \A k \in Cache, u \in Uri :
            \/ cache'[k][u] = cache[k][u]
            \/ u = f.uri /\ cache'[k][u] = [content |-> f.content, left |-> Ttl]
      <4>1. CASE UNCHANGED cache
        BY <4>1
      <4>2. CASE CachePut(CacheOf[p], f.uri, f.content)
        BY <3>1, <3>2, <4>2 DEF CachePut, SetEntry, BaseInv, ServerTypeOK
      <4> QED BY <2>3, <4>1, <4>2 DEF GetFill
    <3>6. ASSUME NEW u \in Uri, NEW c, Held(u, c)' PROVE Held(u, c)
      BY <3>1, <3>4, <3>5, <3>6 DEF Held, CacheHit, At
    <3> QED BY <3>3, <3>6, HoldStep
  <2> QED BY <1>3, <2>1, <2>2, <2>3 DEF Read
<1>4. ASSUME NEW p \in Proc, Kill(p) PROVE P!Hold
  <2>1. \A q \in Proc : rpc'[q] = rpc[q] \/ rpc'[q].stage # "fill"
    BY <1>0, <1>1, <1>4 DEF Kill, Goto
  <2> QED BY <1>4, <2>1, QuietStep DEF Kill
<1>5. ASSUME NEW k \in Cache, Restart(k) PROVE P!Hold
  <2>1. \A j \in Cache, u \in Uri : cache'[j][u] = cache[j][u] \/ cache'[j][u] = NoEntry
    BY <1>5 DEF Restart, BaseInv, ServerTypeOK
  <2> QED BY <1>5, <2>1, QuietStep DEF Restart
<1>6. ASSUME NEW u \in Uri, NEW c \in Content, PutCmd(u, c) \/ Restore(u, c)
      PROVE  [P!Next]_(P!readVars)
  <2>1. P!Move(u, c) \/ UNCHANGED P!readVars
    BY <1>6, HeadMoves DEF PutCmd, Restore, Put
  <2> QED BY <2>1 DEF P!Next
<1>7. CASE Tick
  BY <1>7, TickPasses DEF P!Next
<1>8. CASE UNCHANGED vars
  BY <1>8, QuietStep DEF vars, P!Next
<1> QED BY <1>2, <1>3, <1>4, <1>5, <1>6, <1>7, <1>8 DEF Next, P!Next

\* The service keeps the promise of Reads, whatever its handlers, caches, nodes
\* and faults: what a HEAD reader is given was read as the HEAD, and not given
\* for longer than the TTL and a reader's delay after it ceased to be.
THEOREM ServerImplementsReads == Spec => ImplementsReads
<1>1. Init => P!Init
  <2> SUFFICES ASSUME Init PROVE P!Init
    OBVIOUS
  <2>1. held = [u \in Uri |-> {}]
    <3>1. \A u \in Uri : \A c : ~ Held(u, c)
      BY DEF Init, Held, CacheHit, At, Free
    <3>2. \A u \in Uri : held[u] = {}
      BY <3>1, HeldAre
    <3>3. held = [u \in Uri |-> held[u]]
      BY DEF held
    <3> QED BY <3>2, <3>3
  <2> QED BY <2>1 DEF Init, StoreInit, MaxAge, P!Init
<1>2. BaseInv /\ BaseInv' /\ StaleInv /\ StaleInv' /\ [Next]_vars
        => [P!Next]_(P!readVars)
  BY ReadsSimulation
<1> QED BY <1>1, <1>2, BaseInvariant, StaleInvariant, PTL DEF Spec, ImplementsReads, P!Spec

-----------------------------------------------------------------------------
\* A handler inside a store call is in the call that its frame names, for the
\* same prompt and branch, and what it will announce is what the call writes.
CallMatches(f, g, rows) ==
  /\ f.stage # "store" => g = Idle
  /\ f.stage = "store" =>
       /\ g # Idle
       /\ g.uri = f.uri
       /\ g.branch = f.branch
       /\ f.op \in {"publish", "seed"} => g.op = "commit" /\ f.version = g.content
       /\ f.op = "merge" => g.op \in {"merge", "commit"} /\ f.version = None
       /\ f.op = "set" => g.op = "set" /\ f.version = rows[g.hash].content
       /\ f.op = "fork" => g.op = "branch" /\ f.version = None

CallsMatch == \A p \in Proc : CallMatches(rpc[p], call[p], commits)

\* The others' calls match as before, since rows are never changed.
LEMMA CallStep ==
  ASSUME BaseInv, CallsMatch, AppendOnlyStep, NEW p \in Proc,
         \A q \in Proc \ {p} : rpc'[q] = rpc[q] /\ call'[q] = call[q],
         CallMatches(rpc'[p], call'[p], commits')
  PROVE  CallsMatch'
<1> SUFFICES ASSUME NEW q \in Proc, q # p
             PROVE  CallMatches(rpc'[q], call'[q], commits')
  BY DEF CallsMatch
<1>1. CallMatches(rpc[q], call[q], commits) /\ rpc'[q] = rpc[q] /\ call'[q] = call[q]
  BY DEF CallsMatch
<1>2. call[q].op = "set" => commits'[call[q].hash] = commits[call[q].hash]
  <2> SUFFICES ASSUME call[q].op = "set"
               PROVE  commits'[call[q].hash] = commits[call[q].hash]
    OBVIOUS
  <2>1. call[q] \in RefFrame /\ call[q].hash \in dag[call[q].uri]
    BY FrameKind DEF BaseInv, StoreInv, TypeOK, FramesOwned, FrameOwned
  <2>2. call[q].uri \in Uri
    BY <2>1 DEF RefFrame
  <2>3. call[q].hash \in DOMAIN commits
    BY <2>1, <2>2 DEF BaseInv, StoreInv, HistoryOwned
  <2> QED BY <2>3 DEF AppendOnlyStep
<1> QED BY <1>1, <1>2 DEF CallMatches

\* A step outside the store calls.
LEMMA OutsideStep ==
  ASSUME BaseInv, CallsMatch, AppendOnlyStep, NEW p \in Proc, NEW f, Goto(p, f),
         f.stage # "store", call' = call \/ Return(p), ~ At(p, "store") \/ Return(p)
  PROVE  CallsMatch'
<1>1. rpc' = [rpc EXCEPT ![p] = f] /\ rpc \in [Proc -> RpcFrame] /\ call \in [Proc -> Frame]
  BY DEF Goto, BaseInv, ServerTypeOK, StoreInv, TypeOK
<1>2. rpc'[p] = f /\ \A q \in Proc \ {p} : rpc'[q] = rpc[q]
  BY <1>1
<1>3. call'[p] = Idle /\ \A q \in Proc \ {p} : call'[q] = call[q]
  <2>1. CASE Return(p)
    BY <1>1, <2>1 DEF Return
  <2>2. CASE call' = call /\ ~ At(p, "store")
    BY <2>2 DEF CallsMatch, CallMatches, At
  <2> QED BY <2>1, <2>2
<1>4. CallMatches(rpc'[p], call'[p], commits')
  BY <1>2, <1>3 DEF CallMatches
<1> QED BY <1>2, <1>3, <1>4, CallStep

\* A step that enters or advances a store call.
LEMMA InsideStep ==
  ASSUME BaseInv, CallsMatch, AppendOnlyStep, NEW p \in Proc, NEW f, NEW g, Goto(p, f),
         call' = [call EXCEPT ![p] = g], CallMatches(f, g, commits')
  PROVE  CallsMatch'
<1>1. rpc' = [rpc EXCEPT ![p] = f] /\ rpc \in [Proc -> RpcFrame] /\ call \in [Proc -> Frame]
  BY DEF Goto, BaseInv, ServerTypeOK, StoreInv, TypeOK
<1>2. rpc'[p] = f /\ \A q \in Proc \ {p} : rpc'[q] = rpc[q]
  BY <1>1
<1>3. call'[p] = g /\ \A q \in Proc \ {p} : call'[q] = call[q]
  BY <1>1
<1> QED BY <1>2, <1>3, CallStep

LEMMA WriteCalls ==
  ASSUME BaseInv, CallsMatch, AppendOnlyStep, NEW p \in Proc, Write(p)
  PROVE  CallsMatch'
<1>0. rpc[p] \in RpcFrame /\ Free.stage # "store"
  BY DEF BaseInv, ServerTypeOK, Free
<1>1. ASSUME NEW u \in Uri, NEW b \in Branch, NEW c \in Content, NEW m \in Meta,
             PublishPrompt(p, u, b, c, m)
      PROVE  CallsMatch'
  BY <1>1, OutsideStep DEF PublishPrompt, At
<1>2. ASSUME NEW u \in Uri, NEW c \in Content, NEW m \in Meta, SeedDemo(p, u, c, m)
      PROVE  CallsMatch'
  BY <1>2, OutsideStep DEF SeedDemo, At
<1>3. CASE CommitCall(p)
  <2> DEFINE r == rpc[p]
             f == [stage |-> "store", op |-> r.stage, uri |-> r.uri,
                   branch |-> r.branch, version |-> r.content]
             g == [op |-> "commit", uri |-> r.uri, branch |-> r.branch,
                   content |-> r.content, parent |-> Tip(r.uri, r.branch),
                   parent2 |-> NoHash, meta |-> r.meta]
  <2>1. r.stage \in {"publish", "seed"}
    BY <1>3 DEF CommitCall
  <2>2. CallMatches(f, g, commits')
    BY <2>1 DEF CallMatches, Idle
  <2>3. Goto(p, f) /\ call' = [call EXCEPT ![p] = g]
    BY <1>3 DEF CommitCall, Commit
  <2> HIDE DEF f, g
  <2> QED BY <2>2, <2>3, InsideStep
<1>4. ASSUME NEW u \in Uri, NEW into \in Branch, NEW from \in Branch,
             NEW m \in Meta, MergeBranch(p, u, into, from, m)
      PROVE  CallsMatch'
  <2> DEFINE f == [stage |-> "store", op |-> "merge", uri |-> u, branch |-> into,
                   version |-> None]
             g == [op |-> "merge", uri |-> u, branch |-> into, from |-> from,
                   parent |-> Tip(u, into), meta |-> m]
  <2>1. CallMatches(f, g, commits')
    BY DEF CallMatches, Idle
  <2>2. Goto(p, f) /\ call' = [call EXCEPT ![p] = g]
    BY <1>4 DEF MergeBranch, Merge
  <2> HIDE DEF f, g
  <2> QED BY <2>1, <2>2, InsideStep
<1>5. CASE MergeBranchFrom(p)
  <2> DEFINE f == rpc[p]
             m == call[p]
             src == Tip(m.uri, m.from)
             g == [op |-> "commit", uri |-> m.uri, branch |-> m.branch,
                   content |-> commits[src].content, parent |-> m.parent,
                   parent2 |-> src, meta |-> m.meta]
  <2>1. f \in StoreFrame /\ f.stage = "store" /\ m.op = "merge"
    BY <1>0, <1>5, RpcKind DEF MergeBranchFrom, MergeFrom, At
  <2>2. f.op \in {"publish", "seed", "merge", "set", "fork"}
    BY <2>1 DEF StoreFrame
  <2>3. CallMatches(f, m, commits)
    BY DEF CallsMatch
  <2>4. f.op = "merge" /\ m.uri = f.uri /\ m.branch = f.branch /\ f.version = None
    BY <2>1, <2>2, <2>3 DEF CallMatches
  <2>5. CallMatches(f, g, commits')
    BY <2>1, <2>4 DEF CallMatches, Idle
  <2>6. rpc' = rpc /\ call' = [call EXCEPT ![p] = g]
    BY <1>5 DEF MergeBranchFrom, MergeFrom
  <2>7. \A q \in Proc \ {p} : rpc'[q] = rpc[q] /\ call'[q] = call[q]
    BY <2>6 DEF BaseInv, StoreInv, TypeOK
  <2>8. CallMatches(rpc'[p], call'[p], commits')
    <3>1. rpc'[p] = f /\ call'[p] = g
      BY <2>6 DEF BaseInv, StoreInv, TypeOK
    <3> QED BY <2>5, <3>1
  <2> QED BY <2>7, <2>8, CallStep
<1>6. ASSUME NEW u \in Uri, NEW b \in Branch, NEW h \in Hash, SetBranchCall(p, u, b, h)
      PROVE  CallsMatch'
  <2> DEFINE f == [stage |-> "store", op |-> "set", uri |-> u, branch |-> b,
                   version |-> commits[h].content]
             g == [op |-> "set", uri |-> u, branch |-> b, hash |-> h]
  <2>1. commits' = commits
    BY <1>6 DEF SetBranchCall, SetBranch, Tables
  <2>2. CallMatches(f, g, commits')
    BY <2>1 DEF CallMatches, Idle
  <2>3. Goto(p, f) /\ call' = [call EXCEPT ![p] = g]
    BY <1>6 DEF SetBranchCall, SetBranch
  <2> HIDE DEF f, g
  <2> QED BY <2>2, <2>3, InsideStep
<1>7. ASSUME NEW u \in Uri, NEW name \in Branch, NEW from \in Branch,
             CreateBranchCall(p, u, name, from)
      PROVE  CallsMatch'
  <2> DEFINE f == [stage |-> "store", op |-> "fork", uri |-> u, branch |-> name,
                   version |-> None]
             g == [op |-> "branch", uri |-> u, branch |-> name, hash |-> Tip(u, from)]
  <2>1. CallMatches(f, g, commits')
    BY DEF CallMatches, Idle
  <2>2. Goto(p, f) /\ call' = [call EXCEPT ![p] = g]
    BY <1>7 DEF CreateBranchCall, CreateBranch
  <2> HIDE DEF f, g
  <2> QED BY <2>1, <2>2, InsideStep
<1>8. CASE CreateBranchInsert(p) \/ StoreFails(p)
  BY <1>0, <1>8, OutsideStep DEF CreateBranchInsert, BranchInsert, StoreFails, Abort
<1>9. CASE WriteTx(p)
  <2>1. AfterTx(rpc[p]).stage # "store"
    BY <1>0 DEF AfterTx
  <2>2. Goto(p, AfterTx(rpc[p])) /\ Return(p)
    BY <1>9 DEF WriteTx, CommitTx, SetBranchTx
  <2> QED BY <2>1, <2>2, OutsideStep
<1>10. CASE DropEntry(p) \/ Notify(p)
  <2> DEFINE g == IF rpc[p].version = None THEN Free
                  ELSE [stage |-> "tell", uri |-> rpc[p].uri,
                        version |-> rpc[p].version]
  <2>1. g.stage # "store" /\ Free.stage # "store"
    BY <1>0
  <2>2. Goto(p, g) \/ Goto(p, Free)
    BY <1>10 DEF DropEntry, Notify
  <2>3. ~ At(p, "store") /\ call' = call
    BY <1>10 DEF DropEntry, Notify, At
  <2> HIDE DEF g
  <2> QED BY <2>1, <2>2, <2>3, OutsideStep
<1> QED BY <1>1, <1>2, <1>3, <1>4, <1>5, <1>6, <1>7, <1>8, <1>9, <1>10 DEF Write

LEMMA ReadCalls ==
  ASSUME BaseInv, CallsMatch, AppendOnlyStep, NEW p \in Proc, Read(p)
  PROVE  CallsMatch'
<1>1. CASE \E u \in Uri : GetHit(p, u) \/ GetMiss(p, u)
  BY <1>1, OutsideStep DEF GetHit, GetMiss, At
<1>2. CASE GetFetch(p)
  <2> DEFINE u == rpc[p].uri
             g == IF prompts[u] \in Valid
                  THEN [stage |-> "fill", uri |-> u, content |-> prompts[u], held |-> 0]
                  ELSE Free
  <2>1. g.stage # "store"
    BY DEF Free
  <2>2. Goto(p, g) /\ ~ At(p, "store") /\ call' = call
    BY <1>2 DEF GetFetch, At
  <2> HIDE DEF g
  <2> QED BY <2>1, <2>2, OutsideStep
<1>3. CASE GetFill(p)
  BY <1>3, OutsideStep DEF GetFill, At
<1>4. CASE \E u \in Uri, h \in Hash : GetByRef(p, u, h)
  BY <1>4, OutsideStep DEF GetByRef, At
<1>5. CASE Reply(p)
  <2>1. Free.stage # "store"
    BY DEF Free
  <2> QED BY <1>5, <2>1, OutsideStep DEF Reply, At
<1> QED BY <1>1, <1>2, <1>3, <1>4, <1>5 DEF Read

\* The store call and the handler around it agree throughout.
LEMMA CallsInvariant == Spec => []CallsMatch
<1>1. Init => CallsMatch
  BY DEF Init, StoreInit, CallsMatch, CallMatches, Free, Idle
<1>2. BaseInv /\ CallsMatch /\ [Next]_vars => CallsMatch'
  <2> SUFFICES ASSUME BaseInv, CallsMatch, [Next]_vars PROVE CallsMatch'
    OBVIOUS
  <2>0. AppendOnlyStep
    BY StoreSimulation, RowsKept DEF BaseInv
  <2>1. ASSUME NEW p \in Proc, Write(p) \/ Read(p) PROVE CallsMatch'
    BY <2>0, <2>1, WriteCalls, ReadCalls
  <2>2. ASSUME NEW p \in Proc, Kill(p) PROVE CallsMatch'
    <3>1. Free.stage # "store"
      BY DEF Free
    <3> QED BY <2>0, <2>2, <3>1, OutsideStep DEF Kill
  <2>3. CASE UNCHANGED <<rpc, call, commits>>
    BY <2>3 DEF CallsMatch
  <2>4. CASE \/ \E k \in Cache : Restart(k)
             \/ \E u \in Uri, c \in Content : PutCmd(u, c) \/ Restore(u, c)
             \/ UNCHANGED vars
    BY <2>3, <2>4 DEF Restart, PutCmd, Restore, Put, vars
  <2>5. CASE Tick
    <3> SUFFICES ASSUME NEW q \in Proc PROVE CallMatches(rpc'[q], call'[q], commits')
      BY DEF CallsMatch
    <3>1. UNCHANGED <<call, commits>> /\ CallMatches(rpc[q], call[q], commits)
      BY <2>5 DEF Tick, CallsMatch
    <3>2. CASE At(q, "fill")
      <4>1. rpc[q] \in FillFrame
        BY <3>2, RpcKind DEF At, BaseInv, ServerTypeOK
      <4>2. rpc'[q] = [rpc[q] EXCEPT !.held = @ + 1]
        BY <2>5, <3>2 DEF Tick
      <4>3. rpc'[q].stage = "fill" /\ rpc[q].stage = "fill"
        BY <4>1, <4>2 DEF FillFrame
      <4> QED BY <3>1, <4>3 DEF CallMatches
    <3>3. CASE ~ At(q, "fill")
      BY <2>5, <3>1, <3>3 DEF Tick
    <3> QED BY <3>2, <3>3
  <2> QED BY <2>1, <2>2, <2>4, <2>5 DEF Next
<1> QED BY <1>1, <1>2, BaseInvariant, PTL DEF Spec

\* The transaction of a handler serves what the handler will announce, and
\* moves no HEAD but that of a write to main.
LEMMA TxHead ==
  ASSUME BaseInv, CallsMatch, NEW p \in Proc, WriteTx(p)
  PROVE  /\ rpc[p] \in StoreFrame /\ rpc[p].uri \in Uri
         /\ \A u \in Uri : prompts'[u] # prompts[u] => u = rpc[p].uri /\ rpc[p].branch = Main
         /\ rpc[p].branch = Main /\ rpc[p].version # None
              => prompts'[rpc[p].uri] = rpc[p].version
<1> DEFINE f == rpc[p]
           g == call[p]
<1>1. f \in StoreFrame /\ f.stage = "store"
  BY RpcKind DEF WriteTx, At, BaseInv, ServerTypeOK
<1>2. f.op \in {"publish", "seed", "merge", "set", "fork"} /\ f.uri \in Uri
  BY <1>1 DEF StoreFrame
<1>3. CallMatches(f, g, commits)
  BY DEF CallsMatch
<1>4. g.uri = f.uri /\ g.branch = f.branch
  BY <1>1, <1>3 DEF CallMatches
<1>5. PICK c : Materialize(f.uri, f.branch, c) /\ (f.version # None => c = f.version)
  <2>1. CASE CommitTx(p)
    <3>1. g.op = "commit" /\ Materialize(g.uri, g.branch, g.content)
      BY <2>1 DEF CommitTx
    <3>2. f.version # None => g.content = f.version
      BY <1>1, <1>2, <1>3, <3>1 DEF CallMatches
    <3> QED BY <1>4, <3>1, <3>2
  <2>2. CASE SetBranchTx(p)
    <3>1. g.op = "set" /\ Materialize(g.uri, g.branch, commits[g.hash].content)
      BY <2>2 DEF SetBranchTx
    <3>2. commits[g.hash].content = f.version
      BY <1>1, <1>2, <1>3, <3>1 DEF CallMatches
    <3> QED BY <1>4, <3>1, <3>2
  <2> QED BY <2>1, <2>2 DEF WriteTx
<1>6. prompts \in [Uri -> Content \cup {None}]
  BY DEF BaseInv, StoreInv, TypeOK
<1> QED BY <1>1, <1>2, <1>5, <1>6 DEF Materialize

-----------------------------------------------------------------------------
\* What a handler holds for the cache, for its caller and for the subscribers.
VisibleFrame(f, hs) ==
  /\ f.stage = "fill" => f.content \in Valid /\ f.content \in hs[f.uri]
  /\ f.stage = "reply" => f.content \in Valid
  /\ f.stage \in {"drop", "tell"} => f.version \in hs[f.uri] \cup {None}

VisibleEntry(e, versions) == e # NoEntry => e.content \in Valid /\ e.content \in versions

\* Nothing malformed, and nothing that was not a HEAD, is in a cache or on its
\* way out.
VisibleInv ==
  /\ \A u \in Uri : prompts[u] \in heads[u] \cup {None}
  /\ \A u \in Uri : told[u] \in heads[u] \cup {None}
  /\ \A k \in Cache, u \in Uri : VisibleEntry(cache[k][u], heads[u])
  /\ \A p \in Proc : VisibleFrame(rpc[p], heads)

\* HEADs are recorded and never forgotten, so a step need only account for the
\* frames, entries and notifications it writes.
LEMMA VisibleStep ==
  ASSUME BaseInv, VisibleInv,
         TrackHead \/ UNCHANGED <<prompts, heads>>,
         \A u \in Uri : told'[u] = told[u] \/ told'[u] \in heads[u] \cup {None},
         \A k \in Cache, u \in Uri :
           cache'[k][u] = cache[k][u] \/ VisibleEntry(cache'[k][u], heads[u]),
         \A q \in Proc : rpc'[q] = rpc[q] \/ VisibleFrame(rpc'[q], heads')
  PROVE  VisibleInv'
<1>1. \A u \in Uri : heads[u] \subseteq heads'[u]
  BY DEF TrackHead
<1>2. \A u \in Uri : prompts'[u] \in heads'[u] \cup {None}
  BY DEF TrackHead, VisibleInv
<1>3. \A u \in Uri : told'[u] \in heads'[u] \cup {None}
  BY <1>1 DEF VisibleInv
<1>4. \A k \in Cache, u \in Uri : VisibleEntry(cache'[k][u], heads'[u])
  BY <1>1 DEF VisibleInv, VisibleEntry
<1>5. ASSUME NEW q \in Proc, rpc'[q] = rpc[q] PROVE VisibleFrame(rpc'[q], heads')
  <2> DEFINE f == rpc[q]
  <2>1. VisibleFrame(f, heads) /\ f \in RpcFrame
    BY DEF VisibleInv, BaseInv, ServerTypeOK
  <2>2. f.stage \in {"fill", "drop", "tell"} => f.uri \in Uri
    BY <2>1, RpcKind DEF FillFrame, HeadFrame
  <2> QED BY <1>1, <1>5, <2>1, <2>2 DEF VisibleFrame
<1> QED BY <1>2, <1>3, <1>4, <1>5 DEF VisibleInv

\* A handler moves to a frame that holds nothing amiss, and no more.
LEMMA VisibleMove ==
  ASSUME BaseInv, VisibleInv, NEW p \in Proc, NEW f, Goto(p, f), VisibleFrame(f, heads),
         UNCHANGED <<prompts, cache, told, heads>>
  PROVE  VisibleInv'
<1>1. \A q \in Proc : rpc'[q] = rpc[q] \/ rpc'[q] = f
  BY DEF Goto, BaseInv, ServerTypeOK
<1> QED BY <1>1, VisibleStep

LEMMA WriteVisible ==
  ASSUME BaseInv, CallsMatch, VisibleInv, NEW p \in Proc, Write(p)
  PROVE  VisibleInv'
<1>0. /\ rpc \in [Proc -> RpcFrame] /\ VisibleFrame(rpc[p], heads)
      /\ \A s : s \notin {"fill", "reply", "drop", "tell"} =>
           \A f : f.stage = s => VisibleFrame(f, heads)
      /\ Free.stage = "free"
  BY DEF BaseInv, ServerTypeOK, VisibleInv, VisibleFrame, Free
<1>1. ASSUME NEW u \in Uri, NEW b \in Branch, NEW c \in Content, NEW m \in Meta,
             PublishPrompt(p, u, b, c, m)
      PROVE  VisibleInv'
  BY <1>1, VisibleMove DEF PublishPrompt, VisibleFrame
<1>2. ASSUME NEW u \in Uri, NEW c \in Content, NEW m \in Meta, SeedDemo(p, u, c, m)
      PROVE  VisibleInv'
  BY <1>2, VisibleMove DEF SeedDemo, VisibleFrame
<1>3. CASE CommitCall(p)
  BY <1>3, VisibleMove DEF CommitCall, Commit, Tables, VisibleFrame
<1>4. ASSUME NEW u \in Uri, NEW into \in Branch, NEW from \in Branch,
             NEW m \in Meta, MergeBranch(p, u, into, from, m)
      PROVE  VisibleInv'
  BY <1>4, VisibleMove DEF MergeBranch, Merge, Tables, VisibleFrame
<1>5. CASE MergeBranchFrom(p)
  BY <1>5, VisibleStep DEF MergeBranchFrom, MergeFrom, Tables
<1>6. ASSUME NEW u \in Uri, NEW b \in Branch, NEW h \in Hash, SetBranchCall(p, u, b, h)
      PROVE  VisibleInv'
  BY <1>6, VisibleMove DEF SetBranchCall, SetBranch, Tables, VisibleFrame
<1>7. ASSUME NEW u \in Uri, NEW name \in Branch, NEW from \in Branch,
             CreateBranchCall(p, u, name, from)
      PROVE  VisibleInv'
  BY <1>7, VisibleMove DEF CreateBranchCall, CreateBranch, Tables, VisibleFrame
<1>8. CASE CreateBranchInsert(p) \/ StoreFails(p)
  <2>1. VisibleFrame(Free, heads)
    BY <1>0
  <2> QED BY <1>8, <2>1, VisibleMove
          DEF CreateBranchInsert, BranchInsert, StoreFails, Abort, Tables
<1>9. CASE WriteTx(p)
  <2> DEFINE f == rpc[p]
             g == AfterTx(f)
  <2>1. TrackHead /\ UNCHANGED <<cache, told>> /\ rpc' = [rpc EXCEPT ![p] = g]
    BY <1>9 DEF WriteTx, Goto
  <2>2. f.uri \in Uri /\ (f.branch = Main /\ f.version # None => prompts'[f.uri] = f.version)
    BY <1>9, TxHead
  <2>3. f.branch = Main /\ f.version # None => f.version \in heads'[f.uri]
    BY <2>1, <2>2 DEF TrackHead
  <2>4. VisibleFrame(g, heads')
    <3>1. CASE f.branch = Main /\ f.op # "seed"
      <4>1. g = [stage |-> "drop", uri |-> f.uri, version |-> f.version]
        BY <3>1 DEF AfterTx
      <4> QED BY <2>3, <3>1, <4>1 DEF VisibleFrame
    <3>2. CASE ~ (f.branch = Main /\ f.op # "seed")
      <4>1. g.stage = "free"
        BY <1>0, <3>2 DEF AfterTx
      <4> QED BY <4>1 DEF VisibleFrame
    <3> QED BY <3>1, <3>2
  <2> HIDE DEF g
  <2>5. \A q \in Proc : rpc'[q] = rpc[q] \/ VisibleFrame(rpc'[q], heads')
    BY <1>0, <2>1, <2>4
  <2> QED BY <2>1, <2>5, VisibleStep
<1>10. CASE DropEntry(p)
  <2> DEFINE g == IF rpc[p].version = None THEN Free
                  ELSE [stage |-> "tell", uri |-> rpc[p].uri,
                        version |-> rpc[p].version]
  <2>1. rpc[p] \in HeadFrame /\ CacheOf[p] \in Cache /\ At(p, "drop")
    BY <1>0, <1>10, RpcKind, CacheAssumption DEF DropEntry, At
  <2>2. rpc[p].uri \in Uri
    BY <2>1 DEF HeadFrame
  <2>3. rpc' = [rpc EXCEPT ![p] = g] /\ UNCHANGED <<prompts, told, heads>>
    BY <1>10 DEF DropEntry, Goto
  <2>4. VisibleFrame(g, heads)
    <3>1. rpc[p].version \in heads[rpc[p].uri] \cup {None}
      BY <1>0, <2>1 DEF VisibleFrame, At
    <3>2. CASE rpc[p].version = None
      BY <1>0, <3>2
    <3>3. CASE rpc[p].version # None
      BY <3>1, <3>3 DEF VisibleFrame
    <3> QED BY <3>2, <3>3
  <2> HIDE DEF g
  <2>5. \A q \in Proc : rpc'[q] = rpc[q] \/ VisibleFrame(rpc'[q], heads')
    BY <1>0, <2>3, <2>4
  <2>6. \A k \in Cache, u \in Uri : cache'[k][u] = cache[k][u] \/ cache'[k][u] = NoEntry
    <3>1. CASE Invalidate(CacheOf[p], rpc[p].uri)
      BY <2>1, <2>2, <3>1 DEF Invalidate, SetEntry, BaseInv, ServerTypeOK
    <3> QED BY <1>10, <3>1 DEF DropEntry
  <2>7. \A k \in Cache, u \in Uri :
          cache'[k][u] = cache[k][u] \/ VisibleEntry(cache'[k][u], heads[u])
    BY <2>6 DEF VisibleEntry
  <2> QED BY <2>3, <2>5, <2>7, VisibleStep
<1>11. CASE Notify(p)
  <2>1. rpc[p] \in HeadFrame /\ At(p, "tell")
    BY <1>0, <1>11, RpcKind DEF Notify, At
  <2>2. rpc[p].uri \in Uri /\ rpc[p].version \in heads[rpc[p].uri] \cup {None}
    BY <1>0, <2>1 DEF HeadFrame, VisibleFrame, At
  <2>3. UNCHANGED <<prompts, cache, heads>> /\ rpc' = [rpc EXCEPT ![p] = Free]
    BY <1>11 DEF Notify, Goto
  <2>4. \A q \in Proc : rpc'[q] = rpc[q] \/ VisibleFrame(rpc'[q], heads')
    BY <1>0, <2>3
  <2>5. \A u \in Uri : told'[u] = told[u] \/ told'[u] \in heads[u] \cup {None}
    BY <1>11, <2>2 DEF Notify, BaseInv, ServerTypeOK
  <2> QED BY <2>3, <2>4, <2>5, VisibleStep
<1> QED BY <1>1, <1>2, <1>3, <1>4, <1>5, <1>6, <1>7, <1>8, <1>9, <1>10, <1>11 DEF Write

LEMMA ReadVisible ==
  ASSUME BaseInv, VisibleInv, NEW p \in Proc, Read(p)
  PROVE  VisibleInv'
<1>0. /\ rpc \in [Proc -> RpcFrame] /\ VisibleFrame(rpc[p], heads)
      /\ CacheOf[p] \in Cache /\ VisibleFrame(Free, heads)
  BY CacheAssumption DEF BaseInv, ServerTypeOK, VisibleInv, VisibleFrame, Free
<1>1. ASSUME NEW u \in Uri, GetHit(p, u) PROVE VisibleInv'
  <2> DEFINE e == cache[CacheOf[p]][u]
             f == [stage |-> "reply", uri |-> u, content |-> e.content]
  <2>1. e.content \in Valid
    BY <1>0, <1>1 DEF GetHit, CacheHit, VisibleInv, VisibleEntry
  <2>2. VisibleFrame(f, heads)
    BY <2>1 DEF VisibleFrame
  <2> QED BY <1>1, <2>2, VisibleMove DEF GetHit
<1>2. ASSUME NEW u \in Uri, GetMiss(p, u) PROVE VisibleInv'
  BY <1>2, VisibleMove DEF GetMiss, VisibleFrame
<1>3. CASE GetFetch(p)
  <2> DEFINE u == rpc[p].uri
             f == IF prompts[u] \in Valid
                  THEN [stage |-> "fill", uri |-> u, content |-> prompts[u], held |-> 0]
                  ELSE Free
  <2>1. u \in Uri
    BY <1>0, <1>3, RpcKind DEF GetFetch, At, FetchFrame
  <2>2. prompts[u] \in Valid => prompts[u] \in heads[u]
    BY <2>1, ValidAssumption, NoneAssumption DEF VisibleInv
  <2>3. VisibleFrame(f, heads)
    <3>1. CASE prompts[u] \in Valid
      BY <2>2, <3>1 DEF VisibleFrame
    <3>2. CASE prompts[u] \notin Valid
      BY <1>0, <3>2
    <3> QED BY <3>1, <3>2
  <2> QED BY <1>3, <2>3, VisibleMove DEF GetFetch
<1>4. CASE GetFill(p)
  <2> DEFINE f == rpc[p]
             g == [stage |-> "reply", uri |-> f.uri, content |-> f.content]
             e == [content |-> f.content, left |-> Ttl]
  <2>1. f \in FillFrame /\ f.content \in Valid /\ f.content \in heads[f.uri]
    BY <1>0, <1>4, RpcKind DEF GetFill, At, VisibleFrame
  <2>2. f.uri \in Uri
    BY <2>1 DEF FillFrame
  <2>3. UNCHANGED <<prompts, told, heads>> /\ rpc' = [rpc EXCEPT ![p] = g]
    BY <1>4 DEF GetFill, Goto
  <2>4. VisibleFrame(g, heads) /\ VisibleEntry(e, heads[f.uri])
    BY <2>1 DEF VisibleFrame, VisibleEntry
  <2>5. \A q \in Proc : rpc'[q] = rpc[q] \/ VisibleFrame(rpc'[q], heads')
    <3> HIDE DEF g
    <3> QED BY <1>0, <2>3, <2>4
  <2>6. \A k \in Cache, u \in Uri :
          cache'[k][u] = cache[k][u] \/ (u = f.uri /\ cache'[k][u] = e)
    BY <1>0, <1>4, <2>2 DEF GetFill, CachePut, SetEntry, BaseInv, ServerTypeOK
  <2>7. \A k \in Cache, u \in Uri :
          cache'[k][u] = cache[k][u] \/ VisibleEntry(cache'[k][u], heads[u])
    <3> HIDE DEF e
    <3> QED BY <2>4, <2>6
  <2> QED BY <2>3, <2>5, <2>7, VisibleStep
<1>5. ASSUME NEW u \in Uri, NEW h \in Hash, GetByRef(p, u, h) PROVE VisibleInv'
  BY <1>5, VisibleMove DEF GetByRef, VisibleFrame
<1>6. CASE Reply(p)
  BY <1>0, <1>6, VisibleMove DEF Reply
<1> QED BY <1>1, <1>2, <1>3, <1>4, <1>5, <1>6 DEF Read

LEMMA OtherVisible ==
  ASSUME BaseInv, VisibleInv,
         \/ \E p \in Proc : Kill(p)
         \/ \E k \in Cache : Restart(k)
         \/ \E u \in Uri, c \in Content : PutCmd(u, c) \/ Restore(u, c)
         \/ Tick
  PROVE  VisibleInv'
<1>1. ASSUME NEW p \in Proc, Kill(p) PROVE VisibleInv'
  <2>1. VisibleFrame(Free, heads)
    BY DEF VisibleFrame, Free
  <2> QED BY <1>1, <2>1, VisibleMove DEF Kill
<1>2. ASSUME NEW k \in Cache, Restart(k) PROVE VisibleInv'
  <2>1. \A j \in Cache, u \in Uri : cache'[j][u] = cache[j][u] \/ cache'[j][u] = NoEntry
    BY <1>2 DEF Restart, BaseInv, ServerTypeOK
  <2>2. \A j \in Cache, u \in Uri :
          cache'[j][u] = cache[j][u] \/ VisibleEntry(cache'[j][u], heads[u])
    BY <2>1 DEF VisibleEntry
  <2> QED BY <1>2, <2>2, VisibleStep DEF Restart
<1>3. ASSUME NEW u \in Uri, NEW c \in Content, PutCmd(u, c) \/ Restore(u, c)
      PROVE  VisibleInv'
  BY <1>3, VisibleStep DEF PutCmd, Restore
<1>4. CASE Tick
  <2>1. \A k \in Cache, u \in Uri : VisibleEntry(cache'[k][u], heads[u])
    <3> SUFFICES ASSUME NEW k \in Cache, NEW u \in Uri, cache'[k][u] # NoEntry
                 PROVE  cache'[k][u].content \in Valid /\ cache'[k][u].content \in heads[u]
      BY DEF VisibleEntry
    <3> DEFINE e == cache[k][u]
    <3>1. cache'[k][u] = Older(e)
      BY <1>4 DEF Tick
    <3>2. e # NoEntry /\ e.left # 0 /\ Older(e) = [e EXCEPT !.left = @ - 1]
      BY <3>1 DEF Older
    <3>3. e \in [content : Content, left : 0 .. Ttl]
      BY <3>2, HitEntry DEF BaseInv, CacheHit
    <3>4. Older(e).content = e.content
      BY <3>2, <3>3
    <3> QED BY <3>1, <3>2, <3>4 DEF VisibleInv, VisibleEntry
  <2>2. ASSUME NEW q \in Proc PROVE VisibleFrame(rpc'[q], heads')
    <3>1. VisibleFrame(rpc[q], heads) /\ heads' = heads
      BY <1>4 DEF VisibleInv, Tick
    <3>2. CASE At(q, "fill")
      <4>1. rpc[q] \in FillFrame /\ rpc'[q] = [rpc[q] EXCEPT !.held = @ + 1]
        BY <1>4, <3>2, RpcKind DEF Tick, At, BaseInv, ServerTypeOK
      <4>2. /\ rpc'[q].stage = rpc[q].stage /\ rpc'[q].uri = rpc[q].uri
            /\ rpc'[q].content = rpc[q].content
        BY <4>1 DEF FillFrame
      <4> QED BY <3>1, <3>2, <4>2 DEF VisibleFrame, At
    <3>3. CASE ~ At(q, "fill")
      BY <1>4, <3>1, <3>3 DEF Tick
    <3> QED BY <3>2, <3>3
  <2> QED BY <1>4, <2>1, <2>2, VisibleStep DEF Tick
<1> QED BY <1>1, <1>2, <1>3, <1>4

LEMMA VisibleInvariant == Spec => []VisibleInv
<1>1. Init => VisibleInv
  BY DEF Init, StoreInit, VisibleInv, VisibleFrame, VisibleEntry, Free
<1>2. BaseInv /\ CallsMatch /\ VisibleInv /\ [Next]_vars => VisibleInv'
  <2> SUFFICES ASSUME BaseInv, CallsMatch, VisibleInv, [Next]_vars
               PROVE  VisibleInv'
    OBVIOUS
  <2>1. ASSUME UNCHANGED vars PROVE VisibleInv'
    BY <2>1, VisibleStep DEF vars
  <2>2. ASSUME Next PROVE VisibleInv'
    BY <2>2, WriteVisible, ReadVisible, OtherVisible DEF Next
  <2> QED BY <2>1, <2>2
<1> QED BY <1>1, <1>2, BaseInvariant, CallsInvariant, PTL DEF Spec

\* Whatever restore or an old database holds, no cache keeps and no caller is
\* given a prompt that does not validate.
THEOREM ServedIsValid == Spec => []OnlyValidServed
<1>1. VisibleInv => OnlyValidServed
  BY DEF VisibleInv, VisibleFrame, VisibleEntry, OnlyValidServed, At, CacheHit
<1> QED BY <1>1, VisibleInvariant, PTL

\* Work on branches never shows in a cache or in a notification before main
\* has carried it, however handlers interleave, die or lose their last steps.
THEOREM HeadsAloneAreVisible == Spec => []OnlyHeadsVisible
<1>1. VisibleInv => OnlyHeadsVisible
  BY DEF VisibleInv, VisibleEntry, OnlyHeadsVisible, CacheHit
<1> QED BY <1>1, VisibleInvariant, PTL

-----------------------------------------------------------------------------
\* The handlers share one cache, nothing fails, and nothing writes behind them.
Undisturbed ==
  /\ \A p, q \in Proc : CacheOf[p] = CacheOf[q]
  /\ Faulty = FALSE /\ PutUri = {}

\* Calls about the same prompt do not overlap.
Apart ==
  \A p, q \in Proc :
    rpc[p] # Free /\ rpc[q] # Free /\ rpc[p].uri = rpc[q].uri => p = q

\* A reader holds the HEAD, and a prompt that is being seeded is absent.
FreshFrame(f, served) ==
  /\ f.stage = "fill" => f.content = served[f.uri]
  /\ f.stage = "seed" \/ (f.stage = "store" /\ f.op = "seed") => served[f.uri] = None

\* Then only an entry that some handler is about to drop is ever stale.
FreshInv ==
  /\ \A p \in Proc : FreshFrame(rpc[p], prompts)
  /\ \A k \in Cache, u \in Uri :
       /\ CacheHit(k, u) => \A p \in Proc : k = CacheOf[p]
       /\ Stale(k, u) => \E p \in Proc : At(p, "drop") /\ u = rpc[p].uri

LEMMA FreshMove ==
  ASSUME BaseInv, NEW p \in Proc, FreshInv, ~ At(p, "drop"), NEW f, Goto(p, f),
         FreshFrame(f, prompts), UNCHANGED <<prompts, cache>>
  PROVE  FreshInv'
<1>1. rpc'[p] = f /\ \A q \in Proc \ {p} : rpc'[q] = rpc[q]
  BY DEF Goto, BaseInv, ServerTypeOK
<1>2. \A q \in Proc : FreshFrame(rpc'[q], prompts')
  BY <1>1 DEF FreshInv
<1>3. \A q \in Proc, u \in Uri : At(q, "drop") /\ u = rpc[q].uri => (At(q, "drop") /\ u = rpc[q].uri)'
  BY <1>1 DEF At
<1>4. ASSUME NEW k \in Cache, NEW u \in Uri
      PROVE  /\ CacheHit(k, u)' <=> CacheHit(k, u)
             /\ Stale(k, u)' <=> Stale(k, u)
  BY DEF Stale, CacheHit
<1> QED BY <1>2, <1>3, <1>4 DEF FreshInv

LEMMA WriteFresh ==
  ASSUME NEW p \in Proc, Undisturbed, Apart, BaseInv, CallsMatch, FreshInv, Write(p)
  PROVE  FreshInv'
<1>0. /\ rpc \in [Proc -> RpcFrame] /\ rpc[p] \in RpcFrame
      /\ FreshFrame(Free, prompts) /\ FreshFrame(rpc[p], prompts)
  BY DEF BaseInv, ServerTypeOK, FreshFrame, Free, FreshInv
<1>1. ASSUME NEW u \in Uri, NEW b \in Branch, NEW c \in Content, NEW m \in Meta,
             PublishPrompt(p, u, b, c, m)
      PROVE  FreshInv'
  BY <1>0, <1>1, FreshMove DEF PublishPrompt, FreshFrame, At
<1>2. ASSUME NEW u \in Uri, NEW c \in Content, NEW m \in Meta, SeedDemo(p, u, c, m)
      PROVE  FreshInv'
  BY <1>0, <1>2, FreshMove DEF SeedDemo, FreshFrame, At
<1>3. CASE CommitCall(p)
  <2> DEFINE r == rpc[p]
             f == [stage |-> "store", op |-> r.stage, uri |-> r.uri,
                   branch |-> r.branch, version |-> r.content]
  <2>1. r.stage \in {"publish", "seed"} /\ Goto(p, f) /\ UNCHANGED <<prompts, cache>>
    BY <1>3 DEF CommitCall, Commit, Tables
  <2>2. FreshFrame(f, prompts) /\ ~ At(p, "drop")
    BY <1>0, <2>1 DEF FreshFrame, At
  <2> HIDE DEF f
  <2> QED BY <1>0, <2>1, <2>2, FreshMove
<1>4. ASSUME NEW u \in Uri, NEW into \in Branch, NEW from \in Branch,
             NEW m \in Meta, MergeBranch(p, u, into, from, m)
      PROVE  FreshInv'
  BY <1>0, <1>4, FreshMove DEF MergeBranch, Merge, Tables, FreshFrame, At
<1>5. CASE MergeBranchFrom(p)
  BY <1>5 DEF MergeBranchFrom, MergeFrom, Tables, FreshInv, Stale, CacheHit, At
<1>6. ASSUME NEW u \in Uri, NEW b \in Branch, NEW h \in Hash, SetBranchCall(p, u, b, h)
      PROVE  FreshInv'
  BY <1>0, <1>6, FreshMove DEF SetBranchCall, SetBranch, Tables, FreshFrame, At
<1>7. ASSUME NEW u \in Uri, NEW name \in Branch, NEW from \in Branch,
             CreateBranchCall(p, u, name, from)
      PROVE  FreshInv'
  BY <1>0, <1>7, FreshMove DEF CreateBranchCall, CreateBranch, Tables, FreshFrame, At
<1>8. CASE CreateBranchInsert(p) \/ StoreFails(p)
  BY <1>0, <1>8, FreshMove
  DEF CreateBranchInsert, BranchInsert, StoreFails, Abort, Tables, At
<1>9. CASE WriteTx(p)
  <2> DEFINE f == rpc[p]
             g == AfterTx(f)
  <2>1. /\ f \in StoreFrame /\ f.uri \in Uri
        /\ \A u \in Uri : prompts'[u] # prompts[u] => u = f.uri /\ f.branch = Main
    BY <1>0, <1>9, TxHead
  <2>2. /\ f.stage = "store" /\ UNCHANGED cache
        /\ rpc'[p] = g /\ \A q \in Proc \ {p} : rpc'[q] = rpc[q]
    BY <1>0, <1>9 DEF WriteTx, Goto, At
  <2>3. g = IF f.branch = Main /\ f.op # "seed"
            THEN [stage |-> "drop", uri |-> f.uri, version |-> f.version] ELSE Free
    BY DEF AfterTx
  <2>4. g.stage \in {"drop", "free"}
    BY <2>3 DEF Free
  <2>5. ASSUME NEW q \in Proc PROVE FreshFrame(rpc'[q], prompts')
    <3>1. CASE q = p
      BY <2>2, <2>4, <3>1 DEF FreshFrame
    <3>2. CASE q # p /\ rpc[q].stage \in {"fill", "seed", "store"}
      <4>1. rpc[q] \in PublishFrame \cup StoreFrame \cup FillFrame
        BY <1>0, <3>2, RpcKind
      <4>2. rpc[q].uri \in Uri
        BY <4>1 DEF PublishFrame, StoreFrame, FillFrame
      <4>3. rpc[q] # Free /\ f # Free
        BY <2>2, <3>2 DEF Free
      <4>4. rpc[q].uri # f.uri
        BY <3>2, <4>3 DEF Apart
      <4>5. prompts'[rpc[q].uri] = prompts[rpc[q].uri]
        BY <2>1, <4>2, <4>4
      <4> QED BY <2>2, <3>2, <4>5 DEF FreshInv, FreshFrame
    <3>3. CASE q # p /\ rpc[q].stage \notin {"fill", "seed", "store"}
      BY <2>2, <3>3 DEF FreshFrame
    <3> QED BY <3>1, <3>2, <3>3
  <2>6. ASSUME NEW k \in Cache, NEW u \in Uri, CacheHit(k, u), ~ Stale(k, u),
               cache[k][u].content # prompts'[u]
        PROVE  g.stage = "drop" /\ u = g.uri
    <3>1. ~ Stale(k, u) /\ cache[k][u].content \in Content
      BY <2>6, HitEntry DEF BaseInv
    <3>2. prompts'[u] # prompts[u] /\ prompts[u] # None
      BY <2>6, <3>1, NoneAssumption DEF Stale
    <3>3. u = f.uri /\ f.branch = Main
      BY <2>1, <3>2
    <3>4. f.op # "seed"
      BY <1>0, <2>2, <3>2, <3>3 DEF FreshFrame
    <3>5. g = [stage |-> "drop", uri |-> f.uri, version |-> f.version]
      BY <2>3, <3>3, <3>4
    <3> QED BY <3>3, <3>5
  <2> HIDE DEF g
  <2>7. ASSUME NEW k \in Cache, NEW u \in Uri, Stale(k, u)'
        PROVE  \E q \in Proc : (At(q, "drop") /\ u = rpc[q].uri)'
    <3>1. CASE Stale(k, u)
      <4>1. PICK q \in Proc : At(q, "drop") /\ u = rpc[q].uri
        BY <3>1 DEF FreshInv
      <4>2. rpc'[q] = rpc[q]
        BY <2>2, <4>1 DEF At
      <4> QED BY <4>1, <4>2 DEF At
    <3>2. CASE ~ Stale(k, u)
      <4>1. CacheHit(k, u) /\ cache[k][u].content # prompts'[u]
        BY <2>2, <2>7 DEF Stale, CacheHit
      <4> QED BY <2>2, <2>6, <3>2, <4>1 DEF At
    <3> QED BY <3>1, <3>2
  <2>8. \A k \in Cache, u \in Uri : CacheHit(k, u)' => CacheHit(k, u)
    BY <2>2 DEF CacheHit
  <2> QED BY <2>5, <2>7, <2>8 DEF FreshInv
<1>10. CASE DropEntry(p)
  <2> DEFINE g == IF rpc[p].version = None THEN Free
                  ELSE [stage |-> "tell", uri |-> rpc[p].uri,
                        version |-> rpc[p].version]
  <2>1. rpc[p] \in HeadFrame /\ CacheOf[p] \in Cache
    BY <1>0, <1>10, RpcKind, CacheAssumption DEF DropEntry, At
  <2>2. rpc[p].uri \in Uri
    BY <2>1 DEF HeadFrame
  <2>3. /\ rpc'[p] = g /\ \A q \in Proc \ {p} : rpc'[q] = rpc[q]
        /\ prompts' = prompts /\ Invalidate(CacheOf[p], rpc[p].uri)
    BY <1>0, <1>10 DEF DropEntry, Goto, Undisturbed
  <2>4. FreshFrame(g, prompts)
    <3>1. g.stage \in {"tell", "free"}
      BY DEF Free
    <3> QED BY <3>1 DEF FreshFrame
  <2>5. /\ cache'[CacheOf[p]][rpc[p].uri] = NoEntry
        /\ \A k \in Cache, u \in Uri : cache'[k][u] = cache[k][u] \/ cache'[k][u] = NoEntry
    BY <2>1, <2>2, <2>3 DEF Invalidate, SetEntry, BaseInv, ServerTypeOK
  <2> HIDE DEF g
  <2>6. ASSUME NEW k \in Cache, NEW u \in Uri, CacheHit(k, u)'
        PROVE  /\ \A q \in Proc : k = CacheOf[q]
               /\ CacheHit(k, u) /\ cache'[k][u] = cache[k][u] /\ u # rpc[p].uri
    <3>1. CacheHit(k, u) /\ cache'[k][u] = cache[k][u]
      BY <2>5, <2>6 DEF CacheHit
    <3>2. \A q \in Proc : k = CacheOf[q]
      BY <3>1 DEF FreshInv
    <3> QED BY <2>5, <2>6, <3>1, <3>2 DEF CacheHit
  <2>7. ASSUME NEW k \in Cache, NEW u \in Uri, Stale(k, u)'
        PROVE  \E q \in Proc : (At(q, "drop") /\ u = rpc[q].uri)'
    <3>1. Stale(k, u) /\ u # rpc[p].uri
      BY <2>3, <2>6, <2>7 DEF Stale
    <3>2. PICK q \in Proc : At(q, "drop") /\ u = rpc[q].uri
      BY <3>1 DEF FreshInv
    <3> QED BY <2>3, <3>1, <3>2 DEF At
  <2>8. \A q \in Proc : FreshFrame(rpc'[q], prompts')
    BY <2>3, <2>4 DEF FreshInv
  <2> QED BY <2>6, <2>7, <2>8 DEF FreshInv
<1>11. CASE Notify(p)
  BY <1>0, <1>11, FreshMove DEF Notify, At
<1> QED BY <1>1, <1>2, <1>3, <1>4, <1>5, <1>6, <1>7, <1>8, <1>9, <1>10, <1>11 DEF Write

LEMMA ReadFresh ==
  ASSUME NEW p \in Proc, Undisturbed, BaseInv, FreshInv, Read(p)
  PROVE  FreshInv'
<1>0. /\ rpc \in [Proc -> RpcFrame] /\ rpc[p] \in RpcFrame
      /\ FreshFrame(Free, prompts) /\ FreshFrame(rpc[p], prompts)
      /\ CacheOf[p] \in Cache
  BY CacheAssumption DEF BaseInv, ServerTypeOK, FreshFrame, Free, FreshInv
<1>1. CASE \/ \E u \in Uri : GetHit(p, u) \/ GetMiss(p, u)
           \/ \E u \in Uri, h \in Hash : GetByRef(p, u, h)
  BY <1>0, <1>1, FreshMove DEF GetHit, GetMiss, GetByRef, FreshFrame, At
<1>2. CASE GetFetch(p)
  <2> DEFINE u == rpc[p].uri
             f == IF prompts[u] \in Valid
                  THEN [stage |-> "fill", uri |-> u, content |-> prompts[u], held |-> 0]
                  ELSE Free
  <2>1. FreshFrame(f, prompts)
    <3>1. CASE prompts[u] \in Valid
      BY <3>1 DEF FreshFrame
    <3>2. CASE prompts[u] \notin Valid
      BY <1>0, <3>2
    <3> QED BY <3>1, <3>2
  <2>2. Goto(p, f) /\ ~ At(p, "drop") /\ UNCHANGED <<prompts, cache>>
    BY <1>2 DEF GetFetch, At
  <2> HIDE DEF f
  <2> QED BY <1>0, <2>1, <2>2, FreshMove
<1>3. CASE GetFill(p)
  <2> DEFINE f == rpc[p]
             g == [stage |-> "reply", uri |-> f.uri, content |-> f.content]
             e == [content |-> f.content, left |-> Ttl]
  <2>1. f \in FillFrame /\ f.stage = "fill"
    BY <1>0, <1>3, RpcKind DEF GetFill, At
  <2>2. f.uri \in Uri /\ f.content = prompts[f.uri]
    BY <1>0, <2>1 DEF FillFrame, FreshFrame
  <2>3. /\ rpc'[p] = g /\ \A q \in Proc \ {p} : rpc'[q] = rpc[q]
        /\ prompts' = prompts /\ CachePut(CacheOf[p], f.uri, f.content)
    BY <1>0, <1>3 DEF GetFill, Goto, Undisturbed
  <2>4. \A k \in Cache, u \in Uri :
          cache'[k][u] = cache[k][u] \/ (k = CacheOf[p] /\ u = f.uri /\ cache'[k][u] = e)
    BY <1>0, <2>2, <2>3 DEF CachePut, SetEntry, BaseInv, ServerTypeOK
  <2>5. \A q \in Proc : FreshFrame(rpc'[q], prompts')
    BY <2>3 DEF FreshInv, FreshFrame
  <2> HIDE DEF g
  <2>6. ASSUME NEW k \in Cache, NEW u \in Uri
        PROVE  /\ CacheHit(k, u)' => \A q \in Proc : k = CacheOf[q]
               /\ Stale(k, u)' => \E q \in Proc : (At(q, "drop") /\ u = rpc[q].uri)'
    <3>1. CASE cache'[k][u] = cache[k][u]
      <4>1. /\ CacheHit(k, u)' => CacheHit(k, u)
            /\ Stale(k, u)' => Stale(k, u)
        BY <2>3, <3>1 DEF Stale, CacheHit
      <4>2. ASSUME NEW q \in Proc, At(q, "drop") /\ u = rpc[q].uri
            PROVE  (At(q, "drop") /\ u = rpc[q].uri)'
        BY <2>1, <2>3, <4>2 DEF At
      <4> QED BY <4>1, <4>2 DEF FreshInv
    <3>2. CASE k = CacheOf[p] /\ u = f.uri /\ cache'[k][u] = e
      BY <2>2, <2>3, <3>2 DEF Stale, Undisturbed
    <3> QED BY <2>4, <3>1, <3>2
  <2> QED BY <2>5, <2>6 DEF FreshInv
<1>4. CASE Reply(p)
  BY <1>0, <1>4, FreshMove DEF Reply, At
<1> QED BY <1>1, <1>2, <1>3, <1>4 DEF Read

LEMMA TickFresh ==
  ASSUME BaseInv, FreshInv, Tick
  PROVE  FreshInv'
<1>1. ASSUME NEW p \in Proc
      PROVE  /\ rpc'[p].stage = rpc[p].stage
             /\ rpc'[p] = rpc[p] \/ /\ rpc[p].stage = "fill"
                                    /\ rpc'[p].uri = rpc[p].uri
                                    /\ rpc'[p].content = rpc[p].content
  <2>1. CASE At(p, "fill")
    <3>1. rpc[p] \in FillFrame /\ rpc'[p] = [rpc[p] EXCEPT !.held = @ + 1]
      BY <2>1, RpcKind DEF Tick, At, BaseInv, ServerTypeOK
    <3> QED BY <2>1, <3>1 DEF FillFrame, At
  <2>2. CASE ~ At(p, "fill")
    BY <2>2 DEF Tick
  <2> QED BY <2>1, <2>2
<1>2. prompts' = prompts
  BY DEF Tick
<1>3. \A p \in Proc : FreshFrame(rpc'[p], prompts')
  BY <1>1, <1>2 DEF FreshInv, FreshFrame
<1>4. ASSUME NEW k \in Cache, NEW u \in Uri, CacheHit(k, u)'
      PROVE  CacheHit(k, u) /\ cache'[k][u].content = cache[k][u].content
  <2> DEFINE e == cache[k][u]
  <2>1. cache'[k][u] = Older(e) /\ Older(e) # NoEntry
    BY <1>4 DEF Tick, CacheHit
  <2>2. e # NoEntry /\ e.left # 0 /\ Older(e) = [e EXCEPT !.left = @ - 1]
    BY <2>1 DEF Older
  <2>3. e \in [content : Content, left : 0 .. Ttl]
    BY <2>2, HitEntry DEF BaseInv, CacheHit
  <2> QED BY <2>1, <2>2, <2>3 DEF CacheHit
<1>5. ASSUME NEW k \in Cache, NEW u \in Uri
      PROVE  /\ CacheHit(k, u)' => CacheHit(k, u)
             /\ Stale(k, u)' => Stale(k, u)
  BY <1>2, <1>4 DEF Stale
<1>6. ASSUME NEW p \in Proc, NEW u \in Uri, At(p, "drop") /\ u = rpc[p].uri
      PROVE  (At(p, "drop") /\ u = rpc[p].uri)'
  BY <1>1, <1>6 DEF At
<1> QED BY <1>3, <1>5, <1>6 DEF FreshInv

\* "The next read reflects a just-published version": where the handlers share one
\* cache (one node, or Redis), nothing fails, nothing writes behind the service and
\* calls about the same prompt never overlap, no entry outlives a call with a
\* version that is not the HEAD, whatever calls about other prompts do meanwhile.
THEOREM WritesLeaveCachesFresh ==
  ASSUME Undisturbed
  PROVE  Spec /\ []Apart => []FreshWhenIdle
<1>1. Init => FreshInv
  BY DEF Init, FreshInv, FreshFrame, Stale, CacheHit, Free
<1>2. BaseInv /\ CallsMatch /\ Apart /\ FreshInv /\ [Next]_vars => FreshInv'
  <2> SUFFICES ASSUME BaseInv, CallsMatch, Apart, FreshInv, [Next]_vars PROVE FreshInv'
    OBVIOUS
  <2>1. ASSUME NEW p \in Proc, Write(p) \/ Read(p) PROVE FreshInv'
    BY <2>1, WriteFresh, ReadFresh
  <2>2. ~ \E p \in Proc : Kill(p)
    BY DEF Kill, Undisturbed
  <2>3. ~ \E k \in Cache : Restart(k)
    BY DEF Restart, Undisturbed
  <2>4. ~ \E u \in Uri, c \in Content : PutCmd(u, c) \/ Restore(u, c)
    BY DEF PutCmd, Restore, Put, Undisturbed
  <2>5. Tick => FreshInv'
    BY TickFresh
  <2>6. UNCHANGED vars => FreshInv'
    BY DEF vars, FreshInv, Stale, CacheHit, At
  <2> QED BY <2>1, <2>2, <2>3, <2>4, <2>5, <2>6 DEF Next
<1>3. FreshInv => FreshWhenIdle
  BY DEF FreshInv, FreshWhenIdle, At, Free
<1> QED BY <1>1, <1>2, <1>3, BaseInvariant, CallsInvariant, PTL DEF Spec

=============================================================================
