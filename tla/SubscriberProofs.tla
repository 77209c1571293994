-------------------------- MODULE SubscriberProofs -------------------------
(***************************************************************************)
(* Proofs about the agent's client, for any number of threads, any TTL,    *)
(* any staleness of the service and any delay of its answers.              *)
(***************************************************************************)
EXTENDS Subscriber, TLAPS

\* A thread's frame is of the kind its stage names.
LEMMA FrameKind ==
  ASSUME NEW f \in Frame
  PROVE  /\ f.stage = "look" => f \in LookFrame
         /\ f.stage = "call" => f \in CallFrame
         /\ f.stage = "answer" => f \in AnswerFrame
         /\ f.stage = "report" => f \in ReportFrame
  BY DEF Frame, Idle, LookFrame, CallFrame, AnswerFrame, ReportFrame

\* An entry that hits has a version and some life left.
LEMMA HitKind ==
  ASSUME SubscriberTypeOK, NEW k \in Key, CacheHit(k)
  PROVE  cache[k].ver \in Version /\ cache[k].left \in 1 .. CacheTtl
  BY DelayAssumption DEF SubscriberTypeOK, CacheHit, Entry, NoEntry

-----------------------------------------------------------------------------
\* Every step keeps the types.
LEMMA TypeStep ==
  ASSUME SubscriberTypeOK, [Next]_vars
  PROVE  SubscriberTypeOK'
<1> USE DelayAssumption, MaxVersionAssumption, ListenerAssumption DEF SubscriberTypeOK
<1>0. Idle \in Frame /\ NoEntry \in Entry
  BY DEF Frame, Entry
<1>1. CASE Publish
  <2>1. head + 1 \in Version
    BY <1>1 DEF Publish, Version
  <2> QED BY <1>1, <2>1 DEF Publish
<1>2. ASSUME NEW v \in Version, Announce(v) \/ Lose(v) PROVE SubscriberTypeOK'
  <2>1. unsent' \subseteq Version
    BY <1>2 DEF Announce, Lose
  <2>2. inbox' \in Seq(Version)
    <3>1. inbox' = Append(inbox, v) \/ inbox' = inbox
      BY <1>2 DEF Announce, Lose
    <3>2. inbox \in Seq(Version) /\ Append(inbox, v) \in Seq(Version)
      OBVIOUS
    <3> QED BY <3>1, <3>2
  <2> QED BY <1>2, <2>1, <2>2 DEF Announce, Lose
<1>3. ASSUME NEW t \in Thread, NEW k \in Key, Get(t, k) PROVE SubscriberTypeOK'
  <2>1. [stage |-> "call", key |-> k, ev |-> NoEvent] \in Frame
    BY DEF Frame, CallFrame
  <2> QED BY <1>3, <2>1 DEF Get, Goto
<1>4. ASSUME NEW t \in Thread, Serve(t) PROVE SubscriberTypeOK'
  <2>1. thread[t] \in CallFrame
    BY <1>4, FrameKind DEF Serve, At
  <2>2. PICK v \in Servable(thread[t].key) :
          Goto(t, [stage |-> "answer", key |-> thread[t].key, ev |-> thread[t].ev,
                   ver |-> v, held |-> 0])
    BY <1>4 DEF Serve
  <2>3. [stage |-> "answer", key |-> thread[t].key, ev |-> thread[t].ev,
         ver |-> v, held |-> 0] \in Frame
    BY <2>1 DEF Frame, AnswerFrame, CallFrame, Servable
  <2> QED BY <1>4, <2>2, <2>3 DEF Serve, Goto
<1>5. ASSUME NEW t \in Thread, Receive(t) PROVE SubscriberTypeOK'
  <2> DEFINE f == thread[t]
             g == IF f.ev = NoEvent THEN Idle
                  ELSE [stage |-> "report", ev |-> f.ev, ver |-> f.ver]
  <2>1. f \in AnswerFrame
    BY <1>5, FrameKind DEF Receive, At
  <2>2. g \in Frame
    BY <2>1, <1>0 DEF Frame, ReportFrame, AnswerFrame
  <2>3. cache' \in [Key -> Entry]
    <3>1. CacheTtl # 0 => [ver |-> f.ver, left |-> CacheTtl] \in Entry
      BY <2>1 DEF Entry, AnswerFrame
    <3> QED BY <1>5, <3>1 DEF Receive, PutEntry
  <2>4. thread' = [thread EXCEPT ![t] = g]
    BY <1>5 DEF Receive, Goto
  <2> QED BY <1>5, <2>2, <2>3, <2>4 DEF Receive
<1>6. ASSUME NEW t \in Thread, RpcError(t) PROVE SubscriberTypeOK'
  BY <1>6, <1>0 DEF RpcError, Goto
<1>7. CASE Handle
  <2>1. Head(inbox) \in Version /\ Tail(inbox) \in Seq(Version)
    BY <1>7 DEF Handle
  <2>2. [stage |-> "look", ev |-> Head(inbox)] \in Frame
    BY <2>1 DEF Frame, LookFrame
  <2> QED BY <1>7, <1>0, <2>1, <2>2 DEF Handle, Goto, Key
<1>8. CASE Look
  <2> DEFINE f == thread[Listener]
             g == IF CacheHit("uri")
                  THEN [stage |-> "report", ev |-> f.ev, ver |-> cache["uri"].ver]
                  ELSE [stage |-> "call", key |-> "uri", ev |-> f.ev]
  <2>1. f \in LookFrame
    BY <1>8, FrameKind DEF Look, At
  <2>2. "uri" \in Key
    BY DEF Key
  <2>3. g \in Frame
    <3>1. CASE CacheHit("uri")
      <4>1. cache["uri"].ver \in Version
        BY <3>1, <2>2, HitKind
      <4> QED BY <4>1, <3>1, <2>1 DEF Frame, ReportFrame, LookFrame
    <3>2. CASE ~ CacheHit("uri")
      BY <3>2, <2>1, <2>2 DEF Frame, CallFrame, LookFrame
    <3> QED BY <3>1, <3>2
  <2>4. thread' = [thread EXCEPT ![Listener] = g]
    BY <1>8 DEF Look, Goto
  <2> QED BY <1>8, <2>3, <2>4 DEF Look
<1>9. CASE OnChange
  BY <1>9, <1>0 DEF OnChange, Goto
<1>10. CASE Tick
  <2>1. retired' \in [Version -> 0 .. MaxAge]
    <3>1. MaxAge \in Nat
      BY DEF MaxAge
    <3>2. ASSUME NEW v \in Version, retired[v] < MaxAge
          PROVE  retired[v] + 1 \in 0 .. MaxAge
      BY <3>1, <3>2
    <3> QED BY <1>10, <3>2 DEF Tick
  <2>2. ASSUME NEW e \in Entry PROVE Older(e) \in Entry
    <3>1. CASE e.left <= 1
      BY <3>1, <1>0 DEF Older
    <3>2. CASE ~ (e.left <= 1)
      <4>1. e \in [ver : Version, left : 1 .. CacheTtl] /\ e.left - 1 \in 1 .. CacheTtl
        BY <3>2 DEF Entry, NoEntry
      <4>2. [e EXCEPT !.left = @ - 1] \in [ver : Version, left : 1 .. CacheTtl]
        BY <4>1
      <4> QED BY <3>2, <4>2 DEF Older, Entry
    <3> QED BY <3>1, <3>2
  <2>3. cache' \in [Key -> Entry]
    BY <1>10, <2>2 DEF Tick
  <2>4. ASSUME NEW t \in Thread, At(t, "answer")
        PROVE  [thread[t] EXCEPT !.held = @ + 1] \in Frame
    <3>1. thread[t] \in AnswerFrame /\ thread[t].held < RpcDelay
      BY <1>10, <2>4, FrameKind DEF At, Tick
    <3>2. thread[t].held + 1 \in 0 .. RpcDelay
      BY <3>1 DEF AnswerFrame
    <3>3. [thread[t] EXCEPT !.held = @ + 1] \in AnswerFrame
      BY <3>1, <3>2 DEF AnswerFrame
    <3> QED BY <3>3 DEF Frame
  <2>5. thread' \in [Thread -> Frame]
    BY <1>10, <2>4 DEF Tick
  <2> QED BY <1>10, <2>1, <2>3, <2>5 DEF Tick
<1>11. CASE UNCHANGED vars
  BY <1>11 DEF vars
<1> QED BY <1>1, <1>2, <1>3, <1>4, <1>5, <1>6, <1>7, <1>8, <1>9, <1>10, <1>11
        DEF Next, Read

\* The client keeps its types.
THEOREM SubscriberTypes == Spec => []SubscriberTypeOK
<1>1. Init => SubscriberTypeOK
  BY DelayAssumption, MaxVersionAssumption
     DEF Init, SubscriberTypeOK, Version, MaxAge, Entry, Frame
<1> QED BY <1>1, TypeStep, PTL DEF Spec

-----------------------------------------------------------------------------
\* Only the thread of the subscription handles events, and it calls get().
OwnEvents ==
  \A t \in Thread :
    /\ At(t, "look") \/ At(t, "report") => t = Listener
    /\ At(t, "call") \/ At(t, "answer") =>
         (thread[t].ev # NoEvent => t = Listener /\ thread[t].key = "uri")

\* A version that has not been replaced has no age.
YoungHeads == \A v \in Version : v >= head => retired[v] = 0

\* An entry's life left makes up for the age of its version.
EntriesAge ==
  \A k \in Key :
    CacheHit(k) => retired[cache[k].ver] + cache[k].left
                     <= CacheTtl + RpcDelay + ServedFor(k)

\* An answer is older than when it was served only by its time on the way.
AnswersAge ==
  \A t \in Thread :
    At(t, "answer") => retired[thread[t].ver] <= thread[t].held + ServedFor(thread[t].key)

\* What the handler finds after dropping the entry was stored since then.
LooksFresh == At(Listener, "look") /\ CacheHit("uri") => cache["uri"].left = CacheTtl

\* The invariant of the staleness bounds.
AgeInv ==
  /\ SubscriberTypeOK
  /\ OwnEvents
  /\ YoungHeads
  /\ EntriesAge
  /\ AnswersAge
  /\ LooksFresh
  /\ RefetchIsFresh

\* How long the service may serve a replaced version is a number of ticks.
LEMMA ServedForNat ==
  ASSUME NEW k \in Key
  PROVE  ServedFor(k) \in Nat
  BY DelayAssumption DEF ServedFor

\* The initial state satisfies the invariant.
LEMMA AgeInit ==
  ASSUME Init
  PROVE  AgeInv
<1>1. SubscriberTypeOK
  BY DelayAssumption, MaxVersionAssumption
     DEF Init, SubscriberTypeOK, Version, MaxAge, Entry, Frame
<1> QED BY <1>1, ListenerAssumption
        DEF Init, AgeInv, OwnEvents, YoungHeads, EntriesAge, AnswersAge, LooksFresh,
            RefetchIsFresh, At, Idle, CacheHit, NoEntry, Key

\* Threads other than the one that moves keep their frames.
LEMMA OtherFrames ==
  ASSUME SubscriberTypeOK, NEW t \in Thread, NEW f, Goto(t, f), NEW s \in Thread
  PROVE  thread'[s] = IF s = t THEN f ELSE thread[s]
  BY DEF SubscriberTypeOK, Goto

\* Every step keeps the invariant.
LEMMA AgeStep ==
  ASSUME AgeInv, [Next]_vars
  PROVE  AgeInv'
<1> USE DelayAssumption, ListenerAssumption DEF AgeInv
<1>0. SubscriberTypeOK'
  BY TypeStep
<1>1. CASE Publish
  <2>1. YoungHeads'
    BY <1>1 DEF Publish, YoungHeads, SubscriberTypeOK, Version
  <2> QED BY <1>0, <1>1, <2>1
          DEF Publish, OwnEvents, EntriesAge, AnswersAge, LooksFresh, RefetchIsFresh,
              At, CacheHit
<1>2. ASSUME NEW v \in Version, Announce(v) \/ Lose(v) PROVE AgeInv'
  BY <1>0, <1>2 DEF Announce, Lose, OwnEvents, YoungHeads, EntriesAge, AnswersAge,
                    LooksFresh, RefetchIsFresh, At, CacheHit
<1>3. ASSUME NEW t \in Thread, NEW k \in Key, Get(t, k) PROVE AgeInv'
  <2> DEFINE f == [stage |-> "call", key |-> k, ev |-> NoEvent]
  <2>1. \A s \in Thread : thread'[s] = IF s = t THEN f ELSE thread[s]
    BY <1>3, OtherFrames DEF Get
  <2>2. UNCHANGED <<head, retired, cache>> /\ t # Listener
    BY <1>3 DEF Get
  <2> QED BY <1>0, <2>1, <2>2
          DEF OwnEvents, YoungHeads, EntriesAge, AnswersAge, LooksFresh, RefetchIsFresh,
              At, CacheHit
<1>4. ASSUME NEW t \in Thread, Serve(t) PROVE AgeInv'
  <2>1. thread[t] \in CallFrame
    BY <1>4, FrameKind DEF Serve, At, SubscriberTypeOK
  <2>2. PICK v \in Servable(thread[t].key) :
          Goto(t, [stage |-> "answer", key |-> thread[t].key, ev |-> thread[t].ev,
                   ver |-> v, held |-> 0])
    BY <1>4 DEF Serve
  <2> DEFINE f == [stage |-> "answer", key |-> thread[t].key, ev |-> thread[t].ev,
                   ver |-> v, held |-> 0]
  <2>3. \A s \in Thread : thread'[s] = IF s = t THEN f ELSE thread[s]
    BY <2>2, OtherFrames
  <2>4. UNCHANGED <<head, retired, cache>>
    BY <1>4 DEF Serve
  <2>5. retired[v] <= ServedFor(thread[t].key)
    <3>1. v \in Version /\ head \in Version /\ retired[v] \in Int
      BY DEF Servable, SubscriberTypeOK
    <3>2. CASE v = head
      <4>1. retired[v] = 0
        BY <3>1, <3>2 DEF YoungHeads, Version
      <4> QED BY <4>1, <2>1, ServedForNat DEF CallFrame
    <3>3. CASE v # head
      BY <3>1, <3>3 DEF Servable, ServedFor
    <3> QED BY <3>2, <3>3
  <2>6. OwnEvents'
    BY <1>4, <2>3 DEF OwnEvents, At, Serve
  <2>7. AnswersAge'
    <3> SUFFICES ASSUME NEW s \in Thread, At(s, "answer")'
                 PROVE  (retired[thread[s].ver] <= thread[s].held + ServedFor(thread[s].key))'
      BY DEF AnswersAge
    <3>1. CASE s = t
      <4>1. thread'[s] = f
        BY <3>1, <2>3
      <4>2. ServedFor(f.key) \in Nat
        BY <2>1, ServedForNat DEF CallFrame
      <4> QED BY <4>1, <4>2, <2>4, <2>5 DEF ServedFor
    <3>2. CASE s # t
      BY <3>2, <2>3, <2>4 DEF AnswersAge, At, ServedFor
    <3> QED BY <3>1, <3>2
  <2> QED BY <1>0, <1>4, <2>3, <2>4, <2>6, <2>7
          DEF YoungHeads, EntriesAge, LooksFresh, RefetchIsFresh, At, CacheHit
<1>5. ASSUME NEW t \in Thread, Receive(t) PROVE AgeInv'
  <2> DEFINE f == thread[t]
             g == IF f.ev = NoEvent THEN Idle
                  ELSE [stage |-> "report", ev |-> f.ev, ver |-> f.ver]
  <2>1. f \in AnswerFrame /\ At(t, "answer")
    BY <1>5, FrameKind DEF Receive, At, SubscriberTypeOK
  <2>2. \A s \in Thread : thread'[s] = IF s = t THEN g ELSE thread[s]
    BY <1>5, OtherFrames DEF Receive
  <2>3. UNCHANGED <<head, retired>> /\ PutEntry(f.key, f.ver)
    BY <1>5 DEF Receive
  <2>4. /\ retired[f.ver] <= RpcDelay + ServedFor(f.key)
        /\ retired[f.ver] \in Int /\ ServedFor(f.key) \in Nat
    BY <2>1, ServedForNat DEF AnswersAge, AnswerFrame, SubscriberTypeOK
  <2>5. OwnEvents'
    BY <2>1, <2>2 DEF OwnEvents, At, Idle
  <2>6. EntriesAge'
    <3>1. CASE CacheTtl = 0
      BY <3>1, <2>3 DEF PutEntry, EntriesAge, CacheHit
    <3>2. CASE CacheTtl # 0
      <4> SUFFICES ASSUME NEW k \in Key, CacheHit(k)'
                   PROVE  retired[cache'[k].ver] + cache'[k].left
                            <= CacheTtl + RpcDelay + ServedFor(k)
        BY <2>3 DEF EntriesAge, ServedFor
      <4>1. CASE k = f.key
        <5>1. cache'[k] = [ver |-> f.ver, left |-> CacheTtl]
          BY <3>2, <4>1, <2>3 DEF PutEntry, SubscriberTypeOK
        <5> QED BY <5>1, <4>1, <2>4
      <4>2. CASE k # f.key
        BY <3>2, <4>2, <2>3 DEF PutEntry, SubscriberTypeOK, EntriesAge, CacheHit
      <4> QED BY <4>1, <4>2
    <3> QED BY <3>1, <3>2
  <2>7. AnswersAge'
    BY <2>2, <2>3 DEF AnswersAge, At, Idle, ServedFor
  <2>8. LooksFresh'
    <3> SUFFICES ASSUME At(Listener, "look")', CacheHit("uri")'
                 PROVE  cache'["uri"].left = CacheTtl
      BY DEF LooksFresh
    <3>1. t # Listener /\ At(Listener, "look")
      BY <2>2 DEF At, Idle
    <3>2. cache'["uri"] = cache["uri"] \/ cache'["uri"].left = CacheTtl
      BY <2>3 DEF PutEntry, SubscriberTypeOK, Key
    <3> QED BY <3>1, <3>2 DEF LooksFresh, CacheHit
  <2>9. RefetchIsFresh'
    <3> SUFFICES ASSUME At(Listener, "report")'
                 PROVE  retired[thread'[Listener].ver] <= RpcDelay + ServedFor("uri")
      BY <2>3 DEF RefetchIsFresh, ServedFor
    <3>1. CASE t = Listener
      <4>1. f.ev # NoEvent /\ thread'[Listener].ver = f.ver
        BY <3>1, <2>2 DEF At, Idle
      <4>2. f.key = "uri"
        BY <4>1, <2>1 DEF OwnEvents
      <4> QED BY <4>1, <4>2, <2>4
    <3>2. CASE t # Listener
      BY <3>2, <2>2 DEF RefetchIsFresh, At
    <3> QED BY <3>1, <3>2
  <2> QED BY <1>0, <2>3, <2>5, <2>6, <2>7, <2>8, <2>9 DEF YoungHeads
<1>6. ASSUME NEW t \in Thread, RpcError(t) PROVE AgeInv'
  <2>1. \A s \in Thread : thread'[s] = IF s = t THEN Idle ELSE thread[s]
    BY <1>6, OtherFrames DEF RpcError
  <2>2. UNCHANGED <<head, retired, cache>>
    BY <1>6 DEF RpcError
  <2> QED BY <1>0, <2>1, <2>2
          DEF OwnEvents, YoungHeads, EntriesAge, AnswersAge, LooksFresh, RefetchIsFresh,
              At, CacheHit, Idle
<1>7. CASE Handle
  <2> DEFINE f == [stage |-> "look", ev |-> Head(inbox)]
  <2>1. \A s \in Thread : thread'[s] = IF s = Listener THEN f ELSE thread[s]
    BY <1>7, OtherFrames DEF Handle
  <2>2. UNCHANGED <<head, retired>> /\ cache' = [cache EXCEPT !["uri"] = NoEntry]
    BY <1>7 DEF Handle
  <2>3. \A k \in Key : CacheHit(k)' => k # "uri" /\ cache'[k] = cache[k] /\ CacheHit(k)
    BY <2>2 DEF CacheHit, NoEntry, SubscriberTypeOK
  <2>4. EntriesAge'
    BY <2>2, <2>3 DEF EntriesAge, ServedFor
  <2>5. LooksFresh'
    BY <2>3 DEF LooksFresh, Key
  <2> QED BY <1>0, <2>1, <2>2, <2>4, <2>5
          DEF OwnEvents, YoungHeads, AnswersAge, RefetchIsFresh, At, ServedFor
<1>8. CASE Look
  <2> DEFINE f == thread[Listener]
             g == IF CacheHit("uri")
                  THEN [stage |-> "report", ev |-> f.ev, ver |-> cache["uri"].ver]
                  ELSE [stage |-> "call", key |-> "uri", ev |-> f.ev]
  <2>1. \A s \in Thread : thread'[s] = IF s = Listener THEN g ELSE thread[s]
    BY <1>8, OtherFrames DEF Look
  <2>2. UNCHANGED <<head, retired, cache>> /\ At(Listener, "look")
    BY <1>8 DEF Look
  <2>3. OwnEvents'
    BY <2>1 DEF OwnEvents, At
  <2>4. RefetchIsFresh'
    <3> SUFFICES ASSUME At(Listener, "report")'
                 PROVE  retired[thread'[Listener].ver] <= RpcDelay + ServedFor("uri")
      BY <2>2 DEF RefetchIsFresh, ServedFor
    <3>1. CacheHit("uri") /\ thread'[Listener].ver = cache["uri"].ver
      BY <2>1 DEF At
    <3>2. "uri" \in Key
      BY DEF Key
    <3>3. cache["uri"].ver \in Version /\ cache["uri"].left = CacheTtl
      BY <3>1, <3>2, <2>2, HitKind DEF LooksFresh
    <3>4. retired[cache["uri"].ver] + CacheTtl <= CacheTtl + RpcDelay + ServedFor("uri")
      BY <3>1, <3>2, <3>3 DEF EntriesAge
    <3>5. retired[cache["uri"].ver] \in Int /\ ServedFor("uri") \in Nat
      BY <3>2, <3>3, ServedForNat DEF SubscriberTypeOK
    <3> QED BY <3>1, <3>4, <3>5
  <2>5. AnswersAge' /\ LooksFresh'
    BY <2>1, <2>2 DEF AnswersAge, LooksFresh, At, ServedFor
  <2> QED BY <1>0, <2>2, <2>3, <2>4, <2>5 DEF YoungHeads, EntriesAge, CacheHit
<1>9. CASE OnChange
  <2>1. \A s \in Thread : thread'[s] = IF s = Listener THEN Idle ELSE thread[s]
    BY <1>9, OtherFrames DEF OnChange
  <2>2. UNCHANGED <<head, retired, cache>>
    BY <1>9 DEF OnChange
  <2> QED BY <1>0, <2>1, <2>2
          DEF OwnEvents, YoungHeads, EntriesAge, AnswersAge, LooksFresh, RefetchIsFresh,
              At, CacheHit, Idle
<1>10. CASE Tick
  <2>1. \A s \in Thread : thread'[s] = IF At(s, "answer")
                                       THEN [thread[s] EXCEPT !.held = @ + 1]
                                       ELSE thread[s]
    BY <1>10 DEF Tick
  <2>2. \A v \in Version : retired[v] \in Int /\ retired'[v] \in Int
                           /\ retired'[v] <= retired[v] + 1
    <3>1. \A v \in Version : retired'[v] = retired[v] \/ retired'[v] = retired[v] + 1
      BY <1>10 DEF Tick
    <3> QED BY <3>1 DEF SubscriberTypeOK
  <2>3. YoungHeads'
    BY <1>10 DEF Tick, YoungHeads, SubscriberTypeOK, Version
  <2>4. \A s \in Thread : At(s, "answer") => thread[s] \in AnswerFrame
    BY FrameKind DEF At, SubscriberTypeOK
  <2>5. \A s \in Thread : /\ thread'[s].stage = thread[s].stage
                          /\ At(s, "call") => thread'[s] = thread[s]
                          /\ At(s, "answer") => /\ thread'[s].ev = thread[s].ev
                                                /\ thread'[s].key = thread[s].key
                                                /\ thread'[s].ver = thread[s].ver
                                                /\ thread'[s].held = thread[s].held + 1
    BY <2>1, <2>4 DEF At, AnswerFrame
  <2>6. OwnEvents'
    BY <2>5 DEF OwnEvents, At
  <2>7. EntriesAge'
    <3> SUFFICES ASSUME NEW k \in Key, CacheHit(k)'
                 PROVE  retired'[cache'[k].ver] + cache'[k].left
                          <= CacheTtl + RpcDelay + ServedFor(k)
      BY DEF EntriesAge, ServedFor
    <3>1. cache'[k] = Older(cache[k])
      BY <1>10 DEF Tick
    <3>2. cache[k] \in Entry /\ ~ (cache[k].left <= 1)
      BY <3>1 DEF Older, CacheHit, NoEntry, SubscriberTypeOK
    <3>3. CacheHit(k)
      BY <3>2 DEF CacheHit, Entry, NoEntry
    <3>4. cache[k].ver \in Version /\ cache[k].left \in 1 .. CacheTtl
      BY <3>3, HitKind
    <3>5. cache'[k].ver = cache[k].ver /\ cache'[k].left = cache[k].left - 1
      BY <3>1, <3>2 DEF Older, Entry, NoEntry
    <3>6. retired[cache[k].ver] + cache[k].left <= CacheTtl + RpcDelay + ServedFor(k)
      BY <3>3 DEF EntriesAge
    <3> QED BY <3>4, <3>5, <3>6, <2>2, ServedForNat
  <2>8. AnswersAge'
    <3> SUFFICES ASSUME NEW s \in Thread, At(s, "answer")'
                 PROVE  retired'[thread'[s].ver]
                          <= thread'[s].held + ServedFor(thread'[s].key)
      BY DEF AnswersAge, ServedFor
    <3>1. At(s, "answer") /\ thread[s] \in AnswerFrame
      BY <2>4, <2>5 DEF At
    <3>2. /\ retired[thread[s].ver] <= thread[s].held + ServedFor(thread[s].key)
          /\ thread[s].ver \in Version /\ thread[s].held \in Int
          /\ ServedFor(thread[s].key) \in Nat
      BY <3>1, ServedForNat DEF AnswersAge, AnswerFrame
    <3> QED BY <3>1, <3>2, <2>2, <2>5
  <2>9. LooksFresh' /\ RefetchIsFresh'
    BY <1>10, <2>5 DEF Tick, LooksFresh, RefetchIsFresh, At
  <2> QED BY <1>0, <2>3, <2>6, <2>7, <2>8, <2>9
<1>11. CASE UNCHANGED vars
  BY <1>0, <1>11 DEF vars, OwnEvents, YoungHeads, EntriesAge, AnswersAge, LooksFresh,
                     RefetchIsFresh, At, CacheHit
<1> QED BY <1>1, <1>2, <1>3, <1>4, <1>5, <1>6, <1>7, <1>8, <1>9, <1>10, <1>11
        DEF Next, Read

\* What hits in the agent's cache was replaced less than its TTL, the delay of
\* an answer and the service's own staleness ago.
THEOREM L1StalenessIsBounded == Spec => []L1StaleWithinTtls
<1>1. AgeInv => L1StaleWithinTtls
  <2> SUFFICES ASSUME AgeInv, NEW k \in Key, CacheHit(k)
               PROVE  retired[cache[k].ver] < CacheTtl + RpcDelay + ServedFor(k)
    BY DEF L1StaleWithinTtls
  <2>1. cache[k].ver \in Version /\ cache[k].left \in 1 .. CacheTtl
    BY HitKind DEF AgeInv
  <2>2. retired[cache[k].ver] \in Int /\ ServedFor(k) \in Nat
    BY <2>1, ServedForNat DEF AgeInv, SubscriberTypeOK
  <2> QED BY <2>1, <2>2, DelayAssumption DEF AgeInv, EntriesAge
<1> QED BY <1>1, AgeInit, AgeStep, PTL DEF Spec

\* When on_change is called, the handler's refetch has passed the L1 cache by.
THEOREM RefetchPassesL1 == Spec => []RefetchIsFresh
<1>1. AgeInv => RefetchIsFresh
  BY DEF AgeInv
<1> QED BY <1>1, AgeInit, AgeStep, PTL DEF Spec

-----------------------------------------------------------------------------
\* No entry and no answer is of a version that is yet to come.
KnownVersions ==
  /\ \A k \in Key : CacheHit(k) => cache[k].ver <= head
  /\ \A t \in Thread : At(t, "answer") => thread[t].ver <= head

LEMMA KnownStep ==
  ASSUME SubscriberTypeOK, KnownVersions, [Next]_vars
  PROVE  KnownVersions'
<1> USE ListenerAssumption
<1>0. head \in Int
  BY DEF SubscriberTypeOK, Version
<1>1. CASE Publish
  <2>1. head' = head + 1 /\ UNCHANGED <<cache, thread>>
    BY <1>1 DEF Publish
  <2>2. ASSUME NEW k \in Key, CacheHit(k) PROVE cache[k].ver <= head + 1
    <3>1. cache[k].ver \in Int
      BY <2>2, HitKind DEF Version
    <3> QED BY <1>0, <2>2, <3>1 DEF KnownVersions
  <2>3. ASSUME NEW t \in Thread, At(t, "answer") PROVE thread[t].ver <= head + 1
    <3>1. thread[t].ver \in Int
      BY <2>3, FrameKind DEF At, SubscriberTypeOK, AnswerFrame, Version
    <3> QED BY <1>0, <2>3, <3>1 DEF KnownVersions
  <2> QED BY <2>1, <2>2, <2>3 DEF KnownVersions, CacheHit, At
<1>2. ASSUME NEW t \in Thread, NEW f, Goto(t, f), UNCHANGED <<head, cache>>,
             f.stage = "answer" => f.ver <= head
      PROVE  KnownVersions'
  <2>1. \A s \in Thread : thread'[s] = IF s = t THEN f ELSE thread[s]
    BY <1>2, OtherFrames
  <2> QED BY <1>2, <2>1 DEF KnownVersions, CacheHit, At
<1>3. ASSUME NEW v \in Version, Announce(v) \/ Lose(v) PROVE KnownVersions'
  BY <1>3 DEF Announce, Lose, KnownVersions, CacheHit, At
<1>4. ASSUME NEW t \in Thread, Read(t) PROVE KnownVersions'
  <2>1. ASSUME NEW k \in Key, Get(t, k) PROVE KnownVersions'
    BY <1>2, <2>1 DEF Get
  <2>2. CASE Serve(t)
    <3>1. PICK v \in Servable(thread[t].key) :
            Goto(t, [stage |-> "answer", key |-> thread[t].key, ev |-> thread[t].ev,
                     ver |-> v, held |-> 0])
      BY <2>2 DEF Serve
    <3>2. v <= head
      BY <1>0, v \in Servable(thread[t].key) DEF Servable, Version
    <3> QED BY <1>2, <2>2, <3>1, <3>2 DEF Serve
  <2>3. CASE Receive(t)
    <3> DEFINE f == thread[t]
               g == IF f.ev = NoEvent THEN Idle
                    ELSE [stage |-> "report", ev |-> f.ev, ver |-> f.ver]
    <3>1. Goto(t, g) /\ PutEntry(f.key, f.ver) /\ head' = head /\ At(t, "answer")
      BY <2>3 DEF Receive
    <3>2. f.ver <= head /\ f.key \in Key
      BY <3>1, FrameKind DEF KnownVersions, At, SubscriberTypeOK, AnswerFrame
    <3>3. g.stage # "answer"
      BY DEF Idle
    <3>4. \A s \in Thread : thread'[s] = IF s = t THEN g ELSE thread[s]
      BY <3>1, OtherFrames
    <3>5. \A k \in Key : \/ cache'[k] = cache[k]
                         \/ cache'[k] = [ver |-> f.ver, left |-> CacheTtl]
      BY <3>1, <3>2 DEF PutEntry, SubscriberTypeOK
    <3> HIDE DEF g
    <3>6. \A k \in Key : CacheHit(k)' => cache'[k].ver <= head'
      BY <3>1, <3>2, <3>5 DEF KnownVersions, CacheHit
    <3>7. \A s \in Thread : At(s, "answer")' => thread'[s].ver <= head'
      BY <3>1, <3>3, <3>4 DEF KnownVersions, At
    <3> QED BY <3>6, <3>7 DEF KnownVersions
  <2>4. CASE RpcError(t)
    BY <1>2, <2>4 DEF RpcError, Idle
  <2> QED BY <1>4, <2>1, <2>2, <2>3, <2>4 DEF Read
<1>5. CASE Handle
  <2>1. \A k \in Key : cache'[k] = cache[k] \/ cache'[k] = NoEntry
    BY <1>5 DEF Handle, SubscriberTypeOK
  <2>2. \A s \in Thread : thread'[s] = IF s = Listener
                                       THEN [stage |-> "look", ev |-> Head(inbox)]
                                       ELSE thread[s]
    BY <1>5, OtherFrames DEF Handle
  <2>3. \A k \in Key : CacheHit(k)' => cache'[k] = cache[k]
    BY <2>1 DEF CacheHit, NoEntry
  <2> QED BY <1>5, <2>2, <2>3 DEF Handle, KnownVersions, CacheHit, At
<1>6. CASE Look
  <2> DEFINE g == IF CacheHit("uri")
                  THEN [stage |-> "report", ev |-> thread[Listener].ev, ver |-> cache["uri"].ver]
                  ELSE [stage |-> "call", key |-> "uri", ev |-> thread[Listener].ev]
  <2>1. Goto(Listener, g) /\ g.stage # "answer" /\ UNCHANGED <<head, cache>>
    BY <1>6 DEF Look
  <2> HIDE DEF g
  <2> QED BY <1>2, <2>1
<1>7. CASE OnChange
  BY <1>2, <1>7 DEF OnChange, Idle
<1>8. CASE Tick
  <2>1. ASSUME NEW k \in Key, CacheHit(k)' PROVE cache'[k].ver <= head'
    <3>1. cache'[k] = Older(cache[k]) /\ head' = head
      BY <1>8 DEF Tick
    <3>2. cache[k] \in Entry /\ ~ (cache[k].left <= 1)
      BY <2>1, <3>1 DEF Older, CacheHit, NoEntry, SubscriberTypeOK
    <3>3. CacheHit(k) /\ cache'[k].ver = cache[k].ver
      BY <3>1, <3>2, DelayAssumption DEF Older, CacheHit, Entry, NoEntry
    <3> QED BY <3>1, <3>3 DEF KnownVersions
  <2>2. ASSUME NEW t \in Thread, At(t, "answer")' PROVE thread'[t].ver <= head'
    <3>1. thread'[t] = (IF At(t, "answer") THEN [thread[t] EXCEPT !.held = @ + 1]
                        ELSE thread[t]) /\ head' = head
      BY <1>8 DEF Tick
    <3>2. At(t, "answer")
      BY <2>2, <3>1 DEF At
    <3>3. thread'[t].ver = thread[t].ver
      BY <3>1, <3>2, FrameKind DEF At, SubscriberTypeOK, AnswerFrame
    <3> QED BY <3>1, <3>2, <3>3 DEF KnownVersions
  <2> QED BY <2>1, <2>2 DEF KnownVersions
<1>9. CASE UNCHANGED vars
  BY <1>9 DEF vars, KnownVersions, CacheHit, At
<1> QED BY <1>1, <1>3, <1>4, <1>5, <1>6, <1>7, <1>8, <1>9 DEF Next

LEMMA KnownInvariant == Spec => []KnownVersions
<1>1. Init => KnownVersions
  BY DEF Init, KnownVersions, CacheHit, NoEntry, At, Idle
<1> QED BY <1>1, KnownStep, SubscriberTypes, PTL DEF Spec

\* Ages change by the clock alone, which makes every replaced version older.
LEMMA RetiredGrows ==
  ASSUME SubscriberTypeOK, [Next]_vars, NEW v \in Version
  PROVE  /\ retired[v] \in Nat /\ retired'[v] \in Nat /\ retired[v] <= MaxAge
         /\ retired'[v] >= retired[v]
         /\ Tick /\ v < head /\ retired[v] < MaxAge => retired'[v] = retired[v] + 1
<1>1. retired[v] \in Nat /\ retired[v] <= MaxAge
  <2>1. retired[v] \in 0 .. MaxAge
    BY DEF SubscriberTypeOK
  <2> QED BY <2>1, DelayAssumption DEF MaxAge
<1>2. CASE Tick
  <2>1. retired'[v] = IF v < head /\ retired[v] < MaxAge THEN retired[v] + 1 ELSE retired[v]
    BY <1>2 DEF Tick
  <2> QED BY <1>1, <2>1
<1>3. CASE ~ Tick
  <2>1. retired' = retired
    BY <1>3 DEF Next, Publish, Announce, Lose, Read, Get, Serve, Receive, RpcError,
                Handle, Look, OnChange, vars
  <2> QED BY <1>1, <1>3, <2>1
<1> QED BY <1>2, <1>3

\* Version v is the HEAD, and all earlier ones were replaced n ticks ago or more.
Settled(v, n) == head = v /\ \A w \in Version : w < v => retired[w] >= n

\* The clock wears out what was replaced: if it goes on, a HEAD that all earlier
\* versions have given way to for n ticks comes to be so for one more, up to the
\* time after which no entry holds anything else, or is replaced; whatever the
\* threads, the bus and the network do in the meantime.
THEOREM ClockRetires ==
  ASSUME NEW v \in Version, NEW n \in 0 .. CacheTtl + RpcDelay + L2Stale
  PROVE  Spec /\ []<><<Tick>>_vars
           => (Settled(v, n) ~> (head # v \/ Settled(v, n + 1)))
<1> DEFINE Goal == head # v \/ Settled(v, n + 1)
<1>0. n \in Nat /\ n < MaxAge /\ MaxAge \in Nat
  BY DelayAssumption DEF MaxAge
<1>1. SubscriberTypeOK /\ Settled(v, n) /\ [Next]_vars => Settled(v, n)' \/ Goal'
  <2> SUFFICES ASSUME SubscriberTypeOK, Settled(v, n), [Next]_vars, head' = v,
                      NEW w \in Version, w < v
               PROVE  retired'[w] >= n
    BY DEF Settled
  <2>1. retired[w] >= n
    BY DEF Settled
  <2>2. retired[w] \in Nat /\ retired'[w] \in Nat /\ retired'[w] >= retired[w]
    BY RetiredGrows
  <2> QED BY <1>0, <2>1, <2>2
<1>2. SubscriberTypeOK /\ Settled(v, n) /\ [Next]_vars /\ <<Tick>>_vars => Goal'
  <2> SUFFICES ASSUME SubscriberTypeOK, Settled(v, n), [Next]_vars, Tick, head' = v,
                      NEW w \in Version, w < v
               PROVE  retired'[w] >= n + 1
    BY DEF Settled
  <2>1. retired[w] >= n /\ w < head
    BY DEF Settled
  <2>2. /\ retired[w] \in Nat /\ retired'[w] \in Nat /\ retired'[w] >= retired[w]
        /\ retired[w] < MaxAge => retired'[w] = retired[w] + 1
    BY <2>1, RetiredGrows
  <2> QED BY <1>0, <2>1, <2>2
<1> QED BY <1>1, <1>2, SubscriberTypes, PTL DEF Spec

\* Time diverges: behind a HEAD that stays, all earlier versions reach the age up
\* to which ages are counted.  (Each step on the way there is ClockRetires.)
TimeDiverges == \A v \in Version : [](head = v) ~> Settled(v, MaxAge)

\* If time diverges, the agent comes to hold a HEAD that stays, or nothing, for
\* good, though every event be lost: no fairness of the bus is needed.
THEOREM TimeMakesAgentConverge == Spec /\ TimeDiverges => AgentConverges
<1> SUFFICES ASSUME NEW v \in Version
             PROVE  Spec /\ ([](head = v) ~> Settled(v, MaxAge))
                      => (<>[](head = v)
                            => <>[](\A k \in Key : CacheHit(k) => cache[k].ver = v))
  BY DEF TimeDiverges, AgentConverges
<1>1. SubscriberTypeOK /\ Settled(v, MaxAge) /\ [Next]_vars /\ (head = v)'
        => Settled(v, MaxAge)'
  <2> SUFFICES ASSUME SubscriberTypeOK, Settled(v, MaxAge), [Next]_vars, head' = v,
                      NEW w \in Version, w < v
               PROVE  retired'[w] >= MaxAge
    BY DEF Settled
  <2>1. retired[w] >= MaxAge /\ MaxAge \in Nat
    BY DelayAssumption DEF Settled, MaxAge
  <2>2. retired[w] \in Nat /\ retired'[w] \in Nat /\ retired'[w] >= retired[w]
    BY RetiredGrows
  <2> QED BY <2>1, <2>2
<1>2. SubscriberTypeOK /\ KnownVersions /\ L1StaleWithinTtls /\ Settled(v, MaxAge)
        => \A k \in Key : CacheHit(k) => cache[k].ver = v
  <2> SUFFICES ASSUME SubscriberTypeOK, KnownVersions, L1StaleWithinTtls,
                      Settled(v, MaxAge), NEW k \in Key, CacheHit(k), cache[k].ver # v
               PROVE  FALSE
    OBVIOUS
  <2>1. cache[k].ver \in Version /\ cache[k].ver <= v
    BY HitKind DEF KnownVersions, Settled
  <2>2. cache[k].ver < v
    BY <2>1 DEF Version
  <2>3. retired[cache[k].ver] >= MaxAge /\ retired[cache[k].ver] \in Int
    BY <2>1, <2>2 DEF Settled, SubscriberTypeOK
  <2>4. retired[cache[k].ver] < CacheTtl + RpcDelay + ServedFor(k)
    BY DEF L1StaleWithinTtls
  <2>5. ServedFor(k) \in Nat /\ ServedFor(k) <= L2Stale
    BY DelayAssumption DEF ServedFor
  <2> QED BY <2>3, <2>4, <2>5, DelayAssumption DEF MaxAge
<1> QED BY <1>1, <1>2, SubscriberTypes, KnownInvariant, L1StalenessIsBounded, PTL DEF Spec

=============================================================================
