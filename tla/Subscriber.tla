----------------------------- MODULE Subscriber ----------------------------
(***************************************************************************)
(* An agent's PromptClient, adapters/python/promptnet/client.py: the L1    *)
(* cache, the application threads that read through it, and the thread of  *)
(* a subscription, whose handler drops the entry, reads the prompt again   *)
(* and then calls on_change.  The bus is internal/pubsub/pubsub.go.        *)
(*                                                                         *)
(* The service is what Server shows it to be: a publish first moves the    *)
(* HEAD and later sends its event, handlers of several publishes overtake  *)
(* one another, and an answer to get is the HEAD or a version replaced     *)
(* less than L2Stale ticks ago.  Versions of the prompt are numbered as    *)
(* they become the HEAD; a rollback counts as a new version.               *)
(***************************************************************************)
EXTENDS Integers, Sequences, FiniteSets

CONSTANTS
  Thread,      \* threads of the agent that use one client
  Listener,    \* the thread of the subscription
  CacheTtl,    \* cache_ttl; 0 disables the L1 cache
  L2Stale,     \* how long the service may serve a replaced version; 0: no L2 cache
  RpcDelay,    \* bound on the time an answer is on its way
  MaxVersion   \* bound on the publishes

ASSUME ListenerAssumption == Listener \in Thread
ASSUME DelayAssumption ==
  /\ CacheTtl \in Nat
  /\ L2Stale \in Nat
  /\ RpcDelay \in Nat
ASSUME MaxVersionAssumption == MaxVersion \in Nat \ {0}

VARIABLES
  head,        \* the version that is the served HEAD
  retired,     \* ticks since each version was replaced, up to MaxAge
  unsent,      \* versions whose publisher has not sent the event yet
  inbox,       \* events delivered to the subscription, oldest first
  cache,       \* the L1 cache
  thread       \* what each thread is doing

vars == <<head, retired, unsent, inbox, cache, thread>>

-----------------------------------------------------------------------------
Version == 1 .. MaxVersion

\* The cache keys get() by URI and list() by ("list", prefix).
Key == {"uri", "list"}

MaxAge == CacheTtl + RpcDelay + L2Stale + 1

NoEntry == [left |-> 0]

\* A value with the time left until its expiry.
Entry == {NoEntry} \cup [ver : Version, left : 1 .. CacheTtl]

NoEvent == 0

Idle == [stage |-> "idle"]

\* The handler, between dropping the entry and looking for one.
LookFrame == [stage : {"look"}, ev : Version]

\* A stub call whose answer the server has not produced yet.
CallFrame == [stage : {"call"}, key : Key, ev : Version \cup {NoEvent}]

\* An answer on its way to the client, and for how long.
AnswerFrame == [stage : {"answer"}, key : Key, ev : Version \cup {NoEvent},
                ver : Version, held : 0 .. RpcDelay]

\* The handler after its get(): ver is what that returned, which the code drops and
\* RefetchIsFresh speaks of; ev is the version in the event.
ReportFrame == [stage : {"report"}, ev : Version, ver : Version]

Frame == {Idle} \cup LookFrame \cup CallFrame \cup AnswerFrame \cup ReportFrame

At(t, stage) == thread[t].stage = stage

Goto(t, f) == thread' = [thread EXCEPT ![t] = f]

-----------------------------------------------------------------------------
\* An entry is a hit while its expiry is in the future.
CacheHit(k) == cache[k].left > 0

\* get and list store what they got, if the cache is enabled.
PutEntry(k, v) ==
  cache' = IF CacheTtl = 0 THEN cache
           ELSE [cache EXCEPT ![k] = [ver |-> v, left |-> CacheTtl]]

\* What the service may answer: get goes through the L2 cache, list does not.
Servable(k) ==
  {v \in Version : v = head \/ (k = "uri" /\ v < head /\ retired[v] < L2Stale)}

-----------------------------------------------------------------------------
\* A publish, a merge into main or a rollback replaces the HEAD.
Publish ==
  /\ head < MaxVersion
  /\ head' = head + 1
  /\ unsent' = unsent \cup {head + 1}
  /\ UNCHANGED <<retired, inbox, cache, thread>>

\* Its event reaches the subscription, in the order of sending ...
Announce(v) ==
  /\ v \in unsent
  /\ unsent' = unsent \ {v}
  /\ inbox' = Append(inbox, v)
  /\ UNCHANGED <<head, retired, cache, thread>>

\* ... or nobody gets it: the publisher died, Publish failed and the error is
\* ignored, the operation sends none, or the agent is not connected.
Lose(v) ==
  /\ v \in unsent
  /\ unsent' = unsent \ {v}
  /\ UNCHANGED <<head, retired, inbox, cache, thread>>

-----------------------------------------------------------------------------
\* get() or list() of an application thread that misses.  (A hit returns the
\* entry's value and changes nothing.)
Get(t, k) ==
  /\ t # Listener
  /\ At(t, "idle")
  /\ ~ CacheHit(k)
  /\ Goto(t, [stage |-> "call", key |-> k, ev |-> NoEvent])
  /\ UNCHANGED <<head, retired, unsent, inbox, cache>>

\* Mutant: the handler does not drop the entry.
HandleKeeping ==
  /\ At(Listener, "idle")
  /\ inbox # <<>>
  /\ inbox' = Tail(inbox)
  /\ Goto(Listener, [stage |-> "look", ev |-> Head(inbox)])
  /\ UNCHANGED <<head, retired, unsent, cache>>

\* The handler takes up an event and drops the prompt's entry (that of list()
\* stays) ...
Handle ==
  /\ At(Listener, "idle")
  /\ inbox # <<>>
  /\ inbox' = Tail(inbox)
  /\ cache' = [cache EXCEPT !["uri"] = NoEntry]
  /\ Goto(Listener, [stage |-> "look", ev |-> Head(inbox)])
  /\ UNCHANGED <<head, retired, unsent>>

\* ... and calls get(), which hits what another thread stored meanwhile, or
\* goes to the server.
Look ==
  /\ At(Listener, "look")
  /\ Goto(Listener,
          IF CacheHit("uri")
          THEN [stage |-> "report", ev |-> thread[Listener].ev, ver |-> cache["uri"].ver]
          ELSE [stage |-> "call", key |-> "uri", ev |-> thread[Listener].ev])
  /\ UNCHANGED <<head, retired, unsent, inbox, cache>>

\* The server answers.
Serve(t) ==
  /\ At(t, "call")
  /\ \E v \in Servable(thread[t].key) :
       Goto(t, [stage |-> "answer", key |-> thread[t].key, ev |-> thread[t].ev,
                ver |-> v, held |-> 0])
  /\ UNCHANGED <<head, retired, unsent, inbox, cache>>

\* The stub returns; the answer is stored whatever the cache holds by now.
Receive(t) ==
  /\ At(t, "answer")
  /\ LET f == thread[t]
     IN /\ PutEntry(f.key, f.ver)
        /\ Goto(t, IF f.ev = NoEvent THEN Idle
                   ELSE [stage |-> "report", ev |-> f.ev, ver |-> f.ver])
  /\ UNCHANGED <<head, retired, unsent, inbox>>

\* Mutant: the handler swallows the error and goes on to on_change without an answer.
RpcErrorSwallowed(t) ==
  /\ At(t, "call") \/ At(t, "answer")
  /\ Goto(t, IF thread[t].ev = NoEvent THEN Idle
             ELSE [stage |-> "report", ev |-> thread[t].ev, ver |-> NoEvent])
  /\ UNCHANGED <<head, retired, unsent, inbox, cache>>

\* The stub raises.  In the handler the refetch is outside the try, so the
\* event ends here, without a call of on_change.
RpcError(t) ==
  /\ At(t, "call") \/ At(t, "answer")
  /\ Goto(t, Idle)
  /\ UNCHANGED <<head, retired, unsent, inbox, cache>>

\* on_change(version, classification), both as the event has them.
OnChange ==
  /\ At(Listener, "report")
  /\ Goto(Listener, Idle)
  /\ UNCHANGED <<head, retired, unsent, inbox, cache>>

\* Mutant: an expiry that never comes.
OlderNever(e) == e

\* An entry whose expiry is reached is a miss for good.
Older(e) == IF e.left <= 1 THEN NoEntry ELSE [e EXCEPT !.left = @ - 1]

\* The clock.  Two statements of the handler that do not block are in one tick.
Tick ==
  /\ \A t \in Thread : At(t, "answer") => thread[t].held < RpcDelay
  /\ ~ At(Listener, "look") /\ ~ At(Listener, "report")
  /\ thread' = [t \in Thread |-> IF At(t, "answer") THEN [thread[t] EXCEPT !.held = @ + 1]
                                 ELSE thread[t]]
  /\ cache' = [k \in Key |-> Older(cache[k])]
  /\ retired' = [v \in Version |-> IF v < head /\ retired[v] < MaxAge THEN retired[v] + 1
                                   ELSE retired[v]]
  /\ UNCHANGED <<head, unsent, inbox>>

-----------------------------------------------------------------------------
Init ==
  /\ head = 1
  /\ retired = [v \in Version |-> 0]
  /\ unsent = {}
  /\ inbox = <<>>
  /\ cache = [k \in Key |-> NoEntry]
  /\ thread = [t \in Thread |-> Idle]

Read(t) ==
  \/ \E k \in Key : Get(t, k)
  \/ Serve(t)
  \/ Receive(t)
  \/ RpcError(t)

Next ==
  \/ Publish
  \/ \E v \in Version : Announce(v) \/ Lose(v)
  \/ \E t \in Thread : Read(t)
  \/ Handle
  \/ Look
  \/ OnChange
  \/ Tick

Spec == Init /\ [][Next]_vars

\* Time does not stop: the clock goes on until every replaced version has been
\* so for as long as its age is counted.  Nothing is assumed of the service or of
\* the bus.
Fairness ==
  \/ []<><<Tick>>_vars
  \/ <>[](\A v \in Version : v < head => retired[v] = MaxAge)

FairSpec == Spec /\ Fairness

-----------------------------------------------------------------------------
(***************************************************************************)
(* Properties.                                                             *)
(***************************************************************************)

\* Types: the handler goes on to on_change only after a get() that returned a
\* version, and the ages of versions stay within their cap.
SubscriberTypeOK ==
  /\ head \in Version
  /\ retired \in [Version -> 0 .. MaxAge]
  /\ unsent \subseteq Version
  /\ inbox \in Seq(Version)
  /\ cache \in [Key -> Entry]
  /\ thread \in [Thread -> Frame]

\* The most ticks since its replacement that a version has when it is served.
ServedFor(k) == IF k = "uri" /\ L2Stale > 0 THEN L2Stale - 1 ELSE 0

\* "TTL is the staleness bound (a change shows up within cache_ttl s)" holds of
\* list() up to the answer's delay.  For get() it does not hold when the service
\* caches too: an answer may be of a version replaced almost L2Stale ticks ago, and
\* is then kept for cache_ttl, so that a change shows up within the sum of both
\* lifetimes and the delay.  That sum is the bound, though an answer may be stored
\* after a notification dropped the entry it replaces.
L1StaleWithinTtls ==
  \A k \in Key :
    CacheHit(k) => retired[cache[k].ver] < CacheTtl + RpcDelay + ServedFor(k)

\* "Drop stale cache ... refetch now": what the handler has in hand when it
\* calls on_change never owes its age to the L1 cache, even when get() hits.
RefetchIsFresh ==
  At(Listener, "report") => retired[thread[Listener].ver] <= RpcDelay + ServedFor("uri")

\* "A push can be missed, so the TTL is the convergence guarantee": once the
\* HEAD stays, both kinds of entries come to hold it or nothing, for good.
AgentConverges ==
  \A v \in Version :
    <>[](head = v) => <>[](\A k \in Key : CacheHit(k) => cache[k].ver = v)

=============================================================================
