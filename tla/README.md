# A TLA+ verification project for promptnet

promptnet serves prompts to agents. A prompt has a URI, a versioned history of
commits with branches, and a served HEAD, which is the tip of its `main`
branch. Servers answer reads through an L2 cache and push notifications to
agents, which keep an L1 cache of their own. Several servers may share one
database.

The project models that machinery in TLA+, checks it with TLC on small
instances and proves the main safety properties with TLAPS for every instance.

## 1. Inventory

| Component | Source | State | Operations | Hard behaviour |
|---|---|---|---|---|
| Versioned store | `internal/store/store.go` | tables `commits`, `refs`, `prompts` | `Open`, `Commit`, `Merge`, `Branch`, `SetBranch`, `Put`, `Log`, `Resolve`, `Get`, `List`, `Dump` | a tip is read outside the transaction that uses it; a hash is a commit's identity across prompts |
| Schema migration | `internal/store/store.go` | `schema_version` | `migrate` | two servers open one database; a crash between two steps |
| Column encryption | `internal/store/crypt.go` | the key of a process | `seal`, `open` | rows written before the key was set |
| Prompt service | `internal/server/server.go` | handlers in progress | `PublishPrompt`, `GetPrompt`, `MergeBranch`, `CreateBranch`, `SetBranch`, and reads | check-then-act over several store calls; invalidate and notify after the commit |
| L2 cache | `internal/server/cache.go`, `redis_cache.go` | an entry and an expiry per URI | get, put, invalidate | a fill that overtakes an invalidation; other nodes' caches; best-effort Redis |
| Access control | `server.go`, `observability.go`, `cmd/promptnet/main.go` | the tokens file, the tokens a server loaded, one limiter per scope | `init`, `loadTokens`, interceptors, `authorize`, `requireWrite` | a file edited under servers that have read it; expiry; concurrent calls at the limiter's burst |
| Pub/sub bus | `internal/pubsub/pubsub.go` | subscriptions | publish, subscribe | lost, late and overtaken events |
| Agent client | `adapters/python/promptnet/client.py` | L1 cache, subscription | `get`, `list`, `subscribe` | a refetch in the handler that fails or hits a stale L2 entry |
| Semantic diff | `internal/semdiff/semdiff.go` | none | hunks, expansion, classification | where hunks end; thresholds |
| Validation | `internal/validate/validate.go` | none | `Prompt` | applied at publish and at serve |
| Command `promptnet` | `cmd/promptnet/main.go` | a backup file | `serve`, `put`, `restore`, `backup`, `seedDemo`, ... | writes behind a running server; rows of several keys in one backup |
| Tool `promptctl` | `cmd/promptctl/main.go` | working tree, index, branches, HEAD; origin and the server | `commit`, `diff`, `promote`, `push`, `pull`, `publish` | a command that fails half way; colleagues who push first |
| Generated stubs | `gen/promptnet/v1` | none | client methods, server handlers | - |

How they meet: the handlers of the service and the offline commands call the
store; handlers of one node share an in-process cache, or those of all nodes
share Redis; a handler that moves `main` invalidates the cache entry and then
publishes an event; the agent client reacts to the event by reading the prompt
again through the service. Every call passes authentication and the rate limit
before its handler. Prompts are written with `promptctl` in a git repository and
reach the service by `PublishPrompt`.

What makes each part correct:

* store: history is append-only and content addressed, a branch's log stays
  within its prompt, merges take the other side's content, and the served HEAD
  and `main` move together;
* service and cache: only validated content reaches an agent, work on a branch
  is invisible to HEAD readers until it is on `main`, and an old version is
  served for a bounded time only;
* database: the schema is never half applied, and a row is read as it was
  written or not at all, whatever keys are in use;
* clients: an old version is in the L1 cache for a bounded time only, and a
  HEAD that stays is what every client comes to hold, with or without events;
* access: no call gets past its handler's checks without a grant in the file its
  server loaded, each org has its own quota, and rotating a key locks nobody out;
* `promptctl`: no invalid prompt is ever committed, a promote changes one prompt
  on one branch, and git is ahead of the server.

`PROJECT.json` lists, under `hazards`, the lines where each of these is hard
to test.

## 2. Modules

| Module | Models |
|---|---|
| `Store` | the three tables and every call that reads or writes them, split at each database statement |
| `Registry` | the abstract specification of the store: branches carry contents, each write takes effect at once |
| `Server` | the handlers, the caches, the notifications, seeding, `put`, `restore` and the clock, over the actions of `Store` |
| `Reads` | the abstract specification of the service towards HEAD readers: what they are given was read as the HEAD, and is not given for longer than a bound after it ceased to be |
| `Semdiff` | one call of the semantic propagation diff and the verdict the server draws from it |
| `Subscriber` | an agent's client: L1 cache, application threads, subscription handler, and the bus, over what `Server` promises |
| `Database` | opening and migrating a database, the encrypted columns, backup and restore, across processes of several releases and keys |
| `Access` | the tokens file and its edits, a server that loads it, and calls on their way through the interceptors to the body of their handler |
| `Promptctl` | a developer's repository, the commands of the tool step by step, origin with colleagues, the served prompts |
| `MCStore`, `MCServer`, `MCDatabase`, `MCAccess`, `MCPromptctl` | instances for TLC: symmetry, the cache all handlers use, two releases, tokens files |
| `StoreProofs`, `ServerProofs`, `SemdiffProofs`, `SubscriberProofs`, `DatabaseProofs`, `AccessProofs`, `PromptctlProofs` | theorems about the module each is named after |
| `Induction` | induction over the natural numbers, for the proofs about the store's log and the diff's table |

### Store

`commits` is the table in order of insertion, `refs[u][b]` the hash a branch
points at, `prompts[u]` the served HEAD. `call[p]` is the frame of the call
that process `p` is in: what it has read and has not used yet. `dag` is a
history variable with the hashes the writes to each prompt returned.

| Action | Code |
|---|---|
| `Commit`, `CommitTx` | `Store.Commit`'s tip read, then the transaction of `commit` |
| `Merge`, `MergeFrom`, `CommitTx` | the tip read of `into`, the reads of `from` and its commit, the transaction |
| `CreateBranch`, `BranchInsert` | `Store.Branch`: the tip read, the insert with its primary key |
| `SetBranch`, `SetBranchTx` | the commit read with its URI check, the transaction |
| `Abort` | every error return after the first read, with the deferred rollback |
| `Put` | the upsert that `put` and `restore` use |

A transaction is one step, since both databases give the writers atomicity;
between two statements outside a transaction other callers run. A content
stands for a template with its slots. A commit hash is the number of the row it
names: the preimage of `CommitHash` (content, parents, author, message; not the
URI) determines it, and hash collisions are left out. A meta is an author with
a message. The `created_at` column is not modelled: nothing reads it but the
log's display. `MergeFrom` joins the tip read of `from` and the read of that tip's
commit: rows never change, so nothing can come between the two.

### Server

`rpc[p]` is the frame of the handler of process `p`: past validation and the
look at the HEAD (`publish`, `seed`), inside a store call (`store`), past the
transaction (`drop` the cache entry, then `tell` the subscribers), and for a
read past a miss (`fetch`), past the read (`fill`), and with its answer
(`reply`). `cache[k][u]` is an entry with its remaining life. `told[u]` is the
version in the last notification. `heads` and `gone` are history variables: the
versions the HEAD has had, and for each version the time since it was the HEAD
(counted up to `MaxAge`, one tick more than a cache may serve it).

`PublishPrompt` refuses what does not validate and, on `main`, what the HEAD
already is, unless its look at the HEAD fails (`Faulty`): that error is passed over
and the same content committed and announced again. `CommitCall`, `MergeBranch`, `SetBranchCall` and
`CreateBranchCall` take the store's actions as they are. `AfterTx` is the
handler's decision after a successful store call. `DropEntry`, `Notify`,
`GetMiss` and `GetFill` may lose their effect when `Faulty`, as Redis and the
bus are best effort in the code. `Kill` ends a handler anywhere, also between
the transaction and its last steps, and stands for a crash and for a
transaction that took effect and was reported as failed. `Restart` empties an
in-process cache. `PutCmd` and `Restore` write behind the service. `Tick`
advances the clock; a reader is at most `FillDelay` ticks between its read and
its fill, which stands for a request's deadline.

### Semdiff

One call, of `classify` for a notification's verdict or of a diff (`caller`), with
an embedder configured or not (`embedder`; only `classify` asks). `NoVerdict` is
`classify`'s early return, without an embedder or for an empty old text, and
`Analyze` the call in the other cases. Then the sequential run, step by step: `Match`, `OpenHunk`, `Skip`,
`CloseHunk` and `TrailingHunk` are the loop of `changes` over the LCS table
(`Lcs`); `PointDelta`, `Widen`, `EndUp` and `EndDown` are `analyzeChange` and
`expand`; `EmbedFails` is an error of the embedder; `Conclude` ends the call, with
`Worst` of the results for `classify` and with the results themselves for a diff.
A text is a sequence of at least one line, which is
what splitting a string gives. Deltas and thresholds are in hundredths. The
embedder is abstract: two texts that differ have any delta, the same one whenever
they are compared again in the call, since the vectors are cached (`known`). A
direction keeps the last point of its curve, the only one the classification
reads.

### Subscriber

One prompt and one client. `head` numbers the versions in the order in which they
became the HEAD (a rollback is a new number), `retired` is the time since each was
replaced, `unsent` and `inbox` are the events before and after delivery, `cache`
holds an entry with its remaining life for `get` and one for `list`, and
`thread[t]` is what a thread is doing: a call without an answer, an answer on its
way, or, in the handler, the points before and after the refetch.

`Get`, `Serve`, `Receive` and `RpcError` are a read through the cache, split where
other threads and the server run. `Handle` takes up an event and drops the entry,
`Look` is the handler's `get()`, `OnChange` the callback, which is given the version
that the event names and not what the refetch returned (its result only fills the
cache); an error of the refetch ends the event without it. `Publish`, `Announce` and `Lose` are the service and
the bus: events arrive in the order they are sent, but the handlers that send them
overtake one another, and any of them may be lost.

The module composes with `Server` by contract rather than by actions: an answer to
`get` is the HEAD or a version replaced less than `L2Stale` ticks ago, while `list`
reads the store. The contract is `Reads`, which `Server` implements with the bound
`Ttl + FillDelay`, so `L2Stale` is `Ttl + FillDelay + 1`. It is about the time since
the version itself was replaced: that the HEAD has changed recently would not do,
since a cache might then hold on to a version from before several changes. With the
handlers of `Server` inside, the instance would be out of TLC's reach.

### Database

`tables` are the applied migrations, `versions` the rows of `schema_version`,
`rows` the prompts table, and `asked` is a history variable with the key setting
of each row's writer. A process opens with the setting of its environment
(`Open`), reads the recorded version (`ReadVersion`), runs one transaction per
missing step (`Migrate`; a step that is there already changes nothing), loads its
cipher and is up (`FinishOpen`), or fails and is down again. `Stop` is a crash or an
error anywhere before. `Write` is an upsert. `Backup` dumps all rows, or fails
without touching the file, and then writes the file, perhaps not to its end
(`complete` is the success it reports); rows written between the dump and the file
are not in it, so `BackupIsTrue` speaks of the table at the dump. `RestoreLine` upserts one line, sealed
with the key of the process that restores; a restore may stop between lines.

A column has the key it was sealed with, its value, and whether its text begins
with the marker `enc1:`. `OpenColumn` decides by the marker, as `open` does. A
template that begins with the marker itself, stored without a key and read with
one, is refused; the comment in `crypt.go` says so, and `RolloutReadable` excludes
that case and no other: a marked template that was sealed, or that is read without
a key, is read as it was written.

### Access

`file` is the tokens file, which `InitCmd` creates (without `-force`) and the
operator edits along `Plan` (`Edit`); the one rule of a plan is the documented
one, that a key is dropped once its expiry has passed. `Serve` loads the file and
the environment's token once and takes its flags; `Stop` ends the process, and its
calls. `call[p]` is a call: sent by a client stub (`Send`), past authentication
with its scope and grant (`AuthInterceptor`), at its limiter (`GetLimiter`, made
under the lock on first use), let through or refused (`Allow`, `Unlimited`), at
its handler's checks (`Handle`), in the body (`Return`). `Dispatch` is the
generated handler that runs this chain. `known`, `admitted` and `upFor` are history
variables.

A line is its token and its fields by kind (`rw`, `ro`, an expiry, a word);
`Parse` takes them in any order, the last org and the last expiry stand, and
`LoadTokens` lets the last line of a token stand over earlier ones and over the
environment. A clock tick is a second, and a bucket is counted in parts of a
request, so that a fraction of a request per second can be a rate. The limiter
itself (`Refill`) is external. Request bodies are those of the other modules: here
a request is its token, its org and whether it changes anything.

### Promptctl

`disk`, `index`, `head` and `refs` are the repository: working tree, staging area,
the branch HEAD is on, and each branch as the sequence of its commits. `origin`
is the remote, `served` what the server serves, `cmd` the command in progress with
what it has read.

| Action | Code |
|---|---|
| `CommitCmd`, `AddAll`, `CommitIndex` | `commit`: `validateAll`, the add of everything, the commit |
| `Promote`, `Checkout`, `WriteFile`, `AddPath`, `CommitIndex` | `promote` up to its first effect, then one step per effect |
| `PushCmd`, `Push`, `AfterPush` | `pushCmd`: `validateAll`, the push, and with `-server` the publishing |
| `PublishCmd`, `PublishOne`, `PublishDone` | `publishCmd` and the loop of `publishToServer` |
| `Pull` | `pull`, fast forward only, as go-git does it |
| `Fail`, `CheckoutFails`, `PushLost` | `log.Fatal` after each step; what was done stays |

`Changed` is what `diffCmd` reports. go-git is external: a push sends all branches
or, when one is behind, none; a checkout wants the tracked files unmodified, and
one that is refused may have moved HEAD already. Untracked files are kept or
removed, either way. Files are edited between commands, not during one. Colleagues
push trees whose prompts are valid, since they use the same tool. They push to
origin only: `served` has one writer, so `PushPublishesPushed` is about what this
developer publishes. `AllValid` takes the working directory for the root of the
repository, where `validateAll` looks for the prompts (promptctl/main.go:317).

## 3. Runs

Passing:

| Run | Instance | Checks |
|---|---|---|
| `store_history` | two callers, one prompt, two branches, 3 commits | types, a commit onto a tip that is already that commit changes nothing, merges take theirs, HEAD is main's tip, the store implements `Registry` |
| `store_prompts` | one caller, two prompts that share content, `put` | the log is a lineage within the prompt, pins stay within it, history is append-only, commits extend the tip |
| `server_sequential` | one handler and its cache, two branches, 3 commits, no faults | caches are fresh when no handler runs, only HEADs are visible |
| `server_faulty` | two handlers over one cache, a commit, `put` and `restore` (two valid contents and an invalid one), all faults, time goes on | only valid content is served, staleness is bounded, caches converge to a HEAD that stays |
| `semdiff` | all pairs of texts of one to four lines over two lines, a publish's classification and a diff, no embedder or any one with two deltas | the hunks are a minimal edit script, a shift spreads to an end only through context, every change of a prior version gets a verdict, the loops end |
| `subscriber` | an application thread and a subscription, three versions, time goes on | L1 staleness is bounded by both caches' lifetimes and the answer's delay, a refetch never owes its age to L1, the client converges |
| `database` | an older and a newer release (two and four migrations), two keys, no key, an unusable key | the schema is a prefix of the list, an open store has its tables, rollout keeps rows readable, rows are sealed when asked, backups are true and complete |
| `access` | two concurrent calls, four tokens, two orgs, a rotation of three edits, three rate limits | calls are granted, an org gets no more than its rate and no less than its burst, rotation locks no key out |
| `promptctl` | two files, two branches, a valid and the empty content, 2 commits | no invalid commit, a promote is exact, push goes to git first, diff sees every change |

Violations, each of a sentence that a comment or the README of promptnet
states (`findings` in `PROJECT.json` has the quotations):

| Run | What it shows |
|---|---|
| `store_lost_update` | two callers read one tip; the second commit replaces the first instead of extending it |
| `server_stale_fill` | a reader fills the cache with the old version after a publish invalidated it |
| `access_comment` | a comment after the fields of a tokens line, as in the README's own example: its last word becomes the org |

Five more places where code and text part are part of the models and have no run
of their own. Two prompts first published with the same content and meta share one
commit row, which the second cannot pin, though each prompt is said to have its
own history (README.md:194): `PinsStayWithinPrompt` excepts shared commits. A
merge into `main` moves the HEAD and announces nothing (README.md:19): agents learn
of it by expiry alone. A line of the file for the token in `PROMPTNET_TOKEN`
replaces its grant (README.md:460). A change is said to show up in the client
"within cache_ttl s" (client.py:64); when the service caches too, an answer may be
almost a service TTL old before the client keeps it for `cache_ttl`, so the bound
that holds, and that `L1StaleWithinTtls` states, is the sum of both lifetimes and the
answer's delay. And the seed looks for its prompt in one
statement and commits in another, so that a prompt published in between gets the
demo text on top (the comment at main.go:168 says it never touches user data).

`FreshWhenIdle` and `CommitExtendsTip` hold when calls do not overlap
(`server_sequential`, `store_prompts`) and fail when they do: the pairs of runs
say exactly what concurrency takes away. `FreshWhenIdle` also needs one cache: a
handler invalidates its own (server.go:84), so with two nodes' in-process caches an
entry on the other node stays, without any overlap, until its TTL ends. Then
`StaleWithinTtl` and `CachesConverge` are what is promised.

Two limits of `HeadIsMainTip` are part of its statement: it excludes the prompts
that `put` and `restore` write (they replace the HEAD without a commit), and it
says nothing of a prompt without a HEAD (a `main` created by `CreateBranch` from
another branch has a tip and no HEAD until the next write to it).

Bounds. Two callers are enough for every race between two statements; the
properties speak of one branch, one entry or one pair of commits at a time.
Three commits give a root, a commit on each branch and a merge of the two.
Two commits give a parent, a child and, over two prompts, a shared row. Two
contents tell an old version from a new one. A TTL of one tick lets an entry
outlive the change that made it stale. In `server_faulty` a commit, `put` and
`restore` replace the HEAD any number of times, and the one cache stands for that
of another node too, which is a cache that no invalidation reaches: here each may
be lost. There is no fill delay beyond the tick, in which a fill may still overtake
an invalidation; longer delays, more caches and more handlers are covered by the
proofs of `StaleWithinTtl` and of what convergence rests on. Branches, which need
more commits, are in `server_sequential`; that they stay invisible under
concurrency and faults is proved (`HeadsAloneAreVisible`). Texts of
four lines hold a change with three lines beyond it, which is the least for a
second window (radius 4), and two deltas tell a shift that persists from one
that decays below the persistence fraction; equal texts add the delta zero. In
`Subscriber` lifetimes of two ticks and a delay of one let an entry, an answer and
a cached version of the service each be old in its own way, and three versions let
an event be overtaken by two others. In `Database` a release two migrations behind
another one lets either open a schema that the other has left half way, and two
prompts let a backup meet rows of different keys or be short by one. In `Access`
two calls race for a limiter and for its last request, and two ticks let a key
lapse, a bucket refill and a fraction of a request add up; a rate below one
request a second exercises the default burst. In `Promptctl` two commits give
each branch one, or the developer and a colleague one, and two files let a promote
find other work in the tree; one valid content and two commits are enough for TLC
because the proofs cover any number. `access` and `promptctl` use the symmetry of calls and of files. The
commits table is bounded by `MaxCommits` in the guard of `CommitTx`: a call that
would exceed it can only fail.

Fairness. `Server` and `Subscriber` assume of the world that time does not stop,
and nothing else: ticks recur for ever, or until every replaced version has been
gone for as long as the history counts (`Fairness` of each module). No fairness of
handlers, readers, writers, threads, the bus or invalidations is needed: a
handler may die anywhere, and hang anywhere but between its read and its fill. Weak or strong fairness of `Tick` would be the
wrong assumption: a tick waits for the readers whose deadline has come, and with
two of them whose fills overlap there are behaviours in which time is held up for
ever while reads go on, which no clock does. That a reader fills within `FillDelay`
ticks stands for a request's deadline. The client's calls have no deadline, so that
an answer is on its way for at most `RpcDelay` is an assumption about the network.
`Access`, `Promptctl` and `Database` claim safety only.
`Semdiff`'s `FairSpec` assumes
that the call keeps running and that the embedder answers or fails; the HTTP
client has no timeout, so a silent endpoint is outside that assumption.

## 4. Proofs

All theorems hold for any sets of prompts, branches, contents, metas, callers
and caches, any TTL and fill delay and any bound on the commits table. The
assumptions are the named ones of `Store` and `Server`: `main` is a branch, no
content is `None`, the sets given for `put`, seeding and validation are subsets of
what they select from, times are natural numbers.

`StoreProofs`. `HeadIsMainTip` and `MergeTakesTheirs` are not
inductive alone: a call in progress holds hashes and content it read earlier.
`StoreInv` adds that parents are older rows (`ParentsOlder`), that the refs, the
parents and the rows of a prompt are in its history (`HistoryOwned`), and that so
is whatever a frame holds, with a merge's content being that of its second
parent (`FramesOwned`), and that no two rows are the same node (`OneRowPerNode`). The reads only replace a frame (`FrameStep`), the two
ref-moving steps share `MoveStep`, and `InsertFacts` says what the insert that
ignores a conflict does to the table. `RecommitsAreIdempotent` needs
`OneRowPerNode`: the hash computed for a commit that is the branch's tip is that
tip's, and so neither the insert nor the move of the branch changes anything.
`PinsAreOwn`, `HistoryIsAppendOnly` and the
refinement `StoreImplementsRegistry` follow from the same invariant; for the
refinement the transaction of a publish or a merge maps to `Publish`, that of a
rollback to `Reuse`, the insert of a ref to `Fork`, and every read to a stutter.

`LogsAreLineages` is about a recursive function, so three things come before the
lineage itself: the walk is defined at every row because parents are older
(`WalkExists`, by induction on the row), it therefore satisfies its equation
(`WalkEquation`), and by induction again what it returns from a row of a prompt's
history is a `Lineage`: it stays in that history, falls strictly, and ends at a
root. `CommitsExtendTips` assumes one caller; `TipStillRead` says that the tip its
call has read is still the branch's, and `InsertFacts` that the commit the branch
moves to has that tip as its parent even when the row was there before.

`ServerProofs`. `StoreSimulation` shows each step of the service to be a step of
the store or to leave it alone, so `Spec => StoreSpec`, and the store's theorems
carry over (`ServerHeadIsMainTip`, and the refinement of `Registry` by
`ServerImplementsRegistry`). `StalenessIsBounded` rests on `StaleInv`: the HEAD has
been gone for no time (`HeadIsHere`), for an entry the time its version has been
gone and its remaining life together stay within `Ttl + FillDelay` (`EntryLife`),
and a reader that holds a version has held it at least since that version ceased to
be the HEAD (`HeldVersion`).

`ServerImplementsReads` is the refinement that `Subscriber` depends on. `held` maps
the caches and the readers between their read and their fill to the versions that
may be given out. The transaction of a write, `put` and `restore` map to `Move` or,
on a side branch, to a stutter (`HeadMoves`, which needs `HeadIsHere` for a write of
what the HEAD already is); reads, fills, drops, deaths and restarts to `Hold`
(`HoldStep`: a fetch adds the HEAD of the moment, a fill adds to a cache what its
reader held before); a tick to `Pass`, where `StaleInv` says that nothing that has
been gone for too long is left (`TickPasses`).

Convergence is proved up to counting. `ClockWearsOut` is the step: as long as ticks
recur, a HEAD next to which all others have been gone for `n` ticks comes to be one
for `n + 1`, or is replaced, because only a change of the HEAD makes a version less
gone (`GoneGrows`). `TimeMakesCachesConverge` is the end: if all others come to be
gone for `MaxAge` ticks (`TimeDiverges`), then from there on `StaleWithinTtl` leaves
nothing but the HEAD for a cache to hold. Chaining `Ttl + FillDelay + 1` of the
steps is an induction over a temporal formula, which the prover lacks; TLC checks
the whole, from the recurring clock alone, in `server_faulty`.

`ServedIsValid` and `HeadsAloneAreVisible` need to know what a handler's
transaction writes. `CallsMatch` ties the frame of a handler to the frame of its
store call: same prompt, same branch, and the version it will announce is the one
the call stores (for a rollback, the content of the row it read, which no other
caller can change: the store's `RowsKept`). `VisibleInv` then follows contents on
their way out: what a reader holds for the cache is valid and has been the HEAD,
and so is, or was, what a writer is about to announce. `WritesLeaveCachesFresh`
goes beyond the instance of `server_sequential`: any number of handlers that share
one cache, no faults and no writes behind the service (`Undisturbed`), under the
hypothesis `[]Apart` that calls about the same prompt do not overlap, while those
about other prompts run as they like. `FreshInv` says that then only an entry that
some handler is about to drop can be stale, and that what a reader holds is still
the HEAD when it fills; `Apart` is used where a transaction moves a HEAD under the
other handlers' frames. Without the one cache the statement is false (section 3).

`SemdiffProofs`. `HunksTransform` speaks of finished hunks; `DiffInv` adds how far
the two texts are known to agree: up to the lines passed (outside a hunk) or up
to the start of the open one. The choice that the LCS table makes is irrelevant
to it. `EdgesDoNotSpread` needs `WindowInv`: while a hunk is analysed the delta of
the changed region is fixed at Signal 2, and with nothing beyond the hunk the
window is that region and the curve is flat. `ChangesAreClassified` adds that
equal texts are passed in step and that a call which `classify` ends early never
reaches a verdict (`VerdictInv`).

`DiffsAreMinimal` has two halves. For the table, `TableExists` and `TableEquation`
show by induction on the lines left that the recurrence has a solution, and
`TableBounds` that its entry at a pair bounds every common subsequence of what is
left (`Common`, the reference definition as a function of the texts): if the next
lines agree, dropping the first of both sides costs one (`CommonWithoutFirst`);
if they do not, one of the sides does not use its next line (`RankOfLeast`). For
the loop, `MinimalInv` says that the lines copied outside the hunks plus the entry
ahead are no fewer than the entry at the beginning: a match trades one for the
other, a skip goes to the larger neighbour, and a hunk that ends adds exactly its
own lines to those left out (`HunkAdds`), since it begins past all others.

`AnalysisMakesProgress` is the part of `AnalysisEnds` that needs no fairness: each
step lowers what is left to scan, to analyse or to widen, in the lexicographic
order of three natural numbers. The hunk that closes has passed a line (from
`DiffInv`), and a window that is not at an edge is narrower than the longest
text (`NarrowWindow`), which bounds the radius (`RadiusInv`). The assumptions are those of
`Semdiff`: lengths are bounded by some number, deltas are hundredths.

`SubscriberProofs`. `L1StaleWithinTtls` is inductive once the frames are added: an
answer on its way is at most as old as the service allows plus the time it was
held, and for an entry the age of its version and its remaining life together stay
within the bound. `ClockRetires` and `TimeMakesAgentConverge` are the counterparts of
the two theorems on convergence above; here versions are numbered, so they also
need that nothing in the client is newer than the HEAD (`KnownVersions`).
`RefetchIsFresh` needs that between the drop and the look no
time passes, so that an entry found there was stored in this instant.

`DatabaseProofs`. `SchemaPrefix` (the recorded versions are `1 .. n`) and
`LoopBehind` (a process in the loop never is ahead of the schema) carry the
migration: a step of a process that lags repeats what is there, one of a process
that is level extends the prefix. `KeyAsAsked` and `RowsSealed` (both columns of a
row are sealed with one key) carry the reads: without a key a sealed template
would be returned as it is, and it is the slots, which are no JSON then, that make
the read fail (`ReadIsTrue`). The assumptions are those of `Database`: keys, settings and results
are told apart, releases have finitely many migrations.

`BackupsAreTrue` is the action property that follows: a dump reads every row
truly or fails, and what is written of it is a part, or all, of the table.

`AccessProofs`. `RateIsBounded` and `QuotaIsOwn` follow from one conservation law
(`Conserved`): what a scope was let through and what its bucket holds together
never exceed burst plus rate times time, nor fall below the burst; two calls at
one limiter cannot break it because the lock makes one limiter per scope.
`CallsGranted` needs that the scope and the grant a call carries are those of its
token in the file this server loaded, and not in the file of now (`GrantInv`,
`ContextIsCredential`), and that `Parse` grants what a line says (`ParseGrants`).
`KeysRotate` rests on `RotationInv`: every token some server knew is still in the
file, and in each server's copy, or has an expiry the operator gave it that has
passed.

`PromptctlProofs`. `CommitsAreValid` is not inductive: a commit takes the index,
which an earlier command may have staged. `CommitInv` adds that what a running
command has staged, or is about to, is valid (`StagedValid`), and what a promote
has reached at each of its steps (`PromoteSoFar`): valid content, HEAD on its
branch, and from the checkout on an index that is that branch's tree, whatever was
staged before. `PromotesAreExact` follows from the same invariant. `PushesComeFirst` relates the loop that publishes
to what origin has, while colleagues go on pushing. `DiffIsComplete` needs only
that HEAD's tree holds valid prompts.

`Induction`. The library's induction theorems take the property as an operator,
which the provers cannot instantiate. Here the property is the set of numbers
that have it (`StrongInduction`, `SimpleInduction`), and the proof is from the
well-foundedness of the natural numbers: a non-empty set has a least element.

Every safety property that a run checks is also a theorem. Of the three liveness
properties the prover gets the parts that need no fairness and no temporal
induction: the descending measure of `AnalysisEnds`, and for `CachesConverge` and
`AgentConverges` each step of the clock and the conclusion from diverging time.
That recurring ticks make time diverge, and that a call that keeps running descends
to its end, is model-checked. `CommitExtendsTip` is proved for one caller and
`FreshWhenIdle` for callers of one cache whose calls about a prompt do not overlap;
the violation runs show that overlapping calls break the sentences behind them.

## 5. Not modelled

* the text of templates, slots, URIs and the regular expressions of the
  validator: a content is valid or not;
* the ciphers, TLS, metrics, the audit log, protobuf and gRPC: they keep no state
  of the protocol;
* `List`, `History` and the diffs as calls: plain reads of the tables. How the
  prefix of `ListPrompts` is cut into an org is text;
* `init -force`, which drops all keys on purpose, and two inits at the same time;
* files that change while a `promptctl` command runs, `promptctl log`, merges made
  with git itself, and how go-git stores anything;
* the flags of the commands beyond tokens and limits, and their output;
* `watch` and its hook, `list`, `diff` and `publish` of `promptnet`: one call or
  subscription and its output;
* embeddings and their cosine, which are floating point: a delta is any number
  of hundredths;
* a TTL of zero: the in-process cache is off, and a Redis entry has no lifetime
  for `StaleWithinTtl` to bound;
* a cipher's work: only the sealing key opens a sealed value;
* the verdict that an event carries, and what an agent's `on_change` does with it.

## 6. Plan

Done: the store and its abstract registry, the service with its caches, the
semantic diff, the agent's client, the database with its backups, access control,
the authoring tool, and the service's promise to its readers as an abstract
specification. Left: the verdicts of events in `Server` and `Subscriber`, against
which HEAD a verdict is computed, and which change the agent's next read returns.
