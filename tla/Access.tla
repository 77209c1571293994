------------------------------- MODULE Access ------------------------------
(***************************************************************************)
(* Who may call the service: `promptnet init` and the tokens file, which a *)
(* server reads once, when it starts (loadTokens in cmd/promptnet/main.go),*)
(* and the way of a call through the interceptors of internal/server       *)
(* (authentication, the rate limit of each org) to its handler, whose      *)
(* first lines check the write grant and the org.  The operator edits the  *)
(* file along a rotation Plan while servers start and stop and the clock   *)
(* runs.                                                                   *)
(*                                                                         *)
(* A tick is a second.  A bucket is counted in parts of a request, Unit to *)
(* a request, so that -rate-limit may be a fraction.                       *)
(***************************************************************************)
EXTENDS Integers, Sequences

CONSTANTS
  Call,        \* concurrent calls
  Token,       \* bearer tokens
  NoToken,     \* a client without one
  Org,         \* orgs, the first segment of a prompt's URI
  Word,        \* fields of a line that are no keyword and no date
  Admin,       \* the empty org: all orgs
  Never,       \* the zero expiry
  EnvToken,    \* tokens that PROMPTNET_TOKEN may name
  Minted,      \* the token that init mints
  NoFile,      \* there is no tokens file
  Plan,        \* the tokens files that the operator writes, in order
  Request,     \* the requests clients make
  Flags,       \* the settings of -rate-limit, in Unit parts, and -rate-burst
  Unit,        \* parts of a request
  MaxTime      \* bound on the clock

VARIABLES
  file,        \* the tokens file
  step,        \* the operator's place in the Plan
  server,      \* the server process: what it loaded, and its flags
  call,        \* frame of each call
  bucket,      \* the limiter of each scope
  now,         \* the clock
  known,       \* history: tokens that some server has loaded from the file
  admitted,    \* history: calls of each scope let through since the start
  upFor        \* history: ticks since the start

vars == <<file, step, server, call, bucket, now, known, admitted, upFor>>

-----------------------------------------------------------------------------
Scope == Word \cup {Admin}

Field == [kind : {"rw", "ro"}] \cup [kind : {"expiry"}, at : Nat]
           \cup [kind : {"word"}, word : Word]

\* A line that is not blank and not a comment as a whole; comment is what
\* follows a # further on.
Line == [token : Token, fields : Seq(Field), comment : Seq(Field)]

ASSUME NamesAssumption ==
  /\ NoToken \notin Token /\ Never \notin Nat /\ NoFile \notin Seq(Line)
  /\ Admin \notin Word /\ Org \subseteq Word
  /\ EnvToken \subseteq Token /\ Minted \in Token
ASSUME PlanAssumption == Plan \in Seq(Seq(Line))
ASSUME RequestAssumption ==
  Request \subseteq [token : Token \cup {NoToken}, org : Org, mutates : BOOLEAN]
ASSUME RateAssumption ==
  /\ Flags \subseteq [rate : Int, burst : Int]
  /\ Unit \in Nat \ {0} /\ MaxTime \in Nat

\* Token: the org, the expiry and the write grant of a credential.
Credential == [org : Scope, expires : Nat \cup {Never}, write : BOOLEAN]

Down == [up |-> FALSE]

Up == [up : {TRUE}, fromFile : BOOLEAN, lines : Seq(Line), env : SUBSET EnvToken,
       rate : Int, burst : Nat \ {0}]

Idle == [stage |-> "idle"]

\* A call on its way to the server; past authentication, with the scope and
\* the grant in its context; at its limiter; at its handler; past the checks.
SentFrame == [stage : {"sent"}, req : Request]

PassedFrame == [stage : {"authed", "limiter", "handler", "body"}, req : Request,
                scope : Scope, write : BOOLEAN, at : Nat]

Frame == {Idle} \cup SentFrame \cup PassedFrame

NoLimiter == -1

Goto(p, f) == call' = [call EXCEPT ![p] = f]

At(p, stage) == call[p].stage = stage

-----------------------------------------------------------------------------
Has(fs, kind) == \E i \in DOMAIN fs : fs[i].kind = kind

LastOf(fs, kind) ==
  fs[CHOOSE i \in DOMAIN fs : /\ fs[i].kind = kind
                              /\ \A j \in DOMAIN fs : fs[j].kind = kind => j <= i]

\* isExpiry and parseExpiry: a date is an expiry.
ExpiryOf(fs) == IF Has(fs, "expiry") THEN LastOf(fs, "expiry").at ELSE Never

OrgOf(fs) == IF Has(fs, "word") THEN LastOf(fs, "word").word ELSE Admin

\* All words of the line are fields, those of a trailing comment too.
FieldsOf(l) == l.fields \o l.comment

\* The fields of a line in any order: the last org and the last expiry stand.
Parse(l) ==
  LET fs == FieldsOf(l)
  IN [org |-> OrgOf(fs), expires |-> ExpiryOf(fs), write |-> Has(fs, "rw")]

TokensIn(lines) == {lines[i].token : i \in DOMAIN lines}

LastLine(lines, t) ==
  CHOOSE i \in DOMAIN lines : /\ lines[i].token = t
                              /\ \A j \in DOMAIN lines : lines[j].token = t => j <= i

\* Mutant: the credential is not reset for each line, and keeps the expiry.
LoadTokensNoReset(env, lines) ==
  [t \in env \cup TokensIn(lines) |->
     IF t \notin TokensIn(lines) THEN [org |-> Admin, expires |-> Never, write |-> TRUE]
     ELSE LET i == LastLine(lines, t)
              before == {j \in 1 .. i : Has(lines[j].fields, "expiry")}
          IN [Parse(lines[i]) EXCEPT
                !.expires = IF before = {} THEN Never
                            ELSE ExpiryOf(lines[CHOOSE j \in before :
                                            \A k \in before : k <= j].fields)]]

\* loadTokens: PROMPTNET_TOKEN, and over it the lines of the file, the last one
\* of each token.
LoadTokens(env, lines) ==
  [t \in env \cup TokensIn(lines) |->
     IF t \in TokensIn(lines) THEN Parse(lines[LastLine(lines, t)])
     ELSE [org |-> Admin, expires |-> Never, write |-> TRUE]]

Tokens == LoadTokens(server.env, server.lines)

Lapsed(expires, time) == expires # Never /\ time > expires

-----------------------------------------------------------------------------
\* `promptnet init` without -force, which refuses to touch a file that exists.
InitCmd ==
  /\ file = NoFile
  /\ file' = << [token |-> Minted, fields |-> <<[kind |-> "rw"]>>, comment |-> <<>>] >>
  /\ UNCHANGED <<step, server, call, bucket, now, known, admitted, upFor>>

\* The operator's next edit: a key may be issued or get an expiry, and is
\* dropped "once it lapses".
Edit ==
  /\ file # NoFile /\ step < Len(Plan)
  /\ LET next == Plan[step + 1]
     IN /\ \A t \in TokensIn(file) \ TokensIn(next) :
             Lapsed(Parse(file[LastLine(file, t)]).expires, now)
        /\ file' = next
  /\ step' = step + 1
  /\ UNCHANGED <<server, call, bucket, now, known, admitted, upFor>>

\* RateLimitInterceptor: the burst defaults to the rate, and to one at least.
Burst(f) == IF f.burst > 0 THEN f.burst
            ELSE IF f.rate \div Unit < 1 THEN 1 ELSE f.rate \div Unit

\* serve, with or without PROMPTNET_TOKEN and -tokens-file; a file that cannot
\* be read is fatal.
Serve(env, fromFile, f) ==
  /\ server = Down
  /\ fromFile => file # NoFile
  /\ server' = [up |-> TRUE, env |-> env, fromFile |-> fromFile,
                lines |-> IF fromFile THEN file ELSE <<>>,
                rate |-> f.rate, burst |-> Burst(f)]
  /\ known' = IF fromFile THEN known \cup TokensIn(file) ELSE known
  /\ bucket' = [s \in Scope |-> NoLimiter]
  /\ admitted' = [s \in Scope |-> 0]
  /\ upFor' = 0
  /\ UNCHANGED <<file, step, call, now>>

\* The process ends, and its calls with it.
Stop ==
  /\ server # Down
  /\ server' = Down
  /\ call' = [p \in Call |-> IF At(p, "sent") THEN call[p] ELSE Idle]
  /\ UNCHANGED <<file, step, bucket, now, known, admitted, upFor>>

-----------------------------------------------------------------------------
\* A client stub invokes a method, with the token of authCtx in its metadata.
Send(p, r) ==
  /\ At(p, "idle")
  /\ Goto(p, [stage |-> "sent", req |-> r])
  /\ UNCHANGED <<file, step, server, bucket, now, known, admitted, upFor>>

Unavailable(p) ==
  /\ At(p, "sent") /\ server = Down
  /\ Goto(p, Idle)
  /\ UNCHANGED <<file, step, server, bucket, now, known, admitted, upFor>>

\* No token at all disables authentication: the context has no scope, and no
\* grant to refuse.
Accepted(t) == t \in DOMAIN Tokens /\ ~ Lapsed(Tokens[t].expires, now)

Open == DOMAIN Tokens = {}

AuthInterceptor(p) ==
  /\ At(p, "sent") /\ server # Down
  /\ LET r == call[p].req
     IN Goto(p, IF Open \/ Accepted(r.token)
                THEN [stage |-> "authed", req |-> r, at |-> now,
                      scope |-> IF Open THEN Admin ELSE Tokens[r.token].org,
                      write |-> Open \/ Tokens[r.token].write]
                ELSE Idle)
  /\ UNCHANGED <<file, step, server, bucket, now, known, admitted, upFor>>

\* Mutant: one limiter for the server.
LimiterOfServer(p) == Admin

LimiterOf(p) == call[p].scope

\* Mutant: a new limiter for every call.
GetLimiterNew(p) ==
  /\ At(p, "authed") /\ server.rate > 0
  /\ bucket' = [bucket EXCEPT ![LimiterOf(p)] = server.burst * Unit]
  /\ Goto(p, [call[p] EXCEPT !.stage = "limiter"])
  /\ UNCHANGED <<file, step, server, now, known, admitted, upFor>>

\* The limiter of the scope, made on first use, under the lock; it starts full.
GetLimiter(p) ==
  /\ At(p, "authed") /\ server.rate > 0
  /\ bucket' = [bucket EXCEPT ![LimiterOf(p)] =
                  IF @ = NoLimiter THEN server.burst * Unit ELSE @]
  /\ Goto(p, [call[p] EXCEPT !.stage = "limiter"])
  /\ UNCHANGED <<file, step, server, now, known, admitted, upFor>>

\* Limiter.Allow: a request is taken from the bucket, or refused.
Allow(p) ==
  /\ At(p, "limiter")
  /\ IF bucket[LimiterOf(p)] >= Unit
     THEN /\ bucket' = [bucket EXCEPT ![LimiterOf(p)] = @ - Unit]
          /\ admitted' = [admitted EXCEPT ![call[p].scope] = @ + 1]
          /\ Goto(p, [call[p] EXCEPT !.stage = "handler"])
     ELSE Goto(p, Idle) /\ UNCHANGED <<bucket, admitted>>
  /\ UNCHANGED <<file, step, server, now, known, upFor>>

\* -rate-limit 0 disables the limit.
Unlimited(p) ==
  /\ At(p, "authed") /\ server.rate <= 0
  /\ Goto(p, [call[p] EXCEPT !.stage = "handler"])
  /\ UNCHANGED <<file, step, server, bucket, now, known, admitted, upFor>>

\* authorize: a scoped caller stays within its org.
Authorize(f) == f.scope \in {Admin, f.req.org}

\* requireWrite, in the handlers that change a prompt.
RequireWrite(f) == f.req.mutates => f.write

\* Mutant: the write grant is not asked for.
MayProceedReadOnly(f) == Authorize(f)

\* The checks at the head of a handler.
MayProceed(f) == Authorize(f) /\ RequireWrite(f)

Handle(p) ==
  /\ At(p, "handler")
  /\ Goto(p, IF MayProceed(call[p]) THEN [call[p] EXCEPT !.stage = "body"] ELSE Idle)
  /\ UNCHANGED <<file, step, server, bucket, now, known, admitted, upFor>>

Return(p) ==
  /\ At(p, "body")
  /\ Goto(p, Idle)
  /\ UNCHANGED <<file, step, server, bucket, now, known, admitted, upFor>>

\* The generated handler of each method: the chain of interceptors, which serve
\* always installs, and at its end the method of the server.
Dispatch(p) ==
  \/ AuthInterceptor(p)
  \/ GetLimiter(p) \/ Allow(p) \/ Unlimited(p)
  \/ Handle(p) \/ Return(p)

\* Mutant: a limiter at rest saves up.
RefillUncapped(b) == IF b = NoLimiter THEN b ELSE b + server.rate

\* A limiter fills at its rate up to its burst (golang.org/x/time/rate).
Refill(b) ==
  IF b = NoLimiter THEN b
  ELSE IF b + server.rate > server.burst * Unit THEN server.burst * Unit ELSE b + server.rate

Tick ==
  /\ now < MaxTime
  /\ now' = now + 1
  /\ IF server = Down THEN UNCHANGED <<bucket, upFor>>
     ELSE /\ bucket' = [s \in Scope |-> Refill(bucket[s])]
          /\ upFor' = upFor + 1
  /\ UNCHANGED <<file, step, server, call, known, admitted>>

-----------------------------------------------------------------------------
Init ==
  /\ file = NoFile /\ step = 0
  /\ server = Down
  /\ call = [p \in Call |-> Idle]
  /\ bucket = [s \in Scope |-> NoLimiter]
  /\ now = 0
  /\ known = {}
  /\ admitted = [s \in Scope |-> 0]
  /\ upFor = 0

Next ==
  \/ InitCmd \/ Edit \/ Stop \/ Tick
  \/ \E env \in {{}} \cup {{t} : t \in EnvToken}, fromFile \in BOOLEAN, f \in Flags :
       Serve(env, fromFile, f)
  \/ \E p \in Call :
       \/ \E r \in Request : Send(p, r)
       \/ Unavailable(p) \/ Dispatch(p)

Spec == Init /\ [][Next]_vars

-----------------------------------------------------------------------------
(***************************************************************************)
(* Properties.                                                             *)
(***************************************************************************)

\* Types of the file, the server, the calls and the limiters.
AccessTypeOK ==
  /\ file \in Seq(Line) \cup {NoFile}
  /\ step \in 0 .. Len(Plan)
  /\ server \in {Down} \cup Up
  /\ call \in [Call -> Frame]
  /\ bucket \in [Scope -> Int]
  /\ server # Down => \A s \in Scope : bucket[s] \in NoLimiter .. server.burst * Unit
  /\ now \in Nat /\ upFor \in Nat
  /\ known \subseteq Token
  /\ admitted \in [Scope -> Nat]

\* What the line says, whatever the order of its fields: for an org, for a
\* change only with rw, until its expiry.
Grants(l, r, time) ==
  LET fs == FieldsOf(l)
  IN /\ \A i \in DOMAIN fs : fs[i].kind = "word" /\ fs[i].word # r.org =>
          \E j \in DOMAIN fs : j > i /\ fs[j].kind = "word"
     /\ r.mutates => \E i \in DOMAIN fs : fs[i] = [kind |-> "rw"]
     /\ \A i \in DOMAIN fs : fs[i].kind = "expiry" /\ fs[i].at < time =>
          \E j \in DOMAIN fs : j > i /\ fs[j].kind = "expiry"

\* Past its handler's checks a call has a key: the last line its token has in
\* the file the server loaded, which may not be the file of now, grants this
\* request and had not lapsed when the call came; or its token is the one of
\* the environment; or the server knows no token.
CallsAreGranted ==
  \A p \in Call : At(p, "body") =>
    LET r == call[p].req
        lines == server.lines
    IN \/ server.env = {} /\ lines = <<>>
       \/ r.token \in server.env \ TokensIn(lines)
       \/ \E i \in DOMAIN lines :
            /\ lines[i].token = r.token
            /\ \A j \in DOMAIN lines : j > i => lines[j].token # r.token
            /\ Grants(lines[i], r, call[p].at)

\* "Per-org token-bucket limit": whatever calls come at the same time, a scope
\* has no more than the burst and the rate times the time let through.
RateBounded ==
  server # Down /\ server.rate > 0 =>
    \A s \in Scope : admitted[s] * Unit <= server.burst * Unit + server.rate * upFor

\* The limit is the scope's own: one that is refused has had its burst itself.
OwnQuota ==
  server # Down =>
    \A s \in Scope : bucket[s] \in 0 .. Unit - 1 => admitted[s] >= server.burst

\* The operator has given the token an expiry that has passed.
Expired(t) ==
  \E i \in 1 .. step : \E j \in DOMAIN Plan[i] :
    Plan[i][j].token = t /\ Lapsed(Parse(Plan[i][j]).expires, now)

\* "Rotation is just overlapping tokens": a key that some server has honoured
\* is refused by a later one only after an expiry the operator gave it.
KeyRotation ==
  server # Down /\ server.fromFile =>
    \A t \in known : Accepted(t) \/ Expired(t)

\* "# comments ok": what a line grants is in its fields.
CommentsIgnored ==
  server # Down =>
    \A i \in DOMAIN server.lines :
      LET l == server.lines[i]
      IN Parse(l) = Parse([l EXCEPT !.comment = <<>>])

=============================================================================
