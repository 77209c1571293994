---------------------------- MODULE AccessProofs ---------------------------
(***************************************************************************)
(* Proofs about access, for any tokens files, requests, rate limits and    *)
(* number of concurrent calls.                                             *)
(***************************************************************************)
EXTENDS Access, TLAPS, WellFoundedInduction

\* The last of some indices.
LEMMA LastExists ==
  ASSUME NEW n \in Nat, NEW S \in SUBSET (1 .. n), S # {}
  PROVE  \E i \in S : \A j \in S : j <= i
<1> DEFINE T == {n - i : i \in S}
<1>1. T \subseteq Nat /\ T # {}
  <2>1. \A i \in S : n - i \in Nat
    OBVIOUS
  <2>2. T # {}
    BY Zenon
  <2> QED BY <2>1, <2>2
<1>2. PICK x \in T : \A y \in T : ~ (<<y, x>> \in OpToRel(<, Nat))
  BY <1>1, NatLessThanWellFounded, WFMin, Zenon
<1>3. \A y \in T : ~ (y < x)
  BY <1>1, <1>2 DEF OpToRel
<1>4. PICK i \in S : x = n - i
  BY <1>2
<1>5. \A j \in S : j <= i
  <2> TAKE j \in S
  <2>1. ~ (n - j < n - i)
    BY <1>3, <1>4
  <2> QED BY <2>1
<1> QED BY <1>5

\* The last field of a kind is a field of that kind, and no other follows.
LEMMA LastField ==
  ASSUME NEW fs \in Seq(Field), NEW kind, Has(fs, kind)
  PROVE  \E i \in DOMAIN fs : /\ LastOf(fs, kind) = fs[i] /\ fs[i].kind = kind
                              /\ \A j \in DOMAIN fs : fs[j].kind = kind => j <= i
<1> DEFINE S == {i \in DOMAIN fs : fs[i].kind = kind}
           Is(i) == fs[i].kind = kind /\ \A j \in DOMAIN fs : fs[j].kind = kind => j <= i
<1>1. S \subseteq 1 .. Len(fs) /\ Len(fs) \in Nat /\ S # {}
  BY DEF Has
<1>2. \E i \in S : \A j \in S : j <= i
  BY <1>1, LastExists
<1>3. \E i \in DOMAIN fs : Is(i)
  BY <1>2
<1>4. (CHOOSE i \in DOMAIN fs : Is(i)) \in DOMAIN fs /\ Is(CHOOSE i \in DOMAIN fs : Is(i))
  BY <1>3, Zenon
<1> QED BY <1>4, Zenon DEF LastOf

\* The last line of a token.
LEMMA LastLineIs ==
  ASSUME NEW lines \in Seq(Line), NEW t \in TokensIn(lines)
  PROVE  /\ LastLine(lines, t) \in DOMAIN lines
         /\ lines[LastLine(lines, t)].token = t
         /\ \A j \in DOMAIN lines : lines[j].token = t => j <= LastLine(lines, t)
<1> DEFINE S == {i \in DOMAIN lines : lines[i].token = t}
           Is(i) == lines[i].token = t /\ \A j \in DOMAIN lines : lines[j].token = t => j <= i
<1>1. S \subseteq 1 .. Len(lines) /\ Len(lines) \in Nat /\ S # {}
  BY DEF TokensIn
<1>2. \E i \in S : \A j \in S : j <= i
  BY <1>1, LastExists
<1>3. \E i \in DOMAIN lines : Is(i)
  BY <1>2
<1>4. (CHOOSE i \in DOMAIN lines : Is(i)) \in DOMAIN lines
        /\ Is(CHOOSE i \in DOMAIN lines : Is(i))
  BY <1>3, Zenon
<1> QED BY <1>4, Zenon DEF LastLine

LEMMA FieldsType ==
  ASSUME NEW l \in Line
  PROVE  FieldsOf(l) \in Seq(Field)
  BY DEF FieldsOf, Line

\* A field carries what its kind names.
LEMMA FieldKind ==
  ASSUME NEW f \in Field
  PROVE  /\ f.kind = "expiry" => f.at \in Nat
         /\ f.kind = "word" => f.word \in Word
         /\ f.kind = "rw" => f = [kind |-> "rw"]
  BY DEF Field

\* A line parses to a credential, whose parts are of the line's last fields.
LEMMA ParseType ==
  ASSUME NEW l \in Line
  PROVE  Parse(l) \in Credential
<1> DEFINE fs == FieldsOf(l)
<1>1. fs \in Seq(Field)
  BY FieldsType
<1> HIDE DEF fs
<1>2. OrgOf(fs) \in Scope
  <2>1. CASE Has(fs, "word")
    <3>1. PICK i \in DOMAIN fs : LastOf(fs, "word") = fs[i] /\ fs[i].kind = "word"
      BY <1>1, <2>1, LastField
    <3>2. fs[i] \in Field
      BY <1>1
    <3> QED BY <2>1, <3>1, <3>2, FieldKind DEF OrgOf, Scope
  <2>2. CASE ~ Has(fs, "word")
    BY <2>2 DEF OrgOf, Scope
  <2> QED BY <2>1, <2>2
<1>3. ExpiryOf(fs) \in Nat \cup {Never}
  <2>1. CASE Has(fs, "expiry")
    <3>1. PICK i \in DOMAIN fs : LastOf(fs, "expiry") = fs[i] /\ fs[i].kind = "expiry"
      BY <1>1, <2>1, LastField
    <3>2. fs[i] \in Field
      BY <1>1
    <3> QED BY <2>1, <3>1, <3>2, FieldKind DEF ExpiryOf
  <2>2. CASE ~ Has(fs, "expiry")
    BY <2>2 DEF ExpiryOf
  <2> QED BY <2>1, <2>2
<1>4. Has(fs, "rw") \in BOOLEAN
  BY DEF Has
<1> QED BY <1>2, <1>3, <1>4 DEF Parse, Credential, fs

\* A credential that lets a request pass is of a line that grants it.
LEMMA ParseGrants ==
  ASSUME NEW l \in Line, NEW r \in Request, NEW time \in Nat,
         ~ Lapsed(Parse(l).expires, time),
         r.mutates => Parse(l).write,
         Parse(l).org \in {Admin, r.org}
  PROVE  Grants(l, r, time)
<1> DEFINE fs == FieldsOf(l)
<1>1. fs \in Seq(Field)
  BY FieldsType
<1>2. /\ ~ Lapsed(ExpiryOf(fs), time)
      /\ r.mutates => Has(fs, "rw")
      /\ OrgOf(fs) \in {Admin, r.org}
  BY DEF Parse
<1> HIDE DEF fs
<1>3. \A i \in DOMAIN fs : fs[i] \in Field /\ i \in Nat
  BY <1>1
<1>4. ASSUME NEW i \in DOMAIN fs, fs[i].kind = "word", fs[i].word # r.org
      PROVE  \E j \in DOMAIN fs : j > i /\ fs[j].kind = "word"
  <2>1. Has(fs, "word")
    BY <1>4 DEF Has
  <2>2. PICK k \in DOMAIN fs : /\ LastOf(fs, "word") = fs[k] /\ fs[k].kind = "word"
                               /\ \A j \in DOMAIN fs : fs[j].kind = "word" => j <= k
    BY <1>1, <2>1, LastField
  <2>3. fs[k].word \in Word
    BY <1>3, <2>2, FieldKind
  <2>4. OrgOf(fs) = fs[k].word
    BY <2>1, <2>2 DEF OrgOf
  <2>5. fs[k].word = r.org
    BY <1>2, <2>3, <2>4, NamesAssumption
  <2>6. i # k /\ i <= k
    BY <1>4, <2>2, <2>5
  <2> QED BY <1>3, <2>2, <2>6
<1>5. r.mutates => \E i \in DOMAIN fs : fs[i] = [kind |-> "rw"]
  BY <1>2, <1>3, FieldKind DEF Has
<1>6. ASSUME NEW i \in DOMAIN fs, fs[i].kind = "expiry", fs[i].at < time
      PROVE  \E j \in DOMAIN fs : j > i /\ fs[j].kind = "expiry"
  <2>1. Has(fs, "expiry")
    BY <1>6 DEF Has
  <2>2. PICK k \in DOMAIN fs : /\ LastOf(fs, "expiry") = fs[k] /\ fs[k].kind = "expiry"
                               /\ \A j \in DOMAIN fs : fs[j].kind = "expiry" => j <= k
    BY <1>1, <2>1, LastField
  <2>3. fs[k].at \in Nat
    BY <1>3, <2>2, FieldKind
  <2>4. ExpiryOf(fs) = fs[k].at
    BY <2>1, <2>2 DEF ExpiryOf
  <2>5. ~ (time > fs[k].at)
    BY <1>2, <2>3, <2>4, NamesAssumption DEF Lapsed
  <2>6. i # k /\ i <= k
    BY <1>6, <2>2, <2>3, <2>5
  <2> QED BY <1>3, <2>2, <2>6
<1> QED BY <1>4, <1>5, <1>6, Zenon DEF Grants, fs

-----------------------------------------------------------------------------
\* A server is down or up, and a call idle, on its way, or past authentication.
LEMMA Kinds ==
  /\ \A s \in Up : s # Down
  /\ \A f \in Frame : f.stage \in {"authed", "limiter", "handler", "body"} => f \in PassedFrame
  /\ \A f \in Frame : f.stage = "sent" => f \in SentFrame
<1>1. \A s \in Up : s.up = TRUE
  BY DEF Up
<1>2. Down.up = FALSE
  BY DEF Down
<1>3. Idle.stage = "idle"
  BY DEF Idle
<1>4. \A f \in SentFrame : f.stage = "sent"
  BY DEF SentFrame
<1>5. \A f \in PassedFrame : f.stage \in {"authed", "limiter", "handler", "body"}
  BY DEF PassedFrame
<1>6. \A s \in Up : s # Down
  BY <1>1, <1>2
<1> QED BY <1>3, <1>4, <1>5, <1>6 DEF Frame

LEMMA LoadType ==
  ASSUME NEW env \in SUBSET EnvToken, NEW lines \in Seq(Line)
  PROVE  LoadTokens(env, lines) \in [env \cup TokensIn(lines) -> Credential]
<1> SUFFICES ASSUME NEW t \in env \cup TokensIn(lines)
             PROVE  LoadTokens(env, lines)[t] \in Credential
  BY DEF LoadTokens
<1>1. CASE t \in TokensIn(lines)
  <2>1. lines[LastLine(lines, t)] \in Line
    BY <1>1, LastLineIs
  <2> QED BY <1>1, <2>1, ParseType DEF LoadTokens
<1>2. CASE t \notin TokensIn(lines)
  <2>1. [org |-> Admin, expires |-> Never, write |-> TRUE] \in Credential
    BY DEF Credential, Scope
  <2> QED BY <1>2, <2>1 DEF LoadTokens
<1> QED BY <1>1, <1>2

LEMMA BurstType ==
  ASSUME NEW f \in Flags
  PROVE  f.rate \in Int /\ Burst(f) \in Nat \ {0}
  BY RateAssumption DEF Burst

\* The full bucket is an integer, and holds a request.
LEMMA FullBucket ==
  ASSUME NEW b \in Nat \ {0}
  PROVE  b * Unit \in Int /\ b * Unit >= Unit
  BY RateAssumption, SMT

-----------------------------------------------------------------------------
\* A call past authentication is in a server.
PassedUp ==
  \A p \in Call : call[p].stage \in {"authed", "limiter", "handler", "body"} => server # Down

LEMMA PassedUpStep == AccessTypeOK /\ PassedUp /\ [Next]_vars => PassedUp'
<1> SUFFICES ASSUME AccessTypeOK, PassedUp, [Next]_vars
             PROVE  PassedUp'
  OBVIOUS
<1> USE DEF PassedUp, AccessTypeOK, At, Goto
<1>1. CASE UNCHANGED vars \/ InitCmd \/ Edit \/ Tick
  BY <1>1 DEF vars, InitCmd, Edit, Tick
<1>2. CASE Stop
  BY <1>2 DEF Stop, Idle
<1>3. ASSUME NEW env, NEW fromFile, NEW f, Serve(env, fromFile, f)
      PROVE  PassedUp'
  <2>1. server'.up = TRUE /\ Down.up = FALSE
    BY <1>3 DEF Serve, Down
  <2>2. server' # Down
    BY <2>1
  <2> QED BY <2>2
<1>4. ASSUME NEW p \in Call,
             (\E r \in Request : Send(p, r)) \/ Unavailable(p) \/ AuthInterceptor(p)
      PROVE  PassedUp'
  <2>1. server' = server /\ \A q \in Call : q # p => call'[q] = call[q]
    BY <1>4 DEF Send, Unavailable, AuthInterceptor
  <2>2. call'[p].stage \in {"sent", "idle"} \/ server # Down
    BY <1>4 DEF Send, Unavailable, AuthInterceptor, Idle
  <2> QED BY <2>1, <2>2
<1>5. ASSUME NEW p \in Call, GetLimiter(p) \/ Allow(p) \/ Unlimited(p) \/ Handle(p) \/ Return(p)
      PROVE  PassedUp'
  <2>1. server # Down /\ server' = server
    BY <1>5 DEF GetLimiter, Allow, Unlimited, Handle, Return
  <2> QED BY <2>1
<1> QED BY <1>1, <1>2, <1>3, <1>4, <1>5 DEF Next, Dispatch

\* A server without a rate limit has no limiters.
OffHasNone ==
  server # Down /\ server.rate <= 0 => \A s \in Scope : bucket[s] = NoLimiter

LEMMA OffHasNoneStep ==
  AccessTypeOK /\ PassedUp /\ OffHasNone /\ [Next]_vars => OffHasNone'
<1> SUFFICES ASSUME AccessTypeOK, PassedUp, OffHasNone, [Next]_vars,
                    server' # Down, server'.rate <= 0, NEW s \in Scope
             PROVE  bucket'[s] = NoLimiter
  BY DEF OffHasNone
<1> USE DEF OffHasNone, AccessTypeOK
<1>1. ASSUME UNCHANGED <<server, bucket>>
      PROVE  bucket'[s] = NoLimiter
  BY <1>1
<1>2. CASE UNCHANGED vars \/ InitCmd \/ Edit
  BY <1>1, <1>2 DEF vars, InitCmd, Edit
<1>3. CASE Stop
  BY <1>3 DEF Stop
<1>4. CASE Tick
  BY <1>4 DEF Tick, Refill
<1>5. ASSUME NEW env, NEW fromFile, NEW f, Serve(env, fromFile, f)
      PROVE  bucket'[s] = NoLimiter
  BY <1>5 DEF Serve
<1>6. ASSUME NEW p \in Call, GetLimiter(p)
      PROVE  FALSE
  <2>1. server \in Up /\ server' = server /\ server.rate > 0
    BY <1>6 DEF GetLimiter, At, PassedUp
  <2> QED BY <2>1 DEF Up
<1>7. ASSUME NEW p \in Call, Allow(p)
      PROVE  bucket'[s] = NoLimiter
  <2>1. server' = server /\ bucket[s] = NoLimiter
    BY <1>7 DEF Allow
  <2>2. CASE s = LimiterOf(p)
    BY <1>7, <2>1, <2>2, RateAssumption DEF Allow, NoLimiter
  <2>3. CASE s # LimiterOf(p)
    BY <1>7, <2>1, <2>3 DEF Allow
  <2> QED BY <2>2, <2>3
<1>8. ASSUME NEW p \in Call,
             \/ (\E r \in Request : Send(p, r)) \/ Unavailable(p) \/ AuthInterceptor(p)
             \/ Unlimited(p) \/ Handle(p) \/ Return(p)
      PROVE  bucket'[s] = NoLimiter
  BY <1>1, <1>8 DEF Send, Unavailable, AuthInterceptor, Unlimited, Handle, Return
<1> QED BY <1>2, <1>3, <1>4, <1>5, <1>6, <1>7, <1>8 DEF Next, Dispatch

\* Every step keeps the types.
LEMMA TypeStep == AccessTypeOK /\ PassedUp /\ OffHasNone /\ [Next]_vars => AccessTypeOK'
<1> SUFFICES ASSUME AccessTypeOK, PassedUp, OffHasNone, [Next]_vars
             PROVE  AccessTypeOK'
  OBVIOUS
<1> USE DEF AccessTypeOK
<1>1. CASE UNCHANGED vars
  BY <1>1 DEF vars
<1>2. CASE InitCmd
  <2>1. << [token |-> Minted, fields |-> <<[kind |-> "rw"]>>, comment |-> <<>>] >> \in Seq(Line)
    <3>1. <<[kind |-> "rw"]>> \in Seq(Field)
      BY DEF Field
    <3> QED BY <3>1, NamesAssumption DEF Line
  <2> QED BY <1>2, <2>1 DEF InitCmd
<1>3. CASE Edit
  BY <1>3, PlanAssumption DEF Edit
<1>4. CASE Stop
  <2>1. call' \in [Call -> Frame]
    BY <1>4 DEF Stop, Frame
  <2> QED BY <1>4, <2>1 DEF Stop
<1>5. CASE Tick
  <2>1. CASE server = Down
    BY <1>5, <2>1 DEF Tick
  <2>2. CASE server # Down
    <3>1. server \in Up /\ server.rate \in Int /\ server.burst \in Nat \ {0}
      BY <2>2 DEF Up
    <3>2. server.burst * Unit \in Int /\ server.burst * Unit >= Unit
      BY <3>1, FullBucket
    <3>3. ASSUME NEW s \in Scope
          PROVE  /\ bucket'[s] \in Int
                 /\ bucket'[s] <= server.burst * Unit
      <4> DEFINE full == server.burst * Unit
      <4>1. bucket[s] \in Int /\ bucket[s] <= full /\ Unit \in Nat \ {0}
        BY <2>2, <3>2, RateAssumption DEF NoLimiter
      <4>2. bucket'[s] = IF bucket[s] = NoLimiter THEN bucket[s]
                         ELSE IF bucket[s] + server.rate > full THEN full
                         ELSE bucket[s] + server.rate
        BY <1>5, <2>2 DEF Tick, Refill
      <4>3. full \in Int
        BY <3>2
      <4> HIDE DEF full
      <4>4. bucket'[s] \in Int /\ bucket'[s] <= full
        BY <3>1, <4>1, <4>2, <4>3
      <4> QED BY <4>4 DEF full
    <3>4. bucket' \in [Scope -> Int]
      BY <1>5, <2>2, <3>3 DEF Tick
    <3>5. \A s \in Scope : bucket'[s] >= NoLimiter
      <4> TAKE s \in Scope
      <4>1. CASE bucket[s] = NoLimiter
        BY <1>5, <2>2, <4>1 DEF Tick, Refill, NoLimiter
      <4>2. CASE bucket[s] # NoLimiter
        <5>1. server.rate > 0
          BY <2>2, <3>1, <4>2 DEF OffHasNone
        <5>2. bucket[s] \in Int /\ bucket[s] >= -1
          BY <2>2, <3>2 DEF NoLimiter
        <5>3. bucket'[s] \in {bucket[s] + server.rate, server.burst * Unit}
          BY <1>5, <2>2, <4>2 DEF Tick, Refill
        <5> QED BY <3>1, <3>2, <5>1, <5>2, <5>3, RateAssumption DEF NoLimiter
      <4> QED BY <4>1, <4>2
    <3> QED BY <1>5, <2>2, <3>2, <3>3, <3>4, <3>5 DEF Tick, NoLimiter
  <2> QED BY <2>1, <2>2
<1>6. ASSUME NEW env \in {{}} \cup {{t} : t \in EnvToken}, NEW fromFile \in BOOLEAN,
             NEW f \in Flags, Serve(env, fromFile, f)
      PROVE  AccessTypeOK'
  <2>1. f.rate \in Int /\ Burst(f) \in Nat \ {0}
    BY BurstType
  <2>2. (IF fromFile THEN file ELSE <<>>) \in Seq(Line)
    BY <1>6 DEF Serve
  <2>3. server' \in Up
    BY <1>6, <2>1, <2>2 DEF Serve, Up
  <2>4. known' \subseteq Token
    <3>1. fromFile => file \in Seq(Line)
      BY <1>6 DEF Serve
    <3>2. ASSUME NEW lines \in Seq(Line)
          PROVE  TokensIn(lines) \subseteq Token
      <4>1. \A i \in DOMAIN lines : lines[i].token \in Token
        <5>1. \A l \in Line : l.token \in Token
          BY DEF Line
        <5> QED BY <5>1
      <4> QED BY <4>1 DEF TokensIn
    <3> QED BY <1>6, <3>1, <3>2 DEF Serve
  <2>5. \A s \in Scope : bucket'[s] \in NoLimiter .. server'.burst * Unit
    <3>1. server'.burst * Unit \in Int /\ server'.burst * Unit >= Unit
      BY <2>3, FullBucket DEF Up
    <3>2. \A s \in Scope : bucket'[s] = -1
      BY <1>6 DEF Serve, NoLimiter
    <3> QED BY <3>1, <3>2, RateAssumption DEF NoLimiter
  <2>6. bucket' \in [Scope -> Int] /\ admitted' \in [Scope -> Nat] /\ upFor' \in Nat
    BY <1>6 DEF Serve, NoLimiter
  <2> QED BY <1>6, <2>3, <2>4, <2>5, <2>6 DEF Serve
<1>7. ASSUME NEW p \in Call, NEW r \in Request, Send(p, r)
      PROVE  AccessTypeOK'
  <2>1. [stage |-> "sent", req |-> r] \in Frame
    BY DEF Frame, SentFrame
  <2> QED BY <1>7, <2>1 DEF Send, Goto
<1>8. ASSUME NEW p \in Call, Unavailable(p) \/ Return(p)
      PROVE  AccessTypeOK'
  BY <1>8 DEF Unavailable, Return, Goto, Frame
<1>9. ASSUME NEW p \in Call, AuthInterceptor(p)
      PROVE  AccessTypeOK'
  <2> DEFINE r == call[p].req
             f == [stage |-> "authed", req |-> r, at |-> now,
                   scope |-> IF Open THEN Admin ELSE Tokens[r.token].org,
                   write |-> Open \/ Tokens[r.token].write]
  <2>1. r \in Request
    BY <1>9, Kinds DEF AuthInterceptor, At, SentFrame
  <2>2. Tokens \in [server.env \cup TokensIn(server.lines) -> Credential]
    BY <1>9, LoadType DEF AuthInterceptor, Tokens, Up
  <2>3. ASSUME Open \/ Accepted(r.token)
        PROVE  f \in Frame
    <3>1. CASE Open
      BY <2>1, <3>1 DEF Frame, PassedFrame, Scope
    <3>2. CASE ~ Open
      <4>1. Tokens[r.token] \in Credential
        BY <2>2, <2>3, <3>2 DEF Accepted
      <4> QED BY <2>1, <3>2, <4>1 DEF Frame, PassedFrame, Credential
    <3> QED BY <3>1, <3>2
  <2>4. call' \in [Call -> Frame]
    <3>1. (IF Open \/ Accepted(r.token) THEN f ELSE Idle) \in Frame
      BY <2>3 DEF Frame
    <3> QED BY <1>9, <3>1 DEF AuthInterceptor, Goto
  <2> QED BY <1>9, <2>4 DEF AuthInterceptor
<1>10. ASSUME NEW p \in Call, NEW stage \in {"limiter", "handler", "body"},
              call[p].stage \in {"authed", "limiter", "handler", "body"}
       PROVE  [call[p] EXCEPT !.stage = stage] \in Frame
  <2>1. call[p] \in PassedFrame
    BY <1>10, Kinds
  <2>2. [call[p] EXCEPT !.stage = stage] \in PassedFrame
    BY <2>1 DEF PassedFrame
  <2> QED BY <2>2 DEF Frame
<1>11. ASSUME NEW p \in Call, GetLimiter(p)
       PROVE  AccessTypeOK'
  <2>1. call' \in [Call -> Frame]
    BY <1>11, <1>10 DEF GetLimiter, Goto, At
  <2>2. server.burst * Unit \in Int /\ server.burst * Unit >= Unit
    <3>1. server # Down
      BY <1>11 DEF GetLimiter, At, PassedUp
    <3> QED BY <3>1, FullBucket DEF Up
  <2>3. /\ bucket' \in [Scope -> Int]
        /\ server # Down => \A s \in Scope : bucket'[s] \in NoLimiter .. server.burst * Unit
    <3>1. ASSUME NEW s \in Scope
          PROVE  bucket'[s] \in Int /\ bucket'[s] >= -1
                   /\ (server # Down => bucket'[s] <= server.burst * Unit)
      <4>1. bucket'[s] \in {bucket[s], server.burst * Unit}
        BY <1>11 DEF GetLimiter
      <4>2. bucket[s] \in Int /\ bucket[s] >= -1 /\ (server # Down => bucket[s] <= server.burst * Unit)
        BY <1>11, <2>2 DEF GetLimiter, At, PassedUp, NoLimiter
      <4> QED BY <2>2, <4>1, <4>2, RateAssumption
    <3>2. bucket' \in [Scope -> Int]
      BY <1>11, <3>1 DEF GetLimiter
    <3> QED BY <2>2, <3>1, <3>2 DEF NoLimiter
  <2> QED BY <1>11, <2>1, <2>2, <2>3 DEF GetLimiter
<1>12. ASSUME NEW p \in Call, Allow(p)
       PROVE  AccessTypeOK'
  <2>1. call' \in [Call -> Frame]
    BY <1>12, <1>10 DEF Allow, Goto, At, Frame
  <2>2. server.burst * Unit \in Int
    <3>1. server # Down
      BY <1>12 DEF Allow, At, PassedUp
    <3> QED BY <3>1, FullBucket DEF Up
  <2>3. /\ bucket' \in [Scope -> Int]
        /\ server # Down => \A s \in Scope : bucket'[s] \in NoLimiter .. server.burst * Unit
    <3>1. ASSUME NEW s \in Scope
          PROVE  bucket'[s] \in Int /\ bucket'[s] >= -1
                   /\ (server # Down => bucket'[s] <= server.burst * Unit)
      <4>1. bucket'[s] = bucket[s] \/ (bucket[s] >= Unit /\ bucket'[s] = bucket[s] - Unit)
        <5>1. CASE bucket[LimiterOf(p)] >= Unit
          BY <1>12, <5>1 DEF Allow
        <5>2. CASE ~ bucket[LimiterOf(p)] >= Unit
          BY <1>12, <5>2 DEF Allow
        <5> QED BY <5>1, <5>2
      <4>2. bucket[s] \in Int /\ bucket[s] >= -1 /\ (server # Down => bucket[s] <= server.burst * Unit)
        BY <1>12, <2>2 DEF Allow, At, PassedUp, NoLimiter
      <4> QED BY <2>2, <4>1, <4>2, RateAssumption
    <3>2. bucket' \in [Scope -> Int]
      BY <1>12, <3>1 DEF Allow
    <3> QED BY <2>2, <3>1, <3>2 DEF NoLimiter
  <2>4. admitted' \in [Scope -> Nat]
    BY <1>12 DEF Allow
  <2> QED BY <1>12, <2>1, <2>3, <2>4 DEF Allow
<1>13. ASSUME NEW p \in Call, Unlimited(p) \/ Handle(p)
       PROVE  AccessTypeOK'
  <2>1. call' \in [Call -> Frame]
    BY <1>13, <1>10 DEF Unlimited, Handle, Goto, At, Frame
  <2> QED BY <1>13, <2>1 DEF Unlimited, Handle
<1> QED BY <1>1, <1>2, <1>3, <1>4, <1>5, <1>6, <1>7, <1>8, <1>9, <1>11, <1>12, <1>13 DEF Next, Dispatch

\* The parts of the inductive invariant that the types rest on.
TypeInv == AccessTypeOK /\ PassedUp /\ OffHasNone

LEMMA InitTypeInv == Init => TypeInv
  BY RateAssumption DEF Init, TypeInv, AccessTypeOK, PassedUp, OffHasNone, Frame, Idle, NoLimiter

\* The interceptors and the tokens file keep their types, and no limiter saves
\* up more than its burst, for all flags and all interleavings of calls.
THEOREM AccessTypeCorrect == Spec => []AccessTypeOK
<1>1. TypeInv /\ [Next]_vars => TypeInv'
  BY TypeStep, PassedUpStep, OffHasNoneStep DEF TypeInv
<1>2. TypeInv => AccessTypeOK
  BY DEF TypeInv
<1> QED BY <1>1, <1>2, InitTypeInv, PTL DEF Spec

LEMMA TypeInvHolds == Spec => []TypeInv
<1>1. TypeInv /\ [Next]_vars => TypeInv'
  BY TypeStep, PassedUpStep, OffHasNoneStep DEF TypeInv
<1> QED BY <1>1, InitTypeInv, PTL DEF Spec

-----------------------------------------------------------------------------
\* What the context of a call holds: that of an accepted credential.
ContextIsCredential(p) ==
  LET f == call[p]
  IN \/ Open /\ server.env = {} /\ server.lines = <<>>
     \/ /\ f.req.token \in DOMAIN Tokens
        /\ ~ Lapsed(Tokens[f.req.token].expires, f.at)
        /\ f.scope = Tokens[f.req.token].org
        /\ f.write = Tokens[f.req.token].write

\* The credential is in every frame past authentication, and the checks held
\* where the handler's body runs.
GrantInv ==
  \A p \in Call :
    /\ call[p].stage \in {"authed", "limiter", "handler", "body"} => ContextIsCredential(p)
    /\ At(p, "body") => MayProceed(call[p])

LEMMA OpenIsEmpty ==
  ASSUME NEW env, NEW lines \in Seq(Line), DOMAIN LoadTokens(env, lines) = {}
  PROVE  env = {} /\ lines = <<>>
<1>1. env \cup TokensIn(lines) = {}
  BY DEF LoadTokens
<1>2. DOMAIN lines = {}
  BY <1>1 DEF TokensIn
<1>3. Len(lines) = 0
  BY <1>2
<1> QED BY <1>1, <1>3

LEMMA GrantStep == TypeInv /\ GrantInv /\ [Next]_vars => GrantInv'
<1> SUFFICES ASSUME TypeInv, GrantInv, [Next]_vars, NEW q \in Call
             PROVE  /\ call'[q].stage \in {"authed", "limiter", "handler", "body"}
                         => ContextIsCredential(q)'
                    /\ call'[q].stage = "body" => MayProceed(call'[q])
  BY DEF GrantInv, At
<1> USE DEF TypeInv, AccessTypeOK
<1>1. ASSUME server' = server, call'[q] = call[q]
      PROVE  /\ call'[q].stage \in {"authed", "limiter", "handler", "body"}
                  => ContextIsCredential(q)'
             /\ call'[q].stage = "body" => MayProceed(call'[q])
  BY <1>1 DEF GrantInv, At, ContextIsCredential, Open, Tokens
<1>2. ASSUME call'[q].stage \in {"idle", "sent"}
      PROVE  /\ call'[q].stage \in {"authed", "limiter", "handler", "body"}
                  => ContextIsCredential(q)'
             /\ call'[q].stage = "body" => MayProceed(call'[q])
  BY <1>2
<1>3. CASE UNCHANGED vars \/ InitCmd \/ Edit \/ Tick
  BY <1>1, <1>3 DEF vars, InitCmd, Edit, Tick
<1>4. CASE Stop
  <2>1. call'[q].stage \in {"idle", "sent"}
    BY <1>4 DEF Stop, At, Idle
  <2> QED BY <1>2, <2>1
<1>5. ASSUME NEW env, NEW fromFile, NEW f, Serve(env, fromFile, f)
      PROVE  call'[q].stage \in {"idle", "sent"}
  <2>1. call[q].stage \notin {"authed", "limiter", "handler", "body"} /\ call' = call
    BY <1>5 DEF Serve, PassedUp
  <2>2. call[q] \in Frame
    OBVIOUS
  <2> QED BY <2>1, <2>2 DEF Frame, Idle, SentFrame, PassedFrame
<1>6. ASSUME NEW p \in Call, (\E r \in Request : Send(p, r)) \/ Unavailable(p) \/ Return(p)
      PROVE  call'[q].stage \in {"idle", "sent"} \/ (server' = server /\ call'[q] = call[q])
  BY <1>6 DEF Send, Unavailable, Return, Goto, Idle
<1>7. ASSUME NEW p \in Call, AuthInterceptor(p), p = q, call'[q].stage \notin {"idle", "sent"}
      PROVE  /\ ContextIsCredential(q)' /\ call'[q].stage = "authed"
  <2> DEFINE r == call[p].req
  <2>1. /\ Open \/ Accepted(r.token)
        /\ call'[q] = [stage |-> "authed", req |-> r, at |-> now,
                       scope |-> IF Open THEN Admin ELSE Tokens[r.token].org,
                       write |-> Open \/ Tokens[r.token].write]
        /\ server' = server
    BY <1>7 DEF AuthInterceptor, Goto, Idle
  <2>2. server \in Up
    BY <1>7 DEF AuthInterceptor
  <2>3. CASE Open
    <3>1. server.env = {} /\ server.lines = <<>>
      BY <2>2, <2>3, OpenIsEmpty DEF Open, Tokens, Up
    <3> QED BY <2>1, <2>3, <3>1 DEF ContextIsCredential, Open, Tokens
  <2>4. CASE ~ Open
    <3>1. /\ call'[q].req = r /\ call'[q].at = now
          /\ call'[q].scope = Tokens[r.token].org
      BY <2>1, <2>4
    <3>2. r.token \in DOMAIN Tokens /\ ~ Lapsed(Tokens[r.token].expires, now)
      BY <2>1, <2>4 DEF Accepted
    <3>3. Tokens[r.token].write \in BOOLEAN
      <4>1. Tokens \in [server.env \cup TokensIn(server.lines) -> Credential]
        BY <2>2, LoadType DEF Tokens, Up
      <4>2. Tokens[r.token] \in Credential
        BY <3>2, <4>1
      <4> QED BY <4>2 DEF Credential
    <3>4. call'[q].write = Tokens[r.token].write
      BY <2>1, <2>4, <3>3
    <3>5. Tokens' = Tokens
      BY <2>1 DEF Tokens
    <3> QED BY <2>1, <3>1, <3>2, <3>4, <3>5 DEF ContextIsCredential
  <2> QED BY <2>1, <2>3, <2>4
<1>8. ASSUME NEW p \in Call, p = q, server' = server, call[p].stage \in {"authed", "limiter", "handler"},
             NEW stage \in {"limiter", "handler", "body"},
             call'[q] = [call[q] EXCEPT !.stage = stage]
      PROVE  ContextIsCredential(q)' /\ call'[q].stage = stage
                /\ MayProceed(call'[q]) = MayProceed(call[q])
  <2>1. call[q] \in PassedFrame
    BY <1>8, Kinds
  <2>2. /\ call'[q].req = call[q].req /\ call'[q].at = call[q].at
        /\ call'[q].scope = call[q].scope /\ call'[q].write = call[q].write
        /\ call'[q].stage = stage
    BY <1>8, <2>1 DEF PassedFrame
  <2>3. Tokens' = Tokens /\ Open' = Open
    BY <1>8 DEF Tokens, Open
  <2> QED BY <1>8, <2>2, <2>3 DEF GrantInv, ContextIsCredential, MayProceed, Authorize, RequireWrite
<1>9. ASSUME NEW p \in Call, GetLimiter(p) \/ Allow(p) \/ Unlimited(p), p = q
      PROVE  call'[q].stage \in {"idle", "sent"} \/ (ContextIsCredential(q)' /\ call'[q].stage # "body")
  <2>1. /\ server' = server /\ call[p].stage \in {"authed", "limiter", "handler"}
        /\ \/ call'[q] = Idle
           \/ \E stage \in {"limiter", "handler"} : call'[q] = [call[q] EXCEPT !.stage = stage]
    BY <1>9 DEF GetLimiter, Allow, Unlimited, Goto, At
  <2>2. Idle.stage = "idle"
    BY DEF Idle
  <2> QED BY <1>8, <1>9, <2>1, <2>2
<1>10. ASSUME NEW p \in Call, Handle(p), p = q
       PROVE  call'[q].stage \in {"idle", "sent"} \/ (ContextIsCredential(q)' /\ MayProceed(call'[q]))
  <2>1. /\ server' = server /\ call[p].stage \in {"authed", "limiter", "handler"}
        /\ \/ call'[q] = Idle
           \/ MayProceed(call[q]) /\ call'[q] = [call[q] EXCEPT !.stage = "body"]
    BY <1>10 DEF Handle, Goto, At
  <2>2. Idle.stage = "idle"
    BY DEF Idle
  <2> QED BY <1>8, <1>10, <2>1, <2>2
<1>11. ASSUME NEW p \in Call, p # q,
              AuthInterceptor(p) \/ GetLimiter(p) \/ Allow(p) \/ Unlimited(p) \/ Handle(p)
       PROVE  server' = server /\ call'[q] = call[q]
  BY <1>11 DEF AuthInterceptor, GetLimiter, Allow, Unlimited, Handle, Goto
<1> QED BY <1>1, <1>2, <1>3, <1>4, <1>5, <1>6, <1>7, <1>9, <1>10, <1>11 DEF Next, Dispatch

\* A call past its handler's checks is granted by the line of its token.
LEMMA GrantInvGrants == TypeInv /\ GrantInv => CallsAreGranted
<1> SUFFICES ASSUME TypeInv, GrantInv, NEW p \in Call, At(p, "body")
             PROVE  LET r == call[p].req
                        lines == server.lines
                    IN \/ server.env = {} /\ lines = <<>>
                       \/ r.token \in server.env \ TokensIn(lines)
                       \/ \E i \in DOMAIN lines :
                            /\ lines[i].token = r.token
                            /\ \A j \in DOMAIN lines : j > i => lines[j].token # r.token
                            /\ Grants(lines[i], r, call[p].at)
  BY DEF CallsAreGranted
<1> DEFINE r == call[p].req
           lines == server.lines
           i == LastLine(lines, r.token)
<1>1. call[p] \in PassedFrame /\ server \in Up
  BY Kinds DEF TypeInv, AccessTypeOK, PassedUp, At
<1>2. r \in Request /\ call[p].at \in Nat /\ lines \in Seq(Line)
  BY <1>1 DEF PassedFrame, Up
<1>3. ContextIsCredential(p) /\ MayProceed(call[p])
  BY DEF GrantInv, At
<1>4. ASSUME r.token \in TokensIn(lines), r.token \in DOMAIN Tokens,
             ~ Lapsed(Tokens[r.token].expires, call[p].at),
             call[p].scope = Tokens[r.token].org, call[p].write = Tokens[r.token].write
      PROVE  \E k \in DOMAIN lines :
               /\ lines[k].token = r.token
               /\ \A j \in DOMAIN lines : j > k => lines[j].token # r.token
               /\ Grants(lines[k], r, call[p].at)
  <2>1. /\ i \in DOMAIN lines /\ lines[i].token = r.token
        /\ \A j \in DOMAIN lines : lines[j].token = r.token => j <= i
    BY <1>2, <1>4, LastLineIs
  <2>2. Tokens[r.token] = Parse(lines[i])
    BY <1>4 DEF Tokens, LoadTokens
  <2>3. lines[i] \in Line
    BY <1>2, <2>1
  <2> HIDE DEF i, lines
  <2>4. Grants(lines[i], r, call[p].at)
    BY <1>2, <1>3, <1>4, <2>2, <2>3, ParseGrants DEF MayProceed, Authorize, RequireWrite
  <2>5. \A j \in DOMAIN lines : j > i => lines[j].token # r.token
    BY <1>2, <2>1
  <2> QED BY <2>1, <2>4, <2>5
<1>5. r.token \in DOMAIN Tokens => r.token \in server.env \cup TokensIn(lines)
  BY DEF Tokens, LoadTokens
<1> QED BY <1>3, <1>4, <1>5 DEF ContextIsCredential

\* No call gets past its handler's checks without a grant of the file that the
\* server loaded, for all files, edits, restarts and interleavings.
THEOREM CallsGranted == Spec => []CallsAreGranted
<1>1. Init => GrantInv
  <2> SUFFICES ASSUME Init, NEW p \in Call
               PROVE  call[p].stage = "idle"
    BY DEF GrantInv, At
  <2> QED BY DEF Init, Idle
<1> QED BY <1>1, TypeInvHolds, GrantStep, GrantInvGrants, PTL DEF Spec

-----------------------------------------------------------------------------
\* What a scope has had and what its limiter holds: no more than was put in,
\* and no less than the burst it began with.
Conserved ==
  server # Down /\ server.rate > 0 =>
    \A s \in Scope :
      IF bucket[s] = NoLimiter THEN admitted[s] = 0
      ELSE /\ bucket[s] >= 0
           /\ bucket[s] + admitted[s] * Unit <= server.burst * Unit + server.rate * upFor
           /\ bucket[s] + admitted[s] * Unit >= server.burst * Unit

\* Arithmetic of products, for the steps below.
LEMMA Products ==
  ASSUME NEW a \in Int, NEW b \in Int
  PROVE  a * b \in Int /\ a * (b + 1) = a * b + a /\ (b + 1) * a = b * a + a
  BY SMT

LEMMA ProductOrder ==
  ASSUME NEW a \in Nat, NEW b \in Nat
  PROVE  a * b >= 0
  BY SMT

LEMMA ProductCancel ==
  ASSUME NEW a \in Int, NEW b \in Int, NEW c \in Int, c > 0, a * c > (b - 1) * c
  PROVE  a >= b
  BY SMT

LEMMA ConservedStep == TypeInv /\ TypeInv' /\ Conserved /\ [Next]_vars => Conserved'
<1> SUFFICES ASSUME TypeInv, TypeInv', Conserved, [Next]_vars,
                    server' # Down, server'.rate > 0, NEW s \in Scope
             PROVE  IF bucket'[s] = NoLimiter THEN admitted'[s] = 0
                    ELSE /\ bucket'[s] >= 0
                         /\ bucket'[s] + admitted'[s] * Unit
                              <= server'.burst * Unit + server'.rate * upFor'
                         /\ bucket'[s] + admitted'[s] * Unit >= server'.burst * Unit
  BY DEF Conserved
<1> USE DEF TypeInv, AccessTypeOK
<1> DEFINE Held == IF bucket'[s] = NoLimiter THEN admitted'[s] = 0
                   ELSE /\ bucket'[s] >= 0
                        /\ bucket'[s] + admitted'[s] * Unit
                             <= server'.burst * Unit + server'.rate * upFor'
                        /\ bucket'[s] + admitted'[s] * Unit >= server'.burst * Unit
<1>1. ASSUME server' = server, bucket' = bucket, admitted' = admitted, upFor' = upFor
      PROVE  Held
  BY <1>1 DEF Conserved
<1>2. CASE UNCHANGED vars \/ InitCmd \/ Edit
  BY <1>1, <1>2 DEF vars, InitCmd, Edit
<1>3. CASE Stop
  BY <1>3 DEF Stop
<1>4. ASSUME server # Down, server' = server
      PROVE  /\ server \in Up /\ server.rate \in Nat /\ server.rate > 0
             /\ server.burst \in Nat \ {0}
             /\ server.burst * Unit \in Int /\ server.burst * Unit >= Unit
             /\ admitted[s] * Unit \in Int /\ admitted[s] * Unit >= 0
             /\ server.rate * upFor \in Int /\ server.rate * upFor >= 0
             /\ Unit \in Nat /\ Unit > 0 /\ bucket[s] \in Int
  <2>1. server \in Up /\ server.rate \in Nat /\ server.rate > 0 /\ server.burst \in Nat \ {0}
    <3>1. server \in Up /\ server.rate > 0
      BY <1>4
    <3>2. \A x \in Up : x.rate \in Int /\ x.burst \in Nat \ {0}
      BY DEF Up
    <3> QED BY <3>1, <3>2
  <2>2. Unit \in Nat /\ Unit > 0 /\ admitted[s] \in Nat /\ upFor \in Nat /\ bucket[s] \in Int
    BY RateAssumption
  <2> HIDE DEF TypeInv, AccessTypeOK
  <2>3. server.burst * Unit \in Int /\ server.burst * Unit >= Unit
    BY <2>1, FullBucket
  <2>4. admitted[s] * Unit \in Int /\ server.rate * upFor \in Int
    BY <2>1, <2>2, Products
  <2>5. admitted[s] * Unit >= 0 /\ server.rate * upFor >= 0
    BY <2>1, <2>2, ProductOrder
  <2> QED BY <2>1, <2>2, <2>3, <2>4, <2>5
<1>5. CASE Tick
  <2>1. CASE server = Down
    BY <1>5, <2>1 DEF Tick
  <2>2. CASE server # Down
    <3>1. /\ server' = server /\ admitted' = admitted /\ upFor' = upFor + 1
          /\ bucket'[s] = Refill(bucket[s])
      BY <1>5, <2>2 DEF Tick
    <3>2. server.rate * upFor' = server.rate * upFor + server.rate
      <4>1. server.rate \in Int /\ upFor \in Int
        BY <1>4, <2>2, <3>1
      <4> HIDE DEF TypeInv, AccessTypeOK
      <4> QED BY <3>1, <4>1, Products
    <3>3. CASE bucket[s] = NoLimiter
      BY <2>2, <3>1, <3>3 DEF Refill, Conserved
    <3>4. CASE bucket[s] # NoLimiter
      <4>1. /\ bucket[s] >= 0
            /\ bucket[s] + admitted[s] * Unit <= server.burst * Unit + server.rate * upFor
            /\ bucket[s] + admitted[s] * Unit >= server.burst * Unit
        BY <2>2, <3>1, <3>4 DEF Conserved
      <4>2. bucket'[s] = IF bucket[s] + server.rate > server.burst * Unit
                         THEN server.burst * Unit ELSE bucket[s] + server.rate
        BY <3>1, <3>4 DEF Refill
      <4> HIDE DEF TypeInv, AccessTypeOK
      <4>3. /\ bucket'[s] >= 0
            /\ bucket'[s] + admitted[s] * Unit
                 <= server.burst * Unit + (server.rate * upFor + server.rate)
            /\ bucket'[s] + admitted[s] * Unit >= server.burst * Unit
        BY <1>4, <2>2, <3>1, <4>1, <4>2
      <4>4. bucket'[s] # NoLimiter
        BY <1>4, <2>2, <3>1, <4>2, <4>3 DEF NoLimiter
      <4> QED BY <3>1, <3>2, <4>3, <4>4
    <3> QED BY <3>3, <3>4
  <2> QED BY <2>1, <2>2
<1>6. ASSUME NEW env, NEW fromFile, NEW f, Serve(env, fromFile, f)
      PROVE  Held
  BY <1>6 DEF Serve
<1>7. ASSUME NEW p \in Call, GetLimiter(p)
      PROVE  Held
  <2>1. server # Down /\ server' = server /\ admitted' = admitted /\ upFor' = upFor
    BY <1>7 DEF GetLimiter, PassedUp, At
  <2>2. CASE s = LimiterOf(p) /\ bucket[s] = NoLimiter
    <3>1. bucket'[s] = server.burst * Unit
      BY <1>7, <2>2 DEF GetLimiter
    <3>2. admitted[s] = 0
      BY <2>1, <2>2 DEF Conserved
    <3>3. admitted[s] * Unit = 0
      BY <3>2, RateAssumption
    <3> HIDE DEF TypeInv, AccessTypeOK
    <3> QED BY <1>4, <2>1, <3>1, <3>3 DEF NoLimiter
  <2>3. CASE ~ (s = LimiterOf(p) /\ bucket[s] = NoLimiter)
    <3>1. bucket'[s] = bucket[s]
      BY <1>7, <2>3 DEF GetLimiter
    <3> QED BY <2>1, <3>1 DEF Conserved
  <2> QED BY <2>2, <2>3
<1>8. ASSUME NEW p \in Call, Allow(p)
      PROVE  Held
  <2>1. server # Down /\ server' = server /\ upFor' = upFor
    BY <1>8 DEF Allow, PassedUp, At
  <2>2. CASE s = LimiterOf(p) /\ bucket[s] >= Unit
    <3>1. bucket'[s] = bucket[s] - Unit /\ admitted'[s] = admitted[s] + 1
      BY <1>8, <2>2 DEF Allow, LimiterOf
    <3>2. bucket[s] # NoLimiter
      BY <2>2, RateAssumption DEF NoLimiter
    <3>3. admitted'[s] * Unit = admitted[s] * Unit + Unit
      BY <3>1, RateAssumption, Products
    <3>4. /\ bucket[s] + admitted[s] * Unit <= server.burst * Unit + server.rate * upFor
          /\ bucket[s] + admitted[s] * Unit >= server.burst * Unit
      BY <2>1, <3>2 DEF Conserved
    <3> HIDE DEF TypeInv, AccessTypeOK
    <3>5. /\ bucket'[s] >= 0
          /\ bucket'[s] + (admitted[s] * Unit + Unit) <= server.burst * Unit + server.rate * upFor
          /\ bucket'[s] + (admitted[s] * Unit + Unit) >= server.burst * Unit
      BY <1>4, <2>1, <2>2, <3>1, <3>4
    <3>6. bucket'[s] # NoLimiter
      BY <1>4, <2>1, <3>1, <3>5 DEF NoLimiter
    <3> QED BY <2>1, <3>3, <3>5, <3>6
  <2>3. CASE ~ (s = LimiterOf(p) /\ bucket[s] >= Unit)
    <3>1. bucket'[s] = bucket[s] /\ admitted'[s] = admitted[s]
      BY <1>8, <2>3 DEF Allow, LimiterOf
    <3> QED BY <2>1, <3>1 DEF Conserved
  <2> QED BY <2>2, <2>3
<1>9. ASSUME NEW p \in Call,
             \/ (\E r \in Request : Send(p, r)) \/ Unavailable(p) \/ AuthInterceptor(p)
             \/ Unlimited(p) \/ Handle(p) \/ Return(p)
      PROVE  Held
  BY <1>1, <1>9 DEF Send, Unavailable, AuthInterceptor, Unlimited, Handle, Return
<1> QED BY <1>2, <1>3, <1>5, <1>6, <1>7, <1>8, <1>9 DEF Next, Dispatch

LEMMA ConservedHolds == Spec => []Conserved
<1>1. Init => Conserved
  BY DEF Init, Conserved
<1> QED BY <1>1, TypeInvHolds, ConservedStep, PTL DEF Spec

\* The facts about a server that is up with a rate limit.
LEMMA RateFacts ==
  ASSUME TypeInv, server # Down, NEW s \in Scope
  PROVE  /\ server.rate \in Int /\ server.burst \in Nat /\ Unit \in Nat /\ Unit > 0
         /\ bucket[s] \in Int /\ admitted[s] \in Nat /\ upFor \in Nat
         /\ server.burst * Unit \in Int /\ server.burst * Unit >= 0
         /\ admitted[s] * Unit \in Int /\ server.rate * upFor \in Int
<1>1. /\ server \in Up /\ Unit \in Nat /\ Unit > 0
      /\ bucket[s] \in Int /\ admitted[s] \in Nat /\ upFor \in Nat
  BY RateAssumption DEF TypeInv, AccessTypeOK
<1>2. server.rate \in Int /\ server.burst \in Nat
  BY <1>1 DEF Up
<1> QED BY <1>1, <1>2, Products, ProductOrder

\* No scope gets more calls through than its burst and its rate allow, for all
\* rates and bursts and however many calls come at once.
THEOREM RateIsBounded == Spec => []RateBounded
<1>1. TypeInv /\ Conserved => RateBounded
  <2> SUFFICES ASSUME TypeInv, Conserved, server # Down, server.rate > 0, NEW s \in Scope
               PROVE  admitted[s] * Unit <= server.burst * Unit + server.rate * upFor
    BY DEF RateBounded
  <2>1. server.rate * upFor >= 0
    BY RateFacts, ProductOrder
  <2>2. CASE bucket[s] = NoLimiter
    <3>1. admitted[s] * Unit = 0
      BY <2>2, RateFacts DEF Conserved
    <3> QED BY <2>1, <3>1, RateFacts
  <2>3. CASE bucket[s] # NoLimiter
    <3>1. /\ bucket[s] >= 0
          /\ bucket[s] + admitted[s] * Unit <= server.burst * Unit + server.rate * upFor
      BY <2>3 DEF Conserved
    <3> QED BY <3>1, RateFacts
  <2> QED BY <2>2, <2>3
<1> QED BY <1>1, TypeInvHolds, ConservedHolds, PTL

\* A scope that is refused has used its burst itself: no other scope's calls
\* count against it.
THEOREM QuotaIsOwn == Spec => []OwnQuota
<1>1. TypeInv /\ Conserved => OwnQuota
  <2> SUFFICES ASSUME TypeInv, Conserved, server # Down, NEW s \in Scope,
                      bucket[s] \in 0 .. Unit - 1
               PROVE  admitted[s] >= server.burst
    BY DEF OwnQuota
  <2>1. bucket[s] # NoLimiter /\ bucket[s] < Unit
    BY RateFacts DEF NoLimiter
  <2>2. server.rate > 0
    BY <2>1, RateFacts DEF TypeInv, OffHasNone
  <2>3. bucket[s] + admitted[s] * Unit >= server.burst * Unit
    BY <2>1, <2>2 DEF Conserved
  <2>4. admitted[s] * Unit > server.burst * Unit - Unit
    BY <2>1, <2>3, RateFacts
  <2>5. (server.burst - 1) * Unit = server.burst * Unit - Unit
    <3>1. ASSUME NEW a \in Int, NEW b \in Int
          PROVE  (b - 1) * a = b * a - a
      BY SMT
    <3> QED BY <3>1, RateFacts
  <2> QED BY <2>4, <2>5, RateFacts, ProductCancel
<1> QED BY <1>1, TypeInvHolds, ConservedHolds, PTL

-----------------------------------------------------------------------------
InitFile == << [token |-> Minted, fields |-> <<[kind |-> "rw"]>>, comment |-> <<>>] >>

\* The tokens file is the one of init or the last one of the Plan, and a server
\* has loaded one that was there before.  A key that some server has loaded is
\* in both, or has expired.
RotationInv ==
  /\ file = NoFile => step = 0 /\ known = {} /\ (server = Down \/ ~ server.fromFile)
  /\ file # NoFile => IF step = 0 THEN file = InitFile ELSE file = Plan[step]
  /\ file # NoFile => \A t \in known : t \in TokensIn(file) \/ Expired(t)
  /\ server # Down /\ server.fromFile =>
       /\ server.lines = InitFile \/ \E i \in 1 .. step : server.lines = Plan[i]
       /\ \A t \in known : t \in TokensIn(server.lines) \/ Expired(t)

\* The token of init does not expire.
LEMMA InitNeverLapses ==
  /\ InitFile \in Seq(Line)
  /\ \A t \in TokensIn(InitFile), time \in Nat :
       ~ Lapsed(Parse(InitFile[LastLine(InitFile, t)]).expires, time)
<1>1. InitFile \in Seq(Line)
  <2>1. <<[kind |-> "rw"]>> \in Seq(Field) /\ <<>> \in Seq(Field)
    BY DEF Field
  <2>2. [token |-> Minted, fields |-> <<[kind |-> "rw"]>>, comment |-> <<>>] \in Line
    BY <2>1, NamesAssumption DEF Line
  <2> QED BY <2>2 DEF InitFile
<1>2. ASSUME NEW t \in TokensIn(InitFile), NEW time \in Nat
      PROVE  ~ Lapsed(Parse(InitFile[LastLine(InitFile, t)]).expires, time)
  <2>1. LastLine(InitFile, t) \in DOMAIN InitFile
    BY <1>1, LastLineIs
  <2>2. LastLine(InitFile, t) = 1
    BY <2>1 DEF InitFile
  <2>3. FieldsOf(InitFile[1]) = <<[kind |-> "rw"]>>
    <3>1. InitFile[1].fields = <<[kind |-> "rw"]>> /\ InitFile[1].comment = <<>>
      BY DEF InitFile
    <3>2. ASSUME NEW f
          PROVE  <<f>> \o <<>> = <<f>>
      OBVIOUS
    <3> QED BY <3>1, <3>2 DEF FieldsOf
  <2>4. ~ Has(<<[kind |-> "rw"]>>, "expiry")
    BY DEF Has
  <2>5. Parse(InitFile[1]).expires = Never
    BY <2>3, <2>4 DEF Parse, ExpiryOf
  <2> QED BY <2>2, <2>5 DEF Lapsed
<1> QED BY <1>1, <1>2

\* What has expired stays so.
LEMMA ExpiredStays ==
  ASSUME AccessTypeOK, NEW t, Expired(t), step' \in Nat, step' >= step, now' \in Nat, now' >= now
  PROVE  Expired(t)'
<1>1. PICK i \in 1 .. step : \E j \in DOMAIN Plan[i] :
        Plan[i][j].token = t /\ Lapsed(Parse(Plan[i][j]).expires, now)
  BY DEF Expired
<1>2. PICK j \in DOMAIN Plan[i] : Plan[i][j].token = t /\ Lapsed(Parse(Plan[i][j]).expires, now)
  BY <1>1
<1>3. i \in 1 .. Len(Plan) /\ i \in 1 .. step'
  BY <1>1, PlanAssumption DEF AccessTypeOK
<1>4. Plan[i][j] \in Line
  BY <1>2, <1>3, PlanAssumption
<1>5. Parse(Plan[i][j]).expires \in Nat \cup {Never}
  BY <1>4, ParseType DEF Credential
<1>6. Lapsed(Parse(Plan[i][j]).expires, now')
  BY <1>2, <1>5 DEF Lapsed, AccessTypeOK
<1> QED BY <1>2, <1>3, <1>6 DEF Expired

\* The expiry of a file of the Plan is one the operator has given.
LEMMA PlanLapseExpires ==
  ASSUME AccessTypeOK, NEW i \in 1 .. step, NEW t \in TokensIn(Plan[i]),
         Lapsed(Parse(Plan[i][LastLine(Plan[i], t)]).expires, now)
  PROVE  Expired(t)
<1>1. Plan[i] \in Seq(Line)
  BY PlanAssumption DEF AccessTypeOK
<1>2. LastLine(Plan[i], t) \in DOMAIN Plan[i] /\ Plan[i][LastLine(Plan[i], t)].token = t
  BY <1>1, LastLineIs
<1> QED BY <1>2 DEF Expired

LEMMA RotationStep == TypeInv /\ TypeInv' /\ RotationInv /\ [Next]_vars => RotationInv'
<1> SUFFICES ASSUME AccessTypeOK, AccessTypeOK', RotationInv, [Next]_vars
             PROVE  RotationInv'
  BY DEF TypeInv
<1>1. ASSUME step' >= step, now' >= now
      PROVE  \A t : Expired(t) => Expired(t)'
  BY <1>1, ExpiredStays DEF AccessTypeOK
<1>2. step \in Nat /\ now \in Nat
  BY PlanAssumption DEF AccessTypeOK
<1>3. ASSUME UNCHANGED <<file, step, known>>, now' >= now, server' \in {server, Down}
      PROVE  RotationInv'
  <2>1. \A t : Expired(t) => Expired(t)'
    BY <1>1, <1>2, <1>3
  <2> QED BY <1>3, <2>1 DEF RotationInv
<1>4. CASE UNCHANGED vars \/ Stop \/ Tick
  <2>1. UNCHANGED <<file, step, known>> /\ now' >= now /\ server' \in {server, Down}
    BY <1>2, <1>4 DEF vars, Stop, Tick
  <2> QED BY <1>3, <2>1
<1>5. CASE InitCmd
  <2>1. known' = {} /\ step' = step /\ server' = server /\ now' = now /\ file' = InitFile
    BY <1>5 DEF InitCmd, RotationInv, InitFile
  <2>3. server = Down \/ ~ server.fromFile
    BY <1>5 DEF InitCmd, RotationInv
  <2>4. step = 0
    BY <1>5 DEF InitCmd, RotationInv
  <2>5. file' # NoFile
    BY <2>1, InitNeverLapses, NamesAssumption
  <2> QED BY <2>1, <2>3, <2>4, <2>5 DEF RotationInv
<1>6. CASE Edit
  <2> DEFINE next == Plan[step + 1]
  <2>1. /\ file # NoFile /\ step' = step + 1 /\ file' = next /\ now' = now
        /\ known' = known /\ server' = server /\ step + 1 \in 1 .. Len(Plan)
    BY <1>2, <1>6, PlanAssumption DEF Edit
  <2>2. \A t : Expired(t) => Expired(t)'
    BY <1>1, <1>2, <2>1
  <2>3. next \in Seq(Line) /\ next # NoFile
    BY <2>1, PlanAssumption, NamesAssumption
  <2>4. ASSUME NEW t \in known, t \notin TokensIn(next)
        PROVE  Expired(t)'
    <3>1. t \in TokensIn(file) \/ Expired(t)
      BY <2>1 DEF RotationInv
    <3>2. ASSUME t \in TokensIn(file)
          PROVE  Expired(t)
      <4>1. Lapsed(Parse(file[LastLine(file, t)]).expires, now)
        BY <1>6, <2>4, <3>2 DEF Edit
      <4>2. CASE step = 0
        BY <1>2, <2>1, <3>2, <4>1, <4>2, InitNeverLapses DEF RotationInv
      <4>3. CASE step # 0
        <5>1. file = Plan[step] /\ step \in 1 .. step
          BY <1>2, <2>1, <4>3 DEF RotationInv
        <5> QED BY <3>2, <4>1, <5>1, PlanLapseExpires
      <4> QED BY <4>2, <4>3
    <3> QED BY <2>2, <3>1, <3>2
  <2>5. ASSUME NEW i \in 1 .. step
        PROVE  i \in 1 .. step'
    BY <1>2, <2>1
  <2>6. step' # 0
    BY <1>2, <2>1
  <2>7. server # Down /\ server.fromFile =>
          /\ server.lines = InitFile \/ \E i \in 1 .. step' : server.lines = Plan[i]
          /\ \A t \in known : t \in TokensIn(server.lines) \/ Expired(t)'
    BY <2>2, <2>5 DEF RotationInv
  <2> HIDE DEF next
  <2>8. file' # NoFile /\ \A t \in known : t \in TokensIn(next) \/ Expired(t)'
    BY <2>1, <2>3, <2>4
  <2>9. file' = Plan[step']
    BY <2>1 DEF next
  <2> QED BY <2>1, <2>6, <2>7, <2>8, <2>9 DEF RotationInv
<1>7. ASSUME NEW env, NEW fromFile \in BOOLEAN, NEW f, Serve(env, fromFile, f)
      PROVE  RotationInv'
  <2>1. /\ UNCHANGED <<file, step, now>> /\ server'.fromFile = fromFile
        /\ server'.lines = (IF fromFile THEN file ELSE <<>>)
        /\ known' = (IF fromFile THEN known \cup TokensIn(file) ELSE known)
        /\ fromFile => file # NoFile
    BY <1>7 DEF Serve
  <2>2. \A t : Expired(t) => Expired(t)'
    BY <1>1, <1>2, <2>1
  <2>3. file # NoFile => \A t \in known' : t \in TokensIn(file) \/ Expired(t)'
    BY <2>1, <2>2 DEF RotationInv
  <2>4. file = NoFile => step = 0 /\ known' = {} /\ ~ fromFile
    BY <2>1 DEF RotationInv
  <2>5. file # NoFile => file = InitFile \/ \E i \in 1 .. step : file = Plan[i]
    BY <1>2 DEF RotationInv
  <2>6. file # NoFile => IF step = 0 THEN file = InitFile ELSE file = Plan[step]
    BY DEF RotationInv
  <2> QED BY <2>1, <2>3, <2>4, <2>5, <2>6 DEF RotationInv
<1>8. ASSUME NEW p \in Call,
             \/ (\E r \in Request : Send(p, r)) \/ Unavailable(p) \/ AuthInterceptor(p)
             \/ GetLimiter(p) \/ Allow(p) \/ Unlimited(p) \/ Handle(p) \/ Return(p)
      PROVE  RotationInv'
  <2>1. UNCHANGED <<file, step, known, server, now>>
    BY <1>8 DEF Send, Unavailable, AuthInterceptor, GetLimiter, Allow, Unlimited, Handle, Return
  <2> QED BY <1>2, <1>3, <2>1
<1> QED BY <1>4, <1>5, <1>6, <1>7, <1>8 DEF Next, Dispatch

\* Keys rotate without a gap: along any Plan in which a key is dropped once it
\* has lapsed, no server refuses a key that an earlier one knew, unless an
\* expiry that the operator gave it has passed.
THEOREM KeysRotate == Spec => []KeyRotation
<1>1. Init => RotationInv
  BY DEF Init, RotationInv
<1>2. TypeInv /\ RotationInv => KeyRotation
  <2> SUFFICES ASSUME TypeInv, RotationInv, server # Down, server.fromFile, NEW t \in known,
                      ~ Expired(t)
               PROVE  Accepted(t)
    BY DEF KeyRotation
  <2>1. t \in TokensIn(server.lines)
    BY DEF RotationInv
  <2>2. t \in DOMAIN Tokens /\ Tokens[t] = Parse(server.lines[LastLine(server.lines, t)])
    BY <2>1 DEF Tokens, LoadTokens
  <2>3. CASE server.lines = InitFile
    <3>1. ~ Lapsed(Tokens[t].expires, now)
      BY <2>1, <2>2, <2>3, InitNeverLapses DEF TypeInv, AccessTypeOK
    <3> QED BY <2>2, <3>1 DEF Accepted
  <2>4. CASE \E i \in 1 .. step : server.lines = Plan[i]
    <3>1. PICK i \in 1 .. step : server.lines = Plan[i]
      BY <2>4
    <3>2. ~ Lapsed(Tokens[t].expires, now)
      BY <2>1, <2>2, <3>1, PlanLapseExpires DEF TypeInv
    <3> QED BY <2>2, <3>2 DEF Accepted
  <2> QED BY <2>3, <2>4 DEF RotationInv
<1> QED BY <1>1, <1>2, TypeInvHolds, RotationStep, PTL DEF Spec

=============================================================================
