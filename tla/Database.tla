------------------------------ MODULE Database -----------------------------
(***************************************************************************)
(* Opening a database and reading its columns, internal/store/store.go     *)
(* (Open, migrate, Dump) and internal/store/crypt.go.  Processes of        *)
(* several releases open one database, each with the encryption key its    *)
(* environment names, apply the migrations their release knows, write and  *)
(* read prompts, and stop anywhere.  A transaction is one step; between    *)
(* two statements other processes run.  A backup is a file of prompts, and *)
(* a restore upserts its lines one by one.                                 *)
(*                                                                         *)
(* A column is what was stored, by the key it was sealed with.  Ciphers    *)
(* are external: only the sealing key opens a sealed value.                *)
(***************************************************************************)
EXTENDS Integers, FiniteSets

CONSTANTS
  Proc,        \* servers and offline commands that open the database
  Known,       \* the number of migrations in each process's release
  Uri,         \* prompts
  Content,     \* templates with their slots
  Marked,      \* contents whose template begins with encPrefix
  Key,         \* encryption keys
  NoKey,       \* PROMPTNET_ENCRYPTION_KEY is not set
  BadKey,      \* it is set, and not the base64 of 32 bytes
  NoRow,       \* no row in the prompts table
  Cipher,      \* what a sealed value looks like to a reader without a key
  Error        \* a read that fails

ASSUME KnownAssumption == Known \in [Proc -> Nat]
ASSUME KeyAssumption ==
  /\ NoKey \notin Key /\ BadKey \notin Key /\ Error \notin Key
  /\ NoKey # BadKey /\ NoKey # Error
ASSUME ReadAssumption ==
  /\ Error \notin Content /\ Cipher \notin Content /\ Error # Cipher
  /\ NoRow \notin Content
ASSUME MarkedAssumption == Marked \subseteq Content

VARIABLES
  tables,      \* migrations whose statement has been applied
  versions,    \* the schema_version table
  rows,        \* the prompts table
  proc,        \* what each process is doing
  file,        \* the backup file
  asked        \* history: the key setting of each row's last writer

vars == <<tables, versions, rows, proc, file, asked>>

-----------------------------------------------------------------------------
Env == Key \cup {NoKey, BadKey}

Step == UNION {1 .. Known[p] : p \in Proc}

Down == [stage |-> "down"]

\* Inside migrate before it has read the version, and inside its loop.
ReadFrame == [stage : {"read"}, env : Env]

LoopFrame == [stage : {"loop"}, env : Env, cur : Nat]

\* A store that is open; key is NoKey when aead is nil.
UpFrame == [stage : {"up"}, env : Env, key : Key \cup {NoKey}]

Frame == {Down} \cup ReadFrame \cup LoopFrame \cup UpFrame

At(p, stage) == proc[p].stage = stage

Goto(p, f) == proc' = [proc EXCEPT ![p] = f]

\* A stored column: the key it is sealed with, the value, and whether the
\* stored text begins with encPrefix.
Column == [by : Key \cup {NoKey}, content : Content, prefixed : BOOLEAN]

Row == [template : Column, slots : Column]

\* The lines of a backup, and whether all were written.
File == [lines : [Uri -> Content \cup {NoRow}], complete : BOOLEAN]

-----------------------------------------------------------------------------
\* seal: the value as it is when there is no key.
Seal(k, c, marked) == [by |-> k, content |-> c, prefixed |-> k # NoKey \/ marked]

\* Both columns are sealed; slots are JSON, which never begins with encPrefix.
SealRow(k, c) == [template |-> Seal(k, c, c \in Marked), slots |-> Seal(k, c, FALSE)]

\* Mutant: with a key, a value without the prefix is refused.
OpenColumnStrict(k, col) ==
  IF k = NoKey THEN (IF col.by = NoKey THEN col.content ELSE Cipher)
  ELSE IF col.by = k THEN col.content ELSE Error

\* open: text that is not marked is plaintext, and so is all text without a key.
OpenColumn(k, col) ==
  IF k = NoKey \/ ~ col.prefixed
  THEN IF col.by = NoKey THEN col.content ELSE Cipher
  ELSE IF col.by = k THEN col.content ELSE Error

\* json.Unmarshal of the slots: a sealed value is not JSON.
ParseSlots(x) == IF x = Cipher THEN Error ELSE x

\* What the read of a stored row gives a process with key k.
ReadRow(k, r) ==
  LET template == OpenColumn(k, r.template)
      slots == ParseSlots(OpenColumn(k, r.slots))
  IN IF template = Error \/ slots = Error THEN Error ELSE template

Stored == {u \in Uri : rows[u] # NoRow}

\* Mutant: rows that cannot be read are left out.
DumpReadable(k) ==
  LET readable == {u \in Stored : ReadRow(k, rows[u]) # Error}
  IN [u \in readable |-> ReadRow(k, rows[u])]

\* Dump fails on the first row that it cannot read.
Dump(k) ==
  IF \E u \in Stored : ReadRow(k, rows[u]) = Error THEN Error
  ELSE [u \in Stored |-> ReadRow(k, rows[u])]

-----------------------------------------------------------------------------
\* Open connects; schema_version is created if it does not exist.
Open(p, env) ==
  /\ At(p, "down")
  /\ Goto(p, [stage |-> "read", env |-> env])
  /\ UNCHANGED <<tables, versions, rows, file, asked>>

\* SELECT COALESCE(MAX(version), 0).
MaxVersion == IF versions = {} THEN 0
              ELSE CHOOSE v \in versions : \A w \in versions : w <= v

ReadVersion(p) ==
  /\ At(p, "read")
  /\ Goto(p, [stage |-> "loop", env |-> proc[p].env, cur |-> MaxVersion])
  /\ UNCHANGED <<tables, versions, rows, file, asked>>

\* Mutant: the version is recorded although the step failed.
MigrateUnchecked(p) ==
  /\ At(p, "loop")
  /\ proc[p].cur < Known[p]
  /\ LET i == proc[p].cur + 1
     IN /\ versions' = versions \cup {i}
        /\ Goto(p, [proc[p] EXCEPT !.cur = i])
  /\ UNCHANGED <<tables, rows, file, asked>>

\* Mutant: the loop's bound is one too high.
MigratePastEnd(p) ==
  /\ At(p, "loop")
  /\ proc[p].cur <= Known[p]
  /\ LET i == proc[p].cur + 1
     IN /\ tables' = tables \cup {i}
        /\ versions' = versions \cup {i}
        /\ Goto(p, [proc[p] EXCEPT !.cur = i])
  /\ UNCHANGED <<rows, file, asked>>

\* One transaction of the loop: the step, which does nothing to a schema that
\* has it (IF NOT EXISTS), and its version.
Migrate(p) ==
  /\ At(p, "loop")
  /\ proc[p].cur < Known[p]
  /\ LET i == proc[p].cur + 1
     IN /\ tables' = tables \cup {i}
        /\ versions' = versions \cup {i}
        /\ Goto(p, [proc[p] EXCEPT !.cur = i])
  /\ UNCHANGED <<rows, file, asked>>

\* Mutant: one pending migration at most is applied.
ReadyAfterOne(p) == At(p, "loop") /\ proc[p].cur > 0

\* The loop has ended.
Ready(p) == At(p, "loop") /\ proc[p].cur >= Known[p]

\* Mutant: a key that cannot be used is no key.
LoadCipherLenient(env) == IF env \in Key THEN env ELSE NoKey

\* loadCipher: Error for a key that cannot be used.
LoadCipher(env) == IF env = BadKey THEN Error ELSE env

\* Open returns a store, or closes the connection again: the migrations stay.
FinishOpen(p) ==
  /\ Ready(p)
  /\ LET key == LoadCipher(proc[p].env)
     IN Goto(p, IF key = Error THEN Down
                ELSE [stage |-> "up", env |-> proc[p].env, key |-> key])
  /\ UNCHANGED <<tables, versions, rows, file, asked>>

\* The process stops, or a statement of Open fails; an unfinished transaction
\* is rolled back.
Stop(p) ==
  /\ ~ At(p, "down")
  /\ Goto(p, Down)
  /\ UNCHANGED <<tables, versions, rows, file, asked>>

\* An upsert of a prompt.
Write(p, u, c) ==
  /\ At(p, "up")
  /\ rows' = [rows EXCEPT ![u] = SealRow(proc[p].key, c)]
  /\ asked' = [asked EXCEPT ![u] = proc[p].env]
  /\ UNCHANGED <<tables, versions, proc, file>>

\* backup: the dump, and only then the file, which a failed write leaves short.
Backup(p) ==
  /\ At(p, "up")
  /\ Dump(proc[p].key) # Error
  /\ LET dump == Dump(proc[p].key)
     IN \E written \in SUBSET DOMAIN dump :
          file' = [lines |-> [u \in Uri |-> IF u \in written THEN dump[u] ELSE NoRow],
                   complete |-> written = DOMAIN dump]
  /\ Goto(p, Down)
  /\ UNCHANGED <<tables, versions, rows, asked>>

\* restore: the next line, sealed with the key of the process that restores.
RestoreLine(p, u) ==
  /\ file.lines[u] # NoRow
  /\ Write(p, u, file.lines[u])

-----------------------------------------------------------------------------
Init ==
  /\ tables = {}
  /\ versions = {}
  /\ rows = [u \in Uri |-> NoRow]
  /\ proc = [p \in Proc |-> Down]
  /\ file = [lines |-> [u \in Uri |-> NoRow], complete |-> FALSE]
  /\ asked = [u \in Uri |-> NoKey]

Next ==
  \E p \in Proc :
    \/ \E env \in Env : Open(p, env)
    \/ ReadVersion(p)
    \/ Migrate(p)
    \/ FinishOpen(p)
    \/ Stop(p)
    \/ \E u \in Uri, c \in Content : Write(p, u, c)
    \/ Backup(p)
    \/ \E u \in Uri : RestoreLine(p, u)

Spec == Init /\ [][Next]_vars

-----------------------------------------------------------------------------
(***************************************************************************)
(* Properties.                                                             *)
(***************************************************************************)

\* Types of the tables and of the processes' frames.
DatabaseTypeOK ==
  /\ tables \subseteq Step
  /\ versions \subseteq Step
  /\ rows \in [Uri -> Row \cup {NoRow}]
  /\ proc \in [Proc -> Frame]
  /\ file \in File
  /\ asked \in [Uri -> Env]

\* "Each in its own transaction so a failure leaves the schema consistent":
\* whoever migrates at the same time or stops half way, the steps applied are
\* an initial part of the list and the recorded version is their number.
SchemaInOrder == tables = versions /\ \A v \in versions : 1 .. v \subseteq versions

\* A store that is open finds every table its release uses, also when others
\* migrated part of the way, or further, after it had read the version.
OpenHasSchema == \A p \in Proc : At(p, "up") => 1 .. Known[p] \subseteq tables

\* "Backup writes every stored prompt": what it writes is what was stored, never
\* a sealed value, and when it reports success no prompt is missing, with rows
\* of several keys and of none in the table.
BackupIsTrue ==
  [][file' # file =>
       \A u \in Uri :
         /\ file'.lines[u] # NoRow =>
              u \in Stored /\ file'.lines[u] = rows[u].template.content
         /\ file'.complete /\ u \in Stored => file'.lines[u] # NoRow]_vars

\* "Encrypted and plaintext rows coexist during rollout": a process reads what was
\* written with its own key setting and, with a key, what was written without one.
\* The one exception is the one the comment at encPrefix concedes: a template that
\* begins with the marker, written without a key and read with one.
RolloutReadable ==
  \A p \in Proc, u \in Uri :
    At(p, "up") /\ rows[u] # NoRow =>
      LET key == proc[p].key
          template == rows[u].template
      IN \/ template.by \notin {NoKey, key}
         \/ template.by = NoKey /\ template.content \in Marked /\ key # NoKey
         \/ ReadRow(key, rows[u]) = template.content

\* "If the operator asked for encryption, never silently fall back to storing
\* plaintext": a row whose writer had a key setting is sealed, in both columns.
SealedWhenAsked ==
  \A u \in Uri : rows[u] # NoRow /\ asked[u] # NoKey =>
    rows[u].template.by = asked[u] /\ rows[u].slots.by = asked[u]

=============================================================================
