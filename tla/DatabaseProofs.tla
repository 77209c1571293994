--------------------------- MODULE DatabaseProofs --------------------------
(***************************************************************************)
(* Proofs about opening, migrating and reading a database, for any number  *)
(* of processes, releases, prompts and keys, whatever stops half way.      *)
(***************************************************************************)
EXTENDS Database, TLAPS

\* The steps applied are the first n of the list, and so are those recorded.
SchemaPrefix == tables = versions /\ \E n \in Nat : versions = 1 .. n

\* A process in the loop is behind the schema, never ahead of it.
LoopBehind == \A p \in Proc : At(p, "loop") => 1 .. proc[p].cur \subseteq versions

\* An open store has the key its environment asked for.
KeyAsAsked == \A p \in Proc : At(p, "up") => proc[p].key = proc[p].env

\* Both columns of a row are sealed with one key.
RowsSealed ==
  \A u \in Stored : \E k \in Key \cup {NoKey}, c \in Content : rows[u] = SealRow(k, c)

\* The inductive invariant.
DatabaseInv ==
  /\ DatabaseTypeOK
  /\ SchemaPrefix
  /\ LoopBehind
  /\ OpenHasSchema
  /\ KeyAsAsked
  /\ RowsSealed
  /\ SealedWhenAsked

\* A process's frame is of the kind its stage names.
LEMMA FrameKind ==
  ASSUME NEW f \in Frame
  PROVE  /\ f.stage = "read" => f \in ReadFrame
         /\ f.stage = "loop" => f \in LoopFrame
         /\ f.stage = "up" => f \in UpFrame
  BY DEF Frame, Down, ReadFrame, LoopFrame, UpFrame

\* The version read is the number of steps recorded.
LEMMA MaxVersionIs ==
  ASSUME NEW n \in Nat, versions = 1 .. n
  PROVE  MaxVersion = n
<1>1. CASE n = 0
  BY <1>1 DEF MaxVersion
<1>2. CASE n # 0
  <2>1. n \in versions /\ \A w \in versions : w <= n
    BY <1>2
  <2>2. versions # {}
    BY <2>1
  <2>3. \A v \in versions : (\A w \in versions : w <= v) => v = n
    BY <2>1
  <2> QED BY <2>1, <2>2, <2>3 DEF MaxVersion
<1> QED BY <1>1, <1>2

\* A sealed row is a row.
LEMMA SealTypes ==
  ASSUME NEW k \in Key \cup {NoKey}, NEW c \in Content
  PROVE  /\ SealRow(k, c) \in Row
         /\ SealRow(k, c).template.by = k
         /\ SealRow(k, c).slots.by = k
         /\ SealRow(k, c).template.content = c
  BY DEF SealRow, Seal, Row, Column

\* What the columns of a sealed row are.
LEMMA SealedColumns ==
  ASSUME NEW k \in Key \cup {NoKey}, NEW c \in Content
  PROVE  /\ SealRow(k, c).template.by = k
         /\ SealRow(k, c).template.content = c
         /\ SealRow(k, c).template.prefixed <=> (k # NoKey \/ c \in Marked)
         /\ SealRow(k, c).slots.by = k
         /\ SealRow(k, c).slots.content = c
         /\ SealRow(k, c).slots.prefixed <=> k # NoKey
  BY DEF SealRow, Seal

-----------------------------------------------------------------------------
\* The initial state satisfies the invariant.
LEMMA DatabaseInit ==
  ASSUME Init
  PROVE  DatabaseInv
<1>1. DatabaseTypeOK
  BY DEF Init, DatabaseTypeOK, Frame, Env, File
<1>2. SchemaPrefix
  <2>1. 1 .. 0 = {}
    OBVIOUS
  <2> QED BY <2>1 DEF Init, SchemaPrefix
<1> QED BY <1>1, <1>2
        DEF Init, DatabaseInv, LoopBehind, OpenHasSchema, KeyAsAsked, RowsSealed,
            Stored, SealedWhenAsked, At, Down

\* A step that only moves one process to a frame that fits the schema.
LEMMA ProcStep ==
  ASSUME DatabaseInv, NEW p \in Proc, NEW f \in Frame, Goto(p, f),
         UNCHANGED <<tables, versions, rows, asked>>, file' \in File,
         f.stage = "loop" => 1 .. f.cur \subseteq versions,
         f.stage = "up" => 1 .. Known[p] \subseteq tables /\ f.key = f.env
  PROVE  DatabaseInv'
<1>1. \A q \in Proc : proc'[q] = IF q = p THEN f ELSE proc[q]
  BY DEF Goto, DatabaseInv, DatabaseTypeOK
<1>2. DatabaseTypeOK'
  BY DEF Goto, DatabaseInv, DatabaseTypeOK
<1>3. SchemaPrefix' /\ RowsSealed' /\ SealedWhenAsked'
  BY DEF DatabaseInv, SchemaPrefix, RowsSealed, Stored, SealedWhenAsked
<1>4. LoopBehind' /\ OpenHasSchema' /\ KeyAsAsked'
  BY <1>1 DEF DatabaseInv, LoopBehind, OpenHasSchema, KeyAsAsked, At
<1> QED BY <1>2, <1>3, <1>4 DEF DatabaseInv

\* A transaction of the loop extends the schema by its next step, or repeats one.
LEMMA MigrateStep ==
  ASSUME DatabaseInv, NEW p \in Proc, Migrate(p)
  PROVE  DatabaseInv'
<1> DEFINE i == proc[p].cur + 1
<1> USE DEF DatabaseInv
<1>1. proc[p] \in LoopFrame /\ proc[p].cur < Known[p]
  BY FrameKind DEF Migrate, At, DatabaseTypeOK
<1>2. i \in Nat /\ i \in 1 .. Known[p] /\ i \in Step
  BY <1>1, KnownAssumption DEF LoopFrame, Step
<1>3. tables' = tables \cup {i} /\ versions' = versions \cup {i}
  BY DEF Migrate
<1>4. PICK n \in Nat : versions = 1 .. n
  BY DEF SchemaPrefix
<1>5. 1 .. proc[p].cur \subseteq 1 .. n
  BY <1>4 DEF LoopBehind, Migrate
<1>6. proc[p].cur <= n
  BY <1>1, <1>5 DEF LoopFrame
<1>7. SchemaPrefix'
  <2>1. CASE i <= n
    <3>1. versions' = 1 .. n
      BY <1>2, <1>3, <1>4, <2>1
    <3> QED BY <1>3, <3>1 DEF SchemaPrefix
  <2>2. CASE i = n + 1
    <3>1. versions' = 1 .. i
      BY <1>2, <1>3, <1>4, <2>2
    <3> QED BY <1>2, <1>3, <3>1 DEF SchemaPrefix
  <2> QED BY <1>1, <1>2, <1>6, <2>1, <2>2 DEF LoopFrame
<1>8. \A q \in Proc : proc'[q] = IF q = p THEN [proc[p] EXCEPT !.cur = i] ELSE proc[q]
  BY DEF Migrate, Goto, DatabaseTypeOK
<1>9. /\ [proc[p] EXCEPT !.cur = i] \in Frame
      /\ [proc[p] EXCEPT !.cur = i].stage = "loop"
      /\ [proc[p] EXCEPT !.cur = i].cur = i
  BY <1>1, <1>2 DEF LoopFrame, Frame
<1>10. DatabaseTypeOK'
  <2>1. proc' \in [Proc -> Frame]
    BY <1>9 DEF Migrate, Goto, DatabaseTypeOK
  <2>2. tables' \subseteq Step /\ versions' \subseteq Step
    BY <1>2, <1>3 DEF DatabaseTypeOK
  <2> QED BY <2>1, <2>2 DEF Migrate, DatabaseTypeOK
<1>11. 1 .. i \subseteq versions'
  <2>1. proc[p].cur \in Nat
    BY <1>1 DEF LoopFrame
  <2>2. \A j \in 1 .. i : j = i \/ j \in 1 .. n
    BY <1>6, <2>1
  <2> QED BY <2>2, <1>3, <1>4
<1>12. LoopBehind'
  <2> SUFFICES ASSUME NEW q \in Proc, At(q, "loop")'
               PROVE  1 .. proc'[q].cur \subseteq versions'
    BY DEF LoopBehind
  <2>1. CASE q = p
    BY <2>1, <1>8, <1>9, <1>11
  <2>2. CASE q # p
    BY <2>2, <1>3, <1>8 DEF LoopBehind, At
  <2> QED BY <2>1, <2>2
<1>13. OpenHasSchema' /\ KeyAsAsked'
  BY <1>3, <1>8, <1>9 DEF OpenHasSchema, KeyAsAsked, At
<1>14. RowsSealed' /\ SealedWhenAsked'
  BY DEF Migrate, RowsSealed, Stored, SealedWhenAsked
<1> QED BY <1>7, <1>10, <1>12, <1>13, <1>14

\* A write seals both columns with the key that its process asked for.
LEMMA WriteStep ==
  ASSUME DatabaseInv, NEW p \in Proc, NEW u \in Uri, NEW c \in Content, Write(p, u, c)
  PROVE  DatabaseInv'
<1> DEFINE k == proc[p].key
<1> USE DEF DatabaseInv
<1>1. proc[p] \in UpFrame /\ k = proc[p].env
  BY FrameKind DEF Write, At, DatabaseTypeOK, KeyAsAsked
<1>2. k \in Key \cup {NoKey} /\ proc[p].env \in Env
  BY <1>1 DEF UpFrame
<1>3. \A v \in Uri : /\ rows'[v] = IF v = u THEN SealRow(k, c) ELSE rows[v]
                     /\ asked'[v] = IF v = u THEN proc[p].env ELSE asked[v]
  BY DEF Write, DatabaseTypeOK
<1>4. DatabaseTypeOK'
  <2>1. rows' \in [Uri -> Row \cup {NoRow}]
    BY <1>2, SealTypes DEF Write, DatabaseTypeOK
  <2>2. asked' \in [Uri -> Env]
    BY <1>2 DEF Write, DatabaseTypeOK
  <2> QED BY <2>1, <2>2 DEF Write, DatabaseTypeOK
<1>5. RowsSealed'
  <2> SUFFICES ASSUME NEW v \in Uri, rows'[v] # NoRow
               PROVE  \E kk \in Key \cup {NoKey}, cc \in Content : rows'[v] = SealRow(kk, cc)
    BY DEF RowsSealed, Stored, SealRow, Seal
  <2>1. CASE v = u
    BY <2>1, <1>2, <1>3
  <2>2. CASE v # u
    BY <2>2, <1>3 DEF RowsSealed, Stored
  <2> QED BY <2>1, <2>2
<1>6. SealedWhenAsked'
  BY <1>1, <1>2, <1>3, SealTypes DEF SealedWhenAsked
<1>7. SchemaPrefix' /\ LoopBehind' /\ OpenHasSchema' /\ KeyAsAsked'
  BY DEF Write, SchemaPrefix, LoopBehind, OpenHasSchema, KeyAsAsked, At
<1> QED BY <1>4, <1>5, <1>6, <1>7

\* A read gives what was written, or an error.
LEMMA ReadIsTrue ==
  ASSUME DatabaseInv, NEW key \in Key \cup {NoKey}, NEW u \in Stored
  PROVE  ReadRow(key, rows[u]) \in {rows[u].template.content, Error}
<1>1. PICK k \in Key \cup {NoKey}, c \in Content : rows[u] = SealRow(k, c)
  BY DEF DatabaseInv, RowsSealed
<1>2. CASE k = NoKey
  BY <1>1, <1>2 DEF ReadRow, OpenColumn, SealRow, Seal
<1>3. CASE k # NoKey
  <2>1. CASE key = NoKey
    <3>1. ParseSlots(OpenColumn(key, rows[u].slots)) = Error
      BY <1>1, <1>3, <2>1 DEF ParseSlots, OpenColumn, SealRow, Seal
    <3> QED BY <3>1 DEF ReadRow
  <2>2. CASE key # NoKey
    <3>1. OpenColumn(key, rows[u].template) \in {c, Error}
      BY <1>1, <1>3, <2>2, SealedColumns DEF OpenColumn
    <3> QED BY <3>1, <1>1, SealedColumns DEF ReadRow
  <2> QED BY <2>1, <2>2
<1> QED BY <1>2, <1>3

\* The lines of a backup are what was stored, and all of it when it is complete.
LEMMA BackupLines ==
  ASSUME DatabaseInv, NEW p \in Proc, Backup(p)
  PROVE  /\ file' \in File
         /\ \A u \in Uri :
              /\ file'.lines[u] # NoRow => u \in Stored /\ file'.lines[u] = rows[u].template.content
              /\ file'.complete /\ u \in Stored => file'.lines[u] # NoRow
<1> DEFINE key == proc[p].key
           dump == Dump(key)
<1>1. key \in Key \cup {NoKey}
  BY FrameKind DEF Backup, At, DatabaseInv, DatabaseTypeOK, UpFrame
<1>2. /\ \A u \in Stored : ReadRow(key, rows[u]) # Error
      /\ dump = [u \in Stored |-> ReadRow(key, rows[u])]
  BY DEF Backup, Dump
<1>3. \A u \in Stored : /\ u \in Uri /\ dump[u] = rows[u].template.content
                        /\ rows[u].template.content \in Content
  <2> SUFFICES ASSUME NEW u \in Stored
               PROVE  /\ u \in Uri /\ dump[u] = rows[u].template.content
                      /\ rows[u].template.content \in Content
    OBVIOUS
  <2>1. dump[u] = rows[u].template.content
    BY <1>1, <1>2, ReadIsTrue
  <2>2. u \in Uri /\ rows[u] \in Row
    BY DEF Stored, DatabaseInv, DatabaseTypeOK
  <2> QED BY <2>1, <2>2 DEF Row, Column
<1>4. DOMAIN dump = Stored
  BY <1>2
<1> HIDE DEF dump
<1>5. PICK written \in SUBSET Stored :
        file' = [lines |-> [u \in Uri |-> IF u \in written THEN dump[u] ELSE NoRow],
                 complete |-> written = Stored]
  BY <1>4 DEF Backup, dump
<1>6. file' \in File
  BY <1>3, <1>5 DEF File
<1>7. ASSUME NEW u \in Uri
      PROVE  /\ file'.lines[u] # NoRow => u \in Stored /\ file'.lines[u] = rows[u].template.content
             /\ file'.complete /\ u \in Stored => file'.lines[u] # NoRow
  <2>1. file'.lines[u] = IF u \in written THEN dump[u] ELSE NoRow
    BY <1>5
  <2>2. file'.complete => written = Stored
    BY <1>5
  <2> QED BY <1>3, <2>1, <2>2, ReadAssumption
<1> QED BY <1>6, <1>7

\* Every step keeps the invariant.
LEMMA DatabaseStep ==
  ASSUME DatabaseInv, [Next]_vars
  PROVE  DatabaseInv'
<1>1. ASSUME NEW p \in Proc, NEW env \in Env, Open(p, env) PROVE DatabaseInv'
  <2>1. [stage |-> "read", env |-> env] \in Frame
    BY DEF Frame, ReadFrame
  <2> QED BY <1>1, <2>1, ProcStep DEF Open, DatabaseInv, DatabaseTypeOK
<1>2. ASSUME NEW p \in Proc, ReadVersion(p) PROVE DatabaseInv'
  <2>1. proc[p] \in ReadFrame
    BY <1>2, FrameKind DEF ReadVersion, At, DatabaseInv, DatabaseTypeOK
  <2>2. PICK n \in Nat : versions = 1 .. n
    BY DEF DatabaseInv, SchemaPrefix
  <2>3. MaxVersion = n
    BY <2>2, MaxVersionIs
  <2>4. [stage |-> "loop", env |-> proc[p].env, cur |-> MaxVersion] \in Frame
    BY <2>1, <2>3 DEF Frame, LoopFrame, ReadFrame
  <2> QED BY <1>2, <2>2, <2>3, <2>4, ProcStep DEF ReadVersion, DatabaseInv, DatabaseTypeOK
<1>3. ASSUME NEW p \in Proc, FinishOpen(p) PROVE DatabaseInv'
  <2> DEFINE env == proc[p].env
             f == [stage |-> "up", env |-> env, key |-> LoadCipher(env)]
  <2>1. proc[p] \in LoopFrame /\ proc[p].cur >= Known[p]
    BY <1>3, FrameKind DEF FinishOpen, Ready, At, DatabaseInv, DatabaseTypeOK
  <2>2. 1 .. Known[p] \subseteq tables
    <3>1. 1 .. proc[p].cur \subseteq tables
      BY <1>3 DEF FinishOpen, Ready, DatabaseInv, LoopBehind, SchemaPrefix
    <3> QED BY <3>1, <2>1, KnownAssumption DEF LoopFrame
  <2>3. CASE LoadCipher(env) = Error
    <3>1. Goto(p, Down) /\ Down \in Frame
      BY <1>3, <2>3 DEF FinishOpen, Frame
    <3> QED BY <1>3, <3>1, ProcStep DEF FinishOpen, Down, DatabaseInv, DatabaseTypeOK
  <2>4. CASE LoadCipher(env) # Error
    <3>1. LoadCipher(env) = env /\ env \in Key \cup {NoKey}
      BY <2>1, <2>4 DEF LoadCipher, LoopFrame, Env
    <3>2. Goto(p, f) /\ f \in Frame /\ f.key = f.env
      BY <1>3, <2>1, <2>4, <3>1 DEF FinishOpen, Frame, UpFrame, LoopFrame
    <3> QED BY <1>3, <2>2, <3>2, ProcStep DEF FinishOpen, DatabaseInv, DatabaseTypeOK
  <2> QED BY <2>3, <2>4
<1>4. ASSUME NEW p \in Proc, Stop(p) PROVE DatabaseInv'
  <2>1. Down \in Frame
    BY DEF Frame
  <2> QED BY <1>4, <2>1, ProcStep DEF Stop, Down, DatabaseInv, DatabaseTypeOK
<1>5. CASE UNCHANGED vars
  BY <1>5 DEF vars, DatabaseInv, DatabaseTypeOK, SchemaPrefix, LoopBehind, OpenHasSchema,
              KeyAsAsked, RowsSealed, Stored, SealedWhenAsked, At
<1>6. ASSUME NEW p \in Proc, Backup(p) PROVE DatabaseInv'
  <2>1. Down \in Frame /\ file' \in File
    BY <1>6, BackupLines DEF Frame
  <2> QED BY <1>6, <2>1, ProcStep DEF Backup, Down
<1>7. ASSUME NEW p \in Proc, NEW u \in Uri, RestoreLine(p, u) PROVE DatabaseInv'
  <2>1. file.lines[u] \in Content
    BY <1>7 DEF RestoreLine, DatabaseInv, DatabaseTypeOK, File
  <2> QED BY <1>7, <2>1, WriteStep DEF RestoreLine
<1> QED BY <1>1, <1>2, <1>3, <1>4, <1>5, <1>6, <1>7, MigrateStep, WriteStep DEF Next

\* The invariant holds in every behaviour.
LEMMA DatabaseInvariant == Spec => []DatabaseInv
  BY DatabaseInit, DatabaseStep, PTL DEF Spec

-----------------------------------------------------------------------------
\* The tables and the processes' frames keep their types.
THEOREM DatabaseTypes == Spec => []DatabaseTypeOK
<1>1. DatabaseInv => DatabaseTypeOK
  BY DEF DatabaseInv
<1> QED BY <1>1, DatabaseInvariant, PTL

\* The steps applied are always a prefix of the list of migrations, recorded as such.
THEOREM SchemaIsConsistent == Spec => []SchemaInOrder
<1>1. DatabaseInv => SchemaInOrder
  BY DEF DatabaseInv, SchemaPrefix, SchemaInOrder
<1> QED BY <1>1, DatabaseInvariant, PTL

\* An open store finds all the tables of its release.
THEOREM OpenedIsMigrated == Spec => []OpenHasSchema
<1>1. DatabaseInv => OpenHasSchema
  BY DEF DatabaseInv
<1> QED BY <1>1, DatabaseInvariant, PTL

\* A row whose writer had a key setting is sealed with that key.
THEOREM EncryptionIsKept == Spec => []SealedWhenAsked
<1>1. DatabaseInv => SealedWhenAsked
  BY DEF DatabaseInv
<1> QED BY <1>1, DatabaseInvariant, PTL

\* A backup holds what is stored, and all of it when it reports success.
THEOREM BackupsAreTrue == Spec => BackupIsTrue
<1> DEFINE Exact ==
      \A u \in Uri :
        /\ file'.lines[u] # NoRow =>
             u \in Stored /\ file'.lines[u] = rows[u].template.content
        /\ file'.complete /\ u \in Stored => file'.lines[u] # NoRow
<1>1. DatabaseInv /\ [Next]_vars => [file' # file => Exact]_vars
  <2> SUFFICES ASSUME DatabaseInv, Next, file' # file
               PROVE  Exact
    BY DEF vars
  <2>1. PICK p \in Proc : Backup(p)
    BY DEF Next, Open, ReadVersion, Migrate, FinishOpen, Stop, Write, RestoreLine
  <2> QED BY <2>1, BackupLines
<1> QED BY <1>1, DatabaseInvariant, PTL DEF Spec, BackupIsTrue

\* A process reads what was written with its own key setting, whatever the template
\* begins with, and with a key also what was written without one, unless that
\* template begins with the marker.
THEOREM RolloutIsReadable == Spec => []RolloutReadable
<1>1. DatabaseInv => RolloutReadable
  <2> SUFFICES ASSUME DatabaseInv, NEW p \in Proc, NEW u \in Uri, At(p, "up"),
                      rows[u] # NoRow,
                      rows[u].template.by \in {NoKey, proc[p].key},
                      \/ rows[u].template.by # NoKey
                      \/ rows[u].template.content \notin Marked
                      \/ proc[p].key = NoKey
               PROVE  ReadRow(proc[p].key, rows[u]) = rows[u].template.content
    BY DEF RolloutReadable
  <2>1. PICK k \in Key \cup {NoKey}, c \in Content : rows[u] = SealRow(k, c)
    BY DEF DatabaseInv, RowsSealed, Stored
  <2>2. /\ k \in {NoKey, proc[p].key}
        /\ k # NoKey \/ c \notin Marked \/ proc[p].key = NoKey
    BY <2>1, SealTypes
  <2>3. /\ OpenColumn(proc[p].key, rows[u].template) = c
        /\ OpenColumn(proc[p].key, rows[u].slots) = c
        /\ rows[u].template.content = c
    <3>1. CASE k = NoKey
      BY <2>1, <2>2, <3>1, SealedColumns DEF OpenColumn
    <3>2. CASE k # NoKey
      BY <2>1, <2>2, <3>2, SealedColumns DEF OpenColumn
    <3> QED BY <3>1, <3>2
  <2>4. c # Error /\ ParseSlots(c) = c
    BY ReadAssumption DEF ParseSlots
  <2> QED BY <2>3, <2>4 DEF ReadRow
<1> QED BY <1>1, DatabaseInvariant, PTL

=============================================================================
