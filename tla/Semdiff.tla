------------------------------ MODULE Semdiff ------------------------------
(***************************************************************************)
(* The semantic propagation diff, internal/semdiff/semdiff.go, one call of *)
(* Analyze and the verdict drawn from it: the line diff, then for each     *)
(* hunk the delta at the change and the expansion of the window up and     *)
(* down, then the classification.  The caller is the server's classify,    *)
(* whose verdict a notification carries, or a diff: DiffPrompt,            *)
(* DiffCommits, the check of put, and promptctl.                           *)
(*                                                                         *)
(* An embedder is abstract: the delta of two texts that differ is any      *)
(* member of Delta, the same one whenever the two are compared again.      *)
(* Deltas are in hundredths.                                               *)
(***************************************************************************)
EXTENDS Integers, Sequences, FiniteSets

CONSTANTS
  Line,         \* lines of a prompt
  Blank,        \* the empty line
  MaxLines,     \* bound on the length of a prompt
  Delta,        \* 1 - cosine of two embeddings, in hundredths
  PersistFrac   \* persistFracFor the embedder, in hundredths

ASSUME BlankAssumption == Blank \in Line
ASSUME MaxLinesAssumption == MaxLines \in Nat
ASSUME DeltaAssumption == Delta \subseteq 0 .. 100
ASSUME PersistFracAssumption == PersistFrac \in 0 .. 100

VARIABLES
  old, new,     \* the two versions, as lines
  caller,       \* "classify" of the server, or a "diff"
  embedder,     \* whether the server was given an embedder
  pc,           \* where the call is
  i, j,         \* lines of old and new passed by the diff
  start,        \* where the open hunk began: <<oS, nS>>
  out,          \* hunks found
  known,        \* deltas fixed by the embeddings in the cache
  s2,           \* Signal 2 of the hunk under analysis
  prev,         \* delta at the window before this one
  r,            \* radius of the next window
  up,           \* the finished upward direction
  results,      \* the analysed hunks
  verdict       \* what the notification will carry

input == <<old, new, caller, embedder>>

diffVars == <<i, j, start, out>>

hunkVars == <<known, s2, prev, r, up, results>>

vars == <<old, new, caller, embedder, pc, i, j, start, out, known, s2, prev, r, up,
          results, verdict>>

-----------------------------------------------------------------------------
FlattenEps == 2

LocalThresh == 15

StructMinDelta == 15

Class == {"structural", "localized tweak", "minor edit"}

Change == [oldStart : 0 .. MaxLines, oldEnd : 0 .. MaxLines,
           newStart : 0 .. MaxLines, newEnd : 0 .. MaxLines]

\* The curve is kept to its last delta, the only one classify looks at.
Direction == [last : 0 .. 100, stoppedAtBoundary : BOOLEAN]

Result == [up : Direction, down : Direction, class : Class]

NoDirection == [last |-> 0, stoppedAtBoundary |-> FALSE]

Max(a, b) == IF a >= b THEN a ELSE b

Min(a, b) == IF a <= b THEN a ELSE b

\* |a - b| < FlattenEps
Flat(a, b) == a - b < FlattenEps /\ b - a < FlattenEps

-----------------------------------------------------------------------------
\* dp[<<a, b>>]: length of the longest common subsequence of the lines of old from
\* a on and those of new from b on.
Lcs ==
  LET dp[p \in (0 .. Len(old)) \X (0 .. Len(new))] ==
        LET a == p[1]
            b == p[2]
        IN IF a = Len(old) \/ b = Len(new) THEN 0
           ELSE IF old[a + 1] = new[b + 1] THEN dp[<<a + 1, b + 1>>] + 1
           ELSE Max(dp[<<a + 1, b>>], dp[<<a, b + 1>>])
  IN dp

Both == i < Len(old) /\ j < Len(new)

\* Both lines are left, and they differ.
Differ == Both /\ old[i + 1] # new[j + 1]

Hunk(oS, oE, nS, nE) ==
  [oldStart |-> oS, oldEnd |-> oE, newStart |-> nS, newEnd |-> nE]

\* classify's early return: no embedder, or no prior version (an empty text).  A
\* diff takes an empty text as any other.
Unclassifiable == caller = "classify" /\ (~ embedder \/ old = <<Blank>>)

NoVerdict ==
  /\ pc = "call"
  /\ Unclassifiable
  /\ pc' = "unclassified"
  /\ UNCHANGED <<input, diffVars, hunkVars, verdict>>

Analyze ==
  /\ pc = "call"
  /\ ~ Unclassifiable
  /\ pc' = "scan"
  /\ UNCHANGED <<input, diffVars, hunkVars, verdict>>

Match ==
  /\ pc = "scan"
  /\ Both /\ ~ Differ
  /\ i' = i + 1
  /\ j' = j + 1
  /\ UNCHANGED <<input, pc, start, out, hunkVars, verdict>>

OpenHunk ==
  /\ pc = "scan"
  /\ Differ
  /\ start' = <<i, j>>
  /\ pc' = "hunk"
  /\ UNCHANGED <<input, i, j, out, hunkVars, verdict>>

\* Mutant: the comparison is the wrong way round.
SkipWrongSide ==
  /\ pc = "hunk"
  /\ Differ
  /\ IF Lcs[<<i + 1, j>>] <= Lcs[<<i, j + 1>>]
     THEN i' = i + 1 /\ UNCHANGED j
     ELSE j' = j + 1 /\ UNCHANGED i
  /\ UNCHANGED <<input, pc, start, out, hunkVars, verdict>>

\* Mutant: on a tie neither side advances.
SkipStrict ==
  /\ pc = "hunk"
  /\ Differ
  /\ i' = IF Lcs[<<i + 1, j>>] > Lcs[<<i, j + 1>>] THEN i + 1 ELSE i
  /\ j' = IF Lcs[<<i + 1, j>>] < Lcs[<<i, j + 1>>] THEN j + 1 ELSE j
  /\ UNCHANGED <<input, pc, start, out, hunkVars, verdict>>

\* Inside a hunk, the side whose rest has more in common is skipped.
Skip ==
  /\ pc = "hunk"
  /\ Differ
  /\ IF Lcs[<<i + 1, j>>] >= Lcs[<<i, j + 1>>]
     THEN i' = i + 1 /\ UNCHANGED j
     ELSE j' = j + 1 /\ UNCHANGED i
  /\ UNCHANGED <<input, pc, start, out, hunkVars, verdict>>

CloseHunk ==
  /\ pc = "hunk"
  /\ ~ Differ
  /\ out' = Append(out, Hunk(start[1], i, start[2], j))
  /\ pc' = "scan"
  /\ UNCHANGED <<input, i, j, start, hunkVars, verdict>>

\* Mutant: only a rest on both sides counts.
TrailingHunkBoth ==
  /\ pc = "scan"
  /\ ~ Both
  /\ out' = IF i < Len(old) /\ j < Len(new)
            THEN Append(out, Hunk(i, Len(old), j, Len(new))) ELSE out
  /\ pc' = "point"
  /\ UNCHANGED <<input, i, j, start, hunkVars, verdict>>

\* The trailing insert or delete.
TrailingHunk ==
  /\ pc = "scan"
  /\ ~ Both
  /\ out' = IF i < Len(old) \/ j < Len(new)
            THEN Append(out, Hunk(i, Len(old), j, Len(new))) ELSE out
  /\ pc' = "point"
  /\ UNCHANGED <<input, i, j, start, hunkVars, verdict>>

-----------------------------------------------------------------------------
\* The hunk under analysis.
Current == out[Len(results) + 1]

\* join: no line and one empty line are the same text.
Join(lines) == IF lines = <<Blank>> THEN <<>> ELSE lines

\* The two texts of a window that reaches from line a to line b of either side.
Texts(oS, oE, nS, nE) == <<Join(SubSeq(old, oS + 1, oE)), Join(SubSeq(new, nS + 1, nE))>>

\* The changed region alone.
Core == Texts(Current.oldStart, Current.oldEnd, Current.newStart, Current.newEnd)

UpOld == Max(0, Current.oldStart - r)

UpNew == Max(0, Current.newStart - r)

DownOld == Min(Len(old), Current.oldEnd + r)

DownNew == Min(Len(new), Current.newEnd + r)

\* The region grown by r lines toward one end.
Window ==
  IF pc = "up" THEN Texts(UpOld, Current.oldEnd, UpNew, Current.newEnd)
               ELSE Texts(Current.oldStart, DownOld, Current.newStart, DownNew)

AtBoundary ==
  IF pc = "up" THEN UpOld = 0 /\ UpNew = 0
               ELSE DownOld = Len(old) /\ DownNew = Len(new)

\* deltaText: equal texts are not embedded; two embedded texts have one delta.
DeltaText(t) ==
  IF t[1] = t[2] THEN {0} ELSE IF t \in DOMAIN known THEN {known[t]} ELSE Delta

\* The embeddings of the two texts stay in the cache.
Remember(t, d) ==
  known' = IF t[1] = t[2] THEN known
           ELSE [u \in DOMAIN known \cup {t} |-> IF u = t THEN d ELSE known[u]]

\* Texts whose embedding is in the cache of this call.
Embedded == UNION {{t[1], t[2]} : t \in DOMAIN known}

Persists(d, point) ==
  /\ d.stoppedAtBoundary
  /\ d.last >= StructMinDelta
  /\ 100 * d.last >= point * PersistFrac

Classify(point, above, below) ==
  IF Persists(above, point) \/ Persists(below, point) THEN "structural"
  ELSE IF point >= LocalThresh THEN "localized tweak" ELSE "minor edit"

\* Mutant: a minor edit does not outrank no verdict.
WorstNotMinor(rs) ==
  LET classes == {rs[k].class : k \in DOMAIN rs}
  IN IF "structural" \in classes THEN "structural"
     ELSE IF "localized tweak" \in classes THEN "localized tweak" ELSE ""

\* Worst: "" when there is no hunk.
Worst(rs) ==
  LET classes == {rs[k].class : k \in DOMAIN rs}
  IN IF classes = {} THEN ""
     ELSE IF "structural" \in classes THEN "structural"
     ELSE IF "localized tweak" \in classes THEN "localized tweak" ELSE "minor edit"

\* Signal 2 of the next hunk.
PointDelta ==
  /\ pc = "point"
  /\ Len(results) < Len(out)
  /\ \E d \in DeltaText(Core) :
       /\ Remember(Core, d)
       /\ s2' = d
       /\ prev' = d
  /\ r' = 2
  /\ pc' = "up"
  /\ UNCHANGED <<input, diffVars, up, results, verdict>>

\* expand, a window that neither flattens the curve nor reaches the edge.
Widen ==
  /\ pc \in {"up", "down"}
  /\ ~ AtBoundary
  /\ \E d \in DeltaText(Window) :
       /\ Remember(Window, d)
       /\ ~ Flat(d, prev)
       /\ prev' = d
  /\ r' = r + 2
  /\ UNCHANGED <<input, pc, diffVars, s2, up, results, verdict>>

\* Mutant: the edge is looked at before the curve.
EndedEdgeFirst(d) == [last |-> d, stoppedAtBoundary |-> AtBoundary]

\* What expand returns at delta d: the curve is flat, or else at the edge.
Ended(d) == [last |-> d, stoppedAtBoundary |-> ~ Flat(d, prev)]

EndUp ==
  /\ pc = "up"
  /\ \E d \in DeltaText(Window) :
       /\ Flat(d, prev) \/ AtBoundary
       /\ Remember(Window, d)
       /\ up' = Ended(d)
  /\ prev' = s2
  /\ r' = 2
  /\ pc' = "down"
  /\ UNCHANGED <<input, diffVars, s2, results, verdict>>

\* The hunk is analysed; what analyzeChange kept of it is gone.
EndDown ==
  /\ pc = "down"
  /\ \E d \in DeltaText(Window) :
       /\ Flat(d, prev) \/ AtBoundary
       /\ Remember(Window, d)
       /\ results' = Append(results,
            [up |-> up, down |-> Ended(d), class |-> Classify(s2, up, Ended(d))])
  /\ s2' = 0
  /\ prev' = 0
  /\ r' = 2
  /\ up' = NoDirection
  /\ pc' = "point"
  /\ UNCHANGED <<input, diffVars, verdict>>

\* The embedder fails on a text it is asked for: no verdict.
EmbedFails ==
  /\ pc \in {"point", "up", "down"}
  /\ Len(results) < Len(out)
  /\ LET t == IF pc = "point" THEN Core ELSE Window
     IN t[1] # t[2] /\ {t[1], t[2]} \notin SUBSET Embedded
  /\ pc' = "failed"
  /\ UNCHANGED <<input, diffVars, hunkVars, verdict>>

\* All hunks are analysed.  classify returns the worst class, a diff the results
\* themselves.
Conclude ==
  /\ pc = "point"
  /\ Len(results) = Len(out)
  /\ verdict' = IF caller = "classify" THEN Worst(results) ELSE ""
  /\ pc' = "done"
  /\ UNCHANGED <<input, diffVars, hunkVars>>

-----------------------------------------------------------------------------
\* Splitting a text gives at least one line.
Text == UNION {[1 .. n -> Line] : n \in 1 .. MaxLines}

Init ==
  /\ old \in Text
  /\ new \in Text
  /\ caller \in {"classify", "diff"}
  /\ embedder \in BOOLEAN
  /\ caller = "diff" => embedder
  /\ pc = "call"
  /\ i = 0
  /\ j = 0
  /\ start = <<0, 0>>
  /\ out = <<>>
  /\ known = <<>>
  /\ s2 = 0
  /\ prev = 0
  /\ r = 2
  /\ up = NoDirection
  /\ results = <<>>
  /\ verdict = ""

Next ==
  \/ NoVerdict \/ Analyze
  \/ Match \/ OpenHunk \/ Skip \/ CloseHunk \/ TrailingHunk
  \/ PointDelta \/ Widen \/ EndUp \/ EndDown \/ EmbedFails \/ Conclude

Spec == Init /\ [][Next]_vars

\* The call is sequential, and the embedder answers or fails.
FairSpec == Spec /\ WF_vars(Next)

-----------------------------------------------------------------------------
(***************************************************************************)
(* Properties.                                                             *)
(***************************************************************************)

\* The line before hunk k of old, and of new, where hunk 0 is the beginning.
OldFrom(k) == IF k = 0 THEN 0 ELSE out[k].oldEnd

NewFrom(k) == IF k = 0 THEN 0 ELSE out[k].newEnd

\* Lines a .. a+n-1 of old are lines b .. b+n-1 of new.
SameLines(a, b, n) == \A k \in 1 .. n : old[a + k] = new[b + k]

\* The hunks are an edit script: what lies before the first, between two, and
\* after the last of them is the same in both texts, so replacing each old
\* range by its new one turns old into new.  Every hunk changes something.
HunksTransform ==
  /\ \A k \in DOMAIN out :
       LET c == out[k] gap == c.oldStart - OldFrom(k - 1)
       IN /\ gap >= 0
          /\ gap = c.newStart - NewFrom(k - 1)
          /\ SameLines(OldFrom(k - 1), NewFrom(k - 1), gap)
          /\ c.oldStart <= c.oldEnd /\ c.newStart <= c.newEnd
          /\ c.oldStart < c.oldEnd \/ c.newStart < c.newEnd
  /\ pc \notin {"call", "unclassified", "scan", "hunk"} =>
       LET rest == Len(old) - OldFrom(Len(out))
       IN /\ rest = Len(new) - NewFrom(Len(out))
          /\ SameLines(OldFrom(Len(out)), NewFrom(Len(out)), rest)

\* Reference definition of a common subsequence: an order-preserving choice of
\* as many lines of old as of new, line by line the same.
CommonSubsequence(S, T) ==
  /\ Cardinality(S) = Cardinality(T)
  /\ \A a \in S, b \in T :
       Cardinality({x \in S : x <= a}) = Cardinality({y \in T : y <= b})
         => old[a] = new[b]

\* The diff is minimal: the lines it leaves out of the hunks are as many as
\* any common subsequence of the two texts has.
DiffIsMinimal ==
  pc = "point" /\ results = <<>> =>
    LET inHunks == {k \in DOMAIN old :
                      \E h \in DOMAIN out : out[h].oldStart < k /\ k <= out[h].oldEnd}
    IN \A S \in SUBSET DOMAIN old, T \in SUBSET DOMAIN new :
         CommonSubsequence(S, T) => Cardinality(S) <= Len(old) - Cardinality(inHunks)

\* A shift is said to persist to an end of the file only if there is something
\* between the change and that end: a hunk that starts both files shows no
\* upward propagation, one that ends both shows no downward propagation.
PersistenceNeedsContext ==
  \A k \in DOMAIN results :
    /\ results[k].up.stoppedAtBoundary => out[k].oldStart > 0 \/ out[k].newStart > 0
    /\ results[k].down.stoppedAtBoundary =>
         out[k].oldEnd < Len(old) \/ out[k].newEnd < Len(new)

\* classify returns "" "when there is no embedder, no prior version, or the diff
\* errors", and otherwise only when no line changed: a completed analysis
\* classifies every change.  A diff likewise is empty only of equal texts.
VerdictIffChanged ==
  /\ pc = "done" /\ caller = "classify" => (verdict = "" <=> old = new)
  /\ pc = "done" /\ caller = "diff" => (results = <<>> <=> old = new)
  /\ Unclassifiable => verdict = ""

\* The diff and the expansion loops end: a publish is never held up by them.
AnalysisEnds == <>(pc \in {"done", "failed", "unclassified"})

=============================================================================
