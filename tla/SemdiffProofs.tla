--------------------------- MODULE SemdiffProofs ---------------------------
(***************************************************************************)
(* Proofs about the semantic diff, for texts of any length over any lines  *)
(* and for every embedder.                                                 *)
(*                                                                         *)
(* DiffInv says how far the edit script reaches while it is being found:   *)
(* up to the lines passed outside a hunk, up to its start inside one.      *)
(* WindowInv says that while a hunk is analysed its point delta is fixed:  *)
(* measuring the changed region again gives Signal 2.                      *)
(* MinimalInv says that the lines copied so far and what the table still   *)
(* promises are no fewer than the table promised at the beginning; that    *)
(* the table exists, and bounds every common subsequence, is shown by      *)
(* induction on the lines left.                                            *)
(***************************************************************************)
EXTENDS Semdiff, Induction, FiniteSetTheorems, SequenceTheorems, TLAPS

USE DEF input

\* From the last hunk to lines a and b nothing differs.
CopiedTo(a, b) ==
  /\ a - OldFrom(Len(out)) \in Nat
  /\ a - OldFrom(Len(out)) = b - NewFrom(Len(out))
  /\ SameLines(OldFrom(Len(out)), NewFrom(Len(out)), a - OldFrom(Len(out)))

\* Hunk k follows the one before it, and changes something.
HunkFollows(k) ==
  LET c == out[k]
      gap == c.oldStart - OldFrom(k - 1)
  IN /\ gap \in Nat
     /\ gap = c.newStart - NewFrom(k - 1)
     /\ SameLines(OldFrom(k - 1), NewFrom(k - 1), gap)
     /\ c.oldStart <= c.oldEnd /\ c.newStart <= c.newEnd
     /\ c.oldStart < c.oldEnd \/ c.newStart < c.newEnd
     /\ c.oldEnd <= Len(old) /\ c.newEnd <= Len(new)

DiffTypes ==
  /\ old \in Seq(Line) /\ new \in Seq(Line)
  /\ Len(old) \in 1 .. MaxLines /\ Len(new) \in 1 .. MaxLines
  /\ pc \in {"call", "unclassified", "scan", "hunk", "point", "up", "down", "failed", "done"}
  /\ i \in 0 .. Len(old) /\ j \in 0 .. Len(new)
  /\ start \in (0 .. Len(old)) \X (0 .. Len(new))
  /\ out \in Seq(Change)

DiffInv ==
  /\ DiffTypes
  /\ \A k \in DOMAIN out : HunkFollows(k)
  /\ pc \in {"call", "scan"} => CopiedTo(i, j)
  /\ pc = "hunk" => /\ CopiedTo(start[1], start[2])
                    /\ start[1] <= i /\ start[2] <= j
                    /\ start[1] < i \/ start[2] < j \/ Differ
  /\ pc \notin {"call", "unclassified", "scan", "hunk"} => CopiedTo(Len(old), Len(new))

\* The steps of the analysis leave the diff alone.
AnalysisStep == PointDelta \/ Widen \/ EndUp \/ EndDown \/ EmbedFails \/ Conclude

LEMMA AnalysisKeepsDiff ==
  ASSUME DiffInv, AnalysisStep \/ UNCHANGED vars
  PROVE  DiffInv'
<1>1. UNCHANGED <<old, new, i, j, start, out>>
  BY DEF AnalysisStep, PointDelta, Widen, EndUp, EndDown, EmbedFails, Conclude,
         diffVars, vars
<1>2. \/ pc' = pc
      \/ /\ pc \notin {"call", "unclassified", "scan", "hunk"}
         /\ pc' \in {"point", "up", "down", "failed", "done"}
  BY DEF AnalysisStep, PointDelta, Widen, EndUp, EndDown, EmbedFails, Conclude, vars
<1>3. /\ \A a, b : CopiedTo(a, b) => CopiedTo(a, b)'
      /\ \A k : HunkFollows(k) => HunkFollows(k)'
      /\ Differ => Differ'
  BY <1>1 DEF CopiedTo, HunkFollows, SameLines, OldFrom, NewFrom, Differ, Both
<1>4. DiffTypes'
  BY <1>1, <1>2 DEF DiffInv, DiffTypes
<1>5. CASE pc' = pc
  BY <1>1, <1>3, <1>4, <1>5 DEF DiffInv
<1>6. CASE /\ pc \notin {"call", "unclassified", "scan", "hunk"}
            /\ pc' \in {"point", "up", "down", "failed", "done"}
  BY <1>1, <1>3, <1>4, <1>6 DEF DiffInv
<1> QED BY <1>2, <1>5, <1>6

\* The last hunk ends at a line.
LEMMA LastHunk ==
  ASSUME DiffTypes
  PROVE  OldFrom(Len(out)) \in Nat /\ NewFrom(Len(out)) \in Nat
<1>1. Len(out) \in Nat
  BY DEF DiffTypes
<1>2. CASE Len(out) = 0
  BY <1>2 DEF OldFrom, NewFrom
<1>3. CASE Len(out) # 0
  <2>1. out[Len(out)] \in Change
    BY <1>1, <1>3 DEF DiffTypes
  <2>2. out[Len(out)].oldEnd \in Nat /\ out[Len(out)].newEnd \in Nat
    BY <2>1 DEF Change
  <2> QED BY <1>3, <2>2 DEF OldFrom, NewFrom
<1> QED BY <1>2, <1>3

\* Appending a hunk that begins where the copied lines end.
LEMMA AppendHunk ==
  ASSUME DiffInv, NEW oS \in 0 .. Len(old), NEW oE \in 0 .. Len(old),
         NEW nS \in 0 .. Len(new), NEW nE \in 0 .. Len(new),
         CopiedTo(oS, nS), oS <= oE, nS <= nE, oS < oE \/ nS < nE,
         out' = Append(out, Hunk(oS, oE, nS, nE)),
         UNCHANGED <<old, new>>
  PROVE  /\ out' \in Seq(Change)
         /\ \A k \in DOMAIN out' : HunkFollows(k)'
         /\ CopiedTo(oE, nE)'
<1> DEFINE h == Hunk(oS, oE, nS, nE)
<1>1. h \in Change
  BY MaxLinesAssumption DEF DiffInv, DiffTypes, Hunk, Change
<1>2. out' \in Seq(Change) /\ Len(out') = Len(out) + 1 /\ Len(out) \in Nat
  BY <1>1 DEF DiffInv, DiffTypes
<1>3. out'[Len(out')] = h /\ \A k \in 1 .. Len(out) : out'[k] = out[k]
  BY <1>1 DEF DiffInv, DiffTypes
<1>4. \A k \in 0 .. Len(out) : OldFrom(k)' = OldFrom(k) /\ NewFrom(k)' = NewFrom(k)
  BY <1>3 DEF OldFrom, NewFrom
<1>5. OldFrom(Len(out))' = oE /\ NewFrom(Len(out))' = nE
  BY <1>2, <1>3 DEF OldFrom, NewFrom, Hunk
<1>6. CopiedTo(oE, nE)'
  BY <1>5 DEF CopiedTo, SameLines
<1>7. ASSUME NEW k \in DOMAIN out' PROVE HunkFollows(k)'
  <2>1. k \in 1 .. Len(out) + 1
    BY <1>2
  <2>2. CASE k = Len(out) + 1
    <3>0. k = Len(out') /\ k - 1 = Len(out) /\ Len(out) \in 0 .. Len(out)
      BY <1>2, <2>2
    <3>1. out'[k] = h
      BY <1>3, <3>0
    <3>2. PICK a, b : a = OldFrom(Len(out)) /\ b = NewFrom(Len(out))
      OBVIOUS
    <3>3. OldFrom(k - 1)' = a /\ NewFrom(k - 1)' = b
      BY <1>4, <3>0, <3>2
    <3>4. /\ oS - a \in Nat /\ oS - a = nS - b
          /\ \A m \in 1 .. oS - a : old'[a + m] = new'[b + m]
      BY <3>2 DEF CopiedTo, SameLines
    <3>5. /\ h.oldStart = oS /\ h.oldEnd = oE /\ h.newStart = nS /\ h.newEnd = nE
      BY DEF Hunk
    <3>6. oE <= Len(old') /\ nE <= Len(new')
      OBVIOUS
    <3> HIDE DEF h
    <3> QED BY <3>1, <3>3, <3>4, <3>5, <3>6 DEF HunkFollows, SameLines
  <2>3. CASE k \in 1 .. Len(out)
    <3>1. k - 1 \in 0 .. Len(out)
      BY <1>2, <2>3
    <3>2. out'[k] = out[k]
      BY <1>3, <2>3
    <3>3. OldFrom(k - 1)' = OldFrom(k - 1) /\ NewFrom(k - 1)' = NewFrom(k - 1)
      BY <1>4, <3>1
    <3>4. HunkFollows(k)
      BY <1>2, <2>3 DEF DiffInv, DiffTypes
    <3> QED BY <3>2, <3>3, <3>4 DEF HunkFollows, SameLines
  <2> QED BY <2>1, <2>2, <2>3, <1>2
<1> QED BY <1>2, <1>6, <1>7

\* The steps before the diff change nothing but the place of the call.
EntryStep == NoVerdict \/ Analyze

LEMMA EntryKeeps ==
  ASSUME EntryStep
  PROVE  /\ UNCHANGED <<old, new, i, j, start, out, known, s2, prev, r, up, results, verdict>>
         /\ pc = "call" /\ pc' \in {"unclassified", "scan"}
  BY DEF EntryStep, NoVerdict, Analyze, diffVars, hunkVars

LEMMA EntryKeepsDiff ==
  ASSUME DiffInv, EntryStep
  PROVE  DiffInv'
<1>1. /\ UNCHANGED <<old, new, i, j, start, out>>
      /\ pc = "call" /\ pc' \in {"unclassified", "scan"}
  BY EntryKeeps
<1>2. CopiedTo(i, j) => CopiedTo(i, j)'
  BY <1>1 DEF CopiedTo, SameLines, OldFrom, NewFrom
<1>3. \A k : HunkFollows(k) => HunkFollows(k)'
  BY <1>1 DEF HunkFollows, SameLines, OldFrom, NewFrom
<1>4. DiffTypes'
  BY <1>1 DEF DiffInv, DiffTypes
<1> QED BY <1>1, <1>2, <1>3, <1>4 DEF DiffInv

LEMMA DiffInvInit == Init => DiffInv
<1> SUFFICES ASSUME Init PROVE DiffInv
  OBVIOUS
<1>1. old \in Seq(Line) /\ Len(old) \in 1 .. MaxLines
  <2>1. PICK n \in 1 .. MaxLines : old \in [1 .. n -> Line]
    BY DEF Init, Text
  <2> QED BY <2>1
<1>2. new \in Seq(Line) /\ Len(new) \in 1 .. MaxLines
  <2>1. PICK n \in 1 .. MaxLines : new \in [1 .. n -> Line]
    BY DEF Init, Text
  <2> QED BY <2>1
<1>3. /\ i = 0 /\ j = 0 /\ start = <<0, 0>> /\ pc = "call" /\ Len(out) = 0
      /\ out \in Seq(Change)
  <2>1. out = <<>>
    BY DEF Init
  <2>2. out \in Seq(Change) /\ Len(out) = 0
    BY <2>1
  <2> QED BY <2>2 DEF Init
<1>4. 0 \in 0 .. Len(old) /\ 0 \in 0 .. Len(new)
  BY <1>1, <1>2
<1>5. DiffTypes
  BY <1>1, <1>2, <1>3, <1>4 DEF DiffTypes
<1>6. CopiedTo(i, j)
  BY <1>3 DEF CopiedTo, OldFrom, NewFrom, SameLines
<1>7. DOMAIN out = {}
  BY <1>3
<1> QED BY <1>3, <1>5, <1>6, <1>7 DEF DiffInv

LEMMA DiffInvNext == DiffInv /\ [Next]_vars => DiffInv'
<1> SUFFICES ASSUME DiffInv, [Next]_vars PROVE DiffInv'
  OBVIOUS
<1>0. DiffTypes
  BY DEF DiffInv
<1>1. CASE Match
  <2>1. /\ UNCHANGED <<old, new, start, out>> /\ pc' = "scan" /\ pc = "scan"
        /\ i' = i + 1 /\ j' = j + 1
        /\ i < Len(old) /\ j < Len(new) /\ old[i + 1] = new[j + 1]
    BY <1>1 DEF Match, Both, Differ
  <2>2. DiffTypes'
    BY <1>0, <2>1 DEF DiffTypes
  <2>3. \A k \in DOMAIN out' : HunkFollows(k)'
    BY <2>1 DEF DiffInv, HunkFollows, OldFrom, NewFrom, SameLines
  <2>4. CopiedTo(i, j)
    BY <2>1 DEF DiffInv
  <2>5. OldFrom(Len(out)) \in Int /\ NewFrom(Len(out)) \in Int
    BY <1>0, LastHunk
  <2>6. CopiedTo(i, j)'
    <3> DEFINE a == OldFrom(Len(out))
               b == NewFrom(Len(out))
               n == i - a
    <3>1. n \in Nat /\ n = j - b /\ \A k \in 1 .. n : old[a + k] = new[b + k]
      BY <2>4 DEF CopiedTo, SameLines
    <3>2. a + (n + 1) = i + 1 /\ b + (n + 1) = j + 1
      BY <3>1, <2>5, <1>0 DEF DiffTypes
    <3>3. \A k \in 1 .. n + 1 : old[a + k] = new[b + k]
      <4> SUFFICES ASSUME NEW k \in 1 .. n + 1 PROVE old[a + k] = new[b + k]
        OBVIOUS
      <4>1. k \in 1 .. n \/ k = n + 1
        BY <3>1
      <4> QED BY <4>1, <3>1, <3>2, <2>1
    <3>4. OldFrom(Len(out))' = a /\ NewFrom(Len(out))' = b
      BY <2>1 DEF OldFrom, NewFrom
    <3>5. i' - a = n + 1 /\ j' - b = n + 1 /\ n + 1 \in Nat
      <4> HIDE DEF a, b
      <4>1. i \in Int /\ j \in Int /\ a \in Int /\ b \in Int
        BY <2>5, <1>0 DEF DiffTypes, a, b
      <4> QED BY <4>1, <3>1, <2>1
    <3> QED BY <2>1, <3>3, <3>4, <3>5 DEF CopiedTo, SameLines
  <2> QED BY <2>1, <2>2, <2>3, <2>6 DEF DiffInv
<1>2. CASE OpenHunk
  <2>1. /\ UNCHANGED <<old, new, i, j, out>> /\ pc' = "hunk" /\ pc = "scan"
        /\ start' = <<i, j>> /\ Differ
    BY <1>2 DEF OpenHunk
  <2>2. DiffTypes'
    BY <1>0, <2>1 DEF DiffTypes
  <2>3. /\ \A k \in DOMAIN out' : HunkFollows(k)'
        /\ CopiedTo(i, j)' /\ Differ'
    BY <2>1 DEF DiffInv, HunkFollows, OldFrom, NewFrom, SameLines, CopiedTo, Differ, Both
  <2>4. start'[1] = i' /\ start'[2] = j' /\ start'[1] <= i' /\ start'[2] <= j'
    BY <1>0, <2>1 DEF DiffTypes
  <2> QED BY <2>1, <2>2, <2>3, <2>4 DEF DiffInv
<1>3. CASE Skip
  <2>1. /\ UNCHANGED <<old, new, start, out>> /\ pc' = "hunk" /\ pc = "hunk"
        /\ i < Len(old) /\ j < Len(new)
        /\ (i' = i + 1 /\ j' = j) \/ (j' = j + 1 /\ i' = i)
    BY <1>3 DEF Skip, Differ, Both
  <2>2. DiffTypes'
    BY <1>0, <2>1 DEF DiffTypes
  <2>3. /\ \A k \in DOMAIN out' : HunkFollows(k)'
        /\ CopiedTo(start[1], start[2])'
    BY <2>1 DEF DiffInv, HunkFollows, OldFrom, NewFrom, SameLines, CopiedTo
  <2>4. start[1] <= i /\ start[2] <= j /\ start[1] \in Int /\ start[2] \in Int
    BY <1>0, <2>1 DEF DiffInv, DiffTypes
  <2>5. /\ start'[1] <= i' /\ start'[2] <= j'
        /\ start'[1] < i' \/ start'[2] < j'
    BY <1>0, <2>1, <2>4 DEF DiffTypes
  <2> QED BY <2>1, <2>2, <2>3, <2>5 DEF DiffInv
<1>4. CASE CloseHunk
  <2>1. /\ UNCHANGED <<old, new, i, j, start>> /\ pc' = "scan" /\ pc = "hunk"
        /\ out' = Append(out, Hunk(start[1], i, start[2], j)) /\ ~ Differ
    BY <1>4 DEF CloseHunk
  <2>2. /\ CopiedTo(start[1], start[2]) /\ start[1] <= i /\ start[2] <= j
        /\ start[1] < i \/ start[2] < j
    BY <2>1 DEF DiffInv
  <2>3. start[1] \in 0 .. Len(old) /\ start[2] \in 0 .. Len(new)
    BY <1>0 DEF DiffTypes
  <2>4. i \in 0 .. Len(old) /\ j \in 0 .. Len(new)
    BY <1>0 DEF DiffTypes
  <2>5. /\ out' \in Seq(Change)
        /\ \A k \in DOMAIN out' : HunkFollows(k)'
        /\ CopiedTo(i, j)'
    BY <2>1, <2>2, <2>3, <2>4, AppendHunk
  <2>6. DiffTypes'
    BY <1>0, <2>1, <2>5 DEF DiffTypes
  <2> QED BY <2>1, <2>5, <2>6 DEF DiffInv
<1>5. CASE TrailingHunk
  <2>1. /\ UNCHANGED <<old, new, i, j, start>> /\ pc' = "point" /\ pc = "scan" /\ ~ Both
        /\ out' = IF i < Len(old) \/ j < Len(new)
                  THEN Append(out, Hunk(i, Len(old), j, Len(new))) ELSE out
    BY <1>5 DEF TrailingHunk
  <2>2. CopiedTo(i, j)
    BY <2>1 DEF DiffInv
  <2>3. i \in 0 .. Len(old) /\ j \in 0 .. Len(new)
        /\ Len(old) \in 0 .. Len(old) /\ Len(new) \in 0 .. Len(new)
    BY <1>0 DEF DiffTypes
  <2>4. CASE i < Len(old) \/ j < Len(new)
    <3>1. /\ out' \in Seq(Change)
          /\ \A k \in DOMAIN out' : HunkFollows(k)'
          /\ CopiedTo(Len(old), Len(new))'
      BY <2>1, <2>2, <2>3, <2>4, AppendHunk
    <3>2. DiffTypes'
      BY <1>0, <2>1, <3>1 DEF DiffTypes
    <3> QED BY <2>1, <3>1, <3>2 DEF DiffInv
  <2>5. CASE ~ (i < Len(old) \/ j < Len(new))
    <3>1. out' = out /\ i = Len(old) /\ j = Len(new)
      BY <2>1, <2>3, <2>5
    <3>2. DiffTypes'
      BY <1>0, <2>1, <3>1 DEF DiffTypes
    <3>3. UNCHANGED <<old, new, out>>
      BY <2>1, <3>1
    <3>4. \A k : HunkFollows(k) => HunkFollows(k)'
      BY <3>3 DEF HunkFollows, OldFrom, NewFrom, SameLines
    <3>5. \A k \in DOMAIN out' : HunkFollows(k)'
      BY <3>3, <3>4 DEF DiffInv
    <3>6. CopiedTo(Len(old), Len(new))
      BY <2>2, <3>1
    <3>7. CopiedTo(Len(old), Len(new))'
      BY <3>3, <3>6 DEF CopiedTo, OldFrom, NewFrom, SameLines
    <3> QED BY <2>1, <3>2, <3>5, <3>7 DEF DiffInv
  <2> QED BY <2>4, <2>5
<1>6. CASE AnalysisStep \/ UNCHANGED vars
  BY <1>6, AnalysisKeepsDiff
<1>7. CASE EntryStep
  BY <1>7, EntryKeepsDiff
<1> QED BY <1>1, <1>2, <1>3, <1>4, <1>5, <1>6, <1>7 DEF Next, AnalysisStep, EntryStep

\* The hunks that changes returns turn the old text into the new one.
THEOREM HunksAreEditScript == Spec => []HunksTransform
<1>1. DiffInv => HunksTransform
  BY DEF DiffInv, DiffTypes, HunksTransform, HunkFollows, CopiedTo
<1> QED BY <1>1, DiffInvInit, DiffInvNext, PTL DEF Spec

-----------------------------------------------------------------------------
\* Nothing lies between a hunk and the beginning, or the end, of both texts.
NothingAbove(c) == c.oldStart = 0 /\ c.newStart = 0

NothingBelow(c) == c.oldEnd = Len(old) /\ c.newEnd = Len(new)

\* Measuring the changed region again gives Signal 2.
SignalFixed ==
  IF Core[1] = Core[2] THEN s2 = 0 ELSE Core \in DOMAIN known /\ known[Core] = s2

\* The analysed hunks persist only where there is context.
ResultsHaveContext ==
  \A k \in DOMAIN results :
    /\ results[k].up.stoppedAtBoundary => ~ NothingAbove(out[k])
    /\ results[k].down.stoppedAtBoundary => ~ NothingBelow(out[k])

AnalysisTypes ==
  /\ results \in Seq(Result)
  /\ Len(results) <= Len(out)
  /\ pc \in {"call", "scan", "hunk"} => results = <<>>
  /\ pc \in {"up", "down"} => Len(results) < Len(out)
  /\ \A t \in DOMAIN known : known[t] \in 0 .. 100
  /\ s2 \in 0 .. 100
  /\ r \in Nat
  /\ up \in Direction

WindowInv ==
  /\ AnalysisTypes
  /\ ResultsHaveContext
  /\ pc \in {"up", "down"} => SignalFixed
  /\ pc = "up" /\ NothingAbove(Current) => prev = s2
  /\ pc = "down" /\ NothingBelow(Current) => prev = s2
  /\ pc = "down" /\ up.stoppedAtBoundary => ~ NothingAbove(Current)

\* A delta is a number of hundredths.
LEMMA DeltaTypes ==
  ASSUME AnalysisTypes, NEW t, NEW d \in DeltaText(t)
  PROVE  d \in 0 .. 100
<1>1. CASE t[1] = t[2]
  BY <1>1 DEF DeltaText
<1>2. CASE t[1] # t[2] /\ t \in DOMAIN known
  BY <1>2 DEF DeltaText, AnalysisTypes
<1>3. CASE t[1] # t[2] /\ t \notin DOMAIN known
  <2>1. d \in Delta
    BY <1>3 DEF DeltaText
  <2> QED BY <2>1, DeltaAssumption
<1> QED BY <1>1, <1>2, <1>3

\* Measuring a window fixes its delta, and none that was fixed before.
LEMMA RememberTypes ==
  ASSUME AnalysisTypes, NEW t, NEW d \in DeltaText(t), Remember(t, d)
  PROVE  /\ \A u \in DOMAIN known' : known'[u] \in 0 .. 100
         /\ \A u \in DOMAIN known : u \in DOMAIN known' /\ known'[u] = known[u]
         /\ t[1] # t[2] => t \in DOMAIN known' /\ known'[t] = d
<1>1. d \in 0 .. 100
  BY DeltaTypes
<1>2. CASE t[1] = t[2]
  BY <1>2 DEF Remember, AnalysisTypes
<1>3. CASE t[1] # t[2]
  <2>1. known' = [u \in DOMAIN known \cup {t} |-> IF u = t THEN d ELSE known[u]]
    BY <1>3 DEF Remember
  <2>2. t \in DOMAIN known => d = known[t]
    BY <1>3 DEF DeltaText
  <2> QED BY <1>1, <1>3, <2>1, <2>2 DEF AnalysisTypes
<1> QED BY <1>2, <1>3

\* The hunk under analysis is one of those found, within both texts.
LEMMA CurrentHunk ==
  ASSUME DiffInv, AnalysisTypes, Len(results) < Len(out)
  PROVE  /\ Current \in Change
         /\ Current.oldEnd <= Len(old) /\ Current.newEnd <= Len(new)
<1>1. Len(results) + 1 \in DOMAIN out
  BY DEF DiffInv, DiffTypes, AnalysisTypes
<1>2. HunkFollows(Len(results) + 1)
  BY <1>1 DEF DiffInv
<1>3. out[Len(results) + 1] \in Change
  BY <1>1 DEF DiffInv, DiffTypes
<1> QED BY <1>2, <1>3 DEF HunkFollows, Current

\* Where there is no context the window is the changed region, at the edge.
LEMMA NoGrowth ==
  ASSUME DiffInv, AnalysisTypes, pc \in {"up", "down"},
         pc = "up" => NothingAbove(Current),
         pc = "down" => NothingBelow(Current)
  PROVE  Window = Core /\ AtBoundary
<1>0. Len(results) < Len(out)
  BY DEF AnalysisTypes
<1>1. r \in Nat /\ Len(old) \in Nat /\ Len(new) \in Nat
  BY DEF DiffInv, DiffTypes, AnalysisTypes
<1>2. CASE pc = "up"
  <2>1. UpOld = 0 /\ UpNew = 0 /\ Current.oldStart = 0 /\ Current.newStart = 0
    BY <1>1, <1>2 DEF NothingAbove, UpOld, UpNew, Max
  <2> QED BY <1>2, <2>1 DEF Window, Core, AtBoundary
<1>3. CASE pc = "down"
  <2>1. Current.oldEnd = Len(old) /\ Current.newEnd = Len(new)
    BY <1>3 DEF NothingBelow
  <2>2. DownOld = Len(old) /\ DownNew = Len(new)
    BY <1>1, <2>1 DEF DownOld, DownNew, Min
  <2> QED BY <1>3, <2>1, <2>2 DEF Window, Core, AtBoundary
<1> QED BY <1>2, <1>3

\* So the curve is flat there, and expand does not stop at the edge.
LEMMA FlatWithoutContext ==
  ASSUME DiffInv, WindowInv, pc \in {"up", "down"},
         pc = "up" => NothingAbove(Current),
         pc = "down" => NothingBelow(Current),
         NEW d \in DeltaText(Window)
  PROVE  ~ Ended(d).stoppedAtBoundary
<1>1. Window = Core /\ SignalFixed /\ prev = s2 /\ s2 \in 0 .. 100
  BY NoGrowth DEF WindowInv, AnalysisTypes
<1>2. d = s2
  BY <1>1 DEF SignalFixed, DeltaText
<1>3. Flat(d, prev)
  BY <1>1, <1>2 DEF Flat, FlattenEps
<1> QED BY <1>3 DEF Ended

\* What Ended and Classify return is of their types.
LEMMA ResultTypes ==
  ASSUME NEW d \in 0 .. 100, NEW e \in Direction, NEW f \in Direction
  PROVE  /\ Ended(d) \in Direction
         /\ [up |-> e, down |-> f, class |-> Classify(s2, e, f)] \in Result
<1>1. Flat(d, prev) \in BOOLEAN
  BY DEF Flat
<1>2. Classify(s2, e, f) \in Class
  BY DEF Classify, Class
<1> QED BY <1>1, <1>2 DEF Ended, Direction, Result

\* A measurement that keeps the hunk under analysis keeps its signal.
LEMMA SignalStays ==
  ASSUME AnalysisTypes, SignalFixed, UNCHANGED <<old, new, out, results, s2>>,
         \A u \in DOMAIN known : u \in DOMAIN known' /\ known'[u] = known[u]
  PROVE  SignalFixed'
<1>1. Core' = Core
  BY DEF Core, Texts, Join, Current
<1> QED BY <1>1 DEF SignalFixed

LEMMA WindowInvInit == Init => WindowInv
<1> SUFFICES ASSUME Init PROVE WindowInv
  OBVIOUS
<1>1. results = <<>> /\ out = <<>> /\ known = <<>>
  BY DEF Init
<1>2. results \in Seq(Result) /\ Len(results) = 0 /\ Len(out) = 0
  BY <1>1
<1>3. DOMAIN results = {} /\ DOMAIN known = {}
  BY <1>1, <1>2
<1>4. s2 = 0 /\ r = 2 /\ pc = "call" /\ up = NoDirection
  BY DEF Init
<1>5. NoDirection \in Direction
  BY DEF NoDirection, Direction
<1> QED BY <1>1, <1>2, <1>3, <1>4, <1>5 DEF WindowInv, AnalysisTypes, ResultsHaveContext

\* The diff runs before any hunk is analysed.
LEMMA DiffKeepsWindow ==
  ASSUME DiffInv, WindowInv,
         Match \/ OpenHunk \/ Skip \/ CloseHunk \/ TrailingHunk
  PROVE  WindowInv'
<1>1. /\ UNCHANGED <<known, s2, r, up, results>>
      /\ pc \in {"scan", "hunk"}
      /\ pc' \in {"scan", "hunk", "point"}
  BY DEF Match, OpenHunk, Skip, CloseHunk, TrailingHunk, hunkVars
<1>2. results = <<>>
  BY <1>1 DEF WindowInv, AnalysisTypes
<1>3. Len(results') = 0 /\ DOMAIN results' = {}
  BY <1>1, <1>2
<1>4. Len(out') \in Nat
  BY DiffInvNext DEF Next, DiffInv, DiffTypes
<1>5. AnalysisTypes'
  BY <1>1, <1>2, <1>3, <1>4 DEF WindowInv, AnalysisTypes
<1> QED BY <1>1, <1>3, <1>5 DEF WindowInv, ResultsHaveContext

LEMMA PointDeltaWindow ==
  ASSUME DiffInv, WindowInv, PointDelta
  PROVE  WindowInv'
<1>1. PICK d \in DeltaText(Core) : Remember(Core, d) /\ s2' = d /\ prev' = d
  BY DEF PointDelta
<1>2. /\ UNCHANGED <<old, new, out, up, results>> /\ Len(results) < Len(out)
      /\ r' = 2 /\ pc' = "up"
  BY DEF PointDelta, diffVars
<1>3. AnalysisTypes
  BY DEF WindowInv
<1>4. d \in 0 .. 100
  BY <1>1, <1>3, DeltaTypes
<1>5. /\ \A u \in DOMAIN known' : known'[u] \in 0 .. 100
      /\ Core[1] # Core[2] => Core \in DOMAIN known' /\ known'[Core] = d
  BY <1>1, <1>3, RememberTypes
<1>6. AnalysisTypes'
  BY <1>1, <1>2, <1>3, <1>4, <1>5 DEF AnalysisTypes
<1>7. Core' = Core
  BY <1>2 DEF Core, Texts, Join, Current
<1>8. Core[1] = Core[2] => d = 0
  BY <1>1 DEF DeltaText
<1>9. SignalFixed'
  BY <1>1, <1>5, <1>7, <1>8 DEF SignalFixed
<1>10. ResultsHaveContext'
  BY <1>2 DEF WindowInv, ResultsHaveContext, NothingAbove, NothingBelow
<1> QED BY <1>1, <1>2, <1>6, <1>9, <1>10 DEF WindowInv

LEMMA WidenWindow ==
  ASSUME DiffInv, WindowInv, Widen
  PROVE  WindowInv'
<1>1. PICK d \in DeltaText(Window) : Remember(Window, d) /\ prev' = d
  BY DEF Widen
<1>2. /\ UNCHANGED <<old, new, out, pc, s2, up, results>>
      /\ r' = r + 2 /\ pc \in {"up", "down"} /\ ~ AtBoundary
  BY DEF Widen, diffVars
<1>3. AnalysisTypes
  BY DEF WindowInv
<1>4. /\ \A u \in DOMAIN known' : known'[u] \in 0 .. 100
      /\ \A u \in DOMAIN known : u \in DOMAIN known' /\ known'[u] = known[u]
  BY <1>1, <1>3, RememberTypes
<1>5. AnalysisTypes'
  BY <1>2, <1>3, <1>4 DEF AnalysisTypes
<1>6. SignalFixed'
  BY <1>2, <1>3, <1>4, SignalStays DEF WindowInv
<1>7. Current' = Current
  BY <1>2 DEF Current
<1>8. /\ pc = "up" => ~ NothingAbove(Current)
      /\ pc = "down" => ~ NothingBelow(Current)
  BY <1>2, <1>3, NoGrowth
<1>9. ResultsHaveContext'
  BY <1>2 DEF WindowInv, ResultsHaveContext, NothingAbove, NothingBelow
<1> QED BY <1>2, <1>5, <1>6, <1>7, <1>8, <1>9
        DEF WindowInv, NothingAbove, NothingBelow

LEMMA EndUpWindow ==
  ASSUME DiffInv, WindowInv, EndUp
  PROVE  WindowInv'
<1>1. PICK d \in DeltaText(Window) : Remember(Window, d) /\ up' = Ended(d)
  BY DEF EndUp
<1>2. /\ UNCHANGED <<old, new, out, s2, results>>
      /\ r' = 2 /\ prev' = s2 /\ pc = "up" /\ pc' = "down"
  BY DEF EndUp, diffVars
<1>3. AnalysisTypes
  BY DEF WindowInv
<1>4. /\ \A u \in DOMAIN known' : known'[u] \in 0 .. 100
      /\ \A u \in DOMAIN known : u \in DOMAIN known' /\ known'[u] = known[u]
  BY <1>1, <1>3, RememberTypes
<1>5. up' \in Direction
  BY <1>1, <1>3, DeltaTypes, ResultTypes DEF AnalysisTypes
<1>6. AnalysisTypes'
  BY <1>2, <1>3, <1>4, <1>5 DEF AnalysisTypes
<1>7. SignalFixed'
  BY <1>2, <1>3, <1>4, SignalStays DEF WindowInv
<1>8. Current' = Current
  BY <1>2 DEF Current
<1>9. up'.stoppedAtBoundary => ~ NothingAbove(Current)
  BY <1>1, <1>2, FlatWithoutContext
<1>10. ResultsHaveContext'
  BY <1>2 DEF WindowInv, ResultsHaveContext, NothingAbove, NothingBelow
<1> QED BY <1>2, <1>6, <1>7, <1>8, <1>9, <1>10 DEF WindowInv, NothingAbove

LEMMA EndDownWindow ==
  ASSUME DiffInv, WindowInv, EndDown
  PROVE  WindowInv'
<1>1. PICK d \in DeltaText(Window) :
        /\ Remember(Window, d)
        /\ results' = Append(results,
             [up |-> up, down |-> Ended(d), class |-> Classify(s2, up, Ended(d))])
  BY DEF EndDown
<1> DEFINE res == [up |-> up, down |-> Ended(d), class |-> Classify(s2, up, Ended(d))]
<1>2. /\ UNCHANGED <<old, new, out>>
      /\ s2' = 0 /\ r' = 2 /\ up' = NoDirection /\ pc = "down" /\ pc' = "point"
  BY DEF EndDown, diffVars
<1>3. AnalysisTypes /\ Len(results) < Len(out) /\ results \in Seq(Result)
  BY <1>2 DEF WindowInv, AnalysisTypes
<1>4. \A u \in DOMAIN known' : known'[u] \in 0 .. 100
  BY <1>1, <1>3, RememberTypes
<1>5. d \in 0 .. 100 /\ up \in Direction
  BY <1>3, DeltaTypes DEF AnalysisTypes
<1>6. res \in Result
  BY <1>5, ResultTypes
<1>7. /\ results' \in Seq(Result) /\ Len(results') = Len(results) + 1
      /\ results'[Len(results) + 1] = res
      /\ \A k \in DOMAIN results : results'[k] = results[k]
  BY <1>1, <1>3, <1>6
<1>8. AnalysisTypes'
  <2>1. Len(results') <= Len(out')
    BY <1>2, <1>3, <1>7 DEF DiffInv, DiffTypes
  <2>2. NoDirection \in Direction
    BY DEF NoDirection, Direction
  <2> QED BY <1>2, <1>4, <1>7, <2>1, <2>2 DEF AnalysisTypes
<1>9. res.up.stoppedAtBoundary => ~ NothingAbove(Current)
  BY <1>2 DEF WindowInv
<1>10. res.down.stoppedAtBoundary => ~ NothingBelow(Current)
  BY <1>1, <1>2, FlatWithoutContext
<1>11. ResultsHaveContext'
  <2> SUFFICES ASSUME NEW k \in DOMAIN results'
               PROVE  /\ results'[k].up.stoppedAtBoundary => ~ NothingAbove(out[k])
                      /\ results'[k].down.stoppedAtBoundary => ~ NothingBelow(out[k])
    BY <1>2 DEF ResultsHaveContext, NothingAbove, NothingBelow
  <2>1. k \in DOMAIN results \/ k = Len(results) + 1
    BY <1>3, <1>7
  <2>2. CASE k = Len(results) + 1
    BY <1>7, <1>9, <1>10, <2>2 DEF Current
  <2>3. CASE k \in DOMAIN results
    BY <1>7, <2>3 DEF WindowInv, ResultsHaveContext
  <2> QED BY <2>1, <2>2, <2>3
<1> QED BY <1>2, <1>8, <1>11 DEF WindowInv

LEMMA WindowInvNext == DiffInv /\ WindowInv /\ [Next]_vars => WindowInv'
<1> SUFFICES ASSUME DiffInv, WindowInv, [Next]_vars PROVE WindowInv'
  OBVIOUS
<1>1. CASE Match \/ OpenHunk \/ Skip \/ CloseHunk \/ TrailingHunk
  BY <1>1, DiffKeepsWindow
<1>2. CASE EntryStep \/ EmbedFails \/ Conclude \/ UNCHANGED vars
  <2>1. /\ UNCHANGED <<old, new, out, known, s2, prev, r, up, results>>
        /\ \/ pc' = pc \/ pc' \in {"failed", "done"}
           \/ pc = "call" /\ pc' \in {"unclassified", "scan"}
    BY <1>2, EntryKeeps DEF EmbedFails, Conclude, vars, hunkVars, diffVars
  <2>2. AnalysisTypes'
    BY <2>1 DEF WindowInv, AnalysisTypes
  <2>3. ResultsHaveContext' /\ (SignalFixed => SignalFixed') /\ Current' = Current
    BY <2>1 DEF WindowInv, ResultsHaveContext, NothingAbove, NothingBelow,
                SignalFixed, Core, Texts, Join, Current
  <2> QED BY <2>1, <2>2, <2>3 DEF WindowInv, NothingAbove, NothingBelow
<1> QED BY <1>1, <1>2, PointDeltaWindow, WidenWindow, EndUpWindow, EndDownWindow
        DEF Next, EntryStep

\* A hunk at the very beginning or end of both texts never counts as spreading
\* that way, whatever the embedder says.
THEOREM EdgesDoNotSpread == Spec => []PersistenceNeedsContext
<1>1. DiffInv /\ WindowInv => PersistenceNeedsContext
  <2> SUFFICES ASSUME DiffInv, WindowInv, NEW k \in DOMAIN results
               PROVE  /\ results[k].up.stoppedAtBoundary =>
                           out[k].oldStart > 0 \/ out[k].newStart > 0
                      /\ results[k].down.stoppedAtBoundary =>
                           out[k].oldEnd < Len(old) \/ out[k].newEnd < Len(new)
    BY DEF PersistenceNeedsContext
  <2>1. k \in DOMAIN out
    BY DEF DiffInv, DiffTypes, WindowInv, AnalysisTypes
  <2>2. out[k] \in Change /\ out[k].oldEnd <= Len(old) /\ out[k].newEnd <= Len(new)
    BY <2>1 DEF DiffInv, DiffTypes, HunkFollows
  <2>3. Len(old) \in Nat /\ Len(new) \in Nat
    BY DEF DiffInv, DiffTypes
  <2> QED BY <2>2, <2>3 DEF WindowInv, ResultsHaveContext, NothingAbove, NothingBelow,
                            Change
<1> QED BY <1>1, DiffInvInit, DiffInvNext, WindowInvInit, WindowInvNext, PTL DEF Spec

-----------------------------------------------------------------------------
\* Equal texts are passed in step and no hunk is opened; a verdict is drawn
\* when every hunk has been analysed, and never for a call that classify ends.
VerdictInv ==
  /\ Unclassifiable => pc \in {"call", "unclassified"} /\ verdict = ""
  /\ old = new => i = j /\ out = <<>> /\ pc # "hunk"
  /\ pc = "done" => /\ caller = "classify" => verdict = Worst(results)
                    /\ Len(results) = Len(out)

LEMMA VerdictInvNext ==
  DiffInv /\ WindowInv /\ VerdictInv /\ [Next]_vars => VerdictInv'
<1> SUFFICES ASSUME DiffInv, WindowInv, VerdictInv, [Next]_vars PROVE VerdictInv'
  OBVIOUS
<1>0. Unclassifiable' = Unclassifiable /\ caller' = caller
  <2>1. UNCHANGED <<old, caller, embedder>>
    BY DEF Next, NoVerdict, Analyze, Match, OpenHunk, Skip, CloseHunk, TrailingHunk, PointDelta,
           Widen, EndUp, EndDown, EmbedFails, Conclude, vars
  <2> QED BY <2>1 DEF Unclassifiable
<1>1. CASE Match
  BY <1>0, <1>1 DEF Match, VerdictInv
<1>2. CASE OpenHunk
  BY <1>0, <1>2 DEF OpenHunk, VerdictInv, Differ, Both
<1>3. CASE Skip \/ CloseHunk
  BY <1>0, <1>3 DEF Skip, CloseHunk, VerdictInv
<1>4. CASE TrailingHunk
  <2>1. /\ UNCHANGED <<old, new, i, j>> /\ pc' = "point" /\ ~ Both /\ pc = "scan"
        /\ out' = IF i < Len(old) \/ j < Len(new)
                  THEN Append(out, Hunk(i, Len(old), j, Len(new))) ELSE out
    BY <1>4 DEF TrailingHunk
  <2>2. old = new => out' = out
    BY <2>1 DEF VerdictInv, Both
  <2> QED BY <1>0, <2>1, <2>2 DEF VerdictInv
<1>5. CASE Conclude
  <2>1. /\ UNCHANGED <<old, new, i, j, out, results>>
        /\ caller = "classify" => verdict' = Worst(results)
    BY <1>5 DEF Conclude, hunkVars, diffVars
  <2>2. Worst(results)' = Worst(results)
    BY <2>1 DEF Worst
  <2> QED BY <1>0, <1>5, <2>1, <2>2 DEF Conclude, VerdictInv
<1>6. CASE PointDelta \/ Widen \/ EndUp \/ EndDown \/ EmbedFails
  BY <1>0, <1>6 DEF PointDelta, Widen, EndUp, EndDown, EmbedFails, VerdictInv, diffVars
<1>7. CASE UNCHANGED vars
  BY <1>0, <1>7 DEF vars, VerdictInv, Worst
<1>8. CASE NoVerdict \/ Analyze
  BY <1>0, <1>8 DEF NoVerdict, Analyze, VerdictInv, hunkVars, diffVars
<1> QED BY <1>1, <1>2, <1>3, <1>4, <1>5, <1>6, <1>7, <1>8 DEF Next

\* The verdict of no hunk is "", and of any hunk it is not.
LEMMA WorstOfNone ==
  ASSUME AnalysisTypes
  PROVE  Worst(results) = "" <=> Len(results) = 0
<1>1. results \in Seq(Result) /\ Len(results) \in Nat
  BY DEF AnalysisTypes
<1>2. CASE Len(results) = 0
  <2>1. DOMAIN results = {}
    BY <1>1, <1>2
  <2> QED BY <1>2, <2>1 DEF Worst
<1>3. CASE Len(results) # 0
  <2>1. 1 \in DOMAIN results
    BY <1>1, <1>3
  <2> QED BY <1>3, <2>1 DEF Worst
<1> QED BY <1>2, <1>3

\* classify gives every change a verdict, and only a change, once its analysis is
\* complete; without an embedder, or without a prior version, it gives none.  A diff
\* reports something exactly when the texts differ.
THEOREM ChangesAreClassified == Spec => []VerdictIffChanged
<1>1. Init => VerdictInv
  BY DEF Init, VerdictInv
<1>2. DiffInv /\ WindowInv /\ VerdictInv => VerdictIffChanged
  <2> SUFFICES ASSUME DiffInv, WindowInv, VerdictInv, pc = "done"
               PROVE  /\ caller = "classify" => (verdict = "" <=> old = new)
                      /\ results = <<>> <=> old = new
    BY DEF VerdictIffChanged, VerdictInv
  <2>0. results \in Seq(Result) /\ Len(results) = Len(out)
    BY DEF VerdictInv, WindowInv, AnalysisTypes
  <2>1. /\ caller = "classify" => (verdict = "" <=> Len(out) = 0)
        /\ results = <<>> <=> Len(out) = 0
    <3>1. AnalysisTypes /\ (caller = "classify" => verdict = Worst(results))
      BY DEF VerdictInv, WindowInv
    <3>2. caller = "classify" => (verdict = "" <=> Len(out) = 0)
      BY <2>0, <3>1, WorstOfNone
    <3>3. results = <<>> <=> Len(results) = 0
      BY <2>0
    <3> QED BY <2>0, <3>2, <3>3
  <2>2. ASSUME old = new PROVE Len(out) = 0
    BY <2>2 DEF VerdictInv
  <2>3. ASSUME Len(out) = 0 PROVE old = new
    <3>1. OldFrom(Len(out)) = 0 /\ NewFrom(Len(out)) = 0 /\ CopiedTo(Len(old), Len(new))
      BY <2>3 DEF DiffInv, OldFrom, NewFrom
    <3>2. old \in Seq(Line) /\ new \in Seq(Line)
      BY DEF DiffInv, DiffTypes
    <3>3. Len(old) \in Nat /\ Len(new) \in Nat
      BY <3>2
    <3>4. Len(old) = Len(new) /\ \A k \in 1 .. Len(old) : old[0 + k] = new[0 + k]
      BY <3>1, <3>3 DEF CopiedTo, SameLines
    <3>5. \A k \in 1 .. Len(old) : old[k] = new[k]
      BY <3>4
    <3> QED BY <3>2, <3>4, <3>5, SeqEqual
  <2> QED BY <2>1, <2>2, <2>3
<1> QED BY <1>1, <1>2, DiffInvInit, DiffInvNext, WindowInvInit, WindowInvNext,
           VerdictInvNext, PTL DEF Spec

-----------------------------------------------------------------------------
\* The table that changes computes for two texts, as a function of them: Body
\* is the entry that the recurrence gives at p.
Grid(o, n) == (0 .. Len(o)) \X (0 .. Len(n))

Body(o, n, f, p) ==
  IF p[1] = Len(o) \/ p[2] = Len(n) THEN 0
  ELSE IF o[p[1] + 1] = n[p[2] + 1] THEN f[<<p[1] + 1, p[2] + 1>>] + 1
  ELSE Max(f[<<p[1] + 1, p[2]>>], f[<<p[1], p[2] + 1>>])

LcsOf(o, n) == CHOOSE f : f = [p \in Grid(o, n) |-> Body(o, n, f, p)]

\* Lines left after p in both texts.
Left(o, n, p) == (Len(o) - p[1]) + (Len(n) - p[2])

\* The entries that the recurrence uses at p are of pairs with fewer lines left.
LEMMA LeftDecreases ==
  ASSUME NEW o \in Seq(Line), NEW n \in Seq(Line), NEW p \in Grid(o, n),
         p[1] # Len(o), p[2] # Len(n)
  PROVE  /\ <<p[1] + 1, p[2] + 1>> \in Grid(o, n)
         /\ <<p[1] + 1, p[2]>> \in Grid(o, n)
         /\ <<p[1], p[2] + 1>> \in Grid(o, n)
         /\ Left(o, n, p) \in Nat
         /\ Left(o, n, <<p[1] + 1, p[2] + 1>>) = Left(o, n, p) - 2
         /\ Left(o, n, <<p[1] + 1, p[2]>>) = Left(o, n, p) - 1
         /\ Left(o, n, <<p[1], p[2] + 1>>) = Left(o, n, p) - 1
<1>1. p[1] \in 0 .. Len(o) /\ p[2] \in 0 .. Len(n) /\ Len(o) \in Nat /\ Len(n) \in Nat
  BY DEF Grid
<1>2. p[1] + 1 \in 0 .. Len(o) /\ p[2] + 1 \in 0 .. Len(n)
  BY <1>1
<1>3. /\ <<p[1] + 1, p[2] + 1>> \in Grid(o, n)
      /\ <<p[1] + 1, p[2]>> \in Grid(o, n)
      /\ <<p[1], p[2] + 1>> \in Grid(o, n)
  BY <1>1, <1>2 DEF Grid
<1>4. \A a, b : Left(o, n, <<a, b>>) = (Len(o) - a) + (Len(n) - b)
  BY DEF Left
<1>5. Left(o, n, p) = (Len(o) - p[1]) + (Len(n) - p[2]) /\ Left(o, n, p) \in Nat
  BY <1>1 DEF Left
<1>6. /\ Left(o, n, <<p[1] + 1, p[2] + 1>>) = Left(o, n, p) - 2
      /\ Left(o, n, <<p[1] + 1, p[2]>>) = Left(o, n, p) - 1
      /\ Left(o, n, <<p[1], p[2] + 1>>) = Left(o, n, p) - 1
  <2> DEFINE a == p[1]
             b == p[2]
             x == Len(o)
             y == Len(n)
  <2>1. a \in Int /\ b \in Int /\ x \in Int /\ y \in Int
    BY <1>1
  <2>2. /\ Left(o, n, p) = (x - a) + (y - b)
        /\ Left(o, n, <<a + 1, b + 1>>) = (x - (a + 1)) + (y - (b + 1))
        /\ Left(o, n, <<a + 1, b>>) = (x - (a + 1)) + (y - b)
        /\ Left(o, n, <<a, b + 1>>) = (x - a) + (y - (b + 1))
    BY <1>4, <1>5
  <2> HIDE DEF a, b, x, y
  <2>3. /\ Left(o, n, <<a + 1, b + 1>>) = Left(o, n, p) - 2
        /\ Left(o, n, <<a + 1, b>>) = Left(o, n, p) - 1
        /\ Left(o, n, <<a, b + 1>>) = Left(o, n, p) - 1
    BY <2>1, <2>2
  <2> QED BY <2>3 DEF a, b
<1> QED BY <1>3, <1>5, <1>6

\* The recurrence has a solution: the entries of pairs with k lines left
\* determine those of pairs with k + 1.
LEMMA TableExists ==
  ASSUME NEW o \in Seq(Line), NEW n \in Seq(Line)
  PROVE  \E f : f = [p \in Grid(o, n) |-> Body(o, n, f, p)]
<1> DEFINE Part(k) == {p \in Grid(o, n) : Left(o, n, p) <= k}
           Upto(k) == \E f : f = [p \in Part(k) |-> Body(o, n, f, p)]
           S == {k \in Nat : Upto(k)}
<1>0. Len(o) \in Nat /\ Len(n) \in Nat
  OBVIOUS
<1>1. 0 \in S
  <2> DEFINE f == [p \in Part(0) |-> 0]
  <2>1. ASSUME NEW p \in Part(0) PROVE Body(o, n, f, p) = 0
    <3>1. p[1] = Len(o)
      BY <1>0 DEF Grid, Left
    <3> QED BY <3>1 DEF Body
  <2>2. f = [p \in Part(0) |-> Body(o, n, f, p)]
    BY <2>1
  <2> HIDE DEF f, Part
  <2>3. Upto(0)
    BY <2>2
  <2> QED BY <2>3
<1>2. ASSUME NEW k \in Nat, k \in S PROVE k + 1 \in S
  <2>1. PICK f : f = [p \in Part(k) |-> Body(o, n, f, p)]
    BY <1>2
  <2> DEFINE g == [p \in Part(k + 1) |-> Body(o, n, f, p)]
  <2>2. \A p \in Part(k) : p \in Part(k + 1) /\ g[p] = f[p]
    <3>1. \A p \in Grid(o, n) : Left(o, n, p) \in Int
      BY <1>0 DEF Grid, Left
    <3>2. \A p \in Part(k) : p \in Part(k + 1)
      BY <3>1
    <3> HIDE DEF Part
    <3> QED BY <2>1, <3>2
  <2>3. ASSUME NEW p \in Part(k + 1) PROVE Body(o, n, f, p) = Body(o, n, g, p)
    <3>1. CASE p[1] = Len(o) \/ p[2] = Len(n)
      BY <3>1 DEF Body
    <3>2. CASE ~ (p[1] = Len(o) \/ p[2] = Len(n))
      <4>1. p \in Grid(o, n) /\ Left(o, n, p) <= k + 1
        OBVIOUS
      <4>2. /\ <<p[1] + 1, p[2] + 1>> \in Part(k)
            /\ <<p[1] + 1, p[2]>> \in Part(k)
            /\ <<p[1], p[2] + 1>> \in Part(k)
        BY <3>2, <4>1, LeftDecreases
      <4>3. /\ g[<<p[1] + 1, p[2] + 1>>] = f[<<p[1] + 1, p[2] + 1>>]
            /\ g[<<p[1] + 1, p[2]>>] = f[<<p[1] + 1, p[2]>>]
            /\ g[<<p[1], p[2] + 1>>] = f[<<p[1], p[2] + 1>>]
        <5> HIDE DEF Part, g
        <5> QED BY <2>2, <4>2
      <4> HIDE DEF g
      <4> QED BY <4>3 DEF Body
    <3> QED BY <3>1, <3>2
  <2>4. g = [p \in Part(k + 1) |-> Body(o, n, g, p)]
    BY <2>3
  <2> HIDE DEF g, Part
  <2>5. Upto(k + 1)
    BY <2>4
  <2> QED BY <2>5
<1>3. \A k \in Nat : k \in S
  <2> HIDE DEF S
  <2> QED BY <1>1, <1>2, SimpleInduction
<1>4. Part(Len(o) + Len(n)) = Grid(o, n)
  BY <1>0 DEF Grid, Left
<1>5. Upto(Len(o) + Len(n))
  <2>1. Len(o) + Len(n) \in Nat
    BY <1>0
  <2> HIDE DEF Upto
  <2> QED BY <1>3, <2>1
<1> HIDE DEF Part
<1> QED BY <1>4, <1>5

LEMMA TableEquation ==
  ASSUME NEW o \in Seq(Line), NEW n \in Seq(Line)
  PROVE  LcsOf(o, n) = [p \in Grid(o, n) |-> Body(o, n, LcsOf(o, n), p)]
  BY TableExists, Zenon DEF LcsOf

LEMMA LcsIsTable == Lcs = LcsOf(old, new)
  BY DEF Lcs, LcsOf, Grid, Body

\* The recurrence, entry by entry.
LEMMA TableEntries ==
  ASSUME NEW o \in Seq(Line), NEW n \in Seq(Line),
         NEW a \in 0 .. Len(o), NEW b \in 0 .. Len(n)
  PROVE  LET L == LcsOf(o, n)
         IN /\ a = Len(o) \/ b = Len(n) => L[<<a, b>>] = 0
            /\ a # Len(o) /\ b # Len(n) =>
                 /\ o[a + 1] = n[b + 1] => L[<<a, b>>] = L[<<a + 1, b + 1>>] + 1
                 /\ o[a + 1] # n[b + 1] =>
                      L[<<a, b>>] = Max(L[<<a + 1, b>>], L[<<a, b + 1>>])
<1> DEFINE L == LcsOf(o, n)
           p == <<a, b>>
<1>1. p \in Grid(o, n) /\ p[1] = a /\ p[2] = b
  BY DEF Grid
<1>2. L = [q \in Grid(o, n) |-> Body(o, n, L, q)]
  BY TableEquation
<1>3. L[p] = Body(o, n, L, p)
  <2> HIDE DEF L, p
  <2> QED BY <1>1, <1>2
<1> HIDE DEF L
<1>4. Body(o, n, L, p) = IF a = Len(o) \/ b = Len(n) THEN 0
                         ELSE IF o[a + 1] = n[b + 1] THEN L[<<a + 1, b + 1>>] + 1
                         ELSE Max(L[<<a + 1, b>>], L[<<a, b + 1>>])
  BY DEF Body
<1>5. L[p] = IF a = Len(o) \/ b = Len(n) THEN 0
             ELSE IF o[a + 1] = n[b + 1] THEN L[<<a + 1, b + 1>>] + 1
             ELSE Max(L[<<a + 1, b>>], L[<<a, b + 1>>])
  BY <1>3, <1>4
<1> QED BY <1>5 DEF L

\* Induction over the table: what holds of a pair whenever it holds of the
\* pairs with fewer lines left holds of all.
LEMMA TableInduction ==
  ASSUME NEW o \in Seq(Line), NEW n \in Seq(Line), NEW Q,
         \A p \in Grid(o, n) :
           (\A q \in Grid(o, n) : Left(o, n, q) < Left(o, n, p) => q \in Q) => p \in Q
  PROVE  \A p \in Grid(o, n) : p \in Q
<1> DEFINE S == {k \in Nat : \A p \in Grid(o, n) : Left(o, n, p) = k => p \in Q}
<1>0. \A p \in Grid(o, n) : Left(o, n, p) \in Nat
  <2> SUFFICES ASSUME NEW p \in Grid(o, n) PROVE Left(o, n, p) \in Nat
    OBVIOUS
  <2>1. p[1] \in 0 .. Len(o) /\ p[2] \in 0 .. Len(n) /\ Len(o) \in Nat /\ Len(n) \in Nat
    BY DEF Grid
  <2> QED BY <2>1 DEF Left
<1>1. ASSUME NEW k \in Nat, \A m \in 0 .. k - 1 : m \in S PROVE k \in S
  <2> SUFFICES ASSUME NEW p \in Grid(o, n), Left(o, n, p) = k PROVE p \in Q
    OBVIOUS
  <2>1. ASSUME NEW q \in Grid(o, n), Left(o, n, q) < Left(o, n, p) PROVE q \in Q
    <3>1. Left(o, n, q) \in 0 .. k - 1
      BY <1>0, <2>1
    <3> QED BY <1>1, <3>1
  <2> QED BY <2>1
<1>2. \A k \in Nat : k \in S
  <2> HIDE DEF S
  <2> QED BY <1>1, StrongInduction
<1> QED BY <1>0, <1>2

LEMMA TableTypes ==
  ASSUME NEW o \in Seq(Line), NEW n \in Seq(Line)
  PROVE  \A p \in Grid(o, n) : LcsOf(o, n)[p] \in Nat
<1> DEFINE L == LcsOf(o, n)
           Q == {p \in Grid(o, n) : L[p] \in Nat}
<1>1. ASSUME NEW p \in Grid(o, n),
             \A q \in Grid(o, n) : Left(o, n, q) < Left(o, n, p) => q \in Q
      PROVE  p \in Q
  <2> DEFINE a == p[1]
             b == p[2]
  <2>1. a \in 0 .. Len(o) /\ b \in 0 .. Len(n) /\ p = <<a, b>>
    BY DEF Grid
  <2>2. CASE a = Len(o) \/ b = Len(n)
    <3>1. L[<<a, b>>] = 0
      BY <2>1, <2>2, TableEntries
    <3> HIDE DEF L, a, b
    <3>2. L[p] = 0
      BY <2>1, <3>1
    <3> QED BY <3>2
  <2>3. CASE ~ (a = Len(o) \/ b = Len(n))
    <3>1. /\ <<a + 1, b + 1>> \in Q /\ <<a + 1, b>> \in Q /\ <<a, b + 1>> \in Q
      BY <1>1, <2>3, LeftDecreases
    <3> DEFINE x == L[<<a + 1, b + 1>>]
               y == L[<<a + 1, b>>]
               z == L[<<a, b + 1>>]
    <3>2. x \in Nat /\ y \in Nat /\ z \in Nat
      BY <3>1
    <3>3. L[<<a, b>>] = x + 1 \/ L[<<a, b>>] = Max(y, z)
      BY <2>1, <2>3, TableEntries
    <3> HIDE DEF x, y, z, L
    <3>4. L[<<a, b>>] \in Nat
      BY <3>2, <3>3 DEF Max
    <3> QED BY <2>1, <3>4
  <2> QED BY <2>2, <2>3
<1>2. \A p \in Grid(o, n) : p \in Q
  <2> HIDE DEF Q
  <2> QED BY <1>1, TableInduction
<1> QED BY <1>2

-----------------------------------------------------------------------------
\* The reference definition of a common subsequence, as a function of texts.
Rank(S, a) == Cardinality({x \in S : x <= a})

Common(o, n, S, T) ==
  /\ Cardinality(S) = Cardinality(T)
  /\ \A a \in S, b \in T : Rank(S, a) = Rank(T, b) => o[a] = n[b]

\* Without its least element, every other one ranks one lower.
LEMMA RankWithoutLeast ==
  ASSUME NEW S \in SUBSET Nat, IsFiniteSet(S), NEW x \in S, \A z \in S : x <= z,
         NEW a \in S \ {x}
  PROVE  Rank(S, a) \in Nat /\ Rank(S \ {x}, a) = Rank(S, a) - 1
<1> DEFINE U == {z \in S : z <= a}
<1>1. {z \in S \ {x} : z <= a} = U \ {x} /\ x \in U
  OBVIOUS
<1>2. IsFiniteSet(U)
  BY FS_Subset
<1>3. Cardinality(U \ {x}) = Cardinality(U) - 1 /\ Cardinality(U) \in Nat
  <2> HIDE DEF U
  <2> QED BY <1>1, <1>2, FS_RemoveElement, FS_CardinalityType
<1> QED BY <1>1, <1>3 DEF Rank

Least(S, x) == x \in S /\ \A z \in S : x <= z

\* A common subsequence without its first line is one.
LEMMA CommonWithoutFirst ==
  ASSUME NEW o, NEW n, NEW S \in SUBSET Nat, NEW T \in SUBSET Nat,
         IsFiniteSet(S), IsFiniteSet(T), Common(o, n, S, T),
         NEW x, NEW y, Least(S, x), Least(T, y)
  PROVE  Common(o, n, S \ {x}, T \ {y})
<1>0. x \in S /\ y \in T /\ (\A z \in S : x <= z) /\ (\A z \in T : y <= z)
  BY DEF Least
<1>1. /\ Cardinality(S) \in Nat /\ Cardinality(S \ {x}) = Cardinality(S) - 1
      /\ Cardinality(T \ {y}) = Cardinality(T) - 1
  BY <1>0, FS_RemoveElement, FS_CardinalityType
<1>2. Cardinality(S \ {x}) = Cardinality(T \ {y})
  BY <1>1 DEF Common
<1>3. ASSUME NEW a \in S \ {x}, NEW b \in T \ {y}, Rank(S \ {x}, a) = Rank(T \ {y}, b)
      PROVE  o[a] = n[b]
  <2>1. Rank(S, a) \in Nat /\ Rank(S \ {x}, a) = Rank(S, a) - 1
    BY <1>0, RankWithoutLeast
  <2>2. Rank(T, b) \in Nat /\ Rank(T \ {y}, b) = Rank(T, b) - 1
    BY <1>0, RankWithoutLeast
  <2>3. Rank(S, a) - 1 = Rank(T, b) - 1
    BY <1>3, <2>1, <2>2, Zenon
  <2>4. Rank(S, a) = Rank(T, b)
    BY <2>1, <2>2, <2>3
  <2> QED BY <2>4 DEF Common
<1> QED BY <1>1, <1>2, <1>3 DEF Common

\* The least elements of two sets have the same rank.
LEMMA RankOfLeast ==
  ASSUME NEW S \in SUBSET Nat, NEW x \in S, \A z \in S : x <= z
  PROVE  Rank(S, x) = 1
<1>1. \A z \in S : z <= x <=> z = x
  <2> SUFFICES ASSUME NEW z \in S PROVE z <= x <=> z = x
    OBVIOUS
  <2>1. x \in Nat /\ z \in Nat /\ x <= z
    OBVIOUS
  <2> QED BY <2>1
<1>2. {z \in S : z <= x} = {x}
  BY <1>1, Zenon
<1> QED BY <1>2, FS_Singleton DEF Rank

\* No common subsequence of what is left after a and b is longer than the entry.
Bounded(o, n, a, b) ==
  \A S \in SUBSET (a + 1 .. Len(o)), T \in SUBSET (b + 1 .. Len(n)) :
    Common(o, n, S, T) => Cardinality(S) <= LcsOf(o, n)[<<a, b>>]

LEMMA BoundedStep ==
  ASSUME NEW o \in Seq(Line), NEW n \in Seq(Line),
         NEW a \in 0 .. Len(o), NEW b \in 0 .. Len(n),
         a # Len(o) /\ b # Len(n) =>
           Bounded(o, n, a + 1, b + 1) /\ Bounded(o, n, a + 1, b) /\ Bounded(o, n, a, b + 1)
  PROVE  Bounded(o, n, a, b)
<1> DEFINE L == LcsOf(o, n)
<1> SUFFICES ASSUME NEW S \in SUBSET (a + 1 .. Len(o)), NEW T \in SUBSET (b + 1 .. Len(n)),
                    Common(o, n, S, T)
             PROVE  Cardinality(S) <= L[<<a, b>>]
  BY DEF Bounded
<1>1. a \in Int /\ b \in Int /\ Len(o) \in Nat /\ Len(n) \in Nat
  OBVIOUS
<1>2. a + 1 \in Int /\ b + 1 \in Int /\ Len(o) \in Int /\ Len(n) \in Int
  BY <1>1
<1>3. IsFiniteSet(a + 1 .. Len(o)) /\ IsFiniteSet(b + 1 .. Len(n))
  <2>1. IsFiniteSet(a + 1 .. Len(o))
    BY <1>2, FS_Interval
  <2>2. IsFiniteSet(b + 1 .. Len(n))
    BY <1>2, FS_Interval
  <2> QED BY <2>1, <2>2
<1>4. IsFiniteSet(S) /\ IsFiniteSet(T)
  BY <1>3, FS_Subset
<1>5. S \in SUBSET Nat /\ T \in SUBSET Nat
  BY <1>1
<1>6. Cardinality(S) \in Nat /\ Cardinality(S) = Cardinality(T)
  BY <1>4, FS_CardinalityType DEF Common
<1>7. \A c \in 0 .. Len(o), d \in 0 .. Len(n) : L[<<c, d>>] \in Nat
  BY TableTypes DEF Grid
<1>8. CASE S = {}
  <2>1. Cardinality(S) = 0
    BY <1>8, FS_EmptySet
  <2> HIDE DEF L
  <2> QED BY <1>7, <2>1
<1>9. CASE S # {}
  <2>1. T # {}
    BY <1>4, <1>6, <1>9, FS_EmptySet
  <2>2. a # Len(o) /\ b # Len(n)
    <3>1. \E c : c \in a + 1 .. Len(o)
      BY <1>9
    <3>2. \E d : d \in b + 1 .. Len(n)
      BY <2>1
    <3> QED BY <1>1, <3>1, <3>2
  <2>3. PICK x \in S : \A z \in S : x <= z
    BY <1>5, <1>9, LeastNat
  <2>4. PICK y \in T : \A z \in T : y <= z
    BY <1>5, <2>1, LeastNat
  <2>5. /\ Bounded(o, n, a + 1, b + 1) /\ Bounded(o, n, a + 1, b) /\ Bounded(o, n, a, b + 1)
    BY <2>2
  <2>6. a + 1 \in 0 .. Len(o) /\ b + 1 \in 0 .. Len(n)
    BY <1>1, <2>2
  <2>7. /\ L[<<a + 1, b + 1>>] \in Nat /\ L[<<a + 1, b>>] \in Nat
        /\ L[<<a, b + 1>>] \in Nat /\ L[<<a, b>>] \in Nat
    <3> HIDE DEF L
    <3> QED BY <1>7, <2>6
  <2>8. /\ o[a + 1] = n[b + 1] => L[<<a, b>>] = L[<<a + 1, b + 1>>] + 1
        /\ o[a + 1] # n[b + 1] => L[<<a, b>>] = Max(L[<<a + 1, b>>], L[<<a, b + 1>>])
    BY <2>2, TableEntries
  <2>9. CASE o[a + 1] = n[b + 1]
    <3>1. Common(o, n, S \ {x}, T \ {y}) /\ Cardinality(S \ {x}) = Cardinality(S) - 1
      <4>1. Least(S, x) /\ Least(T, y)
        BY <2>3, <2>4 DEF Least
      <4>2. Common(o, n, S \ {x}, T \ {y})
        BY <1>4, <1>5, <4>1, CommonWithoutFirst, Zenon
      <4>3. Cardinality(S \ {x}) = Cardinality(S) - 1
        BY <1>4, <2>3, FS_RemoveElement
      <4> QED BY <4>2, <4>3
    <3>2. S \ {x} \in SUBSET ((a + 1) + 1 .. Len(o))
      BY <1>1, <2>3
    <3>3. T \ {y} \in SUBSET ((b + 1) + 1 .. Len(n))
      BY <1>1, <2>4
    <3>4. Cardinality(S \ {x}) <= L[<<a + 1, b + 1>>]
      BY <2>5, <3>1, <3>2, <3>3 DEF Bounded
    <3>5. L[<<a, b>>] = L[<<a + 1, b + 1>>] + 1
      BY <2>8, <2>9, Zenon
    <3> DEFINE l == L[<<a + 1, b + 1>>]
               c == Cardinality(S)
    <3>6. l \in Nat /\ c \in Nat /\ c - 1 <= l
      <4>1. Cardinality(S \ {x}) = c - 1 /\ Cardinality(S \ {x}) <= l
        BY <3>1, <3>4, Zenon
      <4> QED BY <1>6, <2>7, <4>1
    <3> HIDE DEF L, l, c
    <3>7. c <= l + 1
      BY <3>6
    <3> QED BY <3>5, <3>7 DEF l, c
  <2>10. CASE o[a + 1] # n[b + 1]
    <3>1. L[<<a + 1, b>>] <= L[<<a, b>>] /\ L[<<a, b + 1>>] <= L[<<a, b>>]
      <4> HIDE DEF L
      <4> QED BY <2>7, <2>8, <2>10 DEF Max
    <3>2. ~ (x = a + 1 /\ y = b + 1)
      <4> SUFFICES ASSUME x = a + 1, y = b + 1 PROVE FALSE
        OBVIOUS
      <4>1. Rank(S, x) = 1 /\ Rank(T, y) = 1
        BY <1>5, <2>3, <2>4, RankOfLeast
      <4>2. o[x] = n[y]
        BY <4>1 DEF Common
      <4> QED BY <2>10, <4>2
    <3>3. CASE x # a + 1
      <4>1. S \in SUBSET ((a + 1) + 1 .. Len(o))
        BY <1>1, <2>3, <3>3
      <4>2. Cardinality(S) <= L[<<a + 1, b>>]
        BY <2>5, <4>1 DEF Bounded
      <4> HIDE DEF L
      <4> QED BY <1>6, <2>7, <3>1, <4>2
    <3>4. CASE y # b + 1
      <4>1. T \in SUBSET ((b + 1) + 1 .. Len(n))
        BY <1>1, <2>4, <3>4
      <4>2. Cardinality(S) <= L[<<a, b + 1>>]
        BY <2>5, <4>1 DEF Bounded
      <4> HIDE DEF L
      <4> QED BY <1>6, <2>7, <3>1, <4>2
    <3> QED BY <3>2, <3>3, <3>4
  <2> QED BY <2>9, <2>10
<1> QED BY <1>8, <1>9

\* The table bounds every common subsequence of what is left of both texts.
LEMMA TableBounds ==
  ASSUME NEW o \in Seq(Line), NEW n \in Seq(Line)
  PROVE  \A a \in 0 .. Len(o), b \in 0 .. Len(n) : Bounded(o, n, a, b)
<1> DEFINE Q == {p \in Grid(o, n) : Bounded(o, n, p[1], p[2])}
<1>1. ASSUME NEW p \in Grid(o, n),
             \A q \in Grid(o, n) : Left(o, n, q) < Left(o, n, p) => q \in Q
      PROVE  p \in Q
  <2>1. p[1] \in 0 .. Len(o) /\ p[2] \in 0 .. Len(n)
    BY DEF Grid
  <2>2. ASSUME p[1] # Len(o), p[2] # Len(n)
        PROVE  /\ Bounded(o, n, p[1] + 1, p[2] + 1)
               /\ Bounded(o, n, p[1] + 1, p[2])
               /\ Bounded(o, n, p[1], p[2] + 1)
    <3>1. /\ <<p[1] + 1, p[2] + 1>> \in Grid(o, n)
          /\ <<p[1] + 1, p[2]>> \in Grid(o, n)
          /\ <<p[1], p[2] + 1>> \in Grid(o, n)
          /\ Left(o, n, p) \in Nat
          /\ Left(o, n, <<p[1] + 1, p[2] + 1>>) = Left(o, n, p) - 2
          /\ Left(o, n, <<p[1] + 1, p[2]>>) = Left(o, n, p) - 1
          /\ Left(o, n, <<p[1], p[2] + 1>>) = Left(o, n, p) - 1
      BY <2>2, LeftDecreases
    <3>2. /\ Left(o, n, <<p[1] + 1, p[2] + 1>>) < Left(o, n, p)
          /\ Left(o, n, <<p[1] + 1, p[2]>>) < Left(o, n, p)
          /\ Left(o, n, <<p[1], p[2] + 1>>) < Left(o, n, p)
      BY <3>1
    <3>3. /\ <<p[1] + 1, p[2] + 1>> \in Q
          /\ <<p[1] + 1, p[2]>> \in Q
          /\ <<p[1], p[2] + 1>> \in Q
      <4> HIDE DEF Q
      <4> QED BY <1>1, <3>1, <3>2
    <3> QED BY <3>3
  <2>3. Bounded(o, n, p[1], p[2])
    BY <2>1, <2>2, BoundedStep
  <2> QED BY <2>3
<1>2. \A p \in Grid(o, n) : p \in Q
  <2> HIDE DEF Q
  <2> QED BY <1>1, TableInduction
<1>3. \A p \in Grid(o, n) : Bounded(o, n, p[1], p[2])
  BY <1>2
<1>4. ASSUME NEW a \in 0 .. Len(o), NEW b \in 0 .. Len(n) PROVE Bounded(o, n, a, b)
  <2>1. <<a, b>> \in Grid(o, n)
    BY DEF Grid
  <2>2. Bounded(o, n, <<a, b>>[1], <<a, b>>[2])
    BY <1>3, <2>1, Zenon
  <2> QED BY <2>2
<1> QED BY <1>4

-----------------------------------------------------------------------------
\* The lines of old that the hunks found so far replace, and how far outside a
\* hunk the diff has come.
InHunks ==
  {k \in DOMAIN old : \E h \in DOMAIN out : out[h].oldStart < k /\ k <= out[h].oldEnd}

Passed == IF pc \in {"call", "unclassified", "scan"} THEN i ELSE IF pc = "hunk" THEN start[1] ELSE Len(old)

\* What the rest of the two texts still has in common.
Ahead == IF pc \in {"call", "unclassified", "scan", "hunk"} THEN Lcs[<<i, j>>] ELSE 0

\* The lines copied so far and those still to come are no fewer than the table
\* promised at the beginning.
MinimalInv ==
  /\ \A h \in DOMAIN out : out[h].oldEnd <= Passed
  /\ Lcs[<<0, 0>>] <= Passed - Cardinality(InHunks) + Ahead

LEMMA LcsFacts ==
  ASSUME DiffTypes
  PROVE  /\ \A a \in 0 .. Len(old), b \in 0 .. Len(new) : Lcs[<<a, b>>] \in Nat
         /\ ~ Both => Lcs[<<i, j>>] = 0
         /\ Both /\ ~ Differ => Lcs[<<i, j>>] = Lcs[<<i + 1, j + 1>>] + 1
         /\ Differ => Lcs[<<i, j>>] = Max(Lcs[<<i + 1, j>>], Lcs[<<i, j + 1>>])
<1>1. old \in Seq(Line) /\ new \in Seq(Line) /\ i \in 0 .. Len(old) /\ j \in 0 .. Len(new)
  BY DEF DiffTypes
<1>2. \A a \in 0 .. Len(old), b \in 0 .. Len(new) : LcsOf(old, new)[<<a, b>>] \in Nat
  BY <1>1, TableTypes DEF Grid
<1>3. Both <=> i # Len(old) /\ j # Len(new)
  BY <1>1 DEF Both
<1> QED BY <1>1, <1>2, <1>3, LcsIsTable, TableEntries DEF Differ

LEMMA LcsFixed ==
  ASSUME UNCHANGED <<old, new>>
  PROVE  Lcs' = Lcs
<1>1. Lcs' = LcsOf(old', new')
  BY DEF Lcs, LcsOf, Grid, Body
<1>2. Lcs = LcsOf(old, new)
  BY LcsIsTable
<1>3. LcsOf(old', new') = LcsOf(old, new)
  OBVIOUS
<1> QED BY <1>1, <1>2, <1>3

-----------------------------------------------------------------------------
\* The lines in hunks are finitely many.
LEMMA HunkLinesFinite ==
  ASSUME DiffTypes
  PROVE  IsFiniteSet(InHunks) /\ Cardinality(InHunks) \in Nat
<1>1. IsFiniteSet(1 .. Len(old))
  <2>1. 1 \in Int /\ Len(old) \in Int
    BY DEF DiffTypes
  <2> QED BY <2>1, FS_Interval
<1>2. InHunks \subseteq 1 .. Len(old)
  BY DEF DiffTypes, InHunks
<1>3. IsFiniteSet(InHunks)
  BY <1>1, <1>2, FS_Subset
<1> QED BY <1>3, FS_CardinalityType

\* Every hunk ends at a line.
LEMMA OldEnds ==
  ASSUME DiffTypes
  PROVE  \A h \in DOMAIN out : out[h].oldEnd \in Nat
<1>1. \A h \in DOMAIN out : out[h] \in Change
  BY DEF DiffTypes
<1>2. \A c \in Change : c.oldEnd \in Nat
  BY DEF Change
<1> QED BY <1>1, <1>2

\* A hunk that begins past all the others adds its own lines to theirs.
LEMMA HunkAdds ==
  ASSUME DiffTypes, NEW oS \in 0 .. Len(old), NEW oE \in 0 .. Len(old), NEW nS, NEW nE,
         oS <= oE, \A h \in DOMAIN out : out[h].oldEnd <= oS,
         out' \in Seq(Change), out' = Append(out, Hunk(oS, oE, nS, nE)),
         UNCHANGED <<old, new>>
  PROVE  /\ \A h \in DOMAIN out' : out'[h].oldEnd <= oE
         /\ Cardinality(InHunks)' = Cardinality(InHunks) + (oE - oS)
<1>0. /\ Len(old) \in Nat /\ DOMAIN old = 1 .. Len(old) /\ oS \in Nat /\ oE \in Nat
      /\ DOMAIN old' = 1 .. Len(old)
  BY DEF DiffTypes
<1>1. /\ Len(out) \in Nat /\ DOMAIN out = 1 .. Len(out) /\ DOMAIN out' = 1 .. Len(out) + 1
      /\ out'[Len(out) + 1] = Hunk(oS, oE, nS, nE)
      /\ \A h \in 1 .. Len(out) : out'[h] = out[h]
  BY DEF DiffTypes
<1>2. \A h \in DOMAIN out' : h \in DOMAIN out \/ h = Len(out) + 1
  BY <1>1
<1>3. \A h \in DOMAIN out : h \in DOMAIN out' /\ out'[h] = out[h]
  BY <1>1
<1>4. /\ Len(out) + 1 \in DOMAIN out'
      /\ out'[Len(out) + 1].oldStart = oS /\ out'[Len(out) + 1].oldEnd = oE
  BY <1>1 DEF Hunk
<1>5. \A h \in DOMAIN out : out[h].oldEnd \in Nat
  BY OldEnds
<1>6. \A h \in DOMAIN out' : out'[h].oldEnd <= oE
  <2> SUFFICES ASSUME NEW h \in DOMAIN out' PROVE out'[h].oldEnd <= oE
    OBVIOUS
  <2>1. CASE h \in DOMAIN out
    <3>1. out'[h].oldEnd = out[h].oldEnd /\ out[h].oldEnd \in Nat /\ out[h].oldEnd <= oS
      BY <1>3, <1>5, <2>1
    <3> QED BY <1>0, <3>1
  <2>2. CASE h = Len(out) + 1
    BY <1>0, <1>4, <2>2
  <2> QED BY <1>2, <2>1, <2>2
<1>7. InHunks' = InHunks \cup (oS + 1 .. oE)
  <2>1. ASSUME NEW k \in DOMAIN old
        PROVE  (\E h \in DOMAIN out' : out'[h].oldStart < k /\ k <= out'[h].oldEnd)
                 <=> \/ \E h \in DOMAIN out : out[h].oldStart < k /\ k <= out[h].oldEnd
                     \/ oS < k /\ k <= oE
    BY <1>2, <1>3, <1>4, Zenon
  <2>2. \A k \in DOMAIN old : k \in InHunks' <=> k \in InHunks \/ (oS < k /\ k <= oE)
    BY <2>1 DEF InHunks
  <2>3. \A k : k \in oS + 1 .. oE <=> k \in DOMAIN old /\ oS < k /\ k <= oE
    BY <1>0
  <2>4. InHunks \subseteq DOMAIN old /\ InHunks' \subseteq DOMAIN old
    BY DEF InHunks
  <2> QED BY <2>2, <2>3, <2>4, Zenon
<1>8. InHunks \cap (oS + 1 .. oE) = {}
  <2> SUFFICES ASSUME NEW k \in InHunks, k \in oS + 1 .. oE PROVE FALSE
    OBVIOUS
  <2>1. PICK h \in DOMAIN out : k <= out[h].oldEnd
    BY DEF InHunks
  <2>2. out[h].oldEnd <= oS /\ out[h].oldEnd \in Nat
    BY <1>5
  <2> QED BY <1>0, <2>1, <2>2
<1>9. IsFiniteSet(oS + 1 .. oE) /\ Cardinality(oS + 1 .. oE) = oE - oS
  <2>1. oS + 1 \in Int /\ oE \in Int
    BY <1>0
  <2>2. /\ IsFiniteSet(oS + 1 .. oE)
        /\ Cardinality(oS + 1 .. oE) = IF oS + 1 > oE THEN 0 ELSE oE - (oS + 1) + 1
    BY <2>1, FS_Interval
  <2> QED BY <1>0, <2>2
<1>10. IsFiniteSet(InHunks) /\ Cardinality(InHunks) \in Nat
  BY HunkLinesFinite
<1>11. Cardinality(InHunks \cup (oS + 1 .. oE))
         = Cardinality(InHunks) + Cardinality(oS + 1 .. oE) - Cardinality({})
  <2> DEFINE U == oS + 1 .. oE
  <2>1. IsFiniteSet(U) /\ InHunks \cap U = {}
    BY <1>8, <1>9
  <2> HIDE DEF U
  <2>2. Cardinality(InHunks \cup U)
          = Cardinality(InHunks) + Cardinality(U) - Cardinality(InHunks \cap U)
    BY <1>10, <2>1, FS_Union
  <2> QED BY <2>1, <2>2 DEF U
<1>12. Cardinality(InHunks)' = Cardinality(InHunks \cup (oS + 1 .. oE))
  BY <1>7
<1>13. Cardinality({}) = 0
  BY FS_EmptySet
<1>14. Cardinality(InHunks)' = Cardinality(InHunks) + (oE - oS)
  BY <1>0, <1>9, <1>10, <1>11, <1>12, <1>13
<1> QED BY <1>6, <1>14

LEMMA MinimalInvInit == Init /\ DiffInv => MinimalInv
<1> SUFFICES ASSUME Init, DiffInv PROVE MinimalInv
  OBVIOUS
<1>0. DOMAIN out = {}
  <2>1. out = <<>>
    BY DEF Init
  <2> QED BY <2>1
<1>1. InHunks = {}
  BY <1>0 DEF InHunks
<1>2. Cardinality(InHunks) = 0
  BY <1>1, FS_EmptySet
<1>3. Lcs[<<0, 0>>] \in Nat /\ Passed = 0 /\ Ahead = Lcs[<<0, 0>>]
  <2>1. 0 \in 0 .. Len(old) /\ 0 \in 0 .. Len(new)
    BY DEF DiffInv, DiffTypes
  <2> QED BY <2>1, LcsFacts DEF Init, DiffInv, Passed, Ahead
<1> QED BY <1>0, <1>2, <1>3 DEF MinimalInv

LEMMA MinimalInvNext ==
  ASSUME DiffInv, DiffInv', MinimalInv, [Next]_vars
  PROVE  MinimalInv'
<1> DEFINE c == Cardinality(InHunks)
<1>1. /\ DiffTypes /\ i \in 0 .. Len(old) /\ j \in 0 .. Len(new)
      /\ Len(old) \in Nat /\ Len(new) \in Nat
      /\ start[1] \in 0 .. Len(old) /\ start[2] \in 0 .. Len(new)
  BY DEF DiffInv, DiffTypes
<1>2. c \in Nat
  BY <1>1, HunkLinesFinite
<1>3. \A a \in 0 .. Len(old), b \in 0 .. Len(new) : Lcs[<<a, b>>] \in Nat
  BY <1>1, LcsFacts
<1>4. Lcs[<<0, 0>>] \in Nat /\ Lcs[<<i, j>>] \in Nat
  BY <1>1, <1>3
<1>5. UNCHANGED <<old, new>>
  BY DEF Next, Match, OpenHunk, Skip, CloseHunk, TrailingHunk, PointDelta, Widen, EndUp,
         EndDown, EmbedFails, Conclude, NoVerdict, Analyze, vars
<1>6. Lcs' = Lcs
  BY <1>5, LcsFixed
<1>7. UNCHANGED out => c' = c
  BY <1>5 DEF InHunks
<1> HIDE DEF c
<1>8. CASE Match
  <2>1. /\ pc = "scan" /\ pc' = "scan" /\ i' = i + 1 /\ j' = j + 1 /\ UNCHANGED out
        /\ Both /\ ~ Differ
    BY <1>8 DEF Match
  <2>2. Lcs[<<i, j>>] = Lcs[<<i + 1, j + 1>>] + 1
    BY <1>1, <2>1, LcsFacts
  <2>3. i + 1 \in 0 .. Len(old) /\ j + 1 \in 0 .. Len(new)
    BY <1>1, <2>1 DEF Both
  <2>4. Lcs[<<i + 1, j + 1>>] \in Nat
    BY <1>3, <2>3
  <2>5. Passed = i /\ Passed' = i + 1 /\ Ahead = Lcs[<<i, j>>]
    BY <2>1 DEF Passed, Ahead
  <2>6. Ahead' = Lcs[<<i + 1, j + 1>>]
    BY <1>6, <2>1 DEF Ahead
  <2>7. (\A h \in DOMAIN out : out[h].oldEnd <= i) /\ Lcs[<<0, 0>>] <= i - c + Lcs[<<i, j>>]
    BY <2>5 DEF MinimalInv, c
  <2>8. \A h \in DOMAIN out : out[h].oldEnd <= i + 1
    BY <1>1, <2>7, OldEnds
  <2>9. Lcs[<<0, 0>>] <= (i + 1) - c + Lcs[<<i + 1, j + 1>>]
    BY <1>1, <1>2, <1>4, <2>2, <2>4, <2>7
  <2>10. (\A h \in DOMAIN out' : out'[h].oldEnd <= Passed')
    BY <2>1, <2>5, <2>8
  <2>11. Lcs'[<<0, 0>>] <= Passed' - c' + Ahead'
    BY <1>6, <1>7, <2>1, <2>5, <2>6, <2>9
  <2> QED BY <2>10, <2>11 DEF MinimalInv, c
<1>9. CASE OpenHunk
  <2>1. /\ pc = "scan" /\ pc' = "hunk" /\ UNCHANGED <<i, j, out>> /\ start' = <<i, j>>
    BY <1>9 DEF OpenHunk
  <2>2. Passed' = Passed /\ Ahead' = Ahead
    BY <1>6, <2>1 DEF Passed, Ahead
  <2> QED BY <1>6, <1>7, <2>1, <2>2 DEF MinimalInv, c
<1>10. CASE Skip
  <2>1. /\ pc = "hunk" /\ pc' = "hunk" /\ UNCHANGED <<out, start>> /\ Differ
        /\ IF Lcs[<<i + 1, j>>] >= Lcs[<<i, j + 1>>]
           THEN i' = i + 1 /\ j' = j ELSE j' = j + 1 /\ i' = i
    BY <1>10 DEF Skip
  <2>2. Lcs[<<i, j>>] = Max(Lcs[<<i + 1, j>>], Lcs[<<i, j + 1>>])
    BY <1>1, <2>1, LcsFacts
  <2>3. Lcs[<<i', j'>>] = Lcs[<<i, j>>]
    BY <2>1, <2>2 DEF Max
  <2>4. Passed' = Passed
    BY <2>1 DEF Passed
  <2>5. Ahead' = Ahead
    BY <1>6, <2>1, <2>3 DEF Ahead
  <2> QED BY <1>6, <1>7, <2>1, <2>4, <2>5 DEF MinimalInv, c
<1>11. CASE CloseHunk
  <2>1. /\ pc = "hunk" /\ pc' = "scan" /\ UNCHANGED <<i, j>>
        /\ out' = Append(out, Hunk(start[1], i, start[2], j))
    BY <1>11 DEF CloseHunk
  <2>2. start[1] <= i
    BY <2>1 DEF DiffInv
  <2>3. Passed = start[1] /\ Passed' = i /\ Ahead = Lcs[<<i, j>>] /\ Ahead' = Lcs[<<i, j>>]
    BY <1>6, <2>1 DEF Passed, Ahead
  <2>4. /\ \A h \in DOMAIN out : out[h].oldEnd <= start[1]
        /\ Lcs[<<0, 0>>] <= start[1] - c + Lcs[<<i, j>>]
    BY <2>3 DEF MinimalInv, c
  <2>5. out' \in Seq(Change)
    BY DEF DiffInv, DiffTypes
  <2>6. (\A h \in DOMAIN out' : out'[h].oldEnd <= i) /\ c' = c + (i - start[1])
    BY <1>1, <1>5, <2>1, <2>2, <2>4, <2>5, HunkAdds DEF c
  <2>7. Lcs[<<0, 0>>] <= i - c' + Lcs[<<i, j>>]
    BY <1>1, <1>2, <1>4, <2>2, <2>4, <2>6
  <2> QED BY <1>6, <2>3, <2>6, <2>7 DEF MinimalInv, c
<1>12. CASE TrailingHunk
  <2>1. /\ pc = "scan" /\ pc' = "point" /\ UNCHANGED <<i, j>> /\ ~ Both
        /\ out' = IF i < Len(old) \/ j < Len(new)
                  THEN Append(out, Hunk(i, Len(old), j, Len(new))) ELSE out
    BY <1>12 DEF TrailingHunk
  <2>2. Lcs[<<i, j>>] = 0
    BY <1>1, <2>1, LcsFacts
  <2>3. Passed = i /\ Passed' = Len(old) /\ Ahead = 0 /\ Ahead' = 0
    BY <1>5, <2>1, <2>2 DEF Passed, Ahead
  <2>4. (\A h \in DOMAIN out : out[h].oldEnd <= i) /\ Lcs[<<0, 0>>] <= i - c + 0
    BY <2>3 DEF MinimalInv, c
  <2>5. (\A h \in DOMAIN out' : out'[h].oldEnd <= Len(old)) /\ c' = c + (Len(old) - i)
    <3>1. CASE i < Len(old) \/ j < Len(new)
      <4>1. out' = Append(out, Hunk(i, Len(old), j, Len(new)))
        BY <2>1, <3>1
      <4>2. out' \in Seq(Change) /\ i <= Len(old) /\ Len(old) \in 0 .. Len(old)
        BY <1>1 DEF DiffInv, DiffTypes
      <4> QED BY <1>1, <1>5, <2>4, <4>1, <4>2, HunkAdds DEF c
    <3>2. CASE ~ (i < Len(old) \/ j < Len(new))
      <4>1. i = Len(old) /\ out' = out
        BY <1>1, <2>1, <3>2
      <4> QED BY <1>1, <1>2, <1>7, <2>4, <4>1
    <3> QED BY <3>1, <3>2
  <2>6. Lcs[<<0, 0>>] <= Len(old) - c' + 0
    BY <1>1, <1>2, <1>4, <2>4, <2>5
  <2> QED BY <1>6, <2>3, <2>5, <2>6 DEF MinimalInv, c
<1>13. CASE AnalysisStep \/ UNCHANGED vars
  <2>1. UNCHANGED <<i, j, start, out>>
    BY <1>13 DEF AnalysisStep, PointDelta, Widen, EndUp, EndDown, EmbedFails, Conclude,
                diffVars, vars
  <2>2. \/ pc' = pc
        \/ /\ pc \notin {"call", "unclassified", "scan", "hunk"}
           /\ pc' \in {"point", "up", "down", "failed", "done"}
    BY <1>13 DEF AnalysisStep, PointDelta, Widen, EndUp, EndDown, EmbedFails, Conclude, vars
  <2>3. Passed' = Passed /\ Ahead' = Ahead
    BY <1>5, <1>6, <2>1, <2>2 DEF Passed, Ahead
  <2> QED BY <1>6, <1>7, <2>1, <2>3 DEF MinimalInv, c
<1>14. CASE EntryStep
  <2>1. /\ UNCHANGED <<i, j, start, out>>
        /\ pc = "call" /\ pc' \in {"unclassified", "scan"}
    BY <1>14, EntryKeeps
  <2>2. Passed' = Passed /\ Ahead' = Ahead
    BY <1>6, <2>1 DEF Passed, Ahead
  <2> QED BY <1>6, <1>7, <2>1, <2>2 DEF MinimalInv, c
<1> QED BY <1>8, <1>9, <1>10, <1>11, <1>12, <1>13, <1>14 DEF Next, AnalysisStep, EntryStep

\* The line diff is minimal: for texts of any length, no common subsequence of
\* the two versions has more lines than changes leaves out of its hunks.
THEOREM DiffsAreMinimal == Spec => []DiffIsMinimal
<1>1. DiffInv /\ MinimalInv => DiffIsMinimal
  <2> SUFFICES ASSUME DiffInv, MinimalInv, pc = "point",
                      NEW S \in SUBSET DOMAIN old, NEW T \in SUBSET DOMAIN new,
                      CommonSubsequence(S, T)
               PROVE  Cardinality(S) <= Len(old) - Cardinality(InHunks)
    BY DEF DiffIsMinimal, InHunks
  <2>1. /\ old \in Seq(Line) /\ new \in Seq(Line) /\ DiffTypes
        /\ Len(old) \in Nat /\ 0 \in 0 .. Len(old) /\ 0 \in 0 .. Len(new)
    BY DEF DiffInv, DiffTypes
  <2>2. Common(old, new, S, T)
    BY DEF CommonSubsequence, Common, Rank
  <2>3. S \in SUBSET (0 + 1 .. Len(old)) /\ T \in SUBSET (0 + 1 .. Len(new))
    BY <2>1
  <2>4. Bounded(old, new, 0, 0)
    BY <2>1, TableBounds
  <2>5. Cardinality(S) <= Lcs[<<0, 0>>]
    BY <2>2, <2>3, <2>4, LcsIsTable DEF Bounded
  <2>6. Lcs[<<0, 0>>] <= Len(old) - Cardinality(InHunks) + 0
    BY DEF MinimalInv, Passed, Ahead
  <2>7. Cardinality(S) \in Nat /\ Cardinality(InHunks) \in Nat /\ Lcs[<<0, 0>>] \in Nat
    <3>1. IsFiniteSet(S)
      <4>1. 1 \in Int /\ Len(old) \in Int /\ S \in SUBSET (1 .. Len(old))
        BY <2>1
      <4> QED BY <4>1, FS_Interval, FS_Subset
    <3> QED BY <2>1, <3>1, FS_CardinalityType, HunkLinesFinite, LcsFacts
  <2> QED BY <2>1, <2>5, <2>6, <2>7
<1>2. Init => DiffInv /\ MinimalInv
  BY DiffInvInit, MinimalInvInit
<1>3. DiffInv /\ MinimalInv /\ [Next]_vars => (DiffInv /\ MinimalInv)'
  BY DiffInvNext, MinimalInvNext
<1> QED BY <1>1, <1>2, <1>3, PTL DEF Spec

-----------------------------------------------------------------------------
\* What is left of the line diff; of the hunks, and the call's end; of the
\* windows of the current hunk.
ToScan ==
  LET lines == (Len(old) - i) + (Len(new) - j)
  IN IF pc = "call" THEN 3 * lines + 2
     ELSE IF pc = "scan" THEN 3 * lines + 1
     ELSE IF pc = "hunk"
          THEN 3 * lines + (IF start[1] < i \/ start[2] < j THEN 2 ELSE 0)
          ELSE 0

ToAnalyse == (Len(out) - Len(results)) + (IF pc \in {"done", "failed", "unclassified"} THEN 0 ELSE 1)

ToWiden ==
  IF pc = "up" THEN 2 * MaxLines + 6 - r
  ELSE IF pc = "down" THEN MaxLines + 2 - r
  ELSE 2 * MaxLines + 6

\* A step brings the call nearer to its end, in the lexicographic order of the
\* three numbers.
Progress ==
  /\ ToScan \in Nat /\ ToAnalyse \in Nat /\ ToWiden \in Nat
  /\ \/ ToScan' < ToScan
     \/ ToScan' = ToScan /\ ToAnalyse' < ToAnalyse
     \/ ToScan' = ToScan /\ ToAnalyse' = ToAnalyse /\ ToWiden' < ToWiden

\* No window is wider than a text, but for the last step of two lines.
RadiusInv == pc \in {"up", "down"} => r <= MaxLines + 2

\* A window that does not reach the edge is narrower than a text.
LEMMA NarrowWindow ==
  ASSUME DiffInv, AnalysisTypes, pc \in {"up", "down"}, ~ AtBoundary
  PROVE  r < MaxLines
<1>1. Len(results) < Len(out)
  BY DEF AnalysisTypes
<1>2. Current \in Change /\ Current.oldEnd <= Len(old) /\ Current.newEnd <= Len(new)
  BY <1>1, CurrentHunk
<1>3. /\ Current.oldStart \in 0 .. MaxLines /\ Current.newStart \in 0 .. MaxLines
      /\ Current.oldEnd \in 0 .. MaxLines /\ Current.newEnd \in 0 .. MaxLines
  BY <1>2 DEF Change
<1>4. /\ r \in Nat /\ MaxLines \in Nat
      /\ Len(old) \in 0 .. MaxLines /\ Len(new) \in 0 .. MaxLines
  BY MaxLinesAssumption DEF DiffInv, DiffTypes, AnalysisTypes
<1>5. CASE pc = "up"
  <2>1. UpOld # 0 \/ UpNew # 0
    BY <1>5 DEF AtBoundary
  <2> QED BY <1>3, <1>4, <2>1 DEF UpOld, UpNew, Max
<1>6. CASE pc = "down"
  <2>1. DownOld # Len(old) \/ DownNew # Len(new)
    BY <1>6 DEF AtBoundary
  <2> QED BY <1>3, <1>4, <2>1 DEF DownOld, DownNew, Min
<1> QED BY <1>5, <1>6

LEMMA RadiusNext ==
  ASSUME DiffInv, WindowInv, RadiusInv, [Next]_vars
  PROVE  RadiusInv'
<1>1. MaxLines \in Nat /\ r \in Nat
  BY MaxLinesAssumption DEF WindowInv, AnalysisTypes
<1>2. CASE Widen
  <2>1. r' = r + 2 /\ r < MaxLines
    BY <1>2, NarrowWindow DEF Widen, WindowInv
  <2> QED BY <1>1, <2>1 DEF RadiusInv
<1>3. CASE PointDelta \/ EndUp \/ EndDown
  <2>1. r' = 2
    BY <1>3 DEF PointDelta, EndUp, EndDown
  <2> QED BY <1>1, <2>1 DEF RadiusInv
<1>4. CASE Match \/ OpenHunk \/ Skip \/ CloseHunk \/ TrailingHunk \/ EmbedFails \/ Conclude
  BY <1>4 DEF RadiusInv, Match, OpenHunk, Skip, CloseHunk, TrailingHunk, EmbedFails, Conclude
<1>6. CASE EntryStep
  BY <1>6, EntryKeeps DEF RadiusInv
<1>5. CASE UNCHANGED vars
  BY <1>5 DEF RadiusInv, vars
<1> QED BY <1>2, <1>3, <1>4, <1>5, <1>6 DEF Next, EntryStep

\* The three numbers are natural.
LEMMA LeftTypes ==
  ASSUME DiffInv, AnalysisTypes, RadiusInv
  PROVE  ToScan \in Nat /\ ToAnalyse \in Nat /\ ToWiden \in Nat
<1>1. /\ i \in 0 .. Len(old) /\ j \in 0 .. Len(new) /\ Len(old) \in Nat /\ Len(new) \in Nat
      /\ MaxLines \in Nat /\ r \in Nat /\ Len(out) \in Nat /\ Len(results) \in 0 .. Len(out)
  BY MaxLinesAssumption DEF DiffInv, DiffTypes, AnalysisTypes
<1>2. ToScan \in Nat
  BY <1>1 DEF ToScan
<1>3. ToAnalyse \in Nat
  BY <1>1 DEF ToAnalyse
<1>4. ToWiden \in Nat
  BY <1>1 DEF ToWiden, RadiusInv
<1> QED BY <1>2, <1>3, <1>4

LEMMA EntryProgress ==
  ASSUME DiffInv, EntryStep
  PROVE  ToScan' < ToScan
<1>1. /\ UNCHANGED <<old, new, i, j>>
      /\ pc = "call" /\ pc' \in {"unclassified", "scan"}
  BY EntryKeeps
<1>2. i \in 0 .. Len(old) /\ j \in 0 .. Len(new) /\ Len(old) \in Nat /\ Len(new) \in Nat
  BY DEF DiffInv, DiffTypes
<1> QED BY <1>1, <1>2 DEF ToScan

LEMMA DiffProgress ==
  ASSUME DiffInv, Match \/ OpenHunk \/ Skip \/ CloseHunk \/ TrailingHunk
  PROVE  ToScan' < ToScan
<1>0. /\ i \in 0 .. Len(old) /\ j \in 0 .. Len(new) /\ Len(old) \in Nat /\ Len(new) \in Nat
      /\ start[1] \in 0 .. Len(old) /\ start[2] \in 0 .. Len(new)
  BY DEF DiffInv, DiffTypes
<1>1. CASE Match
  <2>1. /\ pc = "scan" /\ pc' = "scan" /\ i' = i + 1 /\ j' = j + 1 /\ UNCHANGED <<old, new>>
    BY <1>1 DEF Match
  <2> QED BY <1>0, <2>1 DEF ToScan
<1>2. CASE OpenHunk
  <2>1. /\ pc = "scan" /\ pc' = "hunk" /\ UNCHANGED <<i, j, old, new>>
        /\ start'[1] = i /\ start'[2] = j
    BY <1>2 DEF OpenHunk
  <2>2. ToScan = 3 * ((Len(old) - i) + (Len(new) - j)) + 1
    BY <2>1 DEF ToScan
  <2>3. ToScan' = 3 * ((Len(old) - i) + (Len(new) - j)) + 0
    BY <1>0, <2>1 DEF ToScan
  <2> QED BY <1>0, <2>2, <2>3
<1>3. CASE Skip
  <2>1. /\ pc = "hunk" /\ pc' = "hunk" /\ UNCHANGED <<start, old, new>>
        /\ (i' = i + 1 /\ j' = j) \/ (j' = j + 1 /\ i' = i)
    BY <1>3 DEF Skip
  <2> DEFINE lines == (Len(old) - i) + (Len(new) - j)
             linesNext == (Len(old) - i') + (Len(new) - j')
  <2>2. linesNext = lines - 1 /\ lines \in Int
    BY <1>0, <2>1
  <2>3. ToScan = 3 * lines \/ ToScan = 3 * lines + 2
    BY <1>0, <2>1 DEF ToScan
  <2>4. ToScan' = 3 * linesNext \/ ToScan' = 3 * linesNext + 2
    BY <1>0, <2>1 DEF ToScan
  <2> HIDE DEF lines, linesNext
  <2> QED BY <2>2, <2>3, <2>4
<1>4. CASE CloseHunk
  <2>1. /\ pc = "hunk" /\ pc' = "scan" /\ UNCHANGED <<i, j, old, new>> /\ ~ Differ
    BY <1>4 DEF CloseHunk
  <2>2. start[1] < i \/ start[2] < j
    BY <2>1 DEF DiffInv
  <2> QED BY <1>0, <2>1, <2>2 DEF ToScan
<1>5. CASE TrailingHunk
  <2>1. pc = "scan" /\ pc' = "point"
    BY <1>5 DEF TrailingHunk
  <2> QED BY <1>0, <2>1 DEF ToScan
<1> QED BY <1>1, <1>2, <1>3, <1>4, <1>5

LEMMA AnalysisProgress ==
  ASSUME DiffInv, AnalysisTypes, RadiusInv, AnalysisStep
  PROVE  /\ ToScan' = ToScan
         /\ \/ ToAnalyse' < ToAnalyse
            \/ ToAnalyse' = ToAnalyse /\ ToWiden' < ToWiden
<1>0. /\ MaxLines \in Nat /\ r \in Nat /\ Len(out) \in Nat /\ Len(results) \in Nat
      /\ results \in Seq(Result)
  BY MaxLinesAssumption DEF DiffInv, DiffTypes, AnalysisTypes
<1>1. ToScan' = ToScan
  <2>1. pc \notin {"call", "scan", "hunk"} /\ pc' \notin {"call", "scan", "hunk"}
    BY DEF AnalysisStep, PointDelta, Widen, EndUp, EndDown, EmbedFails, Conclude
  <2> QED BY <2>1 DEF ToScan
<1>2. UNCHANGED out
  BY DEF AnalysisStep, PointDelta, Widen, EndUp, EndDown, EmbedFails, Conclude, diffVars
<1>3. CASE PointDelta
  <2>1. pc = "point" /\ pc' = "up" /\ r' = 2 /\ UNCHANGED results
    BY <1>3 DEF PointDelta
  <2> QED BY <1>0, <1>1, <1>2, <2>1 DEF ToAnalyse, ToWiden
<1>4. CASE Widen
  <2>1. pc \in {"up", "down"} /\ pc' = pc /\ r' = r + 2 /\ UNCHANGED results
    BY <1>4 DEF Widen
  <2> QED BY <1>0, <1>1, <1>2, <2>1 DEF ToAnalyse, ToWiden
<1>5. CASE EndUp
  <2>1. pc = "up" /\ pc' = "down" /\ r' = 2 /\ UNCHANGED results
    BY <1>5 DEF EndUp
  <2>2. r <= MaxLines + 2
    BY <2>1 DEF RadiusInv
  <2> QED BY <1>0, <1>1, <1>2, <2>1, <2>2 DEF ToAnalyse, ToWiden
<1>6. CASE EndDown
  <2>1. pc = "down" /\ pc' = "point" /\ \E x : results' = Append(results, x)
    BY <1>6 DEF EndDown
  <2>2. Len(results') = Len(results) + 1
    BY <1>0, <2>1
  <2> QED BY <1>0, <1>1, <1>2, <2>1, <2>2 DEF ToAnalyse
<1>7. CASE EmbedFails \/ Conclude
  <2>1. /\ pc \notin {"done", "failed", "unclassified"} /\ pc' \in {"done", "failed"}
        /\ UNCHANGED results
    BY <1>7 DEF EmbedFails, Conclude, hunkVars
  <2> QED BY <1>0, <1>1, <1>2, <2>1 DEF ToAnalyse
<1> QED BY <1>3, <1>4, <1>5, <1>6, <1>7 DEF AnalysisStep

\* The loops of changes and expand end, for texts of any length and every
\* embedder that answers: each step lowers the three numbers in the
\* lexicographic order, which has no infinite descent.
THEOREM AnalysisMakesProgress == Spec => [][Progress]_vars
<1>1. Init => DiffInv /\ WindowInv /\ RadiusInv
  BY DiffInvInit, WindowInvInit DEF Init, RadiusInv
<1>2. DiffInv /\ WindowInv /\ RadiusInv /\ [Next]_vars => (DiffInv /\ WindowInv /\ RadiusInv)'
  BY DiffInvNext, WindowInvNext, RadiusNext
<1>3. DiffInv /\ WindowInv /\ RadiusInv /\ [Next]_vars => [Progress]_vars
  <2> SUFFICES ASSUME DiffInv, WindowInv, RadiusInv, Next PROVE Progress
    OBVIOUS
  <2>1. AnalysisTypes
    BY DEF WindowInv
  <2>2. ToScan \in Nat /\ ToAnalyse \in Nat /\ ToWiden \in Nat
    BY <2>1, LeftTypes
  <2>3. CASE Match \/ OpenHunk \/ Skip \/ CloseHunk \/ TrailingHunk
    BY <2>2, <2>3, DiffProgress DEF Progress
  <2>4. CASE AnalysisStep
    BY <2>1, <2>2, <2>4, AnalysisProgress DEF Progress
  <2>5. CASE EntryStep
    BY <2>2, <2>5, EntryProgress DEF Progress
  <2> QED BY <2>3, <2>4, <2>5 DEF Next, AnalysisStep, EntryStep
<1> QED BY <1>1, <1>2, <1>3, PTL DEF Spec

=============================================================================
