----------------------------- MODULE NodeProofs -----------------------------
(***************************************************************************)
(* Proofs about Node.tla, for any chain length, segment span, snapshot and *)
(* index cadence, memory window, retention and number of faults, and any   *)
(* home an older release may have left.                                    *)
(***************************************************************************)
EXTENDS Node, FiniteSetTheorems, WellFoundedInduction, TLAPS

Formats == {"v3", "v4"}
Images == [height : 0..MaxHeight, sigma : SUBSET Heights]
Jobs   == {NoJob} \cup [id : Ids, stage : {"write", "verify", "delete"}]

DiskTyped ==
  /\ files \subseteq Heights
  /\ segs \in [Ids -> SUBSET Heights] /\ \A i \in Ids : segs[i] \subseteq span(i)
  /\ verdict = [h \in Heights |-> h \in Good]
  /\ snaps \in [Formats -> Images] /\ saved \in [through : 0..MaxHeight, heights : SUBSET Heights]

ProcessTyped ==
  /\ up \in BOOLEAN /\ pc \in {"idle", "snapshot", "prune", "index"}
  /\ tip \in 0..MaxHeight /\ sigma \subseteq Heights /\ ram \subseteq Heights
  /\ history_min \in 0..MaxHeight + 1
  /\ index \subseteq Heights /\ floor \in 0..All /\ pass \subseteq Heights /\ look \in {"file", "segment"}
  /\ pass # {} => floor # All
  /\ compacting \in Jobs /\ through \in 0..MaxHeight /\ startup \in 0..MaxHeight /\ scan \subseteq Ids
  /\ pruned \subseteq Heights /\ unlisted \subseteq Heights

\* The height of the image a start would take.
Base == load_snapshot.height

\* Every image, and the state of a node that is up, is the network's.
SigmaInv ==
  /\ \A f \in Formats : snaps[f].sigma = Good \cap 1..snaps[f].height
  /\ up => sigma = Good \cap 1..tip

\* Behind the image every block is on disk or could not be written; what is
\* packed lies below it.
RangeInv ==
  /\ Base <= tip /\ Base + 1..tip \subseteq OnDisk \cup holes
  /\ through <= Base /\ startup <= Base
  /\ compacting # NoJob => compacting.id * Span + Span - 1 <= Base
  /\ pc = "prune" => Base = tip /\ \A i \in scan : i < keep_seg /\ tip > Retain

\* Segments are written once, over the files they replace.
SegInv ==
  /\ \A i \in Ids : segs[i] # {} =>
       /\ i * Span + Span - 1 <= Base
       /\ files \cap span(i) \subseteq segs[i]
  /\ compacting.stage = "write" => segs[compacting.id] = {}

\* What a packing job under way leaves: the files it removes are not counted.
Doomed == IF compacting.stage = "delete" THEN files \cap span(compacting.id) ELSE {}
Kept == (files \ Doomed) \cup UNION {segs[i] : i \in Ids}

\* What may be missing above the floor.
Missing == IF pc = "prune" THEN unlisted \cup pruned ELSE unlisted

\* What is advertised is there: in memory the newest heights, on disk those
\* from the floor.  A pass under way deletes below where the floor will be.
ServeInv ==
  up => /\ history_min >= 1 /\ history_min <= tip + 1
        /\ ram \subseteq 1..tip /\ \A h \in ram : h..tip \subseteq ram
        /\ history_min..tip \subseteq Kept \cup Missing
        /\ (pc = "prune" /\ pruned # {}) => tip > Retain /\ \A h \in pruned : h < keep_seg * Span

\* A height is indexed, or is not on disk and never will be again.
Covered(h, idx) == h \in idx \/ (h \notin OnDisk /\ h <= Base)

IndexInv ==
  /\ \A h \in 1..saved.through : Covered(h, saved.heights)
  /\ up => /\ floor = All => \A h \in 1..tip : Covered(h, index)
           /\ floor # All => floor <= Base /\ \A h \in 1..floor : Covered(h, index)
           /\ pass # {} => \A h \in 1..tip : Covered(h, index) \/ h \in pass
           /\ \A h \in pass : h <= Base
           /\ look = "segment" => pass # {} /\ Min(pass) \notin files

NInv == DiskTyped /\ ProcessTyped /\ SigmaInv /\ RangeInv /\ SegInv /\ ServeInv /\ IndexInv

-----------------------------------------------------------------------------
(* Arithmetic, and the operators of the model.                             *)

\* What the assumption says of each constant.
LEMMA Constants ==
  /\ MaxHeight \in Nat /\ Retain \in Nat /\ MaxFaults \in Nat
  /\ Span \in Nat /\ Span >= 1 /\ Window \in Nat /\ Window >= 1
  /\ IndexHistory \subseteq BOOLEAN /\ Good \subseteq 1..MaxHeight
  BY NodeAssumption

\* A segment's number bounds its heights, and the heights name the segment.
LEMMA SegmentBounds ==
  ASSUME NEW h \in Nat
  PROVE  /\ h \div Span \in Nat /\ (h \div Span) * Span <= h
         /\ h <= (h \div Span) * Span + Span - 1
  BY Constants

\* The spans of two segments do not meet.
LEMMA SpanOrder ==
  ASSUME NEW i \in Nat, NEW k \in Nat, i < k
  PROVE  i * Span + Span <= k * Span
  <1>1. Span \in Nat
    BY Constants
  <1>2. PICK d \in Nat : k = i + 1 + d
    <2>1. k - i - 1 \in Nat /\ k = i + 1 + (k - i - 1)
      OBVIOUS
    <2>2. QED
      BY <2>1
  <1>3. k * Span = i * Span + Span + d * Span
    BY <1>1, <1>2
  <1>4. d * Span \in Nat /\ i * Span \in Nat
    BY <1>1
  <1>5. QED
    BY <1>3, <1>4, <1>1

\* A height lies in the segment its number divides to, and in no other.
LEMMA SegmentOf ==
  ASSUME NEW i \in Nat, NEW h \in span(i)
  PROVE  h \in Nat /\ h \div Span = i
  <1>1. Span \in Nat /\ Span >= 1 /\ i * Span \in Nat
    BY Constants
  <1>2. h \in Nat /\ i * Span <= h /\ h <= i * Span + Span - 1
    BY <1>1 DEF span
  <1> DEFINE k == h \div Span
  <1>3. k \in Nat /\ k * Span <= h /\ h <= k * Span + Span - 1
    BY <1>2, SegmentBounds
  <1> HIDE DEF k
  <1>4. ~ (k < i)
    <2> SUFFICES ASSUME k < i PROVE FALSE
      OBVIOUS
    <2>1. k * Span + Span <= i * Span
      BY <1>3, SpanOrder
    <2>2. k * Span \in Nat
      BY <1>1, <1>3
    <2>3. QED
      BY <1>1, <1>2, <1>3, <2>1, <2>2
  <1>5. ~ (i < k)
    <2> SUFFICES ASSUME i < k PROVE FALSE
      OBVIOUS
    <2>1. i * Span + Span <= k * Span
      BY <1>3, SpanOrder
    <2>2. k * Span \in Nat
      BY <1>1, <1>3
    <2>3. QED
      BY <1>1, <1>2, <1>3, <2>1, <2>2
  <1>6. QED
    BY <1>2, <1>3, <1>4, <1>5 DEF k

\* Segment numbers are naturals, and every height's segment is one.
LEMMA IdsNat ==
  /\ \A i \in Ids : i \in Nat
  /\ \A h \in 0..MaxHeight : h \div Span \in Ids
  <1>1. MaxHeight \in Nat /\ Span \in Nat /\ Span >= 1 /\ MaxHeight \div Span \in Nat
    BY Constants, SegmentBounds
  <1>2. ASSUME NEW h \in 0..MaxHeight PROVE h \div Span \in Ids
    <2> DEFINE k == h \div Span
               m == MaxHeight \div Span
    <2>1. h \in Nat /\ h <= MaxHeight /\ k \in Nat /\ k * Span <= h
      BY <1>1, SegmentBounds
    <2>2. m \in Nat /\ MaxHeight <= m * Span + Span - 1 /\ Ids = 0..m
      BY <1>1, SegmentBounds DEF Ids
    <2> HIDE DEF k, m
    <2>3. ~ (m < k)
      <3> SUFFICES ASSUME m < k PROVE FALSE
        OBVIOUS
      <3>1. m * Span + Span <= k * Span
        BY <2>1, <2>2, SpanOrder
      <3>2. m * Span \in Nat /\ k * Span \in Nat
        BY <1>1, <2>1, <2>2
      <3>3. QED
        BY <1>1, <2>1, <2>2, <3>1, <3>2
    <2>4. QED
      BY <2>1, <2>2, <2>3 DEF k
  <1>3. QED
    BY <1>1, <1>2 DEF Ids

\* A set of naturals that is not empty has a least member.
LEMMA MinIsLeast ==
  ASSUME NEW S, S \subseteq Nat, S # {}
  PROVE  Min(S) \in S /\ \A y \in S : Min(S) <= y
  <1> DEFINE R == OpToRel(<, Nat)
  <1>1. PICK x \in S : \A y \in S : ~ (<<y, x>> \in R)
    BY NatLessThanWellFounded, WFMin
  <1>2. \A y \in Nat : y < x => <<y, x>> \in R
    BY DEF OpToRel
  <1> HIDE DEF R
  <1>3. ASSUME NEW y \in S PROVE x =< y
    <2>1. x \in Nat /\ y \in Nat /\ ~ (<<y, x>> \in R)
      BY <1>1
    <2>2. ~ (y < x)
      BY <1>2, <2>1
    <2>3. QED
      BY <2>1, <2>2
  <1>4. QED
    BY <1>3 DEF Min

\* A bounded one has a greatest.
LEMMA MaxIsGreatest ==
  ASSUME NEW N \in Nat, NEW S, S \subseteq 0..N, S # {}
  PROVE  Max(S) \in S /\ \A y \in S : Max(S) >= y
  <1> DEFINE T == {N - x : x \in S}
  <1>1. T \subseteq Nat /\ T # {}
    <2>1. \A x \in S : N - x \in Nat
      OBVIOUS
    <2>2. QED
      BY <2>1
  <1>2. Min(T) \in T /\ \A y \in T : Min(T) <= y
    BY <1>1, MinIsLeast
  <1>3. PICK x \in S : Min(T) = N - x
    BY <1>2
  <1>4. \A y \in S : x >= y
    <2> TAKE y \in S
    <2>1. N - y \in T
      OBVIOUS
    <2>2. N - x <= N - y
      BY <1>2, <1>3, <2>1
    <2>3. QED
      BY <2>2
  <1>5. \E z \in S : \A y \in S : z >= y
    BY <1>4
  <1>6. QED
    BY <1>5 DEF Max

\* The greater of two.
LEMMA MaxOfTwo ==
  ASSUME NEW a \in Nat, NEW b \in Nat
  PROVE  Max({a, b}) \in Nat /\ Max({a, b}) >= a /\ Max({a, b}) >= b /\ Max({a, b}) \in {a, b}
  <1> DEFINE S == {a, b}
             N == a + b
  <1>1. N \in Nat /\ S \subseteq 0..N /\ S # {} /\ a \in S /\ b \in S
    OBVIOUS
  <1>2. Max(S) \in S /\ \A y \in S : Max(S) >= y
    <2> HIDE DEF S, N
    <2>1. QED
      BY <1>1, MaxIsGreatest
  <1>3. QED
    BY <1>2

\* The window keeps the newest heights, the last among them.
LEMMA WindowSuffix ==
  ASSUME NEW t \in 0..MaxHeight, NEW r, r \subseteq 1..t, \A h \in r : h..t \subseteq r
  PROVE  /\ in_window(r) \subseteq r
         /\ \A h \in in_window(r) : h..t \subseteq in_window(r)
  <1>1. IsFiniteSet(r) /\ t \in Nat
    <2>1. IsFiniteSet(1..t) /\ t \in Nat
      BY FS_Interval, Constants
    <2>2. QED
      BY <2>1, FS_Subset
  <1>2. ASSUME NEW h \in in_window(r), NEW k \in h..t
        PROVE  k \in in_window(r)
    <2>1. h \in r /\ h \in Nat /\ k \in r /\ k \in Nat /\ h <= k
      BY <1>1 DEF in_window
    <2> DEFINE A == {x \in r : x > h}
               B == {x \in r : x > k}
    <2>2. B \subseteq A /\ A \subseteq r
      <3>1. \A x \in r : x \in Nat
        BY <1>1
      <3>2. \A x \in r : x > k => x > h
        BY <2>1, <3>1
      <3>3. QED
        BY <3>2
    <2>3. IsFiniteSet(A)
      BY <1>1, <2>2, FS_Subset
    <2>4. Cardinality(B) <= Cardinality(A) /\ Cardinality(A) \in Nat /\ Cardinality(B) \in Nat
      BY <2>2, <2>3, FS_Subset, FS_CardinalityType
    <2>5. Cardinality(A) < Window
      BY DEF in_window
    <2>6. Cardinality(B) < Window
      BY <2>4, <2>5, Constants
    <2>7. QED
      BY <2>1, <2>6 DEF in_window
  <1>3. QED
    BY <1>2 DEF in_window

\* The recursion behind a replay.
IsReplay(g, b, s, to) ==
  g = [h \in b..to |-> IF h = b THEN s ELSE apply_batch(g[h - 1], h, "decided", FALSE, verdict[h])]

\* With the verdicts that were stored, a replay from an image of the network's
\* state comes to the network's state.
LEMMA ReplayIsCanonical ==
  ASSUME verdict = [h \in Heights |-> h \in Good], NEW b \in 0..MaxHeight, NEW to \in b..MaxHeight
  PROVE  replay(b, Good \cap 1..b, to) = Good \cap 1..to
  <1> DEFINE s == Good \cap 1..b
             g == [h \in b..to |-> Good \cap 1..h]
  <1>1. b \in Nat /\ to \in Nat /\ b <= to /\ to <= MaxHeight /\ MaxHeight \in Nat
    BY Constants
  <1>2. ASSUME NEW h \in b + 1..to
        PROVE  Good \cap 1..h = apply_batch(Good \cap 1..(h - 1), h, "decided", FALSE, verdict[h])
    <2>1. h \in Nat /\ h >= 1 /\ h \in Heights
      BY <1>1 DEF Heights
    <2>2. verdict[h] <=> h \in Good
      BY <2>1
    <2>3. 1..h = (1..(h - 1)) \cup {h} /\ h \notin 1..(h - 1)
      BY <2>1
    <2>4. CASE h \in Good
      <3>1. apply_batch(Good \cap 1..(h - 1), h, "decided", FALSE, verdict[h]) = (Good \cap 1..(h - 1)) \cup {h}
        BY <2>2, <2>4 DEF apply_batch
      <3>2. QED
        BY <2>3, <2>4, <3>1
    <2>5. CASE h \notin Good
      <3>1. apply_batch(Good \cap 1..(h - 1), h, "decided", FALSE, verdict[h]) = Good \cap 1..(h - 1)
        BY <2>2, <2>5 DEF apply_batch
      <3>2. QED
        BY <2>3, <2>5, <3>1
    <2>6. QED
      BY <2>4, <2>5
  <1>3. IsReplay(g, b, s, to)
    <2>1. ASSUME NEW h \in b..to
          PROVE  g[h] = IF h = b THEN s ELSE apply_batch(g[h - 1], h, "decided", FALSE, verdict[h])
      <3>1. CASE h = b
        BY <3>1
      <3>2. CASE h # b
        <4>1. h \in b + 1..to /\ h - 1 \in b..to
          BY <1>1, <3>2
        <4>2. QED
          BY <1>2, <3>2, <4>1
      <3>3. QED
        BY <3>1, <3>2
    <2> DEFINE e == [h \in b..to |-> IF h = b THEN s ELSE apply_batch(g[h - 1], h, "decided", FALSE, verdict[h])]
    <2>2. g = [h \in b..to |-> g[h]] /\ \A h \in b..to : g[h] = e[h]
      BY <2>1
    <2> HIDE DEF g
    <2>3. g = e
      BY <2>2
    <2>4. QED
      BY <2>3 DEF IsReplay
  <1>4. ASSUME NEW f, IsReplay(f, b, s, to) PROVE f[to] = g[to]
    <2>1. \A h \in b..to : f[h] = IF h = b THEN s ELSE apply_batch(f[h - 1], h, "decided", FALSE, verdict[h])
      BY <1>4 DEF IsReplay
    <2>2. SUFFICES ASSUME f[to] # g[to] PROVE FALSE
      OBVIOUS
    <2> DEFINE W == {h \in b..to : f[h] # g[h]}
    <2>3. W \subseteq Nat /\ to \in W
      BY <1>1, <2>2
    <2>4. Min(W) \in W /\ \A y \in W : Min(W) <= y
      BY <2>3, MinIsLeast
    <2>5. PICK m \in W : \A y \in W : m <= y
      BY <2>4
    <2>6. m \in b..to /\ m \in Nat /\ f[m] # g[m]
      BY <1>1
    <2>7. CASE m = b
      BY <2>1, <2>6, <2>7
    <2>8. CASE m # b
      <3>1. m \in b + 1..to /\ m - 1 \in b..to /\ ~(m <= m - 1)
        BY <1>1, <2>6, <2>8
      <3>2. f[m - 1] = g[m - 1]
        BY <2>5, <3>1
      <3>3. g[m] = apply_batch(g[m - 1], m, "decided", FALSE, verdict[m])
        BY <1>2, <2>6, <3>1
      <3>4. f[m] = apply_batch(f[m - 1], m, "decided", FALSE, verdict[m])
        BY <2>1, <2>6, <2>8
      <3>5. QED
        BY <2>6, <3>2, <3>3, <3>4
    <2>9. QED
      BY <2>7, <2>8
  <1>5. replay(b, s, to) = (CHOOSE f : IsReplay(f, b, s, to))[to]
    BY DEF replay, IsReplay
  <1>6. IsReplay(CHOOSE f : IsReplay(f, b, s, to), b, s, to)
    BY <1>3
  <1>7. QED
    BY <1>1, <1>4, <1>5, <1>6

-----------------------------------------------------------------------------
(* What the parts of the invariant depend on.                              *)

\* The image a start takes is the highest there is.
LEMMA HighestImage ==
  ASSUME DiskTyped
  PROVE  /\ Base \in 0..MaxHeight /\ Base \in Nat /\ load_snapshot \in Images
         /\ \A f \in Formats : snaps[f].height \in Nat /\ snaps[f].height <= Base
         /\ \E f \in Formats : load_snapshot = snaps[f]
         /\ Base = Max({snaps["v3"].height, snaps["v4"].height})
  <1>1. /\ "v3" \in Formats /\ "v4" \in Formats /\ snaps["v3"] \in Images /\ snaps["v4"] \in Images
        /\ \A f \in Formats : f = "v3" \/ f = "v4"
    BY DEF DiskTyped, Formats
  <1>2. \A x \in Images : x.height \in 0..MaxHeight
    BY DEF Images
  <1>3. \E f \in Formats : load_snapshot = snaps[f]
    BY <1>1 DEF load_snapshot
  <1>4. load_snapshot \in Images
    BY <1>1, <1>3
  <1>5. /\ snaps["v3"].height \in 0..MaxHeight /\ snaps["v4"].height \in 0..MaxHeight
        /\ snaps["v3"].height <= Base /\ snaps["v4"].height <= Base
        /\ Base \in {snaps["v3"].height, snaps["v4"].height}
    BY <1>1, <1>2, Constants DEF load_snapshot, Base
  <1>6. Base = Max({snaps["v3"].height, snaps["v4"].height})
    <2> DEFINE S == {snaps["v3"].height, snaps["v4"].height}
    <2>1. S \subseteq 0..MaxHeight /\ S # {} /\ Base \in S /\ \A y \in S : y <= Base
      BY <1>5
    <2> HIDE DEF S
    <2>2. Max(S) \in S /\ \A y \in S : Max(S) >= y
      BY <2>1, MaxIsGreatest, Constants
    <2>3. Max(S) >= Base /\ Max(S) <= Base
      BY <2>1, <2>2
    <2>4. Max(S) \in 0..MaxHeight /\ Base \in 0..MaxHeight
      BY <2>1, <2>2
    <2>5. Max(S) = Base
      BY <2>3, <2>4, Constants
    <2>6. QED
      BY <2>5 DEF S
  <1>7. Base \in 0..MaxHeight /\ Base \in Nat
    BY <1>5, Constants
  <1>8. \A f \in Formats : snaps[f].height \in Nat /\ snaps[f].height <= Base
    BY <1>1, <1>5, Constants
  <1>9. QED
    BY <1>3, <1>4, <1>6, <1>7, <1>8

\* Blocks and images that nothing touches are as they were.
LEMMA DiskSame ==
  /\ UNCHANGED <<files, segs>> => OnDisk' = OnDisk
  /\ UNCHANGED snaps => Base' = Base
  BY DEF OnDisk, Base, load_snapshot

\* What is on disk is a height.
LEMMA OnDiskHeights ==
  ASSUME DiskTyped
  PROVE  OnDisk \subseteq Heights /\ \A h \in OnDisk : h \in Nat /\ h >= 1 /\ h <= MaxHeight
  <1>1. OnDisk \subseteq Heights
    BY DEF DiskTyped, OnDisk
  <1>2. QED
    BY <1>1, Constants DEF Heights

\* The types of the disk.
LEMMA KeepDisk ==
  ASSUME DiskTyped, UNCHANGED <<files, segs, verdict, snaps, saved>>
  PROVE  DiskTyped'
  BY DEF DiskTyped

\* The network's state.
LEMMA KeepSigma ==
  ASSUME SigmaInv, UNCHANGED <<snaps, up, sigma, tip>>
  PROVE  SigmaInv'
  BY DEF SigmaInv

\* What lies behind the image.
LEMMA KeepRange ==
  ASSUME RangeInv, OnDisk' = OnDisk, UNCHANGED <<snaps, tip, holes, through, startup, compacting, pc, scan>>
  PROVE  RangeInv'
  <1>1. Base' = Base /\ keep_seg' = keep_seg
    BY DiskSame DEF keep_seg
  <1>2. QED
    BY <1>1 DEF RangeInv

\* Segments and the files they replace.
LEMMA KeepSeg ==
  ASSUME SegInv, UNCHANGED <<files, segs, snaps, compacting>>
  PROVE  SegInv'
  <1>1. Base' = Base
    BY DiskSame
  <1>2. QED
    BY <1>1 DEF SegInv

\* What is advertised.
LEMMA KeepServe ==
  ASSUME ServeInv, Kept \subseteq Kept', UNCHANGED <<up, tip, ram, history_min, pc, pruned, unlisted>>
  PROVE  ServeInv'
  <1>1. Missing' = Missing /\ keep_seg' = keep_seg
    BY DEF Missing, keep_seg
  <1>2. QED
    BY <1>1 DEF ServeInv

\* A job removes files only when their segment is there.
LEMMA KeptStays ==
  ASSUME NInv, UNCHANGED <<files, segs>>,
         compacting' = compacting
           \/ (compacting'.stage = "delete" => compacting'.id \in Ids /\ segs[compacting'.id] # {})
  PROVE  Kept \subseteq Kept'
  <1>1. CASE compacting' = compacting
    BY <1>1 DEF Kept, Doomed, span
  <1>2. CASE compacting'.stage = "delete" => compacting'.id \in Ids /\ segs[compacting'.id] # {}
    <2>1. Doomed' \subseteq UNION {segs[i] : i \in Ids}
      <3>1. CASE compacting'.stage # "delete"
        BY <3>1 DEF Doomed
      <3>2. CASE compacting'.stage = "delete"
        <4>1. files \cap span(compacting'.id) \subseteq segs[compacting'.id]
          BY <1>2, <3>2 DEF NInv, SegInv
        <4>2. Doomed' = files \cap span(compacting'.id)
          BY <3>2 DEF Doomed, span
        <4>3. QED
          BY <1>2, <3>2, <4>1, <4>2
      <3>3. QED
        BY <3>1, <3>2
    <2>2. QED
      BY <2>1 DEF Kept
  <1>3. QED
    BY <1>1, <1>2

\* The index and its file.
LEMMA KeepIndex ==
  ASSUME IndexInv, OnDisk' \subseteq OnDisk, files' \subseteq files,
         UNCHANGED <<snaps, saved, up, floor, tip, index, pass, look>>
  PROVE  IndexInv'
  <1>1. Base' = Base
    BY DiskSame
  <1>2. \A h, x : Covered(h, x) => Covered(h, x)'
    BY <1>1 DEF Covered
  <1>3. \A h \in 1..saved'.through : Covered(h, saved.heights)'
    BY <1>2 DEF IndexInv
  <1>4. ASSUME up'
        PROVE  /\ floor' = All => \A h \in 1..tip' : Covered(h, index)'
               /\ floor' # All => floor' <= Base' /\ \A h \in 1..floor' : Covered(h, index)'
               /\ pass' # {} => \A h \in 1..tip' : Covered(h, index)' \/ h \in pass'
               /\ \A h \in pass' : h <= Base'
               /\ look' = "segment" => pass' # {} /\ Min(pass') \notin files'
    BY <1>1, <1>2, <1>4 DEF IndexInv
  <1>5. QED
    BY <1>3, <1>4 DEF IndexInv, All

\* Receiving a value, and serving one, change nothing of this.
LEMMA ReceiveKeeps ==
  ASSUME NInv,
         \/ \E k \in Parts, v \in Values : ReceivePart(k, v)
         \/ \E v \in Values : StoreUndecided(v)
         \/ RestartHeight \/ Serve \/ UNCHANGED vars
  PROVE  NInv'
  <1>1. /\ UNCHANGED <<files, segs, verdict, snaps, saved, up, pc, tip, sigma, ram, history_min>>
        /\ UNCHANGED <<index, floor, pass, look, compacting, startup, through, scan, pruned, holes, unlisted>>
    BY DEF ReceivePart, StoreUndecided, RestartHeight, Serve, vars, disk
  <1>2. OnDisk' = OnDisk
    BY <1>1, DiskSame
  <1>3. ProcessTyped'
    BY <1>1 DEF NInv, ProcessTyped
  <1>4. DiskTyped' /\ SigmaInv'
    BY <1>1, KeepDisk, KeepSigma DEF NInv
  <1>5. RangeInv' /\ SegInv'
    BY <1>1, <1>2, KeepRange, KeepSeg DEF NInv
  <1>6. ServeInv'
    BY <1>1, KeptStays, KeepServe DEF NInv
  <1>7. IndexInv'
    BY <1>1, <1>2, KeepIndex DEF NInv
  <1>8. QED
    BY <1>3, <1>4, <1>5, <1>6, <1>7 DEF NInv

-----------------------------------------------------------------------------
(* The commit handler.                                                     *)

\* A decided block is applied, written if the disk lets it, and indexed.
LEMMA CommitKeeps ==
  ASSUME NInv, NEW v \in Values, NEW ok \in BOOLEAN, Commit(v, ok)
  PROVE  NInv'
  <1> DEFINE h == tip + 1
  <1>1. /\ up /\ pc = "idle" /\ tip < MaxHeight /\ tip \in Nat /\ h \in Nat /\ h \in Heights
        /\ h >= 1 /\ h <= MaxHeight /\ MaxHeight \in Nat
    BY Constants DEF Commit, Ready, NInv, ProcessTyped, Heights
  <1>2. /\ tip' = h /\ index' = index \cup {h} /\ ram' = in_window(ram \cup {h})
        /\ sigma' = (IF h \in Good THEN sigma \cup {h} ELSE sigma)
        /\ history_min' = floor_after_save(ok, h) /\ pc' \in {"snapshot", "index", "idle"}
        /\ files' = (IF ok THEN files \cup {h} ELSE files)
        /\ holes' = (IF ok THEN holes \ {h} ELSE holes \cup {h})
        /\ verdict' = (IF ok THEN [verdict EXCEPT ![h] = h \in Good] ELSE verdict)
    <2>1. v = "decided"
      BY DEF Commit, to_commit
    <2>2. agg_valid(h, v) = (h \in Good) /\ apply_batch(sigma, h, v, TRUE, FALSE) = (IF h \in Good THEN sigma \cup {h} ELSE sigma)
      BY <2>1 DEF agg_valid, apply_batch
    <2>3. QED
      BY <2>2 DEF Commit
  <1>3. /\ UNCHANGED <<segs, snaps, saved, up, floor, pass, look, compacting, startup, through, scan, pruned,
                       unlisted>>
    BY DEF Commit
  <1> HIDE DEF h
  <1>h. h = tip + 1
    BY DEF h
  <1>4. Base' = Base /\ Base \in Nat /\ Base <= tip
    BY <1>3, DiskSame, HighestImage DEF NInv, RangeInv
  <1>5. OnDisk' = (IF ok THEN OnDisk \cup {h} ELSE OnDisk) /\ h \in OnDisk' \cup holes'
    BY <1>2, <1>3 DEF OnDisk
  <1>6. DiskTyped'
    <2>1. verdict' = verdict
      <3>1. verdict = [x \in Heights |-> x \in Good]
        BY DEF NInv, DiskTyped
      <3>2. QED
        BY <1>1, <1>2, <3>1
    <2>2. files' \subseteq Heights
      BY <1>1, <1>2 DEF NInv, DiskTyped
    <2>3. QED
      BY <1>3, <2>1, <2>2 DEF NInv, DiskTyped
  <1>7. ram \cup {h} \subseteq 1..h /\ \A x \in ram \cup {h} : x..h \subseteq ram \cup {h}
    <2>1. ram \subseteq 1..tip /\ \A x \in ram : x..tip \subseteq ram
      BY <1>1 DEF NInv, ServeInv
    <2>2. 1..tip \subseteq 1..h
      BY <1>1, <1>h
    <2>3. ASSUME NEW x \in ram PROVE x..h \subseteq ram \cup {h}
      <3>1. x \in Nat /\ x <= tip
        BY <1>1, <2>1
      <3>2. x..h = (x..tip) \cup {h}
        BY <1>1, <1>h, <3>1
      <3>3. QED
        BY <2>1, <3>2
    <2>4. h..h = {h} /\ h \in 1..h
      BY <1>1
    <2>5. QED
      BY <2>1, <2>2, <2>3, <2>4
  <1>8. ram' \subseteq 1..h /\ \A x \in ram' : x..h \subseteq ram'
    <2>1. h \in 0..MaxHeight
      BY <1>1
    <2>2. in_window(ram \cup {h}) \subseteq ram \cup {h}
          /\ \A x \in in_window(ram \cup {h}) : x..h \subseteq in_window(ram \cup {h})
      BY <1>7, <2>1, WindowSuffix
    <2>3. QED
      BY <1>2, <1>7, <2>2
  <1>9. SigmaInv'
    <2>1. sigma = Good \cap 1..tip
      BY <1>1 DEF NInv, SigmaInv
    <2>2. 1..h = (1..tip) \cup {h}
      BY <1>1, <1>h
    <2>3. sigma' = Good \cap 1..h
      BY <1>2, <2>1, <2>2
    <2>4. QED
      BY <1>2, <1>3, <2>3 DEF NInv, SigmaInv
  <1>10. history_min' \in 0..MaxHeight + 1 /\ history_min' >= 1 /\ history_min' <= h + 1
         /\ history_min <= history_min' /\ history_min >= 1 /\ history_min <= tip + 1
         /\ history_min \in Nat
    BY <1>1, <1>2, <1>h DEF NInv, ServeInv, ProcessTyped, floor_after_save
  <1>11. ProcessTyped'
    <2>1. ram' \subseteq Heights
      BY <1>1, <1>8 DEF Heights
    <2>2. sigma' \subseteq Heights /\ index' \subseteq Heights
      BY <1>1, <1>2 DEF NInv, ProcessTyped
    <2>3. tip' \in 0..MaxHeight
      BY <1>1, <1>2
    <2>4. QED
      BY <1>2, <1>3, <1>10, <2>1, <2>2, <2>3 DEF NInv, ProcessTyped, All
  <1>12. RangeInv'
    <2>1. Base' <= tip' /\ through' <= Base' /\ startup' <= Base'
          /\ (compacting' # NoJob => compacting'.id * Span + Span - 1 <= Base') /\ pc' # "prune"
      BY <1>1, <1>2, <1>3, <1>4, <1>h DEF NInv, RangeInv
    <2>2. Base' + 1..tip' \subseteq (Base + 1..tip) \cup {h}
      BY <1>1, <1>2, <1>4, <1>h
    <2>3. Base + 1..tip \subseteq OnDisk \cup holes
      BY DEF NInv, RangeInv
    <2>4. OnDisk \cup holes \subseteq OnDisk' \cup holes'
      BY <1>2, <1>5
    <2>5. Base' + 1..tip' \subseteq OnDisk' \cup holes'
      BY <1>5, <2>2, <2>3, <2>4
    <2>6. QED
      BY <2>1, <2>5 DEF RangeInv
  <1>13. SegInv'
    <2>1. ASSUME NEW i \in Ids, segs[i] # {} PROVE h \notin span(i)
      <3>1. i * Span + Span - 1 <= Base
        BY <2>1 DEF NInv, SegInv
      <3>2. i \in Nat /\ Span \in Nat /\ i * Span \in Nat
        BY IdsNat, Constants
      <3>3. ~(h <= i * Span + Span - 1)
        BY <1>1, <1>4, <1>h, <3>1, <3>2
      <3>4. QED
        BY <1>1, <3>2, <3>3 DEF span
    <2>2. \A i \in Ids : segs[i] # {} =>
             i * Span + Span - 1 <= Base /\ files' \cap span(i) \subseteq segs[i]
      BY <1>2, <2>1 DEF NInv, SegInv
    <2>3. QED
      BY <1>3, <1>4, <2>2 DEF NInv, SegInv
  <1>14. ServeInv'
    <2>1. Missing' = unlisted /\ Missing = unlisted
      BY <1>1, <1>2, <1>3 DEF Missing
    <2>2. history_min..tip \subseteq Kept \cup unlisted
      BY <1>1, <2>1 DEF NInv, ServeInv
    <2>3. Doomed' = Doomed /\ h \notin Doomed
      <3>1. CASE compacting.stage # "delete"
        BY <1>3, <3>1 DEF Doomed
      <3>2. CASE compacting.stage = "delete"
        <4>1. compacting \in [id : Ids, stage : {"write", "verify", "delete"}] /\ compacting # NoJob
          BY <3>2 DEF NInv, ProcessTyped, Jobs, NoJob
        <4>2. /\ compacting.id \in Nat /\ compacting.id * Span \in Nat /\ Span \in Nat
              /\ compacting.id * Span + Span - 1 <= Base
          BY <4>1, IdsNat, Constants DEF NInv, RangeInv
        <4>3. h \notin span(compacting.id)
          BY <1>1, <1>4, <1>h, <4>2 DEF span
        <4>4. QED
          BY <1>2, <1>3, <3>2, <4>3 DEF Doomed, span
      <3>3. QED
        BY <3>1, <3>2
    <2>4. Kept \subseteq Kept' /\ (ok => h \in Kept')
      BY <1>2, <1>3, <2>3 DEF Kept
    <2>5. history_min'..h \subseteq Kept' \cup unlisted
      <3>1. CASE ok
        <4>1. history_min' = history_min
          BY <1>2, <1>10, <3>1 DEF floor_after_save
        <4>2. history_min..h \subseteq (history_min..tip) \cup {h}
          BY <1>1, <1>h, <1>10
        <4>3. QED
          BY <2>2, <2>4, <3>1, <4>1, <4>2
      <3>2. CASE ~ok
        <4>1. history_min' = h + 1
          BY <1>2, <3>2 DEF floor_after_save
        <4>2. QED
          BY <1>1, <4>1
      <3>3. QED
        BY <3>1, <3>2
    <2>6. QED
      BY <1>2, <1>3, <1>8, <1>10, <2>1, <2>5 DEF ServeInv
  <1>15. IndexInv'
    <2>1. OnDisk' \subseteq OnDisk \cup {h} /\ files' \subseteq files \cup {h} /\ ~(h <= Base)
      BY <1>1, <1>2, <1>4, <1>5, <1>h
    <2>2. ASSUME NEW x, Covered(x, index) PROVE Covered(x, index)'
      BY <1>2, <1>4, <2>1, <2>2 DEF Covered
    <2>3. \A x : x = h => Covered(x, index)'
      BY <1>2 DEF Covered
    <2>4. ASSUME NEW x \in 1..saved.through, Covered(x, saved.heights)
          PROVE  Covered(x, saved.heights)'
      BY <1>3, <1>4, <2>1, <2>4 DEF Covered
    <2>5. 1..tip' = (1..tip) \cup {h}
      BY <1>1, <1>2, <1>h
    <2>6. \A x \in 1..saved'.through : Covered(x, saved.heights)'
      BY <1>3, <2>4 DEF NInv, IndexInv
    <2>7. floor' = All => \A x \in 1..tip' : Covered(x, index)'
      BY <1>1, <1>3, <2>2, <2>3, <2>5 DEF NInv, IndexInv
    <2>8. floor' # All => floor' <= Base' /\ \A x \in 1..floor' : Covered(x, index)'
      BY <1>1, <1>3, <1>4, <2>2 DEF NInv, IndexInv
    <2>9. pass' # {} => \A x \in 1..tip' : Covered(x, index)' \/ x \in pass'
      BY <1>1, <1>3, <2>2, <2>3, <2>5 DEF NInv, IndexInv
    <2>10. \A x \in pass' : x <= Base'
      BY <1>1, <1>3, <1>4 DEF NInv, IndexInv
    <2>11. look' = "segment" => pass' # {} /\ Min(pass') \notin files'
      <3> HAVE look' = "segment"
      <3>1. pass # {} /\ Min(pass) \notin files /\ \A x \in pass : x <= Base
        BY <1>1, <1>3 DEF NInv, IndexInv
      <3>2. pass \subseteq Nat
        BY DEF NInv, ProcessTyped, Heights
      <3>3. Min(pass) \in pass
        BY <3>1, <3>2, MinIsLeast
      <3>4. Min(pass) # h
        BY <2>1, <3>1, <3>3
      <3>5. QED
        BY <1>3, <2>1, <3>1, <3>4
    <2>12. QED
      BY <2>6, <2>7, <2>8, <2>9, <2>10, <2>11 DEF IndexInv, All
  <1>16. QED
    BY <1>6, <1>9, <1>11, <1>12, <1>13, <1>14, <1>15 DEF NInv

\* The image moves up to the tip; nothing is pruned yet.
LEMMA SnapshotKeeps ==
  ASSUME NInv, NEW ok \in BOOLEAN, Snapshot(ok)
  PROVE  NInv'
  <1>1. /\ up /\ pc = "snapshot" /\ tip \in 0..MaxHeight /\ tip \in Nat /\ MaxHeight \in Nat
        /\ Base \in Nat /\ Base <= tip /\ pruned' = {} /\ "v4" \in Formats
    BY Constants, HighestImage DEF Snapshot, NInv, ProcessTyped, RangeInv, Formats
  <1>2. /\ UNCHANGED <<files, segs, verdict, saved, up, tip, sigma, ram, history_min, index, floor>>
        /\ UNCHANGED <<pass, look, compacting, startup, holes, unlisted>>
    BY DEF Snapshot
  <1>3. OnDisk' = OnDisk
    BY <1>2, DiskSame
  <1>4. AfterSnapshot \in {"index", "idle"}
    BY DEF AfterSnapshot
  <1>5. /\ history_min..tip \subseteq Kept \cup unlisted
        /\ history_min >= 1 /\ history_min <= tip + 1
        /\ ram \subseteq 1..tip /\ \A h \in ram : h..tip \subseteq ram
    BY <1>1 DEF NInv, ServeInv, Missing
  <1>a. Kept' = Kept /\ Missing' = unlisted
    BY <1>1, <1>2 DEF Kept, Doomed, Missing, span
  <1>6. CASE ~ok
    <2>1. UNCHANGED <<snaps, through, scan>> /\ pc' \in {"index", "idle"}
      BY <1>4, <1>6 DEF Snapshot
    <2>2. Base' = Base
      BY <1>2, <2>1, DiskSame
    <2>3. ProcessTyped'
      BY <1>1, <1>2, <2>1 DEF NInv, ProcessTyped, All
    <2>4. RangeInv'
      BY <1>2, <1>3, <2>1, <2>2 DEF NInv, RangeInv
    <2>5. ServeInv'
      BY <1>1, <1>2, <1>5, <1>a DEF ServeInv
    <2>6. DiskTyped' /\ SigmaInv' /\ SegInv'
      BY <1>2, <2>1, KeepDisk, KeepSigma, KeepSeg DEF NInv
    <2>7. IndexInv'
      BY <1>2, <1>3, <2>1, KeepIndex DEF NInv
    <2>8. QED
      BY <2>3, <2>4, <2>5, <2>6, <2>7 DEF NInv
  <1>7. CASE ok
    <2> DEFINE x == [height |-> tip, sigma |-> sigma]
    <2>1. /\ snaps' = [snaps EXCEPT !["v4"] = x] /\ pc' = "prune"
          /\ through' = (IF compacting = NoJob THEN tip ELSE through)
          /\ scan' = IF Retain = 0 \/ tip <= Retain THEN {} ELSE {i \in Ids : i < keep_seg}
      BY <1>7 DEF Snapshot
    <2>2. x \in Images /\ x.height = tip /\ x.sigma = Good \cap 1..tip
      <3>1. sigma \subseteq Heights /\ sigma = Good \cap 1..tip
        BY <1>1 DEF NInv, ProcessTyped, SigmaInv
      <3>2. QED
        BY <1>1, <3>1 DEF Images
    <2> HIDE DEF x
    <2>3. DiskTyped'
      <3>1. snaps' \in [Formats -> Images]
        BY <2>1, <2>2 DEF NInv, DiskTyped
      <3>2. QED
        BY <1>2, <3>1 DEF NInv, DiskTyped
    <2>4. \A f \in Formats : snaps'[f] = IF f = "v4" THEN x ELSE snaps[f]
      BY <2>1 DEF NInv, DiskTyped
    <2>5. Base' = tip
      <3>1. \A f \in Formats : snaps[f].height \in Nat /\ snaps[f].height <= tip
        <4>1. \A f \in Formats : snaps[f].height \in Nat /\ snaps[f].height <= Base
          BY HighestImage DEF NInv
        <4>2. QED
          BY <1>1, <4>1
      <3>2. snaps'["v4"].height = tip /\ snaps'["v3"].height <= tip /\ snaps'["v3"].height \in Nat
        BY <2>2, <2>4, <3>1 DEF Formats
      <3>3. load_snapshot' = snaps'["v4"]
        BY <1>1, <3>2 DEF load_snapshot
      <3>4. QED
        BY <3>2, <3>3 DEF Base
    <2>6. keep_seg' = keep_seg
      BY <1>2 DEF keep_seg
    <2>7. ProcessTyped'
      <3>1. through' \in 0..MaxHeight /\ scan' \subseteq Ids
        BY <1>1, <2>1 DEF NInv, ProcessTyped
      <3>2. QED
        BY <1>1, <1>2, <2>1, <3>1 DEF NInv, ProcessTyped, All
    <2>8. SigmaInv'
      BY <1>2, <2>2, <2>4 DEF NInv, SigmaInv
    <2>9. RangeInv'
      <3>1. through \in Nat /\ through <= Base
        BY DEF NInv, ProcessTyped, RangeInv
      <3>2. through' <= tip /\ startup <= tip
        BY <1>1, <2>1, <3>1 DEF NInv, ProcessTyped, RangeInv
      <3>3. compacting # NoJob => compacting.id * Span + Span - 1 <= tip
        <4> HAVE compacting # NoJob
        <4>1. compacting.id \in Nat /\ compacting.id * Span + Span - 1 <= Base
          BY IdsNat DEF NInv, ProcessTyped, Jobs, RangeInv
        <4>2. compacting.id * Span \in Nat /\ Span \in Nat
          BY <4>1, Constants
        <4>3. QED
          BY <1>1, <4>1, <4>2
      <3>4. \A i \in scan' : i < keep_seg /\ tip > Retain
        BY <1>1, <2>1, Constants
      <3>5. tip + 1..tip = {}
        BY <1>1
      <3>6. QED
        BY <1>1, <1>2, <2>5, <2>6, <3>2, <3>3, <3>4, <3>5 DEF RangeInv
    <2>10. SegInv'
      <3>1. ASSUME NEW i \in Ids, segs[i] # {} PROVE i * Span + Span - 1 <= tip
        <4>1. i * Span + Span - 1 <= Base /\ i \in Nat
          BY <3>1, IdsNat DEF NInv, SegInv
        <4>2. i * Span \in Nat /\ Span \in Nat
          BY <4>1, Constants
        <4>3. QED
          BY <1>1, <4>1, <4>2
      <3>2. QED
        BY <1>2, <2>5, <3>1 DEF NInv, SegInv
    <2>11. ServeInv'
      BY <1>1, <1>2, <1>5, <1>a DEF ServeInv
    <2>12. IndexInv'
      <3>1. Base' = tip /\ Base <= Base' /\ Base' \in Nat
        BY <1>1, <2>5
      <3>2. ASSUME NEW h \in Nat, NEW y, Covered(h, y) PROVE Covered(h, y)'
        BY <1>1, <1>3, <3>1, <3>2 DEF Covered
      <3>3. \A h \in 1..saved'.through : Covered(h, saved.heights)'
        <4>1. \A h \in 1..saved.through : h \in Nat /\ Covered(h, saved.heights)
          BY DEF NInv, IndexInv, DiskTyped
        <4>2. QED
          BY <1>2, <3>2, <4>1
      <3>4. floor' = All => \A h \in 1..tip' : Covered(h, index)'
        BY <1>1, <1>2, <3>2 DEF NInv, IndexInv
      <3>5. floor' # All => floor' <= Base' /\ \A h \in 1..floor' : Covered(h, index)'
        <4> HAVE floor' # All
        <4>1. floor \in Nat /\ floor <= Base /\ \A h \in 1..floor : Covered(h, index)
          BY <1>1, <1>2, Constants DEF NInv, IndexInv, ProcessTyped, All
        <4>2. QED
          BY <1>1, <1>2, <3>1, <3>2, <4>1
      <3>6. pass' # {} => \A h \in 1..tip' : Covered(h, index)' \/ h \in pass'
        BY <1>1, <1>2, <3>2 DEF NInv, IndexInv
      <3>7. \A h \in pass' : h <= Base'
        <4>1. \A h \in pass : h \in Nat /\ h <= Base
          BY <1>1 DEF NInv, IndexInv, ProcessTyped, Heights
        <4>2. QED
          BY <1>1, <1>2, <3>1, <4>1
      <3>8. look' = "segment" => pass' # {} /\ Min(pass') \notin files'
        BY <1>1, <1>2 DEF NInv, IndexInv
      <3>9. QED
        BY <3>3, <3>4, <3>5, <3>6, <3>7, <3>8 DEF IndexInv, All
    <2>13. QED
      BY <2>3, <2>7, <2>8, <2>9, <2>10, <2>11, <2>12 DEF NInv
  <1>8. QED
    BY <1>6, <1>7

\* A removed segment lies below the floor that the prune leaves.
LEMMA PruneKeeps ==
  ASSUME NInv, NEW i \in Ids, Prune(i)
  PROVE  NInv'
  <1> DEFINE k == keep_seg
  <1>1. /\ up /\ pc = "prune" /\ i \in scan /\ scan' = scan \ {i} /\ i < k /\ tip > Retain
        /\ segs' = [segs EXCEPT ![i] = {}] /\ pruned' = pruned \cup segs[i] /\ Base = tip
    BY DEF Prune, NInv, RangeInv
  <1>2. /\ UNCHANGED <<files, verdict, snaps, saved, up, pc, tip, sigma, ram, history_min, index, floor>>
        /\ UNCHANGED <<pass, look, compacting, startup, through, holes, unlisted>>
    BY DEF Prune
  <1>3. /\ segs \in [Ids -> SUBSET Heights] /\ tip \in Nat /\ Retain \in Nat /\ Span \in Nat /\ Span >= 1
        /\ i \in Nat /\ history_min \in Nat /\ tip - Retain \in Nat
    BY <1>1, Constants, IdsNat DEF NInv, DiskTyped, ProcessTyped
  <1>4. k \in Nat /\ k * Span \in Nat /\ i * Span \in Nat /\ i * Span + Span <= k * Span
    <2>1. k \in Nat
      BY <1>3, SegmentBounds DEF keep_seg
    <2> HIDE DEF k
    <2>2. QED
      BY <1>1, <1>3, <2>1, SpanOrder
  <1>5. Base' = Base /\ keep_seg' = keep_seg
    BY <1>2, DiskSame DEF keep_seg
  <1>6. \A j \in Ids : segs'[j] = IF j = i THEN {} ELSE segs[j]
    BY <1>1, <1>3
  <1>7. OnDisk' \subseteq OnDisk /\ OnDisk \subseteq OnDisk' \cup segs[i] /\ (segs[i] = {} => OnDisk' = OnDisk)
    BY <1>2, <1>6 DEF OnDisk
  <1>8. DiskTyped'
    <2>1. segs' \in [Ids -> SUBSET Heights] /\ \A j \in Ids : segs'[j] \subseteq span(j)
      BY <1>1, <1>3, <1>6 DEF NInv, DiskTyped
    <2>2. QED
      BY <1>2, <2>1 DEF NInv, DiskTyped, span
  <1>9. ProcessTyped'
    <2>1. pruned' \subseteq Heights
      BY <1>1, <1>3 DEF NInv, ProcessTyped
    <2>2. QED
      BY <1>1, <1>2, <2>1 DEF NInv, ProcessTyped, All
  <1>10. SigmaInv'
    BY <1>2, KeepSigma DEF NInv
  <1>11. RangeInv'
    <2>1. Base' + 1..tip' = {}
      BY <1>1, <1>2, <1>3, <1>5
    <2>2. QED
      BY <1>1, <1>2, <1>5, <2>1 DEF NInv, RangeInv
  <1>12. SegInv'
    BY <1>2, <1>5, <1>6 DEF NInv, SegInv, ProcessTyped, Jobs, NoJob
  <1>13. ServeInv'
    <2>1. Kept \subseteq Kept' \cup segs[i]
      BY <1>2, <1>6 DEF Kept, Doomed, span
    <2>2. Missing = unlisted \cup pruned /\ Missing' = unlisted \cup pruned \cup segs[i]
      BY <1>1, <1>2 DEF Missing
    <2>3. history_min..tip \subseteq Kept' \cup Missing'
      BY <1>1, <2>1, <2>2 DEF NInv, ServeInv
    <2>4. ASSUME NEW h \in segs[i] PROVE h < k * Span
      <3>1. h \in i * Span .. i * Span + Span - 1
        BY DEF NInv, DiskTyped, span
      <3>2. QED
        BY <1>3, <1>4, <3>1
    <2>5. \A h \in pruned' : h < keep_seg * Span
      BY <1>1, <2>4 DEF NInv, ServeInv
    <2>6. QED
      BY <1>1, <1>2, <1>5, <2>3, <2>5 DEF NInv, ServeInv
  <1>14. IndexInv'
    BY <1>2, <1>7, KeepIndex DEF NInv
  <1>15. QED
    BY <1>8, <1>9, <1>10, <1>11, <1>12, <1>13, <1>14 DEF NInv

\* The floor moves up to what the prune left.
LEMMA PruneDoneKeeps ==
  ASSUME NInv, PruneDone
  PROVE  NInv'
  <1> DEFINE k == keep_seg
  <1>1. /\ up /\ pc = "prune" /\ scan = {} /\ history_min' = floor_after_prune /\ pc' = AfterSnapshot
        /\ tip \in Nat /\ tip <= MaxHeight /\ MaxHeight \in Nat /\ history_min \in Nat
        /\ history_min >= 1 /\ history_min <= tip + 1
    BY Constants DEF PruneDone, NInv, ProcessTyped, ServeInv
  <1>2. /\ UNCHANGED <<files, segs, verdict, snaps, saved, up, tip, sigma, ram, index, floor>>
        /\ UNCHANGED <<pass, look, compacting, startup, through, scan, pruned, holes, unlisted>>
    BY DEF PruneDone, disk
  <1>3. pc' \in {"index", "idle"}
    BY <1>1 DEF AfterSnapshot
  <1>4. OnDisk' = OnDisk /\ Base' = Base
    BY <1>2, DiskSame
  <1>6. /\ history_min' \in Nat /\ history_min' >= history_min /\ history_min' <= tip + 1
        /\ \A h \in pruned : h < history_min'
    <2>1. CASE pruned = {}
      BY <1>1, <2>1 DEF floor_after_prune
    <2>2. CASE pruned # {}
      <3>1. /\ tip > Retain /\ Retain \in Nat /\ Span \in Nat /\ tip - Retain \in Nat
            /\ pruned \subseteq Nat /\ \A h \in pruned : h < k * Span
        BY <1>1, <2>2, Constants DEF NInv, ServeInv, ProcessTyped, Heights
      <3>2. k \in Nat /\ k * Span <= tip - Retain
        BY <3>1, SegmentBounds DEF keep_seg
      <3> HIDE DEF k
      <3>3. k * Span \in Nat /\ k * Span <= tip
        BY <1>1, <3>1, <3>2
      <3>4. history_min' = Max({history_min, k * Span})
        BY <1>1, <2>2 DEF floor_after_prune, k
      <3>5. /\ history_min' \in {history_min, k * Span} /\ history_min' \in Nat
            /\ history_min' >= history_min /\ history_min' >= k * Span
        BY <1>1, <3>3, <3>4, MaxOfTwo
      <3>6. \A h \in pruned : h < history_min'
        BY <3>1, <3>3, <3>5
      <3>7. QED
        BY <1>1, <3>3, <3>5, <3>6
    <2>3. QED
      BY <2>1, <2>2
  <1>7. ProcessTyped'
    <2>1. history_min' \in 0..MaxHeight + 1
      BY <1>1, <1>6
    <2>2. QED
      BY <1>2, <1>3, <2>1 DEF NInv, ProcessTyped, All
  <1>8. RangeInv'
    BY <1>2, <1>3, <1>4 DEF NInv, RangeInv
  <1>9. ServeInv'
    <2>1. Kept' = Kept /\ Missing' = unlisted /\ Missing = unlisted \cup pruned
      BY <1>1, <1>2, <1>3 DEF Kept, Doomed, Missing, span
    <2>2. history_min..tip \subseteq Kept \cup unlisted \cup pruned
      BY <1>1, <2>1 DEF NInv, ServeInv
    <2>3. history_min'..tip \subseteq Kept \cup unlisted
      <3> SUFFICES ASSUME NEW h \in history_min'..tip PROVE h \in Kept \cup unlisted
        OBVIOUS
      <3>1. h \in history_min..tip /\ ~(h < history_min')
        BY <1>1, <1>6
      <3>2. QED
        BY <1>6, <2>2, <3>1
    <2>4. QED
      BY <1>1, <1>2, <1>3, <1>6, <2>1, <2>3 DEF NInv, ServeInv
  <1>10. DiskTyped' /\ SigmaInv' /\ SegInv'
    BY <1>2, KeepDisk, KeepSigma, KeepSeg DEF NInv
  <1>11. IndexInv'
    BY <1>2, <1>4, KeepIndex DEF NInv
  <1>12. QED
    BY <1>7, <1>8, <1>9, <1>10, <1>11 DEF NInv

\* A pass that fails leaves what it deleted unlisted.
LEMMA PruneFailedKeeps ==
  ASSUME NInv, PruneFailed
  PROVE  NInv'
  <1>1. /\ up /\ pc = "prune" /\ scan' = {} /\ pc' = AfterSnapshot /\ unlisted' = unlisted \cup pruned
        /\ UNCHANGED <<files, segs, verdict, snaps, saved, up, tip, sigma, ram, index, floor, history_min>>
        /\ UNCHANGED <<pass, look, compacting, startup, through, pruned, holes>>
    BY DEF PruneFailed, disk
  <1>2. pc' \in {"index", "idle"}
    BY <1>1 DEF AfterSnapshot
  <1>3. OnDisk' = OnDisk /\ Base' = Base
    BY <1>1, DiskSame
  <1>4. ProcessTyped'
    <2>1. unlisted' \subseteq Heights
      BY <1>1 DEF NInv, ProcessTyped
    <2>2. QED
      BY <1>1, <1>2, <2>1 DEF NInv, ProcessTyped, All
  <1>5. RangeInv'
    BY <1>1, <1>2, <1>3 DEF NInv, RangeInv
  <1>6. ServeInv'
    <2>1. Kept' = Kept /\ Missing' = Missing
      BY <1>1, <1>2 DEF Kept, Doomed, Missing, span
    <2>2. QED
      BY <1>1, <1>2, <2>1 DEF NInv, ServeInv
  <1>7. DiskTyped' /\ SigmaInv' /\ SegInv'
    BY <1>1, KeepDisk, KeepSigma, KeepSeg DEF NInv
  <1>8. IndexInv'
    BY <1>1, <1>3, KeepIndex DEF NInv
  <1>9. QED
    BY <1>4, <1>5, <1>6, <1>7, <1>8 DEF NInv

\* The index file says what the index covers.
LEMMA PersistKeeps ==
  ASSUME NInv, NEW ok \in BOOLEAN, PersistIndex(ok)
  PROVE  NInv'
  <1> DEFINE c == covered_through
             r == [through |-> c, heights |-> {h \in index : h <= c}]
  <1>1. /\ up /\ pc = "index" /\ pc' = "idle" /\ tip \in 0..MaxHeight /\ MaxHeight \in Nat
        /\ saved' = r \/ saved' = saved
    BY Constants DEF PersistIndex, NInv, ProcessTyped
  <1>2. /\ UNCHANGED <<files, segs, verdict, snaps, up, tip, sigma, ram, history_min, index, floor>>
        /\ UNCHANGED <<pass, look, compacting, startup, through, scan, pruned, holes, unlisted>>
    BY DEF PersistIndex
  <1>3. OnDisk' = OnDisk /\ Base' = Base
    BY <1>2, DiskSame
  <1>4. c \in 0..MaxHeight /\ \A h \in 1..c : Covered(h, index)
    <2>1. CASE floor = All
      BY <1>1, <2>1 DEF NInv, IndexInv, covered_through
    <2>2. CASE floor # All
      <3>1. c = floor /\ floor \in 0..MaxHeight
        BY <1>1, <2>2 DEF NInv, ProcessTyped, All, covered_through
      <3>2. QED
        BY <1>1, <2>2, <3>1 DEF NInv, IndexInv
    <2>3. QED
      BY <2>1, <2>2
  <1> HIDE DEF c
  <1>5. /\ saved' \in [through : 0..MaxHeight, heights : SUBSET Heights]
        /\ \A h \in 1..saved'.through : Covered(h, saved'.heights)
    <2>1. CASE saved' = saved
      BY <2>1 DEF NInv, DiskTyped, IndexInv
    <2>2. CASE saved' = r
      <3>1. {h \in index : h <= c} \subseteq Heights
        BY DEF NInv, ProcessTyped
      <3>2. r \in [through : 0..MaxHeight, heights : SUBSET Heights] /\ r.through = c
            /\ r.heights = {h \in index : h <= c}
        BY <1>4, <3>1
      <3>3. \A h \in 1..c : Covered(h, {x \in index : x <= c})
        BY <1>4 DEF Covered
      <3>4. QED
        BY <2>2, <3>2, <3>3
    <2>3. QED
      BY <1>1, <2>1, <2>2
  <1>6. DiskTyped'
    BY <1>2, <1>5 DEF NInv, DiskTyped
  <1>7. ProcessTyped'
    BY <1>1, <1>2 DEF NInv, ProcessTyped, All
  <1>8. RangeInv'
    BY <1>1, <1>2, <1>3 DEF NInv, RangeInv
  <1>9. ServeInv'
    <2>1. Kept' = Kept /\ Missing' = Missing
      BY <1>1, <1>2 DEF Kept, Doomed, Missing, span
    <2>2. QED
      BY <1>1, <1>2, <2>1 DEF NInv, ServeInv
  <1>10. SigmaInv' /\ SegInv'
    BY <1>2, KeepSigma, KeepSeg DEF NInv
  <1>11. IndexInv'
    <2>1. \A h, x : Covered(h, x)' <=> Covered(h, x)
      BY <1>3 DEF Covered
    <2>2. \A h \in 1..saved'.through : h \in saved'.heights \/ (h \notin OnDisk' /\ h <= Base')
      BY <1>3, <1>5 DEF Covered
    <2>3. /\ floor' = All => \A h \in 1..tip' : Covered(h, index)'
          /\ floor' # All => floor' <= Base' /\ \A h \in 1..floor' : Covered(h, index)'
          /\ pass' # {} => \A h \in 1..tip' : Covered(h, index)' \/ h \in pass'
          /\ \A h \in pass' : h <= Base'
          /\ look' = "segment" => pass' # {} /\ Min(pass') \notin files'
      BY <1>1, <1>2, <1>3, <2>1 DEF NInv, IndexInv
    <2>4. QED
      BY <2>2, <2>3 DEF IndexInv, Covered, All
  <1>12. QED
    BY <1>6, <1>7, <1>8, <1>9, <1>10, <1>11 DEF NInv

-----------------------------------------------------------------------------
(* The background threads.                                                 *)

\* A segment that a thread may take ends below the image.
LEMMA StartJobKeeps ==
  ASSUME NInv, NEW t \in {"startup", "snapshot"}, StartJob(t)
  PROVE  NInv'
  <1> DEFINE limit == IF t = "startup" THEN startup ELSE through
             ids == compactable(limit)
  <1>1. /\ up /\ compacting = NoJob /\ through' \in {through, 0} /\ startup' \in {startup, 0}
        /\ compacting' = IF ids = {} THEN NoJob ELSE [id |-> Min(ids), stage |-> first_stage(Min(ids))]
    BY DEF StartJob
  <1>2. /\ UNCHANGED <<files, segs, verdict, snaps, saved, up, pc, tip, sigma, ram, history_min, index>>
        /\ UNCHANGED <<floor, pass, look, scan, pruned, holes, unlisted>>
    BY DEF StartJob, disk
  <1>3. OnDisk' = OnDisk /\ Base' = Base /\ keep_seg' = keep_seg
    BY <1>2, DiskSame DEF keep_seg
  <1>4. startup \in Nat /\ startup <= Base /\ limit \in Nat /\ limit <= Base /\ Base \in Nat /\ through \in Nat /\ through <= Base
    BY HighestImage DEF NInv, RangeInv, ProcessTyped
  <1> HIDE DEF limit
  <1>5. ids \subseteq Ids /\ \A i \in ids : i * Span + Span - 1 <= limit
    <2>1. ASSUME NEW x \in files, (x \div Span) * Span + Span - 1 <= limit
          PROVE  x \div Span \in Ids
      BY IdsNat DEF NInv, DiskTyped, Heights
    <2>2. QED
      BY <2>1 DEF compactable
  <1> HIDE DEF ids
  <1>6. \/ compacting' = NoJob
        \/ /\ compacting' \in [id : Ids, stage : {"write", "verify", "delete"}]
           /\ compacting'.id * Span + Span - 1 <= Base
           /\ compacting'.stage = first_stage(compacting'.id)
    <2>1. CASE ids = {}
      BY <1>1, <2>1
    <2>2. CASE ids # {}
      <3> DEFINE m == Min(ids)
      <3>1. m \in ids
        <4>1. ids \subseteq Nat
          BY <1>5, IdsNat
        <4>2. QED
          BY <2>2, <4>1, MinIsLeast
      <3>2. m \in Ids /\ m \in Nat /\ m * Span + Span - 1 <= limit
        BY <1>5, <3>1, IdsNat
      <3>3. compacting' = [id |-> m, stage |-> first_stage(m)]
        BY <1>1, <2>2
      <3>4. first_stage(m) \in {"write", "verify", "delete"}
        BY DEF first_stage
      <3> HIDE DEF m
      <3>5. m * Span \in Nat /\ Span \in Nat
        BY <3>2, Constants
      <3>6. m * Span + Span - 1 <= Base
        BY <1>4, <3>2, <3>5
      <3>7. QED
        BY <3>2, <3>3, <3>4, <3>6
    <2>3. QED
      BY <2>1, <2>2
  <1>7. ProcessTyped'
    <2>1. compacting' \in Jobs /\ through' \in 0..MaxHeight /\ startup' \in 0..MaxHeight
      BY <1>1, <1>6, Constants DEF Jobs, NInv, ProcessTyped
    <2>2. QED
      BY <1>2, <2>1 DEF NInv, ProcessTyped, All
  <1>8. RangeInv'
    <2>1. through' <= Base' /\ startup' <= Base'
      BY <1>1, <1>3, <1>4
    <2>2. compacting' # NoJob => compacting'.id * Span + Span - 1 <= Base'
      BY <1>3, <1>6
    <2>3. QED
      BY <1>2, <1>3, <2>1, <2>2 DEF NInv, RangeInv
  <1>9. compacting'.stage \in {"write", "delete"} =>
          IF segs[compacting'.id] = {} THEN compacting'.stage = "write" ELSE compacting'.stage = "delete"
    BY <1>6 DEF first_stage, NoJob
  <1>10. SegInv'
    BY <1>2, <1>3, <1>9 DEF NInv, SegInv
  <1>11. ServeInv'
    <2>1. compacting'.stage = "delete" => compacting'.id \in Ids /\ segs[compacting'.id] # {}
      BY <1>6, <1>9 DEF NoJob
    <2>2. QED
      BY <1>2, <2>1, KeptStays, KeepServe DEF NInv
  <1>12. DiskTyped' /\ SigmaInv'
    BY <1>2, KeepDisk, KeepSigma DEF NInv
  <1>13. IndexInv'
    BY <1>2, <1>3, KeepIndex DEF NInv
  <1>14. QED
    BY <1>7, <1>8, <1>10, <1>11, <1>12, <1>13 DEF NInv

\* Packing the files of a span adds nothing to what is on disk.
LEMMA WriteKeeps ==
  ASSUME NInv, WriteSegment
  PROVE  NInv'
  <1> DEFINE i == compacting.id
  <1>1. /\ up /\ compacting.stage = "write" /\ segs' = [segs EXCEPT ![i] = files \cap span(i)]
        /\ compacting' = [compacting EXCEPT !.stage = "verify"]
    BY DEF WriteSegment
  <1>2. /\ UNCHANGED <<files, verdict, snaps, saved, up, pc, tip, sigma, ram, history_min, index, floor>>
        /\ UNCHANGED <<pass, look, startup, through, scan, pruned, holes, unlisted>>
    BY DEF WriteSegment
  <1>3. /\ compacting \in [id : Ids, stage : {"write", "verify", "delete"}] /\ i \in Ids
        /\ segs[i] = {} /\ i * Span + Span - 1 <= Base /\ segs \in [Ids -> SUBSET Heights]
        /\ compacting # NoJob
    <2>1. compacting # NoJob
      BY <1>1 DEF NoJob
    <2>2. QED
      BY <1>1, <2>1 DEF NInv, ProcessTyped, Jobs, SegInv, RangeInv, DiskTyped
  <1>4. /\ compacting' \in [id : Ids, stage : {"write", "verify", "delete"}] /\ compacting'.id = i
        /\ compacting'.stage = "verify"
    BY <1>1, <1>3
  <1> HIDE DEF i
  <1>5. \A j \in Ids : segs'[j] = IF j = i THEN files \cap span(i) ELSE segs[j]
    BY <1>1, <1>3
  <1>6. OnDisk' = OnDisk
    BY <1>2, <1>3, <1>5 DEF OnDisk
  <1>7. Base' = Base
    BY <1>2, DiskSame
  <1>8. DiskTyped'
    <2>1. files \cap span(i) \subseteq Heights
      BY DEF NInv, DiskTyped
    <2>2. segs' \in [Ids -> SUBSET Heights] /\ \A j \in Ids : segs'[j] \subseteq span(j)
      BY <1>1, <1>3, <1>5, <2>1 DEF NInv, DiskTyped
    <2>3. QED
      BY <1>2, <2>2 DEF NInv, DiskTyped, span
  <1>9. ProcessTyped'
    BY <1>2, <1>4 DEF NInv, ProcessTyped, Jobs, All
  <1>10. RangeInv'
    <2>1. compacting'.id * Span + Span - 1 <= Base' /\ keep_seg' = keep_seg
      BY <1>2, <1>3, <1>4, <1>7 DEF keep_seg
    <2>2. QED
      BY <1>2, <1>6, <1>7, <2>1 DEF NInv, RangeInv
  <1>11. SegInv'
    <2>1. ASSUME NEW j \in Ids, segs'[j] # {}
          PROVE  j * Span + Span - 1 <= Base' /\ files' \cap span(j) \subseteq segs'[j]
      BY <1>2, <1>3, <1>5, <1>7, <2>1 DEF NInv, SegInv
    <2>2. QED
      BY <1>4, <2>1 DEF SegInv, span
  <1>12. ServeInv'
    <2>1. Kept \subseteq Kept'
      BY <1>1, <1>2, <1>3, <1>4, <1>5 DEF Kept, Doomed
    <2>2. QED
      BY <1>2, <2>1, KeepServe DEF NInv
  <1>13. SigmaInv'
    BY <1>2, KeepSigma DEF NInv
  <1>14. IndexInv'
    BY <1>2, <1>6, KeepIndex DEF NInv
  <1>15. QED
    BY <1>8, <1>9, <1>10, <1>11, <1>12, <1>13, <1>14 DEF NInv

\* Files are only removed once the segment was read back.
LEMMA VerifyKeeps ==
  ASSUME NInv, VerifySegment
  PROVE  NInv'
  <1>1. /\ up /\ compacting.stage = "verify"
        /\ \/ compacting' = NoJob
           \/ segs[compacting.id] # {} /\ compacting' = [compacting EXCEPT !.stage = "delete"]
    BY DEF VerifySegment
  <1>2. /\ UNCHANGED <<files, segs, verdict, snaps, saved, up, pc, tip, sigma, ram, history_min, index>>
        /\ UNCHANGED <<floor, pass, look, startup, through, scan, pruned, holes, unlisted>>
    BY DEF VerifySegment, disk
  <1>3. /\ compacting \in [id : Ids, stage : {"write", "verify", "delete"}] /\ compacting # NoJob
        /\ compacting.id * Span + Span - 1 <= Base
    <2>1. compacting # NoJob
      BY <1>1 DEF NoJob
    <2>2. QED
      BY <2>1 DEF NInv, ProcessTyped, Jobs, RangeInv
  <1>4. \/ compacting' = NoJob
        \/ /\ compacting' \in [id : Ids, stage : {"write", "verify", "delete"}]
           /\ compacting'.id = compacting.id /\ compacting'.stage = "delete"
           /\ segs[compacting.id] # {}
    BY <1>1, <1>3
  <1>5. OnDisk' = OnDisk /\ Base' = Base /\ keep_seg' = keep_seg
    BY <1>2, DiskSame DEF keep_seg
  <1>6. NoJob.stage = "none"
    BY DEF NoJob
  <1>7. ProcessTyped'
    BY <1>2, <1>4 DEF NInv, ProcessTyped, Jobs, All
  <1>8. RangeInv'
    <2>1. compacting' # NoJob => compacting'.id * Span + Span - 1 <= Base'
      BY <1>3, <1>4, <1>5
    <2>2. QED
      BY <1>2, <1>5, <2>1 DEF NInv, RangeInv
  <1>9. SegInv'
    BY <1>2, <1>4, <1>5, <1>6 DEF NInv, SegInv
  <1>10. ServeInv'
    <2>1. compacting'.stage = "delete" => compacting'.id \in Ids /\ segs[compacting'.id] # {}
      BY <1>3, <1>4, <1>6
    <2>2. QED
      BY <1>2, <2>1, KeptStays, KeepServe DEF NInv
  <1>11. DiskTyped' /\ SigmaInv'
    BY <1>2, KeepDisk, KeepSigma DEF NInv
  <1>12. IndexInv'
    BY <1>2, <1>5, KeepIndex DEF NInv
  <1>13. QED
    BY <1>7, <1>8, <1>9, <1>10, <1>11, <1>12 DEF NInv

\* A file that is removed is not counted on.
LEMMA DeleteKeeps ==
  ASSUME NInv, DeleteFile
  PROVE  NInv'
  <1> DEFINE i == compacting.id
             left == files \cap span(i)
             x == Min(left)
  <1>1. /\ up /\ compacting.stage = "delete"
        /\ files' = (IF left = {} THEN files ELSE files \ {x})
        /\ compacting' = (IF left = {} THEN NoJob ELSE compacting)
    BY DEF DeleteFile
  <1>2. /\ UNCHANGED <<segs, verdict, snaps, saved, up, pc, tip, sigma, ram, history_min, index, floor>>
        /\ UNCHANGED <<pass, look, startup, through, scan, pruned, holes, unlisted>>
    BY DEF DeleteFile
  <1>3. /\ compacting \in [id : Ids, stage : {"write", "verify", "delete"}] /\ i \in Ids /\ i \in Nat
        /\ i * Span + Span - 1 <= Base /\ i * Span \in Nat /\ Span \in Nat
    <2>1. compacting # NoJob
      BY <1>1 DEF NoJob
    <2>2. compacting \in [id : Ids, stage : {"write", "verify", "delete"}] /\ i \in Ids
      BY <2>1 DEF NInv, ProcessTyped, Jobs
    <2>3. i \in Nat /\ Span \in Nat /\ i * Span \in Nat
      BY <2>2, IdsNat, Constants
    <2>4. QED
      BY <2>1, <2>2, <2>3 DEF NInv, RangeInv
  <1>4. Base' = Base /\ keep_seg' = keep_seg /\ Base \in Nat
    BY <1>2, DiskSame, HighestImage DEF NInv, keep_seg
  <1>5. left # {} => x \in left
    <2>1. left \subseteq Nat
      <3>1. files \subseteq Nat
        BY DEF NInv, DiskTyped, Heights
      <3>2. QED
        BY <3>1
    <2>2. QED
      BY <2>1, MinIsLeast
  <1> HIDE DEF x
  <1>a. Kept \subseteq Kept'
    <2>1. Doomed = left
      BY <1>1 DEF Doomed
    <2>2. CASE left = {}
      <3>1. Doomed' = {}
        BY <1>1, <2>2 DEF Doomed, NoJob
      <3>2. QED
        BY <1>1, <1>2, <2>2, <3>1 DEF Kept
    <2>3. CASE left # {}
      <3>1. Doomed' \subseteq left
        BY <1>1, <2>3 DEF Doomed, span
      <3>2. QED
        BY <1>1, <1>2, <1>5, <2>1, <2>3, <3>1 DEF Kept
    <2>4. QED
      BY <2>2, <2>3
  <1>6. files' \subseteq files /\ OnDisk' \subseteq OnDisk
    BY <1>1, <1>2 DEF OnDisk
  <1>7. ASSUME NEW h \in OnDisk, h \notin OnDisk'
        PROVE  h \in Nat /\ h <= i * Span + Span - 1 /\ segs[i] = {}
    <2>1. left # {} /\ h = x
      BY <1>1, <1>2, <1>7 DEF OnDisk
    <2>2. h \in span(i) /\ h \in files
      BY <1>5, <2>1
    <2>3. h \notin segs[i]
      BY <1>2, <1>3, <1>7 DEF OnDisk
    <2>4. segs[i] = {}
      BY <1>3, <2>2, <2>3 DEF NInv, SegInv
    <2>5. QED
      BY <1>3, <2>2, <2>4 DEF span
  <1> HIDE DEF i, left
  <1>8. compacting' = NoJob \/ compacting' = compacting
    BY <1>1
  <1>9. NoJob.stage = "none"
    BY DEF NoJob
  <1>10. DiskTyped'
    BY <1>2, <1>6 DEF NInv, DiskTyped, span
  <1>11. ProcessTyped'
    BY <1>2, <1>8 DEF NInv, ProcessTyped, Jobs, All
  <1>12. RangeInv'
    <2>1. Base + 1..tip \subseteq OnDisk' \cup holes
      <3> SUFFICES ASSUME NEW h \in Base + 1..tip, h \notin OnDisk', h \notin holes PROVE FALSE
        OBVIOUS
      <3>1. h \in OnDisk
        BY DEF NInv, RangeInv
      <3>2. h \in Nat /\ h <= i * Span + Span - 1
        BY <1>7, <3>1
      <3>3. h > Base
        BY <1>4, <3>2 DEF NInv, ProcessTyped
      <3>4. QED
        BY <1>3, <1>4, <3>2, <3>3
    <2>2. compacting' # NoJob => compacting'.id * Span + Span - 1 <= Base'
      BY <1>4, <1>8 DEF NInv, RangeInv
    <2>3. QED
      BY <1>2, <1>4, <2>1, <2>2 DEF NInv, RangeInv
  <1>13. SegInv'
    BY <1>1, <1>2, <1>4, <1>6, <1>8, <1>9 DEF NInv, SegInv
  <1>14. ServeInv'
    BY <1>2, <1>a, KeepServe DEF NInv
  <1>15. SigmaInv'
    BY <1>2, KeepSigma DEF NInv
  <1>16. IndexInv'
    BY <1>2, <1>6, KeepIndex DEF NInv
  <1>17. QED
    BY <1>10, <1>11, <1>12, <1>13, <1>14, <1>15, <1>16 DEF NInv

\* A pass that has done its least height goes on with the rest.
LEMMA PassGoesOn ==
  ASSUME NInv, up, NEW h, h = Min(pass), pass # {}, look' = "file", pass' = pass \ {h},
         floor' = (IF pass' = {} THEN All ELSE h), index \subseteq index', index' \subseteq index \cup {h},
         h \in index' \/ h \notin OnDisk,
         UNCHANGED <<files, segs, verdict, snaps, saved, up, pc, tip, sigma, ram, history_min>>,
         UNCHANGED <<compacting, startup, through, scan, pruned, holes, unlisted>>
  PROVE  NInv'
  <1>1. /\ h \in pass /\ h \in Nat /\ h \in Heights /\ h <= MaxHeight /\ MaxHeight \in Nat
        /\ \A y \in pass : h <= y /\ y \in Nat
    <2>1. pass \subseteq Heights /\ pass \subseteq Nat
      BY DEF NInv, ProcessTyped, Heights
    <2>2. h \in pass /\ \A y \in pass : h <= y
      BY <2>1, MinIsLeast
    <2>3. h \in Heights /\ MaxHeight \in Nat
      BY <2>1, <2>2, Constants
    <2>4. QED
      BY <2>1, <2>2, <2>3 DEF Heights
  <1>2. OnDisk' = OnDisk /\ Base' = Base
    BY DiskSame
  <1>3. ProcessTyped'
    <2>1. pass' \subseteq Heights /\ index' \subseteq Heights
      BY <1>1 DEF NInv, ProcessTyped
    <2>2. floor' \in 0..All /\ (pass' # {} => floor' # All)
      BY <1>1 DEF All
    <2>3. QED
      BY <2>1, <2>2 DEF NInv, ProcessTyped, All
  <1>4. \A y \in pass : y <= Base
    BY DEF NInv, IndexInv
  <1>5. \A y \in 1..tip : Covered(y, index) \/ y \in pass
    BY DEF NInv, IndexInv
  <1>6. \A y : Covered(y, index) => Covered(y, index)'
    BY <1>2 DEF Covered
  <1>7. \A y : y = h => Covered(y, index)'
    BY <1>1, <1>2, <1>4 DEF Covered
  <1>8. \A y \in 1..tip : Covered(y, index)' \/ y \in pass'
    BY <1>5, <1>6, <1>7
  <1>9. IndexInv'
    <2>1. \A y \in 1..saved'.through : Covered(y, saved.heights)'
      BY <1>2 DEF NInv, IndexInv, Covered
    <2>2. floor' = All => \A y \in 1..tip' : Covered(y, index)'
      <3> HAVE floor' = All
      <3>1. pass' = {}
        BY <1>1 DEF All
      <3>2. QED
        BY <1>8, <3>1
    <2>3. floor' # All => floor' <= Base' /\ \A y \in 1..floor' : Covered(y, index)'
      <3> HAVE floor' # All
      <3>1. floor' = h /\ h <= Base /\ Base <= tip
        BY <1>1, <1>4 DEF NInv, RangeInv
      <3>2. Base \in Nat /\ tip \in Nat
        BY HighestImage DEF NInv, ProcessTyped
      <3>3. ASSUME NEW y \in 1..h PROVE Covered(y, index)'
        <4>1. y \in 1..tip /\ y \in Nat /\ y <= h
          BY <1>1, <3>1, <3>2
        <4>2. y \notin pass'
          BY <1>1, <4>1
        <4>3. QED
          BY <1>8, <4>1, <4>2
      <3>4. QED
        BY <1>2, <3>1, <3>3
    <2>4. pass' # {} => \A y \in 1..tip' : Covered(y, index)' \/ y \in pass'
      BY <1>8
    <2>5. (\A y \in pass' : y <= Base') /\ look' # "segment"
      BY <1>2, <1>4
    <2>6. QED
      BY <2>1, <2>2, <2>3, <2>4, <2>5 DEF IndexInv, All
  <1>10. DiskTyped' /\ SigmaInv' /\ SegInv'
    BY KeepDisk, KeepSigma, KeepSeg DEF NInv
  <1>11. RangeInv'
    BY <1>2, KeepRange DEF NInv
  <1>a. ServeInv'
    BY KeptStays, KeepServe DEF NInv
  <1>12. QED
    BY <1>3, <1>9, <1>10, <1>11, <1>a DEF NInv

\* The index pass looks for a block in its own file.
LEMMA LookAtFileKeeps ==
  ASSUME NInv, LookAtFile
  PROVE  NInv'
  <1> DEFINE h == Min(pass)
  <1>1. up /\ pass # {} /\ look = "file"
    BY DEF LookAtFile
  <1>2. /\ UNCHANGED <<files, segs, verdict, snaps, saved, up, pc, tip, sigma, ram, history_min>>
        /\ UNCHANGED <<compacting, startup, through, scan, pruned, holes, unlisted>>
    BY DEF LookAtFile, disk
  <1>3. CASE h \in files
    <2>1. index' = index \cup {h} /\ pass' = pass \ {h} /\ floor' = (IF pass' = {} THEN All ELSE h)
          /\ look' = look
      BY <1>3 DEF LookAtFile
    <2>2. h = Min(pass)
      OBVIOUS
    <2> HIDE DEF h
    <2>3. QED
      BY <1>1, <1>2, <2>1, <2>2, PassGoesOn
  <1>4. CASE h \notin files
    <2>1. look' = "segment" /\ UNCHANGED <<index, pass, floor>>
      BY <1>4 DEF LookAtFile
    <2>2. OnDisk' = OnDisk /\ Base' = Base
      BY <1>2, DiskSame
    <2>3. ProcessTyped'
      BY <1>2, <2>1 DEF NInv, ProcessTyped, All
    <2>4. IndexInv'
      <3>1. \A y, x : Covered(y, x)' <=> Covered(y, x)
        BY <2>2 DEF Covered
      <3>2. \A y \in 1..saved'.through : Covered(y, saved.heights)'
        BY <1>2, <3>1 DEF NInv, IndexInv
      <3>3. /\ floor' = All => \A y \in 1..tip' : Covered(y, index)'
            /\ floor' # All => floor' <= Base' /\ \A y \in 1..floor' : Covered(y, index)'
            /\ pass' # {} => \A y \in 1..tip' : Covered(y, index)' \/ y \in pass'
            /\ \A y \in pass' : y <= Base'
        BY <1>1, <1>2, <2>1, <2>2, <3>1 DEF NInv, IndexInv
      <3>4. pass' # {} /\ Min(pass') \notin files'
        BY <1>1, <1>2, <1>4, <2>1
      <3>5. QED
        BY <1>2, <3>2, <3>3, <3>4 DEF IndexInv, All
    <2>5. DiskTyped' /\ SigmaInv' /\ SegInv'
      BY <1>2, KeepDisk, KeepSigma, KeepSeg DEF NInv
    <2>6. RangeInv'
      BY <1>2, <2>2, KeepRange DEF NInv
    <2>7. ServeInv'
      BY <1>2, KeptStays, KeepServe DEF NInv
    <2>8. QED
      BY <2>3, <2>4, <2>5, <2>6, <2>7 DEF NInv
  <1>5. QED
    BY <1>3, <1>4

\* Then in the segment of its span; a block in neither is gone for good.
LEMMA LookAtSegmentKeeps ==
  ASSUME NInv, LookAtSegment
  PROVE  NInv'
  <1> DEFINE h == Min(pass)
  <1>1. up /\ pass # {} /\ look = "segment" /\ look' = "file"
    BY DEF LookAtSegment
  <1>2. /\ UNCHANGED <<files, segs, verdict, snaps, saved, up, pc, tip, sigma, ram, history_min>>
        /\ UNCHANGED <<compacting, startup, through, scan, pruned, holes, unlisted>>
    BY DEF LookAtSegment, disk
  <1>3. /\ index' = (IF h \in segs[h \div Span] THEN index \cup {h} ELSE index)
        /\ pass' = pass \ {h} /\ floor' = (IF pass' = {} THEN All ELSE h)
    BY DEF LookAtSegment
  <1>4. h \notin files
    BY <1>1 DEF NInv, IndexInv
  <1>5. h \in index' \/ h \notin OnDisk
    <2> SUFFICES ASSUME h \in OnDisk PROVE h \in index'
      OBVIOUS
    <2>1. PICK i \in Ids : h \in segs[i]
      BY <1>4 DEF OnDisk
    <2>2. h \in span(i) /\ i \in Nat
      BY <2>1, IdsNat DEF NInv, DiskTyped
    <2>3. h \div Span = i
      BY <2>2, SegmentOf
    <2>4. QED
      BY <1>3, <2>1, <2>3
  <1>6. index \subseteq index' /\ index' \subseteq index \cup {h} /\ h = Min(pass)
    BY <1>3
  <1> HIDE DEF h
  <1>7. QED
    BY <1>1, <1>2, <1>3, <1>5, <1>6, PassGoesOn

-----------------------------------------------------------------------------
(* Starting.                                                               *)

\* The replay goes on from the image until a block is missing.
LEMMA ReplayedTo ==
  ASSUME DiskTyped, NEW to, to = replayed_to(Base)
  PROVE  /\ to \in Base..MaxHeight /\ to \in 0..MaxHeight /\ Base + 1..to \subseteq OnDisk
         /\ to < MaxHeight => to + 1 \notin OnDisk
  <1> DEFINE S == {h \in Base..MaxHeight : Base + 1..h \subseteq OnDisk}
  <1>1. Base \in Nat /\ Base <= MaxHeight /\ MaxHeight \in Nat
    BY HighestImage, Constants
  <1>2. S \subseteq 0..MaxHeight /\ Base \in S
    BY <1>1
  <1>3. to = Max(S)
    BY DEF replayed_to
  <1>4. to \in S /\ \A y \in S : to >= y
    <2> HIDE DEF S
    <2>1. QED
      BY <1>1, <1>2, <1>3, MaxIsGreatest
  <1>5. to \in Base..MaxHeight /\ Base + 1..to \subseteq OnDisk /\ to \in Nat
    BY <1>1, <1>4
  <1>6. ASSUME to < MaxHeight, to + 1 \in OnDisk PROVE FALSE
    <2>1. Base + 1..to + 1 = (Base + 1..to) \cup {to + 1} /\ to + 1 \in Base..MaxHeight
      BY <1>1, <1>5, <1>6
    <2>2. to + 1 \in S
      BY <1>5, <1>6, <2>1
    <2>3. QED
      BY <1>4, <1>5, <2>2
  <1>7. QED
    BY <1>1, <1>5, <1>6

\* The floor of a start is where the run of blocks up to the tip begins.
LEMMA BootFloor ==
  ASSUME DiskTyped, NEW to \in 0..MaxHeight, NEW m,
         m = IF OnDisk # {} /\ Max(OnDisk \cup {0}) = to THEN suffix_min(OnDisk) ELSE to + 1
  PROVE  m \in Nat /\ m >= 1 /\ m <= to + 1 /\ m..to \subseteq OnDisk
  <1>1. MaxHeight \in Nat /\ to \in Nat /\ \A h \in OnDisk : h \in Nat /\ h >= 1 /\ h <= MaxHeight
    BY Constants, OnDiskHeights
  <1>2. CASE OnDisk # {} /\ Max(OnDisk \cup {0}) = to
    <2>1. OnDisk \cup {0} \subseteq 0..MaxHeight /\ OnDisk \cup {0} # {} /\ OnDisk \subseteq 0..MaxHeight
      BY <1>1
    <2>2. to \in OnDisk \cup {0} /\ \A y \in OnDisk \cup {0} : to >= y
      BY <1>1, <1>2, <2>1, MaxIsGreatest
    <2>3. to \in OnDisk /\ \A y \in OnDisk : to >= y
      <3>1. PICK y \in OnDisk : TRUE
        BY <1>2
      <3>2. to # 0
        BY <1>1, <2>2, <3>1
      <3>3. QED
        BY <2>2, <3>2
    <2>4. Max(OnDisk) \in OnDisk /\ \A y \in OnDisk : Max(OnDisk) >= y
      BY <1>1, <1>2, <2>1, MaxIsGreatest
    <2>5. Max(OnDisk) = to
      <3>1. Max(OnDisk) >= to /\ to >= Max(OnDisk)
        BY <2>3, <2>4
      <3>2. Max(OnDisk) \in Nat
        BY <1>1, <2>4
      <3>3. QED
        BY <1>1, <3>1, <3>2
    <2> DEFINE H == {h \in OnDisk : h..to \subseteq OnDisk}
    <2>6. H \subseteq Nat /\ to \in H
      <3>1. to..to = {to}
        BY <1>1
      <3>2. QED
        BY <1>1, <2>3, <3>1
    <2>7. m = Min(H)
      BY <1>2, <2>5 DEF suffix_min
    <2> HIDE DEF H
    <2>8. m \in H
      BY <2>6, <2>7, MinIsLeast
    <2>9. m \in OnDisk /\ m..to \subseteq OnDisk
      BY <2>8 DEF H
    <2>10. QED
      BY <1>1, <2>3, <2>9
  <1>3. CASE ~(OnDisk # {} /\ Max(OnDisk \cup {0}) = to)
    BY <1>1, <1>3
  <1>4. QED
    BY <1>2, <1>3

\* A start rebuilds all of it from the disk.
LEMMA BootKeeps ==
  ASSUME NInv, Boot
  PROVE  /\ NInv'
         /\ tip' >= tip \/ tip' + 1 \in holes
         /\ tip' >= Base
  <1> DEFINE b == Base
             to == replayed_to(b)
             below == Min({saved.through, b})
             todo == {h \in OnDisk : h > below /\ h <= b}
             m == IF OnDisk # {} /\ Max(OnDisk \cup {0}) = to THEN suffix_min(OnDisk) ELSE to + 1
  <1>1. PICK index_history \in IndexHistory :
     /\ tip' = to /\ sigma' = replay(b, load_snapshot.sigma, to)
     /\ ram' = b + 1..to /\ history_min' = m
     /\ index' = {h \in saved.heights : h <= below} \cup (b + 1..to)
     /\ pass' = (IF index_history THEN todo ELSE {})
     /\ floor' = floor_at_boot(index_history, todo, below)
    BY DEF Boot, Base
  <1>2. /\ ~up /\ up' = TRUE /\ look' = "file" /\ through' = 0 /\ compacting' = NoJob /\ pc' = "idle"
        /\ startup' = b /\ scan' = {} /\ pruned' = {} /\ unlisted' = {}
        /\ UNCHANGED <<files, segs, verdict, snaps, saved, holes>>
    BY DEF Boot, disk, Base
  <1>3. /\ b \in Nat /\ b <= MaxHeight /\ MaxHeight \in Nat /\ DiskTyped /\ saved.through \in Nat
        /\ saved.through <= MaxHeight /\ saved.heights \subseteq Heights /\ b \in 0..MaxHeight
        /\ tip \in Nat /\ tip <= MaxHeight
    BY HighestImage, Constants DEF NInv, DiskTyped, ProcessTyped
  <1>4. /\ to \in b..MaxHeight /\ to \in 0..MaxHeight /\ b + 1..to \subseteq OnDisk
        /\ to < MaxHeight => to + 1 \notin OnDisk
    BY <1>3, ReplayedTo
  <1>5. m \in Nat /\ m >= 1 /\ m <= to + 1 /\ m..to \subseteq OnDisk
    <2> HIDE DEF to, b
    <2>0. m = IF OnDisk # {} /\ Max(OnDisk \cup {0}) = to THEN suffix_min(OnDisk) ELSE to + 1
      OBVIOUS
    <2> HIDE DEF m
    <2>1. QED
      BY <1>3, <1>4, <2>0, BootFloor
  <1>6. below \in Nat /\ below <= b /\ below <= saved.through
    <2> DEFINE S == {saved.through, b}
    <2>1. S \subseteq Nat /\ S # {} /\ saved.through \in S /\ b \in S
      BY <1>3
    <2>2. Min(S) \in S /\ \A y \in S : Min(S) <= y
      <3> HIDE DEF S
      <3>1. QED
        BY <2>1, MinIsLeast
    <2>3. QED
      BY <2>1, <2>2
  <1>7. OnDisk' = OnDisk /\ Base' = b
    BY <1>2, DiskSame
  <1>8. sigma' = Good \cap 1..to
    <2>1. load_snapshot.sigma = Good \cap 1..b
      BY <1>3, HighestImage DEF NInv, SigmaInv, Base
    <2>2. verdict = [h \in Heights |-> h \in Good]
      BY <1>3 DEF DiskTyped
    <2> HIDE DEF to, b
    <2>3. QED
      BY <1>1, <1>3, <1>4, <2>1, <2>2, ReplayIsCanonical
  <1> HIDE DEF to, b, below, m
  <1>9. floor' = (IF index_history /\ todo = {} THEN All ELSE below)
    BY <1>1 DEF floor_at_boot
  <1>10. to \in Nat /\ b <= to /\ to <= MaxHeight
    BY <1>3, <1>4
  <1>11. DiskTyped'
    BY <1>2, KeepDisk DEF NInv
  <1>12. ProcessTyped'
    <2>1. sigma' \subseteq Heights
      BY <1>8, Constants DEF Heights
    <2>2. b + 1..to \subseteq Heights
      BY <1>3, <1>10 DEF Heights
    <2>3. ram' \subseteq Heights /\ index' \subseteq Heights
      BY <1>1, <1>3, <2>2
    <2>4. todo \subseteq Heights
      BY <1>3, OnDiskHeights
    <2>5. pass' \subseteq Heights
      BY <1>1, <2>4
    <2>6. floor' \in 0..All /\ (pass' # {} => floor' # All)
      <3>1. below \in 0..MaxHeight
        BY <1>3, <1>6
      <3>2. below \in 0..All /\ below # All /\ All \in 0..All
        BY <1>3, <3>1 DEF All
      <3>3. pass' # {} => index_history /\ todo # {}
        BY <1>1
      <3>4. QED
        BY <1>9, <3>2, <3>3
    <2>7. history_min' \in 0..MaxHeight + 1 /\ tip' \in 0..MaxHeight
      BY <1>1, <1>3, <1>4, <1>5, <1>10
    <2>8. compacting' \in Jobs /\ through' \in 0..MaxHeight /\ startup' \in 0..MaxHeight
      BY <1>2, <1>3 DEF Jobs
    <2>9. QED
      BY <1>2, <2>1, <2>3, <2>5, <2>6, <2>7, <2>8 DEF ProcessTyped, All
  <1>13. SigmaInv'
    BY <1>1, <1>2, <1>8 DEF NInv, SigmaInv
  <1>14. RangeInv'
    BY <1>1, <1>2, <1>3, <1>4, <1>7, <1>10 DEF RangeInv
  <1>15. SegInv'
    <2>1. NoJob.stage = "none"
      BY DEF NoJob
    <2>2. Base' = Base
      BY <1>2, DiskSame
    <2>3. QED
      BY <1>2, <2>1, <2>2 DEF NInv, SegInv
  <1>16. ServeInv'
    <2>1. OnDisk \subseteq Kept'
      BY <1>2 DEF Kept, Doomed, OnDisk, NoJob
    <2>2. ram' \subseteq 1..tip' /\ \A h \in ram' : h..tip' \subseteq ram'
      BY <1>1, <1>3, <1>10
    <2>3. m..to \subseteq Kept'
      BY <1>5, <2>1
    <2>4. QED
      BY <1>1, <1>2, <1>5, <2>2, <2>3 DEF ServeInv
  <1>17. IndexInv'
    <2>1. \A h \in 1..saved.through : h \in saved.heights \/ (h \notin OnDisk /\ h <= b)
      BY DEF NInv, IndexInv, Covered, b
    <2>2. ASSUME NEW h \in 1..below PROVE h \in index' \/ (h \notin OnDisk /\ h <= b)
      <3>1. h \in 1..saved.through /\ h <= below
        BY <1>3, <1>6
      <3>2. QED
        BY <1>1, <2>1, <3>1
    <2>3. ASSUME NEW h \in 1..to PROVE h \in index' \/ (h \notin OnDisk /\ h <= b) \/ h \in todo
      <3>1. h \in Nat /\ h >= 1 /\ h <= to
        BY <1>10
      <3>2. CASE h <= below
        BY <1>6, <2>2, <3>1, <3>2
      <3>3. CASE h > b
        <4>1. h \in b + 1..to
          BY <1>3, <1>10, <3>1, <3>3
        <4>2. QED
          BY <1>1, <4>1
      <3>4. CASE h > below /\ h <= b
        BY <3>4
      <3>5. QED
        BY <1>3, <1>6, <3>1, <3>2, <3>3, <3>4
    <2>4. \A h \in todo : h <= b
      OBVIOUS
    <2> HIDE DEF todo
    <2>5. floor' = All => todo = {}
      <3>1. below # All
        BY <1>3, <1>6 DEF All
      <3>2. QED
        BY <1>9, <3>1
    <2>6. floor' = All => \A h \in 1..tip' : Covered(h, index)'
      BY <1>1, <1>7, <2>3, <2>5 DEF Covered
    <2>7. floor' # All => floor' = below
      BY <1>9
    <2>8. floor' # All => floor' <= Base' /\ \A h \in 1..floor' : Covered(h, index)'
      BY <1>6, <1>7, <2>2, <2>7 DEF Covered
    <2>9. pass' # {} => pass' = todo
      BY <1>1
    <2>10. pass' # {} => \A h \in 1..tip' : Covered(h, index)' \/ h \in pass'
      BY <1>1, <1>7, <2>3, <2>9 DEF Covered
    <2>11. \A h \in pass' : h <= Base'
      BY <1>1, <1>7, <2>4
    <2>12. \A h \in 1..saved'.through : Covered(h, saved.heights)'
      BY <1>2, <1>7, <2>1 DEF Covered
    <2>13. QED
      BY <1>2, <2>6, <2>8, <2>10, <2>11, <2>12 DEF IndexInv, All
  <1>18. tip' >= tip \/ tip' + 1 \in holes
    <2> SUFFICES ASSUME ~(to >= tip) PROVE to + 1 \in holes
      BY <1>1
    <2>1. to < tip /\ to < MaxHeight /\ to + 1 \in b + 1..tip
      BY <1>3, <1>10
    <2>2. b + 1..tip \subseteq OnDisk \cup holes
      BY DEF NInv, RangeInv, b
    <2>3. QED
      BY <1>4, <2>1, <2>2
  <1>19. QED
    BY <1>1, <1>10, <1>11, <1>12, <1>13, <1>14, <1>15, <1>16, <1>17, <1>18 DEF NInv, b

\* A crash loses what is in memory; the disk keeps what a start needs.
LEMMA CrashKeeps ==
  ASSUME NInv, Crash
  PROVE  NInv'
  <1>1. /\ up' = FALSE /\ sigma' = {} /\ ram' = {} /\ pc' = "idle" /\ history_min' = 0
        /\ index' = {} /\ floor' = All /\ pass' = {} /\ look' = "file" /\ compacting' = NoJob
        /\ startup' = 0 /\ through' = 0 /\ scan' = {} /\ pruned' = {} /\ unlisted' = {}
        /\ UNCHANGED <<files, segs, verdict, snaps, saved, tip, holes>>
    BY DEF Crash, disk
  <1>2. OnDisk' = OnDisk /\ Base' = Base /\ Base \in Nat /\ MaxHeight \in Nat
    BY <1>1, DiskSame, HighestImage, Constants DEF NInv
  <1>3. DiskTyped'
    BY <1>1, KeepDisk DEF NInv
  <1>4. ProcessTyped'
    <2>1. All \in 0..All /\ 0 \in 0..MaxHeight /\ 0 \in 0..MaxHeight + 1
      BY <1>2 DEF All
    <2>2. tip' \in 0..MaxHeight
      BY <1>1 DEF NInv, ProcessTyped
    <2>3. QED
      BY <1>1, <2>1, <2>2 DEF ProcessTyped, Jobs
  <1>5. SigmaInv'
    BY <1>1 DEF NInv, SigmaInv
  <1>6. RangeInv'
    <2>1. Base' <= tip' /\ Base' + 1..tip' \subseteq OnDisk' \cup holes'
      BY <1>1, <1>2 DEF NInv, RangeInv
    <2>2. QED
      BY <1>1, <1>2, <2>1 DEF RangeInv
  <1>7. SegInv'
    <2>1. \A i \in Ids : segs'[i] # {} =>
             i * Span + Span - 1 <= Base' /\ files' \cap span(i) \subseteq segs'[i]
      BY <1>1, <1>2 DEF NInv, SegInv
    <2>2. compacting'.stage # "write"
      BY <1>1 DEF NoJob
    <2>3. QED
      BY <2>1, <2>2 DEF SegInv
  <1>8. ServeInv'
    BY <1>1 DEF ServeInv
  <1>9. IndexInv'
    <2>1. \A h, x : Covered(h, x)' <=> Covered(h, x)
      BY <1>2 DEF Covered
    <2>2. \A h \in 1..saved'.through : Covered(h, saved.heights)'
      BY <1>1, <2>1 DEF NInv, IndexInv
    <2>3. QED
      BY <1>1, <2>2 DEF IndexInv
  <1>10. QED
    BY <1>3, <1>4, <1>5, <1>6, <1>7, <1>8, <1>9 DEF NInv

-----------------------------------------------------------------------------
(* The invariant.                                                          *)

\* A home of an older release has it.
LEMMA NInvInit == Init => NInv
  <1> SUFFICES ASSUME Init PROVE NInv
    OBVIOUS
  <1>1. PICK home \in Homes :
          /\ files = home.files
          /\ snaps = [f \in {"v3", "v4"} |-> [height |-> home[f], sigma |-> Good \cap 1..home[f]]]
          /\ tip = Max(home.files \cup {home.v3, home.v4}) /\ holes = 1..tip \ home.files
    BY DEF Init
  <1>2. /\ segs = [i \in Ids |-> {}] /\ verdict = [h \in Heights |-> h \in Good]
        /\ saved = [through |-> 0, heights |-> {}] /\ up = FALSE /\ pc = "idle" /\ sigma = {} /\ ram = {}
        /\ history_min = 0 /\ index = {} /\ floor = All /\ pass = {} /\ look = "file"
        /\ compacting = NoJob /\ startup = 0 /\ through = 0 /\ scan = {} /\ pruned = {} /\ unlisted = {}
    BY DEF Init
  <1>3. home \in [files : SUBSET (1..MaxHeight), v3 : 0..MaxHeight, v4 : 0..MaxHeight]
    BY <1>1, NodeAssumption
  <1>4. /\ home.files \subseteq 1..MaxHeight /\ home.v3 \in 0..MaxHeight /\ home.v4 \in 0..MaxHeight
        /\ home["v3"] = home.v3 /\ home["v4"] = home.v4 /\ MaxHeight \in Nat /\ Good \subseteq 1..MaxHeight
    BY <1>3, Constants
  <1>5. /\ snaps["v3"].height = home.v3 /\ snaps["v4"].height = home.v4
        /\ snaps["v3"].sigma = Good \cap 1..home.v3 /\ snaps["v4"].sigma = Good \cap 1..home.v4
    BY <1>1, <1>4
  <1>6. DiskTyped
    <2>1. ASSUME NEW f \in Formats
          PROVE  [height |-> home[f], sigma |-> Good \cap 1..home[f]] \in Images
      <3>1. home[f] \in 0..MaxHeight
        BY <1>4 DEF Formats
      <3>2. Good \cap 1..home[f] \in SUBSET Heights
        BY <1>4 DEF Heights
      <3>3. QED
        BY <3>1, <3>2 DEF Images
    <2>2. snaps \in [Formats -> Images]
      BY <1>1, <2>1 DEF Formats
    <2>3. saved \in [through : 0..MaxHeight, heights : SUBSET Heights]
      BY <1>2, <1>4
    <2>4. segs \in [Ids -> SUBSET Heights] /\ \A i \in Ids : segs[i] \subseteq span(i)
      BY <1>2
    <2>5. QED
      BY <1>1, <1>2, <1>4, <2>2, <2>3, <2>4 DEF DiskTyped, Heights
  <1>7. /\ tip \in 0..MaxHeight /\ \A y \in home.files \cup {home.v3, home.v4} : tip >= y
    <2> DEFINE S == home.files \cup {home.v3, home.v4}
    <2>1. S \subseteq 0..MaxHeight /\ S # {}
      BY <1>4
    <2>2. tip = Max(S)
      BY <1>1
    <2> HIDE DEF S
    <2>3. Max(S) \in S /\ \A y \in S : Max(S) >= y
      BY <1>4, <2>1, MaxIsGreatest
    <2>4. QED
      BY <2>1, <2>2, <2>3 DEF S
  <1>8. ProcessTyped
    <2>1. All \in 0..All /\ 0 \in 0..MaxHeight /\ 0 \in 0..MaxHeight + 1
      BY <1>4 DEF All
    <2>2. QED
      BY <1>2, <1>7, <2>1 DEF ProcessTyped, Jobs
  <1>9. SigmaInv
    BY <1>2, <1>5 DEF SigmaInv, Formats
  <1>10. Base \in Nat /\ Base <= tip
    <2>1. Base \in {home.v3, home.v4}
      BY <1>5 DEF Base, load_snapshot
    <2>2. QED
      BY <1>4, <1>7, <2>1
  <1>11. RangeInv
    <2>1. Base + 1..tip \subseteq OnDisk \cup holes
      <3>1. Base + 1..tip \subseteq 1..tip
        BY <1>10, <1>7
      <3>2. 1..tip \subseteq files \cup holes
        BY <1>1
      <3>3. QED
        BY <3>1, <3>2 DEF OnDisk
    <2>2. QED
      BY <1>2, <1>10, <2>1 DEF RangeInv
  <1>12. SegInv
    <2>1. \A i \in Ids : segs[i] = {}
      BY <1>2
    <2>2. compacting.stage # "write"
      BY <1>2 DEF NoJob
    <2>3. QED
      BY <2>1, <2>2 DEF SegInv
  <1>13. ServeInv
    BY <1>2 DEF ServeInv
  <1>14. IndexInv
    <2>1. saved.through = 0
      BY <1>2
    <2>2. \A h \in 1..saved.through : Covered(h, saved.heights)
      BY <2>1
    <2>3. QED
      BY <1>2, <2>2 DEF IndexInv
  <1>15. QED
    BY <1>6, <1>8, <1>9, <1>11, <1>12, <1>13, <1>14 DEF NInv

\* Every step keeps it.
LEMMA NInvNext == NInv /\ [Next]_vars => NInv'
  <1> SUFFICES ASSUME NInv, [Next]_vars PROVE NInv'
    OBVIOUS
  <1>1. CASE \/ \E k \in Parts, v \in Values : ReceivePart(k, v)
             \/ \E v \in Values : StoreUndecided(v)
             \/ RestartHeight \/ Serve \/ UNCHANGED vars
    BY <1>1, ReceiveKeeps
  <1>2. CASE PruneDone
    BY <1>2, PruneDoneKeeps
  <1>3. CASE WriteSegment
    BY <1>3, WriteKeeps
  <1>4. CASE VerifySegment
    BY <1>4, VerifyKeeps
  <1>5. CASE DeleteFile
    BY <1>5, DeleteKeeps
  <1>6. CASE LookAtFile
    BY <1>6, LookAtFileKeeps
  <1>7. CASE LookAtSegment
    BY <1>7, LookAtSegmentKeeps
  <1>8. CASE Boot
    BY <1>8, BootKeeps
  <1>9. CASE Crash
    BY <1>9, CrashKeeps
  <1>10. CASE \E v \in Values, ok \in BOOLEAN : Commit(v, ok)
    BY <1>10, CommitKeeps
  <1>a. CASE \E ok \in BOOLEAN : Snapshot(ok) \/ PersistIndex(ok)
    BY <1>a, SnapshotKeeps, PersistKeeps
  <1>b. CASE PruneFailed
    BY <1>b, PruneFailedKeeps
  <1>11. CASE \E i \in Ids : Prune(i)
    BY <1>11, PruneKeeps
  <1>12. CASE \E t \in {"startup", "snapshot"} : StartJob(t)
    BY <1>12, StartJobKeeps
  <1>13. QED
    BY <1>1, <1>2, <1>3, <1>4, <1>5, <1>6, <1>7, <1>8, <1>9, <1>10, <1>a, <1>b, <1>11, <1>12 DEF Next

\* So it always holds.
LEMMA NInvHolds == Spec => []NInv
  BY NInvInit, NInvNext, PTL DEF Spec

-----------------------------------------------------------------------------
(* The theorems.                                                           *)

\* However often a node crashes, fails to write, falls back to an older image
\* or replays blocks with their stored verdicts (apply_batch, load_snapshot,
\* restore_from_store), the state it votes with is the network's.
THEOREM NodeSigmaIsCanonical == Spec => []SigmaIsCanonical
  <1>1. NInv => SigmaIsCanonical
    BY DEF NInv, SigmaInv, SigmaIsCanonical
  <1>2. QED
    BY <1>1, NInvHolds, PTL

\* Between the floor that GetHistoryMinHeight advertises and the tip, every
\* block is in the memory window or on disk: through failed writes, packing,
\* pruning without the lock, and restarts; what a prune_below that failed had
\* deleted before is what it may lack.
THEOREM NodeServesWhatItAdvertises == Spec => []ServesWhatItAdvertises
  <1>1. NInv => ServesWhatItAdvertises
    <2> SUFFICES ASSUME NInv PROVE ServesWhatItAdvertises
      OBVIOUS
    <2>1. NodeTypeOK
      BY DEF NInv, DiskTyped, ProcessTyped, NodeTypeOK
    <2>2. ASSUME up, pc = "idle", NEW h \in earliest_height..tip PROVE decided_value(h) \/ h \in unlisted
      <3> DEFINE starts == ram \cup ({history_min} \ {0})
      <3>1. /\ history_min \in Nat /\ history_min >= 1 /\ tip \in Nat /\ ram \subseteq Nat
            /\ \A x \in ram : x..tip \subseteq ram
            /\ history_min..tip \subseteq OnDisk \cup unlisted
        BY <2>2, Constants DEF NInv, ServeInv, ProcessTyped, Missing, Kept, OnDisk, Heights
      <3>2. starts \subseteq Nat /\ starts # {} /\ earliest_height = Min(starts)
        BY <3>1 DEF earliest_height
      <3>3. starts = ram \cup {history_min}
        BY <3>1
      <3> HIDE DEF starts
      <3>4. earliest_height \in starts /\ earliest_height \in Nat
        BY <3>2, MinIsLeast
      <3>5. h \in Nat /\ earliest_height <= h /\ h <= tip
        BY <3>1, <3>4, <2>2
      <3>6. CASE earliest_height \in ram
        <4>1. h \in earliest_height..tip
          BY <2>2
        <4>2. h \in ram
          BY <3>1, <3>6, <4>1
        <4>3. QED
          BY <4>2 DEF decided_value
      <3>7. CASE earliest_height = history_min
        <4>1. h \in OnDisk \cup unlisted
          BY <3>1, <3>7, <2>2
        <4>2. QED
          BY <4>1 DEF decided_value
      <3>8. QED
        BY <3>3, <3>4, <3>6, <3>7
    <2>3. QED
      BY <2>1, <2>2 DEF ServesWhatItAdvertises
  <1>2. QED
    BY <1>1, NInvHolds, PTL

\* The search index has every block it claims, and so does the file that a
\* later start trusts: while a history pass runs beside commits, prunes and
\* packing, and when persist_index runs in the middle of it.
THEOREM NodeIndexCovers == Spec => []IndexCovers
  <1>1. NInv => IndexCovers
    BY DEF NInv, IndexInv, Covered, IndexCovers
  <1>2. QED
    BY <1>1, NInvHolds, PTL

\* restore_from_store resumes at the height the node had reached, or just
\* below a block that could not be written after the newest image.
THEOREM NodeResumesWhereItStopped == Spec => ResumesWhereItStopped
  <1>1. NInv /\ [Next]_vars =>
          [(~up /\ up') => \/ tip' >= tip
                           \/ tip' + 1 \in holes /\ tip' >= Max({snaps["v3"].height, snaps["v4"].height})]_vars
    <2> SUFFICES ASSUME NInv, Next, ~up, up'
                 PROVE  \/ tip' >= tip
                        \/ tip' + 1 \in holes /\ tip' >= Max({snaps["v3"].height, snaps["v4"].height})
      OBVIOUS
    <2>1. Boot
      BY DEF Next, ReceivePart, StoreUndecided, RestartHeight, Ready, PruneDone, PruneFailed, WriteSegment,
             VerifySegment, DeleteFile, LookAtFile, LookAtSegment, Serve, Crash, Commit, Snapshot,
             PersistIndex, Prune, StartJob, vars
    <2>2. Base = Max({snaps["v3"].height, snaps["v4"].height})
      BY HighestImage DEF NInv
    <2>3. QED
      BY <2>1, <2>2, BootKeeps
  <1>2. QED
    BY <1>1, NInvHolds, PTL DEF Spec, ResumesWhereItStopped

=============================================================================
