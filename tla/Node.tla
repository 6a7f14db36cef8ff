------------------------------- MODULE Node -------------------------------
(***************************************************************************)
(* A node's own copy of the chain (hk-node app.rs, state.rs, store.rs,     *)
(* streaming.rs): how a decided block is received, applied, written, kept, *)
(* packed, pruned, indexed and served to peers, and how a restart resumes  *)
(* from what the disk holds.  What a block does to the ledger is Ledger's, *)
(* to the validator set ValidatorSet's.                                    *)
(*                                                                         *)
(* The handlers of the app loop run one at a time; the background threads  *)
(* (segment compaction, index pass) run between their disk accesses, and   *)
(* the process may die anywhere.  A file is written whole or not at all    *)
(* (write_atomic, HashSigner.tla).  The rest of the network has decided    *)
(* every height and serves the node what it misses.                        *)
(*                                                                         *)
(* Of Sigma one thing is kept: the heights whose aggregate proof was found *)
(* good.  It decides what the block did and is not recomputed on replay.   *)
(***************************************************************************)
EXTENDS Integers, FiniteSets, FiniteSetsExt

CONSTANTS MaxHeight,      \* bound: the chain's length
          Span,           \* SEGMENT_SPAN
          SnapshotEvery, IndexEvery, Window, Retain,   \* the knobs of that name
          IndexHistory,   \* the settings of HK_INDEX_HISTORY a start may have
          Good,           \* the heights with an aggregate proof that verifies
          Homes,          \* the disks that a node may start on: see Init
          MaxFaults

ASSUME NodeAssumption ==
  /\ {MaxHeight, Retain, MaxFaults} \subseteq Nat
  /\ {Span, SnapshotEvery, IndexEvery, Window} \subseteq Nat \ {0}
  /\ IndexHistory \subseteq BOOLEAN /\ Good \subseteq 1..MaxHeight
  /\ Homes \subseteq [files : SUBSET (1..MaxHeight), v3 : 0..MaxHeight, v4 : 0..MaxHeight]

Heights == 1..MaxHeight
All == MaxHeight + 1       \* index_floor = u64::MAX: the history pass is over
Ids == 0..MaxHeight \div Span
span(id) == id * Span .. id * Span + Span - 1
Parts == 0..3              \* Init, TxBatch, Fin, end of stream
Values == {"decided", "other"}   \* the network's value for a height; one of a round that lost

VARIABLES
  \* the disk
  files,      \* the heights with a file of their own
  segs,       \* the segment files, each with the heights in its index; {} is no file
  verdict,    \* agg_valid as stored with each block
  snaps,      \* the newest snapshot of each format: its height and Sigma
  saved,      \* index3.bin: through_height, and the heights indexed
  \* the process
  up, pc,     \* pc: where the commit handler is
  tip, sigma, ram,           \* chain.height, Sigma, the keys of `decided`
  parts, undecided,          \* the proposal stream of the next height; its values by store_undecided
  history_min,
  index, floor, pass, look,  \* tx_index, index_floor; the pass: heights to do, file or segment next
  compacting, startup, through,   \* the job that holds compact_lock; the limits of the two threads to run
  scan, pruned,      \* prune_below: the segments still to look at; the heights deleted
  faults, holes,     \* bound; history: the heights that could not be written
  unlisted           \* history: what a retention pass that failed had deleted

disk == <<files, segs, verdict, snaps, saved>>
vars == <<files, segs, verdict, snaps, saved, up, pc, tip, sigma, ram, parts, undecided, history_min, index,
          floor, pass, look, compacting, startup, through, scan, pruned, faults, holes, unlisted>>

NoJob == [id |-> -1, stage |-> "none"]
OnDisk == files \cup UNION {segs[i] : i \in Ids}
NoSnap == [height |-> 0, sigma |-> {}]

\* A home is new, or an older release left block files and snapshot3.bin in it;
\* one that was rolled back for a while also has an older snapshot4.bin.
Init ==
  /\ \E home \in Homes :
       /\ files = home.files
       /\ snaps = [f \in {"v3", "v4"} |-> [height |-> home[f], sigma |-> Good \cap 1..home[f]]]
       /\ tip = Max(home.files \cup {home.v3, home.v4}) /\ holes = 1..tip \ home.files
  /\ segs = [i \in Ids |-> {}] /\ verdict = [h \in Heights |-> h \in Good]
  /\ saved = [through |-> 0, heights |-> {}]
  /\ up = FALSE /\ pc = "idle" /\ sigma = {} /\ ram = {} /\ parts = {} /\ undecided = {}
  /\ history_min = 0 /\ index = {} /\ floor = All /\ pass = {} /\ look = "file"
  /\ compacting = NoJob /\ startup = 0 /\ through = 0 /\ scan = {} /\ pruned = {} /\ faults = 0
  /\ unlisted = {}

Fault == faults < MaxFaults /\ faults' = faults + 1

-----------------------------------------------------------------------------
(* Receiving.                                                              *)

Ready == up /\ pc = "idle" /\ tip < MaxHeight

\* received_proposal_part: parts come in any order, some twice, some never;
\* the value is handed over once all are there.
ReceivePart(k, v) ==
  /\ Ready /\ k \notin parts
  /\ parts' = parts \cup {k}
  /\ undecided' = IF parts' = Parts THEN undecided \cup {v} ELSE undecided
  /\ UNCHANGED <<disk, up, pc, tip, sigma, ram, history_min, index, floor, pass, look, compacting,
                 startup, through, scan, pruned, faults, holes, unlisted>>

\* ProcessSyncedValue, and GetValue (propose_value, unless previously_built).
StoreUndecided(v) ==
  /\ Ready /\ undecided' = undecided \cup {v}
  /\ UNCHANGED <<disk, up, pc, tip, sigma, ram, parts, history_min, index, floor, pass, look, compacting,
                 startup, through, scan, pruned, faults, holes, unlisted>>

-----------------------------------------------------------------------------
(* Applying.                                                               *)

\* The aggregate proof of a value; only the network's has one that is good.
agg_valid(h, v) == v = "decided" /\ h \in Good

\* Faulty variant: a block is replayed without the verdict stored with it.
apply_batch_Unproved(s, h, v, live, recorded) == IF live /\ agg_valid(h, v) THEN s \cup {h} ELSE s

\* Live, the aggregate is verified; on replay the stored verdict is taken.
apply_batch(s, h, v, live, recorded) ==
  IF (live /\ agg_valid(h, v)) \/ (~live /\ recorded) THEN s \cup {h} ELSE s

\* decided_window: only the newest heights stay in memory.
in_window(r) == {h \in r : Cardinality({x \in r : x > h}) < Window}

\* The disk suffix starts here, or past the hole.
floor_after_save(ok, h) ==
  IF ok THEN (IF history_min = 0 THEN h ELSE history_min) ELSE h + 1

\* The value with the certificate's id, of any round, and the check of its
\* parent hash against Sigma's.
to_commit == IF sigma = Good \cap 1..tip THEN undecided \cap {"decided"} ELSE {}

\* Decided: the value found is applied and the block is written.
Commit(v, ok) ==
  LET h == tip + 1 IN
  /\ Ready /\ v \in to_commit
  /\ tip' = h /\ sigma' = apply_batch(sigma, h, v, TRUE, FALSE)
  /\ index' = index \cup {h} /\ ram' = in_window(ram \cup {h})
  /\ undecided' = {} /\ parts' = {}
  /\ IF ok THEN UNCHANGED faults ELSE Fault
  /\ files' = IF ok THEN files \cup {h} ELSE files
  /\ verdict' = IF ok THEN [verdict EXCEPT ![h] = agg_valid(h, v)] ELSE verdict
  /\ holes' = IF ok THEN holes \ {h} ELSE holes \cup {h}
  /\ history_min' = floor_after_save(ok, h)
  /\ pc' = IF h % SnapshotEvery = 0 THEN "snapshot" ELSE IF h % IndexEvery = 0 THEN "index" ELSE "idle"
  /\ UNCHANGED <<segs, snaps, saved, up, floor, pass, look, compacting, startup, through, scan, pruned,
                 unlisted>>

\* The commit fails: the height is started again with what is there.
RestartHeight == Ready /\ to_commit = {} /\ UNCHANGED vars

keep_seg == (tip - Retain) \div Span
AfterSnapshot == IF tip % IndexEvery = 0 THEN "index" ELSE "idle"

\* make_snapshot, save_snapshot; compact_one_background unless one is running.
Snapshot(ok) ==
  /\ up /\ pc = "snapshot"
  /\ IF ok
     THEN /\ snaps' = [snaps EXCEPT !["v4"] = [height |-> tip, sigma |-> sigma]]
          /\ through' = IF compacting = NoJob THEN tip ELSE through
          /\ scan' = IF Retain = 0 \/ tip <= Retain THEN {} ELSE {i \in Ids : i < keep_seg}
          /\ pc' = "prune" /\ UNCHANGED faults
     ELSE /\ Fault /\ pc' = AfterSnapshot /\ UNCHANGED <<snaps, through, scan>>
  /\ pruned' = {}
  /\ UNCHANGED <<files, segs, verdict, saved, up, tip, sigma, ram, parts, undecided, history_min, index, floor,
                 pass, look, compacting, startup, holes, unlisted>>

\* prune_below, one segment file at a time; no lock is taken.
Prune(i) ==
  /\ up /\ pc = "prune" /\ i \in scan
  /\ scan' = scan \ {i}
  /\ segs' = [segs EXCEPT ![i] = {}] /\ pruned' = pruned \cup segs[i]
  /\ UNCHANGED <<files, verdict, snaps, saved, up, pc, tip, sigma, ram, parts, undecided, history_min, index,
                 floor, pass, look, compacting, startup, through, faults, holes, unlisted>>

\* A file that cannot be removed ends the pass: the floor stays where it was,
\* below what the pass had deleted.
PruneFailed ==
  /\ up /\ pc = "prune" /\ Fault /\ \E i \in scan : segs[i] # {}
  /\ scan' = {} /\ pc' = AfterSnapshot /\ unlisted' = unlisted \cup pruned
  /\ UNCHANGED <<disk, up, tip, sigma, ram, parts, undecided, history_min, index, floor, pass, look, compacting,
                 startup, through, pruned, holes>>

\* Faulty variant: the floor is not moved by retention.
floor_after_prune_Kept == history_min

floor_after_prune == IF pruned # {} THEN Max({history_min, keep_seg * Span}) ELSE history_min

\* The servable floor moves up.
PruneDone ==
  /\ up /\ pc = "prune" /\ scan = {}
  /\ history_min' = floor_after_prune
  /\ pc' = AfterSnapshot
  /\ UNCHANGED <<disk, up, tip, sigma, ram, parts, undecided, index, floor, pass, look, compacting, startup,
                 through, scan, pruned, faults, holes, unlisted>>

\* Faulty variant: coverage is the tip though the history pass is not over.
covered_through_Tip == tip

covered_through == IF floor = All THEN tip ELSE floor

\* persist_index.
PersistIndex(ok) ==
  /\ up /\ pc = "index" /\ pc' = "idle"
  /\ IF ok THEN UNCHANGED faults ELSE Fault
  /\ saved' = IF ok /\ covered_through > 0
              THEN [through |-> covered_through, heights |-> {h \in index : h <= covered_through}]
              ELSE saved
  /\ UNCHANGED <<files, segs, verdict, snaps, up, tip, sigma, ram, parts, undecided, history_min, index, floor,
                 pass, look, compacting, startup, through, scan, pruned, holes, unlisted>>

-----------------------------------------------------------------------------
(* The background threads.                                                 *)

compactable(limit) == {h \div Span : h \in {x \in files : (x \div Span) * Span + Span - 1 <= limit}}

\* An existing segment is trusted and only the leftovers are removed.
first_stage(id) == IF segs[id] # {} THEN "delete" ELSE "write"

\* compact_segment takes the lock: every segment below the image it started from
\* in turn for the thread of a start, the oldest for that of a snapshot.
StartJob(t) ==
  /\ up /\ compacting = NoJob
  /\ LET limit == IF t = "startup" THEN startup ELSE through
         ids == compactable(limit) IN
     /\ limit > 0
     /\ compacting' = IF ids = {} THEN NoJob ELSE [id |-> Min(ids), stage |-> first_stage(Min(ids))]
     /\ startup' = IF t = "startup" /\ Cardinality(ids) <= 1 THEN 0 ELSE startup
  /\ through' = IF t = "startup" THEN through ELSE 0
  /\ UNCHANGED <<disk, up, pc, tip, sigma, ram, parts, undecided, history_min, index, floor, pass, look, scan, pruned,
                 faults, holes, unlisted>>

\* The files of the span are packed into one; it is read back, and may have
\* been pruned by then; the files go one by one.
WriteSegment ==
  /\ up /\ compacting.stage = "write"
  /\ segs' = [segs EXCEPT ![compacting.id] = files \cap span(compacting.id)]
  /\ compacting' = [compacting EXCEPT !.stage = "verify"]
  /\ UNCHANGED <<files, verdict, snaps, saved, up, pc, tip, sigma, ram, parts, undecided, history_min, index,
                 floor, pass, look, startup, through, scan, pruned, faults, holes, unlisted>>

VerifySegment ==
  /\ up /\ compacting.stage = "verify"
  /\ compacting' = IF segs[compacting.id] = {} THEN NoJob ELSE [compacting EXCEPT !.stage = "delete"]
  /\ UNCHANGED <<disk, up, pc, tip, sigma, ram, parts, undecided, history_min, index, floor, pass, look, startup,
                 through, scan, pruned, faults, holes, unlisted>>

DeleteFile ==
  /\ up /\ compacting.stage = "delete"
  /\ LET left == files \cap span(compacting.id) IN
     /\ files' = IF left = {} THEN files ELSE files \ {Min(left)}
     /\ compacting' = IF left = {} THEN NoJob ELSE compacting
  /\ UNCHANGED <<segs, verdict, snaps, saved, up, pc, tip, sigma, ram, parts, undecided, history_min, index,
                 floor, pass, look, startup, through, scan, pruned, faults, holes, unlisted>>

\* The index pass reads a block: the file of its own, else the segment; a block
\* that is in neither is skipped.
LookAtFile ==
  LET h == Min(pass) IN
  /\ up /\ pass # {} /\ look = "file"
  /\ IF h \in files
     THEN /\ index' = index \cup {h} /\ pass' = pass \ {h}
          /\ floor' = IF pass' = {} THEN All ELSE h
          /\ UNCHANGED look
     ELSE look' = "segment" /\ UNCHANGED <<index, pass, floor>>
  /\ UNCHANGED <<disk, up, pc, tip, sigma, ram, parts, undecided, history_min, compacting, startup, through,
                 scan, pruned, faults, holes, unlisted>>

LookAtSegment ==
  LET h == Min(pass) IN
  /\ up /\ pass # {} /\ look = "segment" /\ look' = "file"
  /\ index' = IF h \in segs[h \div Span] THEN index \cup {h} ELSE index
  /\ pass' = pass \ {h} /\ floor' = IF pass' = {} THEN All ELSE h
  /\ UNCHANGED <<disk, up, pc, tip, sigma, ram, parts, undecided, history_min, compacting, startup, through,
                 scan, pruned, faults, holes, unlisted>>

-----------------------------------------------------------------------------
(* Serving.                                                                *)

\* The lower of where the memory window and the disk suffix start.
earliest_height ==
  LET starts == ram \cup ({history_min} \ {0}) IN IF starts = {} THEN 1 ELSE Min(starts)

\* decided_value: memory first, then the block log.
decided_value(h) == h \in ram \cup OnDisk

\* GetHistoryMinHeight and GetDecidedValue change nothing.
Serve == up /\ pc = "idle" /\ UNCHANGED vars

-----------------------------------------------------------------------------
(* Starting.                                                               *)

\* Faulty variant: the newest format decides, not the highest image.
load_snapshot_ByFormat == IF snaps["v4"].height > 0 THEN snaps["v4"] ELSE snaps["v3"]

\* The highest image of any format.
load_snapshot == IF snaps["v4"].height >= snaps["v3"].height THEN snaps["v4"] ELSE snaps["v3"]

\* contiguous_suffix_min.
suffix_min(hs) == Min({h \in hs : h..Max(hs) \subseteq hs})

replayed_to(base) == Max({h \in base..MaxHeight : base + 1..h \subseteq OnDisk})
replay(base, s, to) ==
  LET f[h \in base..to] == IF h = base THEN s ELSE apply_batch(f[h - 1], h, "decided", FALSE, verdict[h]) IN f[to]

\* index_floor: nothing to do, or coverage starts at what the file held.
floor_at_boot(index_history, todo, below) == IF index_history /\ todo = {} THEN All ELSE below

\* restore_from_store: snapshot, replay of the gap-free run behind it, the
\* floor, the index as far as it is behind the snapshot, the two threads.
Boot ==
  /\ ~up /\ up' = TRUE
  /\ \E index_history \in IndexHistory :
     LET snap == load_snapshot
         to == replayed_to(snap.height)
         below == Min({saved.through, snap.height})
         todo == {h \in OnDisk : h > below /\ h <= snap.height} IN
     /\ tip' = to /\ sigma' = replay(snap.height, snap.sigma, to)
     /\ ram' = snap.height + 1..to
     /\ history_min' = IF OnDisk # {} /\ Max(OnDisk \cup {0}) = to THEN suffix_min(OnDisk) ELSE to + 1
     /\ index' = {h \in saved.heights : h <= below} \cup (snap.height + 1..to)
     /\ pass' = IF index_history THEN todo ELSE {}
     /\ floor' = floor_at_boot(index_history, todo, below)
  /\ look' = "file" /\ startup' = load_snapshot.height /\ through' = 0 /\ compacting' = NoJob
  /\ pc' = "idle" /\ parts' = {} /\ undecided' = {} /\ scan' = {} /\ pruned' = {} /\ unlisted' = {}
  /\ UNCHANGED <<disk, faults, holes>>

\* The process dies: what is in memory is gone (tip stays to be compared with).
Crash ==
  /\ up /\ Fault /\ up' = FALSE
  /\ sigma' = {} /\ ram' = {} /\ parts' = {} /\ undecided' = {} /\ pc' = "idle" /\ history_min' = 0
  /\ index' = {} /\ floor' = All /\ pass' = {} /\ look' = "file"
  /\ compacting' = NoJob /\ startup' = 0 /\ through' = 0 /\ scan' = {} /\ pruned' = {}
  /\ unlisted' = {}
  /\ UNCHANGED <<disk, tip, holes>>

Next ==
  \/ \E k \in Parts, v \in Values : ReceivePart(k, v)
  \/ \E v \in Values : StoreUndecided(v)
  \/ RestartHeight \/ PruneFailed \/ PruneDone \/ WriteSegment \/ VerifySegment \/ DeleteFile
  \/ LookAtFile \/ LookAtSegment \/ Serve \/ Boot \/ Crash
  \/ \E v \in Values, ok \in BOOLEAN : Commit(v, ok)
  \/ \E ok \in BOOLEAN : Snapshot(ok) \/ PersistIndex(ok)
  \/ \E i \in Ids : Prune(i)
  \/ \E t \in {"startup", "snapshot"} : StartJob(t)

Spec == Init /\ [][Next]_vars

-----------------------------------------------------------------------------
(* Properties                                                              *)

\* Heights, floors and what is kept of each stay within the chain, and a pass
\* over old blocks is under way only while the floor says so.
NodeTypeOK ==
  /\ files \subseteq Heights /\ \A i \in Ids : segs[i] \subseteq span(i)
  /\ tip \in 0..MaxHeight /\ sigma \subseteq Heights /\ ram \subseteq Heights
  /\ history_min \in 0..MaxHeight + 1 /\ floor \in 0..All /\ index \subseteq Heights
  /\ pc \in {"idle", "snapshot", "prune", "index"} /\ (pass # {} => floor # All)

\* "An honest floor keeps peers from asking us for heights we'd answer with
\* nothing": between the advertised floor and the tip every block is in memory
\* or on disk, whatever was written badly, packed, pruned or cut short - except
\* what a retention pass had deleted before a file that it could not remove,
\* until the next restart: the error is logged and the floor not raised.
ServesWhatItAdvertises ==
  /\ NodeTypeOK
  /\ (up /\ pc = "idle") => \A h \in earliest_height..tip : decided_value(h) \/ h \in unlisted

\* The state a node votes with is the network's, across any restarts.
SigmaIsCanonical == up => sigma = Good \cap 1..tip

\* A start resumes where the node stopped, short only of a block that could
\* not be written after the newest image.
ResumesWhereItStopped ==
  [][(~up /\ up') => \/ tip' >= tip
                     \/ tip' + 1 \in holes /\ tip' >= Max({snaps["v3"].height, snaps["v4"].height})]_vars

\* The search index has every block it says it covers, and so does its file:
\* a later pass starts above it and would never see the others.
IndexCovers ==
  /\ (up /\ floor = All) => OnDisk \cap 1..tip \subseteq index
  /\ OnDisk \cap 1..saved.through \subseteq saved.heights
=============================================================================
