----------------------------- MODULE HashSigner -----------------------------
(***************************************************************************)
(* The stateful hash-based consensus signer (hk-crypto hashsig.rs) over    *)
(* the durable write of fsutil.rs, with the per-epoch trees and state      *)
(* files that the node swaps between (hk-consensus rotate_to, hk-node      *)
(* adopt_epoch_signer / apply_rotations).                                  *)
(*                                                                         *)
(* One LMS/HSS tree per rotation epoch.  A leaf of a tree may sign once,   *)
(* ever: across retries, process crashes, power losses, and a node that    *)
(* restores an older chain and comes back on an earlier epoch.             *)
(*                                                                         *)
(* Abstractions.  A tree is its leaf counter; a signature is the pair      *)
(* (epoch, leaf) it consumed, counted in `signed' when it leaves sign().   *)
(* The HSS session is derived from the key state and rolled back with it,  *)
(* so it has no state of its own.  The signer mutex makes sign() and the   *)
(* swap in rotate_to mutually exclusive: a swap needs pc = "idle".         *)
(***************************************************************************)
EXTENDS Integers, LeafUse

CONSTANTS
    Floors      \* lower bounds a caller may pass to attach_persistence_with_floor

ASSUME FloorsAssumption == Floors \subseteq Nat

VARIABLES
    up,       \* the process runs
    epoch,    \* the epoch of the live signer's tree
    used,     \* HashSigner.used
    count,    \* the leaf counter inside the private key (state_count)
    pc,       \* where sign() is: idle, write, rename, fsync, release
    file      \* file[e]: the state file of epoch e as the OS shows it; `durable[e]'
              \* (LeafUse) is what the disk has of it

vars == <<up, epoch, used, count, pc, file, durable, signed>>

\* A missing file resumes at the fresh key, exactly like a zero record.
NoFile == [used |-> 0, count |-> 0]

Record == [used : Nat, count : Nat]

Larger(a, b) == IF a > b THEN a ELSE b

remaining == IF used < Capacity THEN Capacity - used ELSE 0

\* The position attach_persistence_with_floor resumes a fresh signer at: the
\* highest of the floor, the file's header and the count in the file's key.
Resume(e, floor) == Larger(floor, Larger(file[e].used, file[e].count))

Init ==
    /\ up = FALSE
    /\ epoch = 0
    /\ used = 0
    /\ count = 0
    /\ pc = "idle"
    /\ file = [e \in Epochs |-> NoFile]
    /\ durable = [e \in Epochs |-> NoFile]
    /\ signed = [e \in Epochs |-> [l \in Leaves |-> 0]]

-----------------------------------------------------------------------------
(* Attaching a tree: at start-up, and at every rotation                    *)

\* A fresh in-memory signer of tree e adopts its state file.
Attach(e, floor) ==
    /\ epoch' = e
    /\ used' = Resume(e, floor)
    /\ count' = Resume(e, floor)

\* from_seed + into_persistent: a process starts on the genesis tree.
Start(floor) ==
    /\ ~up
    /\ up' = TRUE
    /\ Attach(0, floor)
    /\ UNCHANGED <<pc, file, durable, signed>>

\* rotate_to: the live commit of a rotation, or adopt_epoch_signer after a
\* restore, whatever epoch the restored chain says.
RotateTo(e, floor) ==
    /\ up
    /\ pc = "idle"
    /\ e > epoch
    /\ Attach(e, floor)
    /\ UNCHANGED <<up, pc, file, durable, signed>>

-----------------------------------------------------------------------------
(* sign(): reserve, then release                                           *)

\* sign() computes the signature on leaf `count' and enters write_atomic.
BeginSign ==
    /\ up
    /\ pc = "idle"
    /\ remaining > 0
    /\ pc' = "write"
    /\ UNCHANGED <<up, epoch, used, count, file, durable, signed>>

\* The temp file is created, written and synced: the old file is untouched.
WriteTmp ==
    /\ pc = "write"
    /\ pc' = "rename"
    /\ UNCHANGED <<up, epoch, used, count, file, durable, signed>>

\* rename: the new record is what the OS shows; the disk may still have the
\* old directory entry.
Rename ==
    /\ pc = "rename"
    /\ file' = [file EXCEPT ![epoch] = [used |-> used + 1, count |-> count + 1]]
    /\ pc' = "fsync"
    /\ UNCHANGED <<up, epoch, used, count, durable, signed>>

\* Faulty variant: the directory is not synced (the write before R16).
SyncDir_Skipped ==
    /\ pc = "fsync"
    /\ pc' = "release"
    /\ UNCHANGED <<up, epoch, used, count, file, durable, signed>>

\* sync_parent_dir returned: the rename is durable.
SyncDir ==
    /\ pc = "fsync"
    /\ durable' = [durable EXCEPT ![epoch] = file[epoch]]
    /\ pc' = "release"
    /\ UNCHANGED <<up, epoch, used, count, file, signed>>

\* The durable write succeeded: the key advances and the signature leaves.
Release ==
    /\ pc = "release"
    /\ signed' = [signed EXCEPT ![epoch][count] = @ + 1]
    /\ used' = used + 1
    /\ count' = count + 1
    /\ pc' = "idle"
    /\ UNCHANGED <<up, epoch, file, durable>>

\* Faulty variant: a failed write still lets the signature out.
WriteFails_Releases ==
    /\ pc \in {"write", "rename", "fsync"}
    /\ pc' = "release"
    /\ UNCHANGED <<up, epoch, used, count, file, durable, signed>>

\* Any step of write_atomic may fail: sign() rolls back and returns None.
\* After a failed directory sync the renamed file stays visible.
WriteFails ==
    /\ pc \in {"write", "rename", "fsync"}
    /\ pc' = "idle"
    /\ UNCHANGED <<up, epoch, used, count, file, durable, signed>>

-----------------------------------------------------------------------------
(* The machine                                                             *)

\* The kernel may write the directory back at any time.
JournalCommit(e) ==
    /\ durable[e] # file[e]
    /\ durable' = [durable EXCEPT ![e] = file[e]]
    /\ UNCHANGED <<up, epoch, used, count, pc, file, signed>>

\* The process dies; the OS and its caches survive.
ProcessCrash ==
    /\ up
    /\ up' = FALSE
    /\ pc' = "idle"
    /\ UNCHANGED <<epoch, used, count, file, durable, signed>>

\* Power loss: only what reached the disk survives.
PowerLoss ==
    /\ up' = FALSE
    /\ pc' = "idle"
    /\ file' = durable
    /\ UNCHANGED <<epoch, used, count, durable, signed>>

Next ==
    \/ \E f \in Floors : Start(f)
    \/ \E e \in Epochs, f \in Floors : RotateTo(e, f)
    \/ BeginSign
    \/ WriteTmp
    \/ Rename
    \/ SyncDir
    \/ Release
    \/ WriteFails
    \/ \E e \in Epochs : JournalCommit(e)
    \/ ProcessCrash
    \/ PowerLoss

Spec == Init /\ [][Next]_vars

-----------------------------------------------------------------------------
(* Properties                                                              *)

\* The fields of HashSigner and of its state file keep their types, also
\* through Resume from a file of any age.
TypeOK ==
    /\ up \in BOOLEAN
    /\ epoch \in Epochs
    /\ used \in Nat
    /\ count \in Nat
    /\ pc \in {"idle", "write", "rename", "fsync", "release"}
    /\ file \in [Epochs -> Record]
    /\ durable \in [Epochs -> Record]
    /\ signed \in [Epochs -> [Leaves -> Nat]]

\* The header and the key inside one blob never disagree, in memory or on
\* disk, so `remaining' counts the leaves the key really has left.
HeaderMirrorsKey ==
    /\ up => used = count
    /\ \A e \in Epochs : file[e].used = file[e].count /\ durable[e].used = durable[e].count

\* The durable position of a tree never moves back, and never further than
\* the file the OS shows; a crash or a retry may waste a leaf, never return one.
PositionMonotone ==
    [][\A e \in Epochs : durable'[e].count >= durable[e].count /\ durable'[e].count <= file'[e].count]_vars

=============================================================================
