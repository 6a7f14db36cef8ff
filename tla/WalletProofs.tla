---------------------------- MODULE WalletProofs ----------------------------
(***************************************************************************)
(* Proofs about Wallet.tla, for any amounts, fee, passphrases, capacity of *)
(* the spend tree and number of operations, relaunches, faults and changes *)
(* of passphrase.                                                          *)
(*                                                                         *)
(* Any number of processes may share the directory for ScanComplete.  The  *)
(* other three hold of one process at a time, its window's thread beside   *)
(* its worker: two processes read the same counter or the same index       *)
(* before either saves it, and both may find no shielded file and make it. *)
(***************************************************************************)
EXTENDS Wallet, FiniteSetTheorems, TLAPS

Seals  == Passes \cup {"plain"}
Keys   == Passes \cup {"none"}
Founds == [at : Nat, value : Int, era : Nat]
Caches == {s \in [chain_id : Int, through : Nat, notes : SUBSET Founds, spent : SUBSET Founds, era : Nat] :
              (\A n \in s.notes : n.at \in 1..s.through) /\ s.spent \subseteq s.notes}
Files  == [exists : BOOLEAN, master : Nat, ots : 0..OTS_CAPACITY, tag : Nat, seal : Seals,
           scan : Caches]
Places == {"idle", "load", "create", "signer", "check", "scan", "tag", "ots", "prove", "nonce",
           "reserve", "submit", "poll"}
Ops    == {"none", "send", "shield", "unshield", "pay", "scan", "disclose", "init"}
Works  == [pc : Places, client : Clients \cup {"account"}, op : Ops, amount : Nat, id : Nat,
           file : Files, nonce : Int, note : Founds, ots : Int, tag : Nat]
Reseals == [pc : {"idle", "set", "account", "shield"}, pass : Keys, old : Keys, nonce : Nat, file : Files]
Notes  == [owner : Nat, value : Int]
Txs    == [nonce : Nat, op : Ops, amount : Nat, note : Founds, owner : Nat, tag : Nat, id : Nat]
Takes  == [master : Nat, n : Nat, id : Nat]
Chains == [id : Nat, era : Nat, exists : BOOLEAN, nonce : Nat, balance : Nat, pool : Seq(Notes),
           spent : SUBSET Nat]

\* What a process knows where it is: past the load it holds a file, past the
\* nonce an index.
WorkOk(w) ==
  /\ w.pc \in {"scan", "tag", "ots"} => w.file.exists
  /\ w.pc = "check" => w.op = "send" \/ w.file.exists
  /\ w.file.exists => w.client \in Clients
  /\ w.pc = "create" => w.client \in Clients
  /\ w.pc = "create" /\ w.client = "app" => w.op # "init"
  /\ w.op = "init" => w.pc = "create"
  /\ w.pc = "load" => w.client = "app"
  /\ w.pc = "signer" => w.client = "cli"
  /\ w.pc \in {"reserve", "submit", "poll"} => w.nonce \in Nat
  /\ w.client = "cli" => w.pc \in {"idle", "signer", "create"} \/ w.nonce \in Nat

ResealOk(r) == r.pc = "shield" => r.file.exists

FilesTyped ==
  /\ account \in [exists : BOOLEAN, nonce : Nat, seal : Seals]
  /\ box \in [Clients -> Files] /\ born \in Nat
  /\ leaves \subseteq Takes /\ tags \subseteq Takes

WorkTyped ==
  /\ session \in [Procs -> Keys]
  /\ work \in [Procs -> Works] /\ \A p \in Procs : WorkOk(work[p])
  /\ reseal \in [Procs -> Reseals] /\ \A p \in Procs : ResealOk(reseal[p])
  /\ ops \in Nat

ChainTyped ==
  /\ chain \in Chains /\ chain.spent \subseteq DOMAIN chain.pool
  /\ pending \subseteq Txs

Typed == FilesTyped /\ WorkTyped /\ ChainTyped

\* The file a process holds, for its operation or to seal it again, is one the
\* directory has; one it is about to make is not there.
Custody ==
  \A p \in Procs :
     /\ work[p].file.exists => /\ box[work[p].client].exists
                               /\ work[p].file.master = box[work[p].client].master
     /\ work[p].pc = "create" => ~box[work[p].client].exists
     /\ reseal[p].file.exists => box["app"].exists /\ reseal[p].file.master = box["app"].master

\* A cache of this start of this chain holds what a full scan up to its cursor
\* would.
FoundIn(ch, i) == [at |-> i, value |-> ch.pool[i].value, era |-> ch.era]
AgreesWith(ch, s, m) ==
  /\ s.era <= ch.era
  /\ s.chain_id = ch.id /\ s.era = ch.era =>
       /\ s.through <= Len(ch.pool)
       /\ s.notes = {FoundIn(ch, i) : i \in {j \in 1..s.through : ch.pool[j].owner = m}}
       /\ \A n \in s.spent : n.at \in ch.spent
Agrees(s, m) == AgreesWith(chain, s, m)
Complete(f) == Agrees(f.scan, f.master)

ScanInv == /\ \A c \in Clients : Complete(box[c])
           /\ \A p \in Procs : Complete(work[p].file) /\ Complete(reseal[p].file)

\* A change of passphrase has put back a shield.json (lost): of the app's file
\* the counters say nothing any more.
Off(c) == c = "app" /\ "app" \in lost

\* The counters in hand are those on disk.
InStep ==
  \A p \in Procs : work[p].file.exists =>
     Off(work[p].client) \/ (/\ work[p].file.ots = box[work[p].client].ots
                             /\ work[p].file.tag = box[work[p].client].tag)

Masters ==
  /\ \A c \in Clients : box[c].exists => box[c].master <= born
  /\ \A c, d \in Clients : (box[c].exists /\ box[d].exists /\ box[c].master = box[d].master) => c = d
  /\ "app" \in lost => box["app"].exists

\* What was taken lies below the counter of its master's file.
Below(s, field) ==
  \A x \in s : \E c \in Clients :
     box[c].exists /\ box[c].master = x.master /\ (x.n < box[c][field] \/ Off(c))
Once(s) == \A x, y \in s : (x.master = y.master /\ x.n = y.n) =>
              x = y \/ ("app" \in lost /\ x.master = box["app"].master)

CountInv ==
  /\ InStep /\ Masters
  /\ Below(leaves, "ots") /\ Below(tags, "tag")
  /\ Once(leaves) /\ Once(tags)

-----------------------------------------------------------------------------
(* What a process does to the shielded files, whichever operation runs:    *)
(* nothing, make one, write back the one it holds, or put back the one it  *)
(* read to seal it again.                                                  *)

Alike(f, g) == /\ f.exists = g.exists /\ f.master = g.master /\ f.ots = g.ots /\ f.tag = g.tag
               /\ f.scan = g.scan

Holds(o, w) ==
  /\ UNCHANGED <<box, born, leaves, tags>>
  /\ \/ w.file = NoFile
     \/ w.file = o.file /\ w.client = o.client
     \/ w.client \in Clients /\ w.file = box[w.client]
  /\ w.pc = "create" => (o.pc = "create" /\ o.client = w.client) \/ ~box[w.client].exists

Makes(o, f, w) ==
  /\ o.pc = "create" /\ o.client \in Clients
  /\ box' = [box EXCEPT ![o.client] = f] /\ born' = born + 1
  /\ f.exists /\ f.master = born + 1 /\ f.scan = EmptyCache
  /\ w.pc # "create" /\ (w.file = NoFile \/ (w.client = o.client /\ w.file = f))
  /\ UNCHANGED <<leaves, tags>>

Saves(o, f, w) ==
  /\ o.client \in Clients /\ o.file.exists /\ box' = [box EXCEPT ![o.client] = f]
  /\ f.exists /\ f.master = o.file.master /\ UNCHANGED born
  /\ f.scan = o.file.scan \/ Complete(f)
  /\ w.pc # "create" /\ (w.file = NoFile \/ (w.client = o.client /\ Alike(w.file, f)))
  /\ \/ f.ots = o.file.ots /\ f.tag = o.file.tag /\ UNCHANGED <<leaves, tags>>
     \/ /\ f.ots = o.file.ots /\ f.tag = o.file.tag + 1 /\ UNCHANGED leaves
        /\ tags' = tags \cup {[master |-> o.file.master, n |-> o.file.tag, id |-> o.id]}
     \/ /\ f.ots = o.file.ots + 1 /\ f.tag = o.file.tag /\ UNCHANGED tags
        /\ leaves' = leaves \cup {[master |-> o.file.master, n |-> o.file.ots, id |-> o.id]}

Restores(r, f) ==
  /\ r.file.exists /\ Alike(f, r.file) /\ box' = [box EXCEPT !["app"] = f]
  /\ "app" \in lost' \/ (f.ots = box["app"].ots /\ f.tag = box["app"].tag)
  /\ UNCHANGED <<born, leaves, tags>>

Does(p, w) ==
  \/ Holds(work[p], w)
  \/ \E f \in Files : Makes(work[p], f, w)
  \/ \E f \in Files : Saves(work[p], f, w)
  \/ w = work[p] /\ \E f \in Files : Restores(reseal[p], f)

Shape(p) == \E w \in Works : WorkOk(w) /\ work' = [work EXCEPT ![p] = w] /\ Does(p, w)

\* A copy that is read to be sealed again is the file as it is.
SealPart ==
  /\ reseal' \in [Procs -> Reseals]
  /\ \A q \in Procs :
       /\ ResealOk(reseal'[q])
       /\ \/ reseal'[q].file = NoFile
          \/ reseal'[q].file = reseal[q].file
          \/ reseal'[q].file = box["app"] /\ UNCHANGED box
  /\ lost \subseteq lost' /\ ("app" \in lost' => "app" \in lost \/ box'["app"].exists)

\* The rest of what a process changes.
RestTyped ==
  /\ account' \in [exists : BOOLEAN, nonce : Nat, seal : Seals]
  /\ session' \in [Procs -> Keys]
  /\ ops' \in Nat /\ UNCHANGED chain
  /\ pending' \subseteq Txs /\ SealPart

\* What the assumption says of each constant.
LEMMA ConstantsNat ==
  /\ Amounts \subseteq Nat \ {0} /\ Drip \in Nat /\ Fee \in Nat /\ OTS_CAPACITY \in Nat
  /\ "plain" \notin Passes /\ "none" \notin Passes
  BY WalletAssumption

\* A process at rest, and a file that is not there.
LEMMA IdleWork ==
  /\ NoFile \in Files /\ ~NoFile.exists /\ EmptyCache \in Caches
  /\ Idle \in Works /\ Idle.file = NoFile /\ WorkOk(Idle) /\ Idle.client = "app" /\ Idle.pc = "idle"
  /\ NoReseal \in Reseals /\ NoReseal.file = NoFile /\ ResealOk(NoReseal) /\ NoReseal.pc = "idle"
  <1>1. EmptyCache \in Caches
    BY DEF EmptyCache, Caches
  <1>2. NoFile \in Files /\ ~NoFile.exists
    BY <1>1, ConstantsNat DEF NoFile, Files, Seals
  <1>3. NoNote \in Founds
    BY DEF NoNote, Founds
  <1>4. /\ Idle \in Works /\ Idle.file = NoFile /\ Idle.client = "app" /\ Idle.pc = "idle"
        /\ Idle.op = "none"
    BY <1>2, <1>3 DEF Idle, Works, Places, Clients, Ops
  <1>5. NoReseal \in Reseals /\ NoReseal.file = NoFile /\ NoReseal.pc = "idle"
    BY <1>2 DEF NoReseal, Reseals, Keys
  <1>6. QED
    BY <1>1, <1>2, <1>4, <1>5 DEF WorkOk, ResealOk

\* The fields of a process's record.
LEMMA WorkFields ==
  ASSUME NEW w \in Works
  PROVE  /\ w.pc \in Places /\ w.client \in Clients \cup {"account"} /\ w.op \in Ops
         /\ w.amount \in Nat /\ w.id \in Nat /\ w.file \in Files /\ w.nonce \in Int
         /\ w.note \in Founds /\ w.tag \in Nat
  BY DEF Works

\* And of a change of passphrase.
LEMMA ResealFields ==
  ASSUME NEW r \in Reseals
  PROVE  r.pass \in Keys /\ r.old \in Keys /\ r.nonce \in Nat /\ r.file \in Files
  BY DEF Reseals

\* Going on to another place keeps the rest of the record.
LEMMA StepFields ==
  ASSUME NEW w \in Works, NEW l \in Places
  PROVE  LET v == [w EXCEPT !.pc = l] IN
         /\ v \in Works /\ v.pc = l /\ v.client = w.client /\ v.op = w.op /\ v.file = w.file
         /\ v.nonce = w.nonce /\ v.note = w.note /\ v.id = w.id
  BY DEF Works

\* A step that only goes on, or gives up, holds what it held.
LEMMA GoesOn ==
  ASSUME Typed, NEW p \in Procs, NEW l \in Places,
         \/ /\ step(p, l) /\ WorkOk([work[p] EXCEPT !.pc = l])
            /\ l = "create" => ~box[work[p].client].exists
         \/ fail(p),
         UNCHANGED <<box, born, leaves, tags>>
  PROVE  Shape(p)
  <1> DEFINE v == [work[p] EXCEPT !.pc = l]
  <1>1. work[p] \in Works /\ work \in [Procs -> Works]
    BY DEF Typed, WorkTyped
  <1>2. v \in Works /\ v.file = work[p].file /\ v.client = work[p].client /\ v.pc = l
    BY <1>1, StepFields
  <1>3. CASE step(p, l) /\ WorkOk(v) /\ (l = "create" => ~box[work[p].client].exists)
    <2>1. work' = [work EXCEPT ![p] = v]
      BY <1>1, <1>3 DEF step
    <2> HIDE DEF v
    <2>2. Holds(work[p], v)
      BY <1>2, <1>3 DEF Holds
    <2>3. QED
      BY <1>2, <1>3, <2>1, <2>2 DEF Shape, Does
  <1>4. CASE fail(p)
    <2>1. work' = [work EXCEPT ![p] = Idle]
      BY <1>4 DEF fail
    <2>2. Holds(work[p], Idle)
      BY IdleWork DEF Holds
    <2>3. QED
      BY <2>1, <2>2, IdleWork DEF Shape, Does
  <1>5. QED
    BY <1>3, <1>4

\* A process that only touches the account or its session holds its file.
LEMMA StaysPut ==
  ASSUME Typed, NEW p \in Procs, UNCHANGED <<work, box, born, leaves, tags>>
  PROVE  Shape(p)
  <1>1. work[p] \in Works /\ WorkOk(work[p]) /\ work \in [Procs -> Works]
    BY DEF Typed, WorkTyped
  <1>2. work' = [work EXCEPT ![p] = work[p]]
    BY <1>1
  <1>3. Holds(work[p], work[p])
    BY DEF Holds
  <1>4. QED
    BY <1>1, <1>2, <1>3 DEF Shape, Does

\* A seal is plain or a passphrase, whoever writes.
LEMMA SealsTyped ==
  ASSUME Typed, NEW p \in Procs
  PROVE  /\ \A f : encode(p, f) \in Seals
         /\ \A c, f : f.seal \in Seals => sealed_by(p, c, f) \in Seals
         /\ session[p] \in Keys /\ account.seal \in Seals
  <1>1. session[p] \in Keys /\ account.seal \in Seals
    BY DEF Typed, WorkTyped, FilesTyped
  <1>2. \A f : encode(p, f) \in Seals
    BY <1>1 DEF encode, Seals, Keys
  <1>3. QED
    BY <1>1, <1>2 DEF sealed_by

\* No change of passphrase moves.
LEMMA SealKept ==
  ASSUME Typed, UNCHANGED <<reseal, lost>>
  PROVE  SealPart
  BY DEF SealPart, Typed, WorkTyped

\* Nothing but the shielded files and the process moves.
LEMMA RestKept ==
  ASSUME Typed, UNCHANGED <<account, session, ops, chain, pending, reseal, lost>>
  PROVE  RestTyped
  BY SealKept DEF RestTyped, Typed, FilesTyped, WorkTyped, ChainTyped

\* A process forgets its change of passphrase, or takes it a step further with
\* the file it read.
LEMMA SealMoves ==
  ASSUME Typed, NEW p \in Procs, NEW r \in Reseals, ResealOk(r),
         reseal' = [reseal EXCEPT ![p] = r],
         r.file = NoFile \/ r.file = reseal[p].file \/ (r.file = box["app"] /\ UNCHANGED box),
         lost \subseteq lost', "app" \in lost' => "app" \in lost \/ box'["app"].exists
  PROVE  SealPart
  <1>1. reseal \in [Procs -> Reseals] /\ \A q \in Procs : ResealOk(reseal[q])
    BY DEF Typed, WorkTyped
  <1>2. reseal' \in [Procs -> Reseals] /\ \A q \in Procs : reseal'[q] = IF q = p THEN r ELSE reseal[q]
    BY <1>1
  <1>3. QED
    BY <1>1, <1>2 DEF SealPart

\* The buttons that only touch the account and the session.
LEMMA SessionShape ==
  ASSUME Typed, NEW p \in Procs,
         create(p) \/ lock(p) \/ \E pass \in Passes : unlock(p, pass)
  PROVE  Shape(p) /\ RestTyped
  <1>1. /\ UNCHANGED <<work, box, born, leaves, tags>> /\ UNCHANGED <<ops, chain, pending>>
        /\ UNCHANGED <<reseal, lost>>
    BY DEF create, lock, unlock, files, net, hist
  <1>2. account' \in [exists : BOOLEAN, nonce : Nat, seal : Seals]
    <2>1. CASE create(p)
      <3> DEFINE on == TRUE
      <3>1. account' = [exists |-> on, nonce |-> 0, seal |-> encode(p, account)] /\ on \in BOOLEAN
        BY <2>1 DEF create
      <3> HIDE DEF on
      <3>2. encode(p, account) \in Seals
        BY SealsTyped
      <3>3. QED
        BY <3>1, <3>2
    <2>2. CASE UNCHANGED account
      BY <2>2 DEF Typed, FilesTyped
    <2>3. QED
      BY <2>1, <2>2 DEF lock, unlock, files
  <1>3. session' \in [Procs -> Keys]
    BY DEF create, lock, unlock, Typed, WorkTyped, Keys
  <1>4. QED
    BY <1>1, <1>2, <1>3, StaysPut, SealKept DEF RestTyped, Typed, WorkTyped, ChainTyped

\* read_secret_files takes the file to seal again in hand.
LEMMA ReadShape ==
  ASSUME Typed, NEW p \in Procs, NEW pass \in Passes \cup {"none"}, read_secret_files(p, pass)
  PROVE  Shape(p) /\ RestTyped
  <1> DEFINE r == [pc |-> "set", pass |-> pass, old |-> session[p], nonce |-> account.nonce,
                   file |-> box["app"]]
  <1>1. session[p] \in Keys /\ box["app"] \in Files /\ pass \in Keys /\ account.nonce \in Nat
    BY DEF Typed, WorkTyped, FilesTyped, Keys, Clients
  <1>2. r \in Reseals /\ r.file = box["app"] /\ ResealOk(r)
    BY <1>1 DEF Reseals, ResealOk
  <1>3. /\ reseal' = [reseal EXCEPT ![p] = r]
        /\ UNCHANGED <<account, session, ops, chain, pending, lost, work, box, born, leaves, tags>>
    BY DEF read_secret_files, files, net, hist
  <1> HIDE DEF r
  <1>4. SealPart
    BY <1>2, <1>3, SealMoves
  <1>5. QED
    BY <1>3, <1>4, StaysPut DEF RestTyped, Typed, FilesTyped, WorkTyped, ChainTyped

\* protect sets the session.
LEMMA ProtectShape ==
  ASSUME Typed, NEW p \in Procs, protect(p)
  PROVE  Shape(p) /\ RestTyped
  <1> DEFINE o == reseal[p]
             r == [o EXCEPT !.pc = "account"]
  <1>1. o \in Reseals /\ reseal \in [Procs -> Reseals]
    BY DEF Typed, WorkTyped
  <1>2. /\ reseal' = [reseal EXCEPT ![p] = r] /\ session' = [session EXCEPT ![p] = o.pass]
        /\ UNCHANGED <<account, ops, chain, pending, lost, work, box, born, leaves, tags>>
    BY <1>1 DEF protect, files, net, hist
  <1>3. r \in Reseals /\ r.file = o.file /\ ResealOk(r)
    <2> HIDE DEF o
    <2>1. QED
      BY <1>1 DEF Reseals, ResealOk
  <1>4. session' \in [Procs -> Keys]
    BY <1>1, <1>2, ResealFields DEF Typed, WorkTyped
  <1> HIDE DEF r
  <1>5. SealPart
    BY <1>2, <1>3, SealMoves
  <1>6. QED
    BY <1>2, <1>4, <1>5, StaysPut DEF RestTyped, Typed, FilesTyped, WorkTyped, ChainTyped

\* A copy of a file under another seal.
LEMMA Resealed ==
  ASSUME NEW f \in Files, NEW s \in Seals
  PROVE  LET g == [f EXCEPT !.seal = s] IN g \in Files /\ Alike(g, f)
  BY DEF Files, Alike

\* write_secret_files writes the account, then the file it read, or gives the
\* old session back.
LEMMA ResealShape ==
  ASSUME Typed, NEW p \in Procs, write_secret_files(p)
  PROVE  Shape(p) /\ RestTyped
  <1> DEFINE o == reseal[p]
             f == [o.file EXCEPT !.seal = encode(p, o.file)]
  <1>1. o \in Reseals /\ ResealOk(o) /\ o.file \in Files /\ reseal \in [Procs -> Reseals]
        /\ o.nonce \in Nat /\ o.old \in Keys
    BY ResealFields DEF Typed, WorkTyped
  <1>2. UNCHANGED <<work, ops, chain, pending, born, leaves, tags>>
    BY DEF write_secret_files, net
  <1>3. CASE /\ o.pc = "account"
             /\ account' = [account EXCEPT !.nonce = o.nonce, !.seal = encode(p, account)]
             /\ lost' = lost \cup {x \in {"account"} : o.nonce # account.nonce}
             /\ reseal' = [reseal EXCEPT ![p] = IF o.file.exists THEN [o EXCEPT !.pc = "shield"] ELSE NoReseal]
             /\ UNCHANGED <<box, session>>
    <2> DEFINE r == IF o.file.exists THEN [o EXCEPT !.pc = "shield"] ELSE NoReseal
               e == encode(p, account)
    <2>1. r \in Reseals /\ ResealOk(r) /\ (r.file = o.file \/ r.file = NoFile)
      <3>1. CASE o.file.exists
        <4> DEFINE q == [o EXCEPT !.pc = "shield"]
        <4>1. q \in Reseals /\ q.file = o.file
          <5> HIDE DEF o
          <5>1. QED
            BY <1>1 DEF Reseals
        <4>2. QED
          BY <3>1, <4>1 DEF ResealOk
      <3>2. CASE ~o.file.exists
        BY <3>2, IdleWork
      <3>3. QED
        BY <3>1, <3>2
    <2>2. reseal' = [reseal EXCEPT ![p] = r]
      BY <1>3
    <2>3. lost \subseteq lost' /\ ("app" \in lost' => "app" \in lost)
      BY <1>3
    <2>4. e \in Seals /\ account' = [account EXCEPT !.nonce = o.nonce, !.seal = e]
      BY <1>3, SealsTyped
    <2> HIDE DEF r, e, o
    <2>5. SealPart
      BY <2>1, <2>2, <2>3, SealMoves DEF o
    <2>6. account' \in [exists : BOOLEAN, nonce : Nat, seal : Seals]
      BY <1>1, <2>4 DEF Typed, FilesTyped
    <2>7. Shape(p)
      BY <1>2, <1>3, StaysPut
    <2>8. QED
      BY <1>2, <1>3, <2>5, <2>6, <2>7 DEF RestTyped, Typed, WorkTyped, ChainTyped
  <1>4. CASE /\ o.pc = "shield" /\ box' = [box EXCEPT !["app"] = f]
             /\ lost' = lost \cup {x \in {"app"} : o.file.ots # box["app"].ots \/ o.file.tag # box["app"].tag}
             /\ reseal' = [reseal EXCEPT ![p] = NoReseal] /\ UNCHANGED <<account, session>>
    <2>1. f \in Files /\ Alike(f, o.file)
      <3>1. encode(p, o.file) \in Seals
        BY SealsTyped
      <3> HIDE DEF o
      <3>2. QED
        BY <1>1, <3>1, Resealed
    <2>2. o.file.exists
      BY <1>1, <1>4 DEF ResealOk
    <2>3. box' = [box EXCEPT !["app"] = f] /\ "app" \in Clients /\ box \in [Clients -> Files]
      BY <1>4 DEF Typed, FilesTyped, Clients
    <2> HIDE DEF f
    <2>4. Restores(o, f)
      BY <1>2, <1>4, <2>1, <2>2, <2>3 DEF Restores, Alike
    <2>5. work[p] \in Works /\ WorkOk(work[p]) /\ work' = [work EXCEPT ![p] = work[p]]
      BY <1>2 DEF Typed, WorkTyped
    <2>6. Shape(p)
      BY <2>1, <2>4, <2>5 DEF Shape, Does
    <2>7. lost \subseteq lost' /\ box'["app"].exists
      BY <1>4, <2>1, <2>2, <2>3 DEF Alike
    <2>8. SealPart
      BY <1>4, <2>7, IdleWork, SealMoves
    <2>9. QED
      BY <1>2, <1>4, <2>6, <2>8 DEF RestTyped, Typed, FilesTyped, WorkTyped, ChainTyped
  <1>5. CASE /\ session' = [session EXCEPT ![p] = o.old]
             /\ reseal' = [reseal EXCEPT ![p] = NoReseal] /\ UNCHANGED <<account, box, lost>>
    <2>1. SealPart
      BY <1>5, IdleWork, SealMoves
    <2>2. session' \in [Procs -> Keys]
      BY <1>1, <1>5 DEF Typed, WorkTyped
    <2>3. Shape(p)
      BY <1>2, <1>5, StaysPut
    <2>4. QED
      BY <1>2, <1>5, <2>1, <2>2, <2>3 DEF RestTyped, Typed, FilesTyped, WorkTyped, ChainTyped
  <1>6. QED
    BY <1>3, <1>4, <1>5 DEF write_secret_files, files

\* An operation begins with nothing in hand.
LEMMA BeginShape ==
  ASSUME Typed, NEW p \in Procs, NEW c \in Clients \cup {"account"},
         NEW op \in Ops \ {"init"}, NEW a \in Nat, NEW first \in Places, begin(p, c, op, a, first),
         \/ first = "load" /\ c = "app"
         \/ first = "signer" /\ c = "cli"
         \/ first = "check" /\ op = "send" /\ c # "cli"
  PROVE  Shape(p) /\ RestTyped
  <1> DEFINE w == [Idle EXCEPT !.client = c, !.op = op, !.amount = a, !.id = ops', !.pc = first]
  <1>1. ops' = ops + 1 /\ ops' \in Nat /\ UNCHANGED <<account, box, session, chain, pending>>
        /\ UNCHANGED <<born, leaves, tags, reseal, lost>> /\ work' = [work EXCEPT ![p] = w]
    BY DEF begin, files, net, hist, Typed, WorkTyped
  <1>2. /\ w \in Works /\ w.pc = first /\ w.client = c /\ w.op = op /\ w.file = NoFile
    BY <1>1, IdleWork DEF Works
  <1> HIDE DEF w
  <1>3. WorkOk(w)
    BY <1>2, IdleWork DEF WorkOk
  <1>4. Holds(work[p], w)
    BY <1>1, <1>2 DEF Holds
  <1>5. Shape(p)
    BY <1>1, <1>2, <1>3, <1>4 DEF Shape, Does
  <1>6. QED
    BY <1>1, <1>5, SealKept DEF RestTyped, Typed, FilesTyped, WorkTyped, ChainTyped

\* Every button and verb that pays, scans or discloses begins so.
LEMMA BeginsShape ==
  ASSUME Typed, NEW p \in Procs,
         \/ do_scan(p) \/ do_disclose(p)
         \/ \E a \in Amounts : do_send(p, a) \/ do_shield(p, a) \/ do_unshield(p, a) \/ do_pay(p, a)
         \/ verbs(p) /\ ~cli_init(p)
  PROVE  Shape(p) /\ RestTyped
  <1>1. /\ \A x \in {"send", "shield", "unshield", "pay", "scan", "disclose"} : x \in Ops \ {"init"}
        /\ "load" \in Places /\ "signer" \in Places /\ "check" \in Places
        /\ \A c \in {"app", "cli", "account"} : c \in Clients \cup {"account"}
    BY DEF Ops, Places, Clients
  <1>2. \A a \in Amounts \cup {0} : a \in Nat
    BY ConstantsNat
  <1>3. ASSUME NEW a \in Nat, NEW op \in Ops \ {"init"},
               begin(p, "app", op, a, "load")
        PROVE  Shape(p) /\ RestTyped
    <2>1. op \in Ops \ {"init"} /\ a \in Nat /\ "app" \in Clients \cup {"account"}
      BY <1>1, <1>2
    <2>2. SUFFICES ASSUME NEW c, NEW first, c = "app", first = "load"
                   PROVE  Shape(p) /\ RestTyped
      OBVIOUS
    <2>3. first \in Places /\ c \in Clients \cup {"account"} /\ begin(p, c, op, a, first)
      BY <1>1, <1>3, <2>1, <2>2
    <2>4. QED
      BY <2>1, <2>2, <2>3, BeginShape
  <1>4. ASSUME NEW a \in Amounts, NEW op \in {"send", "shield", "unshield", "pay"},
               begin(p, "cli", op, a, "signer")
        PROVE  Shape(p) /\ RestTyped
    <2>1. op \in Ops \ {"init"} /\ a \in Nat /\ "cli" \in Clients \cup {"account"}
      BY <1>1, <1>2
    <2>2. SUFFICES ASSUME NEW c, NEW first, c = "cli", first = "signer"
                   PROVE  Shape(p) /\ RestTyped
      OBVIOUS
    <2>3. first \in Places /\ c \in Clients \cup {"account"} /\ begin(p, c, op, a, first)
      BY <1>1, <1>4, <2>1, <2>2
    <2>4. QED
      BY <2>1, <2>2, <2>3, BeginShape
  <1>5. ASSUME NEW a \in Amounts, NEW c \in {"app", "account"}, begin(p, c, "send", a, "check")
        PROVE  Shape(p) /\ RestTyped
    <2>1. /\ "send" \in Ops \ {"init"} /\ a \in Nat /\ c \in Clients \cup {"account"}
          /\ c # "cli"
      BY <1>1, <1>2
    <2>2. SUFFICES ASSUME NEW first, NEW op, first = "check", op = "send"
                   PROVE  Shape(p) /\ RestTyped
      OBVIOUS
    <2>3. first \in Places /\ op \in Ops \ {"init"} /\ begin(p, c, op, a, first)
      BY <1>1, <1>5, <2>1, <2>2
    <2>4. QED
      BY <2>1, <2>2, <2>3, BeginShape
  <1>6. CASE do_scan(p) \/ do_disclose(p)
    BY <1>1, <1>2, <1>3, <1>6 DEF do_scan, do_disclose
  <1>7. ASSUME NEW a \in Amounts, do_send(p, a) \/ do_shield(p, a) \/ do_unshield(p, a) \/ do_pay(p, a)
        PROVE  Shape(p) /\ RestTyped
    BY <1>1, <1>2, <1>3, <1>5, <1>7 DEF do_send, do_shield, do_unshield, do_pay
  <1>8. CASE verbs(p) /\ ~cli_init(p)
    BY <1>4, <1>5, <1>8 DEF verbs, sign_submit, cli_transfer, cli_shield, cli_unshield, cli_pay
  <1>9. QED
    BY <1>6, <1>7, <1>8

\* `wallet init` is about to make a file that is not there.
LEMMA InitShape ==
  ASSUME Typed, NEW p \in Procs, cli_init(p)
  PROVE  Shape(p) /\ RestTyped
  <1> DEFINE w == [Idle EXCEPT !.client = "cli", !.op = "init", !.pc = "create"]
  <1>1. /\ work' = [work EXCEPT ![p] = w] /\ ~box["cli"].exists
        /\ UNCHANGED <<account, session, ops, chain, pending, reseal, lost, box, born, leaves, tags>>
    BY DEF cli_init, files, net, hist
  <1>2. w \in Works /\ w.pc = "create" /\ w.client = "cli" /\ w.file = NoFile /\ w.op = "init"
    BY IdleWork DEF Works, Places, Clients, Ops
  <1> HIDE DEF w
  <1>3. WorkOk(w)
    BY <1>2, IdleWork DEF WorkOk, Clients
  <1>4. Holds(work[p], w)
    BY <1>1, <1>2 DEF Holds
  <1>5. QED
    BY <1>1, <1>2, <1>3, <1>4, RestKept DEF Shape, Does

\* A new shielded file.
Fresh(m, s) == [NoFile EXCEPT !.exists = TRUE, !.master = m, !.seal = s]

\* It is a file, and its cache is empty.
LEMMA NewFile ==
  ASSUME NEW m \in Nat, NEW s \in Seals
  PROVE  /\ Fresh(m, s) \in Files /\ Fresh(m, s).exists /\ Fresh(m, s).master = m
         /\ Fresh(m, s).scan = EmptyCache
  <1> DEFINE on == TRUE
             g == [NoFile EXCEPT !.exists = on, !.master = m, !.seal = s]
  <1>1. on \in BOOLEAN /\ NoFile \in Files /\ NoFile.scan = EmptyCache /\ Fresh(m, s) = g
    BY IdleWork DEF NoFile, Fresh
  <1> HIDE DEF on
  <1>2. g \in Files
    BY <1>1 DEF Files
  <1>3. g.exists = on /\ g.master = m /\ g.scan = NoFile.scan
    BY <1>1 DEF Files
  <1>4. QED
    BY <1>1, <1>2, <1>3 DEF on

\* load_or_create_shield takes the app's file in hand, or goes on to make it.
LEMMA LoadShape ==
  ASSUME Typed, NEW p \in Procs, load_or_create_shield(p)
  PROVE  Shape(p) /\ RestTyped
  <1> DEFINE o == work[p]
  <1>1. /\ o \in Works /\ WorkOk(o) /\ o.pc = "load" /\ o.client = "app" /\ "app" \in Clients
        /\ box \in [Clients -> Files] /\ work \in [Procs -> Works] /\ o.nonce \in Int /\ o.op # "init"
    BY WorkFields DEF Typed, FilesTyped, WorkTyped, WorkOk, load_or_create_shield, Clients
  <1>2. RestTyped /\ UNCHANGED <<box, born, leaves, tags>>
    BY RestKept DEF load_or_create_shield, net, files, hist
  <1>3. CASE /\ can_load(p, "app", box["app"])
             /\ work' = [work EXCEPT ![p].file = box["app"], ![p].pc = "check"]
    <2> DEFINE v == [o EXCEPT !.file = box["app"], !.pc = "check"]
    <2>1. work' = [work EXCEPT ![p] = v]
      BY <1>1, <1>3
    <2>2. box["app"] \in Files /\ box["app"].exists
      BY <1>1, <1>3 DEF can_load
    <2>v. v = [o EXCEPT !.file = box["app"], !.pc = "check"]
      OBVIOUS
    <2> HIDE DEF v, o
    <2>3. /\ v \in Works /\ v.pc = "check" /\ v.client = o.client /\ v.file = box["app"] /\ v.op = o.op
      BY <1>1, <2>2, <2>v DEF Works, Places
    <2> USE DEF o
    <2>4. WorkOk(v)
      BY <1>1, <2>2, <2>3 DEF WorkOk
    <2>5. Holds(o, v)
      BY <1>1, <1>2, <1>3, <2>3 DEF Holds
    <2>6. QED
      BY <1>2, <2>1, <2>3, <2>4, <2>5 DEF Shape, Does
  <1>4. CASE ~box["app"].exists /\ step(p, "create")
    <2>1. PICK l \in Places : l = "create"
      BY DEF Places
    <2>2. WorkOk([o EXCEPT !.pc = l])
      <3> DEFINE v == [o EXCEPT !.pc = l]
      <3>1. v.pc = l /\ v.client = o.client /\ v.op = o.op /\ v.file = o.file
        BY <1>1, StepFields
      <3> HIDE DEF v
      <3>2. WorkOk(v)
        BY <1>1, <2>1, <3>1 DEF WorkOk
      <3>3. QED
        BY <3>2 DEF v
    <2>3. QED
      BY <1>1, <1>2, <1>4, <2>1, <2>2, GoesOn
  <1>5. CASE fail(p)
    BY <1>2, <1>5, GoesOn DEF Places
  <1>6. QED
    BY <1>3, <1>4, <1>5 DEF load_or_create_shield

\* create_master writes a file with a new master.
LEMMA CreateShape ==
  ASSUME Typed, NEW p \in Procs, create_master(p)
  PROVE  Shape(p) /\ RestTyped
  <1> DEFINE o == work[p]
             c == o.client
  <1>1. /\ o \in Works /\ WorkOk(o) /\ o.pc = "create" /\ c \in Clients
        /\ box \in [Clients -> Files] /\ work \in [Procs -> Works]
        /\ born' = born + 1 /\ born' \in Nat
    BY DEF Typed, FilesTyped, WorkTyped, WorkOk, create_master
  <1>2. RestTyped /\ UNCHANGED <<leaves, tags>>
    BY RestKept DEF create_master, net
  <1>3. PICK s \in (IF c = "app" THEN {encode(p, box[c])} ELSE {"plain"} \cup (IF Sealing THEN Passes ELSE {})) :
          box' = [box EXCEPT ![c] = [NoFile EXCEPT !.exists = TRUE, !.master = born', !.seal = s]]
    BY DEF create_master
  <1> DEFINE f == [NoFile EXCEPT !.exists = TRUE, !.master = born', !.seal = s]
             v == [o EXCEPT !.file = f, !.pc = "check"]
             w == IF c = "app" THEN v ELSE Idle
  <1>4. s \in Seals
    <2>1. encode(p, box[c]) \in Seals
      BY SealsTyped
    <2>2. QED
      BY <2>1 DEF Seals
  <1>5. box' = [box EXCEPT ![c] = f] /\ f = Fresh(born', s)
    BY <1>3 DEF Fresh
  <1> HIDE DEF f
  <1>6. f \in Files /\ f.exists /\ f.master = born + 1 /\ f.scan = EmptyCache
    BY <1>1, <1>4, <1>5, NewFile
  <1>7. box'[c] = f
    BY <1>1, <1>5
  <1>8. work' = [work EXCEPT ![p] = w]
    <2>1. work' = [work EXCEPT ![p] = IF c = "app" THEN [work[p] EXCEPT !.file = box'[c], !.pc = "check"] ELSE Idle]
      BY DEF create_master
    <2>2. QED
      BY <1>7, <2>1
  <1>v. v = [o EXCEPT !.file = f, !.pc = "check"]
    OBVIOUS
  <1> HIDE DEF v
  <1>9. v \in Works /\ v.pc = "check" /\ v.client = c /\ v.file = f /\ v.op = o.op
    <2>1. o \in Works /\ v = [o EXCEPT !.file = f, !.pc = "check"]
      BY <1>1, <1>v
    <2>2. c = o.client
      OBVIOUS
    <2> HIDE DEF o, c
    <2>3. QED
      BY <1>6, <2>1, <2>2 DEF Works, Places
  <1>10. c = "app" => WorkOk(v)
    BY <1>1, <1>6, <1>9 DEF WorkOk, Clients
  <1>11. /\ w \in Works /\ WorkOk(w) /\ w.pc # "create"
         /\ w.file = NoFile \/ (w.client = c /\ w.file = f)
    BY <1>9, <1>10, IdleWork
  <1> HIDE DEF w
  <1>12. Makes(o, f, w)
    BY <1>1, <1>2, <1>5, <1>6, <1>11 DEF Makes
  <1>13. QED
    BY <1>2, <1>6, <1>8, <1>11, <1>12 DEF Shape, Does

\* cli_signer takes the command line's file and the nonce.
LEMMA SignerShape ==
  ASSUME Typed, NEW p \in Procs, cli_signer(p)
  PROVE  Shape(p) /\ RestTyped
  <1> DEFINE o == work[p]
             n == IF account.nonce > chain.nonce THEN account.nonce ELSE chain.nonce
             f == box["cli"]
             v == [o EXCEPT !.file = f, !.pc = "check", !.nonce = n]
  <1>1. /\ o \in Works /\ WorkOk(o) /\ o.pc = "signer" /\ o.client = "cli" /\ "cli" \in Clients
        /\ work \in [Procs -> Works]
    BY DEF Typed, WorkTyped, WorkOk, cli_signer, Clients
  <1>2. RestTyped /\ UNCHANGED <<box, born, leaves, tags>>
    BY RestKept DEF cli_signer, net, files, hist
  <1>3. n \in Nat /\ f \in Files
    BY <1>1 DEF Typed, FilesTyped, ChainTyped, Chains
  <1>4. CASE f.exists /\ work' = [work EXCEPT ![p].file = f, ![p].pc = "check", ![p].nonce = n]
    <2>1. work' = [work EXCEPT ![p] = v]
      BY <1>1, <1>4
    <2>2. v = [o EXCEPT !.file = f, !.pc = "check", !.nonce = n]
      OBVIOUS
    <2>5. f = box["cli"]
      OBVIOUS
    <2> HIDE DEF v, n, o, f
    <2>n. n \in Int /\ "check" \in Places
      BY <1>3 DEF Places
    <2>3. v \in Works /\ v.pc = "check" /\ v.client = o.client /\ v.nonce = n /\ v.file = f /\ v.op = o.op
      <3>1. v \in Works
        BY <1>1, <1>3, <2>n, <2>2 DEF Works
      <3>2. QED
        BY <1>1, <2>2, <3>1 DEF Works
    <2>4. WorkOk(v)
      BY <1>1, <1>3, <1>4, <2>3 DEF WorkOk
    <2> USE DEF o
    <2>6. Holds(o, v)
      BY <1>1, <1>2, <2>3, <2>5 DEF Holds
    <2>7. QED
      BY <1>2, <2>1, <2>3, <2>4, <2>6 DEF Shape, Does
  <1>5. CASE fail(p)
    BY <1>2, <1>5, GoesOn DEF Places
  <1>6. QED
    BY <1>4, <1>5 DEF cli_signer

\* Where a process may go on to without learning anything new.
LEMMA Onward ==
  ASSUME Typed, NEW p \in Procs, NEW l \in Places,
         \/ work[p].pc = "check" /\ l \in {"nonce", "scan", "tag"}
         \/ work[p].pc = "prove" /\ l = "nonce"
         \/ work[p].pc = "nonce" /\ l = "reserve" /\ work[p].client = "cli"
         \/ work[p].pc = "reserve" /\ l = "submit"
         \/ work[p].pc = "submit" /\ l = "poll",
         l \in {"scan", "tag"} => work[p].op # "send"
  PROVE  WorkOk([work[p] EXCEPT !.pc = l])
  <1> DEFINE o == work[p]
             v == [o EXCEPT !.pc = l]
  <1>1. o \in Works /\ WorkOk(o)
    BY DEF Typed, WorkTyped
  <1>2. /\ v.pc = l /\ v.client = o.client /\ v.op = o.op /\ v.file = o.file /\ v.nonce = o.nonce
        /\ v.note = o.note
    BY <1>1 DEF Works
  <1> HIDE DEF v
  <1>3. WorkOk(v)
    BY <1>1, <1>2 DEF WorkOk
  <1>4. QED
    BY <1>3 DEF v

\* A query, a save or the prover fails.
LEMMA ErrorShape ==
  ASSUME Typed, NEW p \in Procs, op_error(p)
  PROVE  Shape(p) /\ RestTyped
  <1>1. RestTyped /\ UNCHANGED <<box, born, leaves, tags>> /\ fail(p)
    BY RestKept DEF op_error, net, files, hist
  <1>2. QED
    BY <1>1, GoesOn DEF Places

\* require_fee and the prover go on or give up.
LEMMA CheckShape ==
  ASSUME Typed, NEW p \in Procs, require_fee(p) \/ prove(p)
  PROVE  Shape(p) /\ RestTyped
  <1>1. RestTyped /\ UNCHANGED <<box, born, leaves, tags>>
    BY RestKept DEF require_fee, prove, net, files, hist
  <1>2. CASE require_fee(p)
    <2> DEFINE l == CASE work[p].op = "send" -> "nonce" [] work[p].op = "shield" -> "tag"
                      [] OTHER -> "scan"
    <2>1. work[p].pc = "check" /\ (step(p, l) \/ fail(p))
      BY <1>2 DEF require_fee
    <2>2. /\ l \in {"nonce", "scan", "tag"} /\ l \in Places
          /\ l \in {"scan", "tag"} => work[p].op # "send"
      BY DEF Places
    <2> HIDE DEF l
    <2>3. WorkOk([work[p] EXCEPT !.pc = l])
      BY <2>1, <2>2, Onward
    <2>4. QED
      BY <1>1, <2>1, <2>2, <2>3, GoesOn
  <1>3. CASE prove(p)
    <2> DEFINE l == "nonce"
    <2>1. work[p].pc = "prove" /\ (step(p, l) \/ fail(p))
      BY <1>3 DEF prove
    <2>2. l \in Places /\ l = "nonce" /\ l \notin {"scan", "tag"}
      BY DEF Places
    <2> HIDE DEF l
    <2>3. WorkOk([work[p] EXCEPT !.pc = l])
      BY <2>1, <2>2, Onward
    <2>4. QED
      BY <1>1, <2>1, <2>2, <2>3, GoesOn
  <1>4. QED
    BY <1>2, <1>3

\* sync_nonce learns the chain's nonce, unless the command line has one.
LEMMA SyncShape ==
  ASSUME Typed, NEW p \in Procs, sync_nonce(p)
  PROVE  Shape(p) /\ RestTyped
  <1> DEFINE o == work[p]
             l == "reserve"
             n == chain.nonce
             v == [o EXCEPT !.nonce = n, !.pc = l]
  <1>1. /\ o \in Works /\ WorkOk(o) /\ o.pc = "nonce" /\ work \in [Procs -> Works]
        /\ n \in Nat /\ n \in Int
    BY DEF Typed, WorkTyped, ChainTyped, Chains, sync_nonce
  <1>2. RestTyped /\ UNCHANGED <<box, born, leaves, tags>>
    BY RestKept DEF sync_nonce, net, files, hist
  <1>l. l \in Places /\ l = "reserve" /\ l \notin {"scan", "tag"}
    BY DEF Places
  <1>3. CASE o.client = "cli" /\ step(p, l)
    <2> HIDE DEF l
    <2>1. WorkOk([work[p] EXCEPT !.pc = l])
      BY <1>1, <1>l, <1>3, Onward
    <2>2. QED
      BY <1>2, <1>3, <1>l, <2>1, GoesOn
  <1>4. CASE work' = [work EXCEPT ![p].nonce = chain.nonce, ![p].pc = l]
    <2>1. work' = [work EXCEPT ![p] = v]
      BY <1>1, <1>4
    <2>2. v = [o EXCEPT !.nonce = n, !.pc = l]
      OBVIOUS
    <2> HIDE DEF v, o, l, n
    <2>3. /\ v \in Works /\ v.pc = l /\ v.client = o.client /\ v.nonce = n
          /\ v.file = o.file /\ v.op = o.op /\ v.note = o.note
      <3>1. v \in Works
        BY <1>1, <1>l, <2>2 DEF Works
      <3>2. QED
        BY <1>1, <2>2, <3>1 DEF Works
    <2>4. WorkOk(v)
      BY <1>1, <1>l, <2>3 DEF WorkOk
    <2>5. Holds(o, v)
      BY <1>2, <1>l, <2>3 DEF Holds
    <2> USE DEF o
    <2>6. QED
      BY <1>2, <2>1, <2>3, <2>4, <2>5 DEF Shape, Does
  <1>5. CASE fail(p)
    BY <1>2, <1>5, GoesOn DEF Places
  <1>6. QED
    BY <1>3, <1>4, <1>5 DEF sync_nonce

\* A saved index and its seal are typed.
LEMMA SaveNonceTyped ==
  ASSUME Typed, NEW p \in Procs, NEW n \in Nat, save_nonce(p, n)
  PROVE  account' \in [exists : BOOLEAN, nonce : Nat, seal : Seals]
  <1> DEFINE s == sealed_by(p, work[p].client, account)
  <1>1. s \in Seals
    BY SealsTyped
  <1>2. account' = [account EXCEPT !.nonce = n, !.seal = s]
    BY DEF save_nonce
  <1> HIDE DEF s
  <1>3. QED
    BY <1>1, <1>2 DEF Typed, FilesTyped

\* reserve_nonce writes the account file and goes on to sign.
LEMMA ReserveShape ==
  ASSUME Typed, NEW p \in Procs, reserve_nonce(p)
  PROVE  Shape(p) /\ RestTyped
  <1> DEFINE l == "submit"
  <1>1. work[p] \in Works /\ WorkOk(work[p]) /\ work[p].pc = "reserve" /\ work[p].nonce \in Nat
    BY DEF Typed, WorkTyped, WorkOk, reserve_nonce
  <1>2. /\ UNCHANGED <<box, born, leaves, tags, session, chain, pending, ops, reseal, lost>>
        /\ step(p, l) \/ fail(p)
    BY DEF reserve_nonce, net, hist
  <1>3. account' \in [exists : BOOLEAN, nonce : Nat, seal : Seals]
    <2>1. CASE UNCHANGED account
      BY <2>1 DEF Typed, FilesTyped
    <2>2. CASE save_nonce(p, work[p].nonce + 1)
      <3>1. work[p].nonce + 1 \in Nat
        BY <1>1
      <3>2. QED
        BY <2>2, <3>1, SaveNonceTyped
    <2>3. QED
      BY <2>1, <2>2 DEF reserve_nonce
  <1>l. l \in Places /\ l = "submit" /\ l \notin {"scan", "tag"}
    BY DEF Places
  <1> HIDE DEF l
  <1>4. WorkOk([work[p] EXCEPT !.pc = l])
    BY <1>1, <1>l, Onward
  <1>5. Shape(p)
    BY <1>2, <1>l, <1>4, GoesOn
  <1>6. QED
    BY <1>2, <1>3, <1>5, SealKept DEF RestTyped, Typed, WorkTyped, ChainTyped

\* rollback saves the nonce, or leaves the account as it is.
LEMMA RollbackTyped ==
  ASSUME Typed, NEW p \in Procs, work[p].nonce \in Nat,
         UNCHANGED account \/ \E n : rollback(p, n)
  PROVE  account' \in [exists : BOOLEAN, nonce : Nat, seal : Seals]
  <1>1. CASE UNCHANGED account
    BY <1>1 DEF Typed, FilesTyped
  <1>2. CASE save_nonce(p, work[p].nonce)
    BY <1>2, SaveNonceTyped
  <1>3. QED
    BY <1>1, <1>2 DEF rollback

\* submit queues a transaction of the process's, or puts the index back.
LEMMA SubmitShape ==
  ASSUME Typed, NEW p \in Procs, submit(p)
  PROVE  Shape(p) /\ RestTyped
  <1> DEFINE w == work[p]
             l == "poll"
             t == signed(w)
  <1>1. w \in Works /\ WorkOk(w) /\ w.pc = "submit" /\ w.nonce \in Nat
    BY DEF Typed, WorkTyped, WorkOk, submit
  <1>2. t \in Txs
    <2>1. /\ w.op \in Ops /\ w.amount \in Nat /\ w.note \in Founds /\ w.tag \in Nat /\ w.id \in Nat
          /\ w.file.master \in Nat
      BY <1>1, WorkFields DEF Files
    <2> HIDE DEF w
    <2>2. QED
      BY <1>1, <2>1 DEF Txs, signed
  <1>3. UNCHANGED <<box, born, leaves, tags, session, chain, ops, reseal, lost>>
    BY DEF submit
  <1>4. /\ step(p, l) \/ fail(p)
        /\ pending' = pending \cup {t} \/ UNCHANGED pending
        /\ UNCHANGED account \/ \E n : rollback(p, n)
    BY DEF submit
  <1>5. account' \in [exists : BOOLEAN, nonce : Nat, seal : Seals]
    BY <1>1, <1>4, RollbackTyped
  <1>l. l \in Places /\ l = "poll" /\ l \notin {"scan", "tag"}
    BY DEF Places
  <1> HIDE DEF l, t
  <1>6. WorkOk([work[p] EXCEPT !.pc = l])
    BY <1>1, <1>l, Onward
  <1>7. Shape(p)
    BY <1>3, <1>4, <1>l, <1>6, GoesOn
  <1>8. pending' \subseteq Txs
    BY <1>2, <1>4 DEF Typed, ChainTyped
  <1>9. QED
    BY <1>3, <1>5, <1>7, <1>8, SealKept DEF RestTyped, Typed, WorkTyped

\* poll ends the operation and may put the index back.
LEMMA PollShape ==
  ASSUME Typed, NEW p \in Procs, poll(p)
  PROVE  Shape(p) /\ RestTyped
  <1>1. work[p] \in Works /\ WorkOk(work[p]) /\ work[p].pc = "poll" /\ work[p].nonce \in Nat
    BY DEF Typed, WorkTyped, WorkOk, poll
  <1>2. UNCHANGED <<box, born, leaves, tags, session, chain, ops, pending, reseal, lost>> /\ fail(p)
    BY DEF poll, net
  <1>3. account' \in [exists : BOOLEAN, nonce : Nat, seal : Seals]
    <2>1. UNCHANGED account \/ \E n : rollback(p, n)
      BY DEF poll
    <2>2. QED
      BY <1>1, <2>1, RollbackTyped
  <1>4. Shape(p)
    BY <1>2, GoesOn DEF Places
  <1>5. QED
    BY <1>2, <1>3, <1>4, SealKept DEF RestTyped, Typed, WorkTyped, ChainTyped

\* What is in a file.
LEMMA FileFields ==
  ASSUME NEW f \in Files
  PROVE  /\ f.exists \in BOOLEAN /\ f.master \in Nat /\ f.ots \in 0..OTS_CAPACITY /\ f.tag \in Nat
         /\ f.seal \in Seals /\ f.scan \in Caches
  BY DEF Files

\* What is in a cache.
LEMMA CacheFields ==
  ASSUME NEW s \in Caches
  PROVE  /\ s.chain_id \in Int /\ s.through \in Nat /\ s.era \in Nat /\ s.notes \subseteq Founds
         /\ \A n \in s.notes : n.at \in 1..s.through
         /\ s.spent \subseteq s.notes
  BY DEF Caches

\* A cache is made of its parts.
LEMMA CacheMade ==
  ASSUME NEW id \in Int, NEW th \in Nat, NEW n, NEW sp, NEW e \in Nat,
         n \subseteq Founds, \A x \in n : x.at \in 1..th, sp \subseteq n
  PROVE  [chain_id |-> id, through |-> th, notes |-> n, spent |-> sp, era |-> e] \in Caches
  <1>1. n \in SUBSET Founds /\ sp \in SUBSET Founds
    OBVIOUS
  <1>2. QED
    BY <1>1 DEF Caches

\* What a scan finds at a place.
LEMMA FoundTyped ==
  ASSUME Typed, NEW i \in 1..Len(chain.pool)
  PROVE  /\ found(i) \in Founds /\ found(i).at = i /\ found(i).era = chain.era
         /\ found(i) = FoundIn(chain, i)
  <1>1. chain.pool \in Seq(Notes) /\ chain.era \in Nat
    BY DEF Typed, ChainTyped, Chains
  <1>2. chain.pool[i] \in Notes /\ i \in Nat
    BY <1>1
  <1>3. chain.pool[i].value \in Int
    BY <1>2 DEF Notes
  <1>4. QED
    BY <1>1, <1>2, <1>3 DEF found, FoundIn, Founds

\* my_notes from a file whose cache agrees with the chain leaves one that does.
LEMMA MyNotes ==
  ASSUME Typed, NEW f \in Files, NEW id \in Int, id = chain.id \/ id = -1, NEW missed
  PROVE  /\ my_notes(f, id, missed) \in Caches
         /\ Agrees(f.scan, f.master) => Agrees(my_notes(f, id, missed), f.master)
  <1> DEFINE total == Len(chain.pool)
             old == IF f.scan.chain_id # id \/ total < f.scan.through THEN EmptyCache ELSE f.scan
             mine == {j \in old.through + 1..total : chain.pool[j].owner = f.master}
             new == {found(i) : i \in mine}
             notes == old.notes \cup new
             spent == old.spent \cup {n \in notes : n.era = chain.era /\ n.at \in chain.spent \ missed}
             era == IF f.scan.chain_id = id /\ f.scan.through \in 1..total THEN f.scan.era ELSE chain.era
             th == IF total > old.through THEN total ELSE old.through
  <1>1. my_notes(f, id, missed)
          = [chain_id |-> id, through |-> th, notes |-> notes, spent |-> spent, era |-> era]
    BY DEF my_notes, scanned
  <1>2. chain.pool \in Seq(Notes) /\ chain.id \in Nat /\ total \in Nat /\ chain.era \in Nat
    BY DEF Typed, ChainTyped, Chains
  <1>3. f.scan \in Caches /\ EmptyCache \in Caches
    BY IdleWork, FileFields
  <1>e. EmptyCache.through = 0 /\ EmptyCache.notes = {} /\ EmptyCache.spent = {}
    BY DEF EmptyCache
  <1>4. old \in Caches /\ old.through <= total /\ f.scan.through \in Nat /\ f.scan.era \in Nat
    <2>1. f.scan.through \in Nat /\ f.scan.era \in Nat
      BY <1>3, CacheFields
    <2>2. QED
      BY <1>2, <1>3, <1>e, <2>1
  <1>5. \/ old.through = 0 /\ old.notes = {} /\ old.spent = {}
        \/ old = f.scan /\ f.scan.chain_id = id /\ f.scan.through \in 1..total
    <2>1. CASE f.scan.chain_id # id \/ total < f.scan.through
      BY <1>e, <2>1
    <2>2. CASE ~(f.scan.chain_id # id \/ total < f.scan.through)
      <3>1. old = f.scan
        BY <2>2
      <3>2. f.scan.through = 0 => f.scan.notes = {} /\ f.scan.spent = {}
        BY <1>3, CacheFields
      <3>3. QED
        BY <1>2, <1>4, <2>2, <3>1, <3>2
    <2>3. QED
      BY <2>1, <2>2
  <1>a. era \in Nat /\ (old.through > 0 => era = old.era /\ old = f.scan) /\ (era = chain.era \/ era = f.scan.era)
    <2>1. old.through > 0 => old = f.scan /\ f.scan.chain_id = id /\ f.scan.through \in 1..total
      BY <1>5
    <2> HIDE DEF old
    <2>2. QED
      BY <1>2, <1>4, <2>1
  <1> HIDE DEF old, total, era
  <1>6. /\ old.through \in Nat /\ old.notes \subseteq Founds /\ old.spent \subseteq old.notes
        /\ \A n \in old.notes : n.at \in 1..old.through
    BY <1>4, CacheFields
  <1>t. th = total
    BY <1>2, <1>4, <1>6
  <1>m. \A i \in mine : /\ i \in 1..total /\ found(i) \in Founds /\ found(i).at = i
                        /\ found(i).era = chain.era /\ found(i) = FoundIn(chain, i)
    BY <1>2, <1>6, FoundTyped DEF total
  <1>7. /\ notes \subseteq Founds /\ spent \subseteq notes
        /\ \A n \in notes : n.at \in 1..total
    <2>1. new \subseteq Founds /\ \A n \in new : n.at \in 1..total
      BY <1>m
    <2>2. \A n \in old.notes : n.at \in 1..total
      BY <1>2, <1>4, <1>6
    <2> HIDE DEF new
    <2>3. QED
      BY <1>6, <2>1, <2>2
  <1>8. ASSUME Agrees(f.scan, f.master), id = chain.id, era = chain.era
        PROVE  /\ notes = {FoundIn(chain, i) : i \in {j \in 1..total : chain.pool[j].owner = f.master}}
               /\ \A n \in spent : n.at \in chain.spent
    <2>1. /\ old.notes = {FoundIn(chain, i) : i \in {j \in 1..old.through : chain.pool[j].owner = f.master}}
          /\ \A n \in old.spent : n.at \in chain.spent
      <3>1. CASE old.through = 0 /\ old.notes = {} /\ old.spent = {}
        BY <3>1
      <3>2. CASE old = f.scan /\ f.scan.chain_id = id /\ f.scan.through \in 1..total
        <4>1. f.scan.era = chain.era
          BY <1>8, <1>a, <1>4, <3>2
        <4>2. QED
          BY <1>8, <3>2, <4>1 DEF Agrees, AgreesWith
      <3>3. QED
        BY <1>5, <3>1, <3>2
    <2>2. 1..total = (1..old.through) \cup (old.through + 1..total)
      BY <1>2, <1>4, <1>6
    <2>3. new = {FoundIn(chain, i) : i \in mine}
      BY <1>m
    <2>4. {j \in 1..total : chain.pool[j].owner = f.master}
            = {j \in 1..old.through : chain.pool[j].owner = f.master} \cup mine
      BY <2>2
    <2> DEFINE L == {j \in 1..old.through : chain.pool[j].owner = f.master}
               A == {j \in 1..total : chain.pool[j].owner = f.master}
    <2>5. old.notes = {FoundIn(chain, i) : i \in L} /\ A = L \cup mine
      BY <2>1, <2>4
    <2> HIDE DEF L, A, mine, new
    <2>6. old.notes \cup new = {FoundIn(chain, i) : i \in A}
      BY <2>3, <2>5
    <2>7. \A n \in spent : n.at \in chain.spent
      BY <2>1
    <2>8. QED
      BY <2>6, <2>7 DEF A
  <1> HIDE DEF notes, spent, th
  <1>9. my_notes(f, id, missed) \in Caches
    BY <1>1, <1>2, <1>7, <1>a, <1>t, CacheMade
  <1>10. /\ my_notes(f, id, missed).chain_id = id /\ my_notes(f, id, missed).through = total
         /\ my_notes(f, id, missed).notes = notes /\ my_notes(f, id, missed).spent = spent
         /\ my_notes(f, id, missed).era = era
    BY <1>1, <1>t
  <1>11. ASSUME Agrees(f.scan, f.master) PROVE Agrees(my_notes(f, id, missed), f.master)
    <2>1. era <= chain.era
      BY <1>2, <1>a, <1>11 DEF Agrees, AgreesWith
    <2>2. total <= Len(chain.pool)
      BY <1>2 DEF total
    <2>3. QED
      BY <1>8, <1>10, <1>11, <2>1, <2>2 DEF Agrees, AgreesWith
  <1>12. QED
    BY <1>9, <1>11

\* scan saves a cache that agrees with the chain and picks one of its notes.
LEMMA ScanShape ==
  ASSUME Typed, ScanInv, NEW p \in Procs, scan(p)
  PROVE  Shape(p) /\ RestTyped
  <1> DEFINE o == work[p]
             from == IF o.client = "app" THEN o.file ELSE [o.file EXCEPT !.scan = EmptyCache]
  <1>1. /\ o \in Works /\ WorkOk(o) /\ o.pc = "scan" /\ work \in [Procs -> Works] /\ o.file.exists
        /\ o.file \in Files /\ Complete(o.file) /\ o.client \in Clients /\ o.op # "init"
    BY WorkFields DEF Typed, WorkTyped, ScanInv, WorkOk, scan
  <1>2. RestTyped /\ UNCHANGED <<born, leaves, tags>>
    BY RestKept DEF scan, net, hist
  <1>3. PICK id \in {chain.id} \cup (IF o.client = "app" THEN {-1} ELSE {}), missed \in SUBSET chain.spent :
          LET s == my_notes(from, id, missed)
              kept == IF o.client = "app" THEN [o.file EXCEPT !.scan = s] ELSE o.file IN
          /\ IF kept # o.file THEN save_file(p, kept) ELSE UNCHANGED box
          /\ IF o.op \in SpendOps /\ pick_note(s, o.amount) # {}
             THEN \E n \in pick_note(s, o.amount) :
                    work' = [work EXCEPT ![p].note = n, ![p].file = kept, ![p].pc = "tag"]
             ELSE fail(p)
    BY DEF scan
  <1> DEFINE s == my_notes(from, id, missed)
             kept == IF o.client = "app" THEN [o.file EXCEPT !.scan = s] ELSE o.file
             e == sealed_by(p, o.client, box[o.client])
             f == [kept EXCEPT !.seal = e]
  <1>4. id \in Int /\ (id = chain.id \/ id = -1)
    <2>1. chain.id \in Int /\ -1 \in Int
      BY DEF Typed, ChainTyped, Chains
    <2>2. id = chain.id \/ id = -1
      OBVIOUS
    <2>3. QED
      BY <2>1, <2>2
  <1>5. from \in Files /\ (o.client = "app" => from = o.file)
    <2> HIDE DEF o
    <2>1. QED
      BY <1>1, IdleWork DEF Files
  <1>6. s \in Caches /\ (o.client = "app" => Agrees(s, o.file.master))
    <2> HIDE DEF from
    <2>1. QED
      BY <1>1, <1>4, <1>5, MyNotes DEF Complete
  <1>7. e \in Seals
    <2>1. box[o.client].seal \in Seals
      BY <1>1, FileFields DEF Typed, FilesTyped
    <2>2. QED
      BY <2>1, SealsTyped
  <1>8. /\ IF kept # o.file THEN box' = [box EXCEPT ![o.client] = f] ELSE UNCHANGED box
        /\ \/ \E n \in pick_note(s, o.amount) :
                    work' = [work EXCEPT ![p].note = n, ![p].file = kept, ![p].pc = "tag"]
           \/ fail(p)
    BY <1>3 DEF save_file
  <1> HIDE DEF s, e, from
  <1>9. /\ kept \in Files /\ kept.exists = o.file.exists /\ kept.master = o.file.master
        /\ kept.ots = o.file.ots /\ kept.tag = o.file.tag
        /\ kept.scan = (IF o.client = "app" THEN s ELSE o.file.scan)
    <2> HIDE DEF o
    <2>1. QED
      BY <1>1, <1>6 DEF Files
  <1>10. Complete(kept)
    BY <1>1, <1>6, <1>9 DEF Complete
  <1> HIDE DEF kept
  <1>11. f \in Files /\ Alike(f, kept) /\ Alike(kept, f) /\ Complete(f)
    <2>1. f \in Files /\ Alike(f, kept)
      BY <1>7, <1>9, Resealed
    <2> HIDE DEF f
    <2>2. QED
      BY <1>10, <2>1 DEF Alike, Complete
  <1> HIDE DEF f
  <1>12. PICK w \in Works :
           /\ WorkOk(w) /\ work' = [work EXCEPT ![p] = w] /\ w.pc # "create"
           /\ w.file = NoFile \/ (w.client = o.client /\ w.file = kept)
    <2>1. CASE fail(p)
      BY <2>1, IdleWork DEF fail
    <2>2. ASSUME NEW i \in pick_note(s, o.amount),
                 work' = [work EXCEPT ![p].note = i, ![p].file = kept, ![p].pc = "tag"]
          PROVE  \E w \in Works :
                   /\ WorkOk(w) /\ work' = [work EXCEPT ![p] = w] /\ w.pc # "create"
                   /\ w.file = NoFile \/ (w.client = o.client /\ w.file = kept)
      <3> DEFINE v == [o EXCEPT !.note = i, !.file = kept, !.pc = "tag"]
      <3>1. i \in s.notes
        BY DEF pick_note
      <3>2. i \in Founds
        BY <1>6, <3>1, CacheFields
      <3>3. work' = [work EXCEPT ![p] = v]
        BY <1>1, <2>2
      <3>4. v = [o EXCEPT !.note = i, !.file = kept, !.pc = "tag"]
        OBVIOUS
      <3> HIDE DEF v, o
      <3>5. v \in Works
        BY <1>1, <1>9, <3>2, <3>4 DEF Works, Places
      <3>6. /\ v.pc = "tag" /\ v.client = o.client /\ v.nonce = o.nonce
            /\ v.file = kept /\ v.op = o.op
        BY <1>1, <3>4 DEF Works
      <3>7. WorkOk(v)
        BY <1>1, <1>9, <3>6 DEF WorkOk
      <3>8. QED
        BY <3>3, <3>5, <3>6, <3>7
    <2>3. QED
      BY <1>8, <2>1, <2>2
  <1>13. CASE kept # o.file
    <2>1. box' = [box EXCEPT ![o.client] = f]
      BY <1>8, <1>13
    <2>2. Saves(o, f, w)
      BY <1>1, <1>2, <1>9, <1>11, <1>12, <2>1 DEF Saves, Alike
    <2>3. QED
      BY <1>2, <1>11, <1>12, <2>2 DEF Shape, Does
  <1>14. CASE kept = o.file
    <2>1. Holds(o, w)
      BY <1>2, <1>8, <1>12, <1>14 DEF Holds
    <2>2. QED
      BY <1>2, <1>12, <2>1 DEF Shape, Does
  <1>15. QED
    BY <1>13, <1>14

\* reserve_tag writes the tag counter before the tag is used.
LEMMA TagShape ==
  ASSUME Typed, NEW p \in Procs, reserve_tag(p)
  PROVE  Shape(p) /\ RestTyped
  <1> DEFINE o == work[p]
             l == IF o.op = "shield" THEN "prove" ELSE "ots"
             s == sealed_by(p, o.client, box[o.client])
             h == [o.file EXCEPT !.tag = @ + 1]
             f == [h EXCEPT !.seal = s]
             v == [o EXCEPT !.tag = o.file.tag, !.file = h, !.pc = l]
  <1>1. /\ o \in Works /\ WorkOk(o) /\ o.pc = "tag" /\ work \in [Procs -> Works] /\ o.file.exists
        /\ o.file \in Files /\ o.file.tag \in Nat
    BY WorkFields, FileFields DEF Typed, WorkTyped, WorkOk, reserve_tag
  <1>2. RestTyped /\ UNCHANGED <<born, leaves>>
    BY RestKept DEF reserve_tag, net
  <1>3. o.client \in Clients
    BY <1>1 DEF WorkOk
  <1>4. s \in Seals
    <2>1. box[o.client].seal \in Seals
      BY <1>3 DEF Typed, FilesTyped, Files
    <2>2. QED
      BY <2>1, SealsTyped
  <1>5. /\ box' = [box EXCEPT ![o.client] = f]
        /\ tags' = tags \cup {[master |-> o.file.master, n |-> o.file.tag, id |-> o.id]}
    BY DEF reserve_tag, save_file
  <1>6. work' = [work EXCEPT ![p] = v]
    <2>1. work' = [work EXCEPT ![p].tag = o.file.tag, ![p].file.tag = @ + 1, ![p].pc = l]
      BY DEF reserve_tag
    <2>2. QED
      BY <1>1, <2>1 DEF Works
  <1>l. l \in Places /\ (l = "prove" \/ l = "ots") /\ o.file.tag + 1 \in Nat
    BY <1>1 DEF Places
  <1> HIDE DEF s, l
  <1>7. /\ h \in Files /\ h.exists = o.file.exists /\ h.master = o.file.master
        /\ h.ots = o.file.ots /\ h.tag = o.file.tag + 1 /\ h.scan = o.file.scan
    <2> HIDE DEF o
    <2>1. QED
      BY <1>1, <1>l DEF Files
  <1>8. f \in Files /\ Alike(h, f)
    <2> HIDE DEF h
    <2>1. QED
      BY <1>4, <1>7 DEF Files, Alike
  <1>9. f = [h EXCEPT !.seal = s] /\ v = [o EXCEPT !.tag = o.file.tag, !.file = h, !.pc = l]
    OBVIOUS
  <1> HIDE DEF f, h, v
  <1>10. v \in Works
    <2> HIDE DEF o
    <2>1. QED
      BY <1>1, <1>7, <1>9, <1>l DEF Works
  <1>11. /\ v.pc = l /\ v.client = o.client /\ v.nonce = o.nonce /\ v.file = h /\ v.op = o.op
         /\ v.note = o.note
    <2> HIDE DEF o
    <2>1. QED
      BY <1>1, <1>9 DEF Works
  <1>12. WorkOk(v)
    <2> HIDE DEF o
    <2>1. QED
      BY <1>1, <1>7, <1>11, <1>l DEF WorkOk
  <1>13. Saves(o, f, v)
    BY <1>1, <1>2, <1>3, <1>5, <1>7, <1>8, <1>11, <1>l DEF Saves, Alike
  <1>14. QED
    BY <1>2, <1>6, <1>8, <1>10, <1>12, <1>13 DEF Shape, Does

\* reserve_ots writes the leaf counter before the leaf is used.
LEMMA OtsShape ==
  ASSUME Typed, NEW p \in Procs, reserve_ots(p)
  PROVE  Shape(p) /\ RestTyped
  <1> DEFINE o == work[p]
             l == "prove"
             s == sealed_by(p, o.client, box[o.client])
             h == [o.file EXCEPT !.ots = @ + 1]
             f == [h EXCEPT !.seal = s]
             v == [o EXCEPT !.ots = o.file.ots, !.file = h, !.pc = l]
  <1>1. /\ o \in Works /\ WorkOk(o) /\ o.pc = "ots" /\ work \in [Procs -> Works] /\ o.file.exists
        /\ o.file \in Files /\ o.file.ots \in 0..OTS_CAPACITY
    BY WorkFields, FileFields DEF Typed, WorkTyped, WorkOk, reserve_ots
  <1>2. RestTyped /\ UNCHANGED <<born, tags>>
    BY RestKept DEF reserve_ots, net
  <1>x. CASE fail(p) /\ UNCHANGED <<box, leaves>>
    BY <1>2, <1>x, GoesOn DEF Places
  <1>y. CASE o.file.ots < OTS_CAPACITY
    <2>3. o.client \in Clients
      BY <1>1 DEF WorkOk
    <2>4. s \in Seals
      <3>1. box[o.client].seal \in Seals
        BY <2>3 DEF Typed, FilesTyped, Files
      <3>2. QED
        BY <3>1, SealsTyped
    <2>5. /\ box' = [box EXCEPT ![o.client] = f]
          /\ leaves' = leaves \cup {[master |-> o.file.master, n |-> o.file.ots, id |-> o.id]}
      BY <1>y DEF reserve_ots, save_file
    <2>6. work' = [work EXCEPT ![p] = v]
      <3>1. work' = [work EXCEPT ![p].ots = o.file.ots, ![p].file.ots = @ + 1, ![p].pc = l]
        BY <1>y DEF reserve_ots
      <3>2. QED
        BY <1>1, <3>1 DEF Works
    <2>l. l \in Places /\ l = "prove" /\ o.file.ots + 1 \in 0..OTS_CAPACITY /\ o.file.ots \in Int
      BY <1>1, <1>y, ConstantsNat DEF Places
    <2> HIDE DEF s, l
    <2>7. /\ h \in Files /\ h.exists = o.file.exists /\ h.master = o.file.master
          /\ h.ots = o.file.ots + 1 /\ h.tag = o.file.tag /\ h.scan = o.file.scan
      <3> HIDE DEF o
      <3>1. QED
        BY <1>1, <2>l DEF Files
    <2>8. f \in Files /\ Alike(h, f)
      <3> HIDE DEF h
      <3>1. QED
        BY <2>4, <2>7 DEF Files, Alike
    <2>9. f = [h EXCEPT !.seal = s] /\ v = [o EXCEPT !.ots = o.file.ots, !.file = h, !.pc = l]
      OBVIOUS
    <2> HIDE DEF f, h, v
    <2>10. v \in Works
      <3> HIDE DEF o
      <3>1. QED
        BY <1>1, <2>7, <2>9, <2>l DEF Works
    <2>11. /\ v.pc = l /\ v.client = o.client /\ v.nonce = o.nonce /\ v.file = h /\ v.op = o.op
           /\ v.note = o.note
      <3> HIDE DEF o
      <3>1. QED
        BY <1>1, <2>9 DEF Works
    <2>12. WorkOk(v)
      <3> HIDE DEF o
      <3>1. QED
        BY <1>1, <2>7, <2>11, <2>l DEF WorkOk
    <2>13. Saves(o, f, v)
      BY <1>1, <1>2, <2>3, <2>5, <2>7, <2>8, <2>11, <2>l DEF Saves, Alike
    <2>14. QED
      BY <1>2, <2>6, <2>8, <2>10, <2>12, <2>13 DEF Shape, Does
  <1>3. QED
    BY <1>x, <1>y DEF reserve_ots

\* Whatever a process does has the shape, and keeps the rest typed.
LEMMA ProcessShape ==
  ASSUME Typed, ScanInv, NEW p \in Procs, Process(p)
  PROVE  Shape(p) /\ RestTyped
  <1>1. CASE window(p)
    <2>1. CASE \E pass \in Passes \cup {"none"} : read_secret_files(p, pass)
      BY <2>1, ReadShape
    <2>2. QED
      BY <1>1, <2>1, SessionShape, BeginsShape DEF window
  <1>2. CASE verbs(p)
    BY <1>2, BeginsShape, InitShape
  <1>3. CASE ~window(p) /\ ~verbs(p)
    BY <1>3, ProtectShape, ResealShape, LoadShape, CreateShape, SignerShape, CheckShape, ScanShape,
       TagShape, OtsShape, ErrorShape, SyncShape, ReserveShape, SubmitShape, PollShape DEF Process
  <1>4. QED
    BY <1>1, <1>2, <1>3

-----------------------------------------------------------------------------
(* What a step of that shape keeps.                                        *)

\* The types.
LEMMA KeepsTyped ==
  ASSUME Typed, NEW p \in Procs, Shape(p), RestTyped
  PROVE  Typed'
  <1> DEFINE o == work[p]
  <1>1. PICK w \in Works : WorkOk(w) /\ work' = [work EXCEPT ![p] = w] /\ Does(p, w)
    BY DEF Shape
  <1>2. o \in Works /\ work \in [Procs -> Works] /\ \A q \in Procs : WorkOk(work[q])
    BY DEF Typed, WorkTyped
  <1>3. WorkTyped'
    <2>1. work' \in [Procs -> Works] /\ \A q \in Procs : work'[q] = IF q = p THEN w ELSE work[q]
      BY <1>1, <1>2
    <2>2. \A q \in Procs : WorkOk(work'[q])
      BY <1>1, <1>2, <2>1
    <2>3. reseal' \in [Procs -> Reseals] /\ \A q \in Procs : ResealOk(reseal'[q])
      BY DEF RestTyped, SealPart
    <2>4. QED
      BY <2>1, <2>2, <2>3 DEF WorkTyped, RestTyped, WorkOk, ResealOk
  <1>4. ChainTyped'
    BY DEF ChainTyped, Typed, RestTyped
  <1>5. "app" \in Clients /\ box \in [Clients -> Files] /\ born \in Nat /\ leaves \subseteq Takes
        /\ tags \subseteq Takes
    BY DEF Typed, FilesTyped, Clients
  <1>6. SUFFICES box' \in [Clients -> Files] /\ born' \in Nat /\ leaves' \subseteq Takes /\ tags' \subseteq Takes
    BY <1>3, <1>4 DEF Typed, FilesTyped, RestTyped
  <1>7. CASE Holds(o, w)
    BY <1>5, <1>7 DEF Holds
  <1>8. ASSUME NEW f \in Files, Makes(o, f, w)
        PROVE  box' \in [Clients -> Files] /\ born' \in Nat /\ leaves' \subseteq Takes /\ tags' \subseteq Takes
    BY <1>5, <1>8 DEF Makes
  <1>9. ASSUME NEW f \in Files, Restores(reseal[p], f)
        PROVE  box' \in [Clients -> Files] /\ born' \in Nat /\ leaves' \subseteq Takes /\ tags' \subseteq Takes
    BY <1>5, <1>9 DEF Restores
  <1>10. ASSUME NEW f \in Files, Saves(o, f, w)
         PROVE  box' \in [Clients -> Files] /\ born' \in Nat /\ leaves' \subseteq Takes /\ tags' \subseteq Takes
    <2> DEFINE m == o.file.master
               a == o.file.ots
               b == o.file.tag
               i == o.id
    <2>1. box' \in [Clients -> Files] /\ born' \in Nat
      BY <1>5, <1>10 DEF Saves
    <2>2. m \in Nat /\ a \in Nat /\ b \in Nat /\ i \in Nat
      BY <1>2, WorkFields, FileFields
    <2>3. leaves' \in {leaves, leaves \cup {[master |-> m, n |-> a, id |-> i]}}
      BY <1>10 DEF Saves
    <2>4. tags' \in {tags, tags \cup {[master |-> m, n |-> b, id |-> i]}}
      BY <1>10 DEF Saves
    <2> HIDE DEF m, a, b, i
    <2>5. [master |-> m, n |-> a, id |-> i] \in Takes /\ [master |-> m, n |-> b, id |-> i] \in Takes
      BY <2>2 DEF Takes
    <2>6. QED
      BY <1>5, <2>1, <2>3, <2>4, <2>5
  <1>11. QED
    BY <1>1, <1>7, <1>8, <1>9, <1>10 DEF Does

\* Every cache agrees with the chain, which a process does not change.
LEMMA KeepsScan ==
  ASSUME Typed, ScanInv, NEW p \in Procs, Shape(p), RestTyped
  PROVE  ScanInv'
  <1> DEFINE o == work[p]
  <1>1. PICK w \in Works : work' = [work EXCEPT ![p] = w] /\ Does(p, w)
    BY DEF Shape
  <1>2. /\ "app" \in Clients /\ box \in [Clients -> Files] /\ work \in [Procs -> Works]
        /\ chain.id \in Nat /\ chain.era \in Nat /\ UNCHANGED chain
    BY DEF Typed, FilesTyped, WorkTyped, ChainTyped, Chains, Clients, RestTyped
  <1>3. \A q \in Procs : work'[q] = IF q = p THEN w ELSE work[q]
    BY <1>1, <1>2
  <1>4. \A g : g.scan = EmptyCache => Complete(g)
    <2>1. EmptyCache.chain_id = -1 /\ EmptyCache.era = 0
      BY DEF EmptyCache
    <2>2. QED
      BY <1>2, <2>1 DEF Complete, Agrees, AgreesWith
  <1>5. Complete(NoFile)
    BY <1>4 DEF NoFile
  <1>6. (\A c \in Clients : Complete(box'[c])) /\ Complete(w.file)
    <2>1. CASE Holds(o, w)
      BY <1>5, <2>1 DEF Holds, ScanInv
    <2>2. ASSUME NEW f \in Files, Makes(o, f, w)
          PROVE  (\A c \in Clients : Complete(box'[c])) /\ Complete(w.file)
      BY <1>2, <1>4, <1>5, <2>2 DEF Makes, ScanInv
    <2>3. ASSUME NEW f \in Files, Saves(o, f, w)
          PROVE  (\A c \in Clients : Complete(box'[c])) /\ Complete(w.file)
      <3>1. Complete(f)
        BY <2>3 DEF Saves, ScanInv, Complete
      <3>2. Complete(w.file)
        BY <1>5, <2>3, <3>1 DEF Saves, Alike, Complete
      <3>3. QED
        BY <1>2, <2>3, <3>1, <3>2 DEF Saves, ScanInv
    <2>4. ASSUME NEW f \in Files, Restores(reseal[p], f), w = o
          PROVE  (\A c \in Clients : Complete(box'[c])) /\ Complete(w.file)
      <3>1. Complete(f)
        BY <2>4 DEF Restores, ScanInv, Alike, Complete
      <3>2. QED
        BY <1>2, <2>4, <3>1 DEF Restores, ScanInv
    <2>5. QED
      BY <1>1, <2>1, <2>2, <2>3, <2>4 DEF Does
  <1>7. \A q \in Procs : Complete(work'[q].file)
    BY <1>3, <1>6 DEF ScanInv
  <1>8. \A q \in Procs : Complete(reseal'[q].file)
    BY <1>2, <1>5 DEF RestTyped, SealPart, ScanInv
  <1>9. QED
    BY <1>2, <1>6, <1>7, <1>8 DEF ScanInv, Complete, Agrees, AgreesWith

\* One process at a time on the directory.
OneProcess == \A p, q \in Procs : p = q

\* The masters of the files that are there.
LEMMA KeepsMasters ==
  ASSUME Typed, Custody, NEW p \in Procs, Shape(p)
  PROVE  \A c \in Clients : box[c].exists => box'[c].exists /\ box'[c].master = box[c].master
  <1> DEFINE o == work[p]
             Kept == \A c \in Clients : box[c].exists => box'[c].exists /\ box'[c].master = box[c].master
  <1>1. PICK w \in Works : Does(p, w)
    BY DEF Shape
  <1>2. "app" \in Clients /\ box \in [Clients -> Files]
    BY DEF Typed, FilesTyped, Clients
  <1>3. CASE Holds(o, w)
    BY <1>3 DEF Holds
  <1>4. ASSUME NEW f \in Files, Makes(o, f, w) PROVE Kept
    <2>1. /\ o.client \in Clients /\ ~box[o.client].exists /\ box' = [box EXCEPT ![o.client] = f]
      BY <1>4 DEF Makes, Custody
    <2>2. QED
      BY <1>2, <2>1
  <1>5. ASSUME NEW f \in Files, Saves(o, f, w) PROVE Kept
    <2>1. /\ o.client \in Clients /\ box' = [box EXCEPT ![o.client] = f]
          /\ f.exists /\ f.master = box[o.client].master
      BY <1>5 DEF Saves, Custody
    <2>2. QED
      BY <1>2, <2>1
  <1>6. ASSUME NEW f \in Files, Restores(reseal[p], f) PROVE Kept
    <2>1. /\ box' = [box EXCEPT !["app"] = f] /\ f.exists /\ f.master = box["app"].master
      BY <1>6 DEF Restores, Alike, Custody
    <2>2. QED
      BY <1>2, <2>1
  <1>7. QED
    BY <1>1, <1>3, <1>4, <1>5, <1>6 DEF Does

\* The file in hand is one of the directory's; of one process.
LEMMA KeepsCustody ==
  ASSUME Typed, Custody, OneProcess, NEW p \in Procs, Shape(p), RestTyped
  PROVE  Custody'
  <1> DEFINE o == work[p]
  <1>1. PICK w \in Works : WorkOk(w) /\ work' = [work EXCEPT ![p] = w] /\ Does(p, w)
    BY DEF Shape
  <1>2. "app" \in Clients /\ box \in [Clients -> Files] /\ work \in [Procs -> Works] /\ WorkOk(o)
    BY DEF Typed, FilesTyped, WorkTyped, Clients
  <1>3. \A c \in Clients : box[c].exists => box'[c].exists /\ box'[c].master = box[c].master
    BY KeepsMasters
  <1>4. \A q \in Procs : work'[q] = w /\ q = p
    BY <1>1, <1>2 DEF OneProcess
  <1>5. w.file.exists => box'[w.client].exists /\ w.file.master = box'[w.client].master
    <2>1. CASE Holds(o, w)
      <3>1. CASE w.file = NoFile
        BY <3>1, IdleWork
      <3>2. CASE w.file = o.file /\ w.client = o.client
        BY <1>2, <1>3, <3>2 DEF Custody, WorkOk
      <3>3. CASE w.client \in Clients /\ w.file = box[w.client]
        BY <1>3, <3>3
      <3>4. QED
        BY <2>1, <3>1, <3>2, <3>3 DEF Holds
    <2>2. ASSUME NEW f \in Files, Makes(o, f, w), w.file.exists
          PROVE  box'[w.client].exists /\ w.file.master = box'[w.client].master
      BY <1>2, <2>2, IdleWork DEF Makes
    <2>3. ASSUME NEW f \in Files, Saves(o, f, w), w.file.exists
          PROVE  box'[w.client].exists /\ w.file.master = box'[w.client].master
      <3>1. w.client = o.client /\ Alike(w.file, f) /\ o.client \in Clients
        BY <2>3, IdleWork DEF Saves
      <3>2. box'[o.client] = f
        BY <1>2, <2>3 DEF Saves
      <3>3. QED
        BY <2>3, <3>1, <3>2 DEF Alike, Saves
    <2>4. CASE w = o
      BY <1>2, <1>3, <2>4 DEF Custody, WorkOk
    <2>5. QED
      BY <1>1, <2>1, <2>2, <2>3, <2>4 DEF Does
  <1>6. w.pc = "create" => ~box'[w.client].exists
    <2>1. CASE Holds(o, w)
      BY <2>1 DEF Holds, Custody
    <2>2. ASSUME NEW f \in Files, Restores(reseal[p], f), w = o, w.pc = "create"
          PROVE  ~box'[w.client].exists
      <3>1. ~box[o.client].exists /\ box["app"].exists /\ o.client \in Clients
        BY <1>2, <2>2 DEF Restores, Custody, WorkOk
      <3>2. box'[o.client] = box[o.client]
        BY <1>2, <2>2, <3>1 DEF Restores
      <3>3. QED
        BY <2>2, <3>1, <3>2
    <2>3. QED
      BY <1>1, <2>1, <2>2 DEF Does, Makes, Saves
  <1>7. \A q \in Procs : reseal'[q].file.exists =>
           box'["app"].exists /\ reseal'[q].file.master = box'["app"].master
    <2>1. ASSUME NEW q \in Procs, reseal'[q].file.exists
          PROVE  box'["app"].exists /\ reseal'[q].file.master = box'["app"].master
      <3>1. CASE reseal'[q].file = NoFile
        BY <2>1, <3>1, IdleWork
      <3>2. CASE reseal'[q].file = reseal[q].file
        BY <1>2, <1>3, <2>1, <3>2 DEF Custody
      <3>3. CASE reseal'[q].file = box["app"] /\ UNCHANGED box
        BY <2>1, <3>3
      <3>4. QED
        BY <3>1, <3>2, <3>3 DEF RestTyped, SealPart
    <2>2. QED
      BY <2>1
  <1>8. QED
    BY <1>4, <1>5, <1>6, <1>7 DEF Custody

\* What the counters say besides what is in hand.
Counted == Masters /\ Below(leaves, "ots") /\ Below(tags, "tag") /\ Once(leaves) /\ Once(tags)

\* What a change of passphrase puts back only takes claims away.
Loses == lost \subseteq lost' /\ ("app" \in lost' => "app" \in lost \/ box'["app"].exists)

\* A new master is nobody else's, and nothing was taken under it.
LEMMA MakesCounted ==
  ASSUME Typed, Custody, Counted, Loses, NEW p \in Procs, NEW f \in Files, NEW w, Makes(work[p], f, w)
  PROVE  Counted'
  <1> DEFINE c == work[p].client
  <1>1. /\ box \in [Clients -> Files] /\ born \in Nat /\ \A d \in Clients : box[d].master \in Nat
        /\ f.master = born + 1 /\ c \in Clients /\ ~box[c].exists /\ "app" \in Clients
        /\ f.exists /\ born' = born + 1
    BY FileFields DEF Typed, FilesTyped, Makes, Custody, Clients
  <1>2. \A d \in Clients : box'[d] = IF d = c THEN f ELSE box[d]
    BY <1>1 DEF Makes
  <1> HIDE DEF c
  <1>3. Masters'
    <2>1. \A d \in Clients : box'[d].exists => box'[d].master <= born'
      BY <1>1, <1>2 DEF Counted, Masters
    <2>2. ASSUME NEW d \in Clients, NEW e \in Clients, box'[d].exists, box'[e].exists,
                 box'[d].master = box'[e].master
          PROVE  d = e
      BY <1>1, <1>2, <2>2 DEF Counted, Masters
    <2>3. "app" \in lost' => box'["app"].exists
      BY <1>1, <1>2 DEF Counted, Masters, Loses
    <2>4. QED
      BY <2>1, <2>2, <2>3 DEF Masters
  <1>4. ASSUME NEW d \in Clients, box[d].exists PROVE box'[d] = box[d]
    BY <1>1, <1>2, <1>4
  <1>5. UNCHANGED leaves /\ UNCHANGED tags
    BY DEF Makes
  <1>6. \A d : Off(d) => Off(d)'
    BY DEF Off, Loses
  <1>7. Below(leaves, "ots")'
    BY <1>4, <1>5, <1>6 DEF Counted, Below
  <1>8. Below(tags, "tag")'
    BY <1>4, <1>5, <1>6 DEF Counted, Below
  <1>9. "app" \in lost => "app" \in lost' /\ box'["app"] = box["app"]
    BY <1>1, <1>4 DEF Counted, Masters, Loses
  <1>10. Once(leaves)' /\ Once(tags)'
    BY <1>5, <1>9 DEF Counted, Once
  <1>11. QED
    BY <1>3, <1>7, <1>8, <1>10 DEF Counted

\* A file is only written by the process whose counters it has, or whose
\* counters say nothing any more.
LEMMA SavesCounted ==
  ASSUME Typed, Custody, Counted, Loses, NEW p \in Procs, NEW f \in Files, NEW w \in Works,
         Saves(work[p], f, w),
         Off(work[p].client) \/ (/\ work[p].file.ots = box[work[p].client].ots
                                 /\ work[p].file.tag = box[work[p].client].tag)
  PROVE  Counted'
  <1> DEFINE o == work[p]
             c == o.client
             m == o.file.master
             a == o.file.ots
             b == o.file.tag
             i == o.id
             la == [master |-> m, n |-> a, id |-> i]
             tb == [master |-> m, n |-> b, id |-> i]
  <1>1. /\ c \in Clients /\ box \in [Clients -> Files] /\ box[c].exists /\ box[c].master = m
        /\ f.exists /\ f.master = m /\ born' = born /\ leaves \subseteq Takes /\ tags \subseteq Takes
        /\ "app" \in Clients
    BY DEF Saves, Custody, Typed, FilesTyped, Clients
  <1>2. \A d \in Clients : box'[d] = IF d = c THEN f ELSE box[d]
    BY <1>1 DEF Saves
  <1>3. (Off(c) \/ (box[c].ots = a /\ box[c].tag = b)) /\ a \in Nat /\ b \in Nat
    BY <1>1, FileFields, WorkFields DEF Typed, WorkTyped
  <1>n. /\ \A d \in Clients : box[d].ots \in Int /\ box[d].tag \in Int
        /\ \A x \in leaves \cup tags : x.n \in Int
        /\ f.ots \in Int /\ f.tag \in Int
    BY <1>1, FileFields DEF Takes
  <1>g. \A d \in Clients : (box'[d].exists <=> box[d].exists) /\ box'[d].master = box[d].master
    BY <1>1, <1>2
  <1>4. Masters'
    <2>1. "app" \in lost' => box'["app"].exists
      BY <1>1, <1>g DEF Counted, Masters, Loses
    <2>2. QED
      BY <1>1, <1>g, <2>1 DEF Counted, Masters
  <1>5. ASSUME ~Off(c)
        PROVE  /\ \A x \in leaves : x.master = m => x.n < a
               /\ \A x \in tags : x.master = m => x.n < b
    BY <1>1, <1>3, <1>5 DEF Counted, Masters, Below
  <1>6. \/ f.ots = a /\ f.tag = b /\ leaves' = leaves /\ tags' = tags
        \/ f.ots = a /\ f.tag = b + 1 /\ leaves' = leaves /\ tags' = tags \cup {tb}
        \/ f.ots = a + 1 /\ f.tag = b /\ leaves' = leaves \cup {la} /\ tags' = tags
    BY DEF Saves
  <1>7. la.master = m /\ la.n = a /\ tb.master = m /\ tb.n = b
    OBVIOUS
  <1> HIDE DEF m, a, b, i, la, tb, c
  <1>o. \A d : Off(d) => Off(d)'
    BY DEF Off, Loses
  <1>q. \A k : ("app" \in lost /\ k = box["app"].master) => ("app" \in lost' /\ k = box'["app"].master)
    BY <1>1, <1>g DEF Loses
  <1>8. /\ \A x \in leaves : x.master = m /\ x.n = a => "app" \in lost /\ m = box["app"].master
        /\ \A x \in tags : x.master = m /\ x.n = b => "app" \in lost /\ m = box["app"].master
    <2>1. CASE Off(c)
      BY <1>1, <2>1 DEF Off
    <2>2. CASE ~Off(c)
      BY <1>3, <1>5, <1>n, <2>2
    <2>3. QED
      BY <2>1, <2>2
  <1>9. Once(leaves)'
    <2>1. SUFFICES ASSUME NEW x \in leaves', NEW y \in leaves', x.master = y.master, x.n = y.n
                   PROVE  x = y \/ ("app" \in lost' /\ x.master = box'["app"].master)
      BY DEF Once
    <2>2. CASE x \in leaves /\ y \in leaves
      BY <1>q, <2>1, <2>2 DEF Counted, Once
    <2>3. CASE ~(x \in leaves /\ y \in leaves)
      <3>1. (x = la \/ x \in leaves) /\ (y = la \/ y \in leaves)
        BY <1>6, <2>1
      <3>2. QED
        BY <1>7, <1>8, <1>q, <2>1, <2>3, <3>1
    <2>4. QED
      BY <2>2, <2>3
  <1>10. Once(tags)'
    <2>1. SUFFICES ASSUME NEW x \in tags', NEW y \in tags', x.master = y.master, x.n = y.n
                   PROVE  x = y \/ ("app" \in lost' /\ x.master = box'["app"].master)
      BY DEF Once
    <2>2. CASE x \in tags /\ y \in tags
      BY <1>q, <2>1, <2>2 DEF Counted, Once
    <2>3. CASE ~(x \in tags /\ y \in tags)
      <3>1. (x = tb \/ x \in tags) /\ (y = tb \/ y \in tags)
        BY <1>6, <2>1
      <3>2. QED
        BY <1>7, <1>8, <1>q, <2>1, <2>3, <3>1
    <2>4. QED
      BY <2>2, <2>3
  <1>11. a <= f.ots /\ b <= f.tag
    BY <1>3, <1>6
  <1>12. ASSUME NEW x \in leaves'
         PROVE  \E d \in Clients :
                  box'[d].exists /\ box'[d].master = x.master /\ (x.n < box'[d].ots \/ Off(d)')
    <2>1. CASE x \in leaves
      <3>1. PICK d \in Clients : box[d].exists /\ box[d].master = x.master /\ (x.n < box[d].ots \/ Off(d))
        BY <2>1 DEF Counted, Below
      <3>2. CASE Off(d)
        BY <1>g, <1>o, <3>1, <3>2
      <3>3. CASE ~Off(d)
        <4>1. box'[d].ots \in Int /\ box[d].ots <= box'[d].ots
          BY <1>2, <1>3, <1>11, <1>n, <3>3
        <4>2. x.n < box'[d].ots
          BY <1>n, <2>1, <3>1, <3>3, <4>1
        <4>3. QED
          BY <1>g, <3>1, <4>2
      <3>4. QED
        BY <3>2, <3>3
    <2>2. CASE x \notin leaves
      <3>1. x = la /\ f.ots = a + 1
        BY <1>6, <2>2
      <3>2. QED
        BY <1>1, <1>2, <1>3, <1>7, <3>1
    <2>3. QED
      BY <2>1, <2>2
  <1>13. ASSUME NEW x \in tags'
         PROVE  \E d \in Clients :
                  box'[d].exists /\ box'[d].master = x.master /\ (x.n < box'[d].tag \/ Off(d)')
    <2>1. CASE x \in tags
      <3>1. PICK d \in Clients : box[d].exists /\ box[d].master = x.master /\ (x.n < box[d].tag \/ Off(d))
        BY <2>1 DEF Counted, Below
      <3>2. CASE Off(d)
        BY <1>g, <1>o, <3>1, <3>2
      <3>3. CASE ~Off(d)
        <4>1. box'[d].tag \in Int /\ box[d].tag <= box'[d].tag
          BY <1>2, <1>3, <1>11, <1>n, <3>3
        <4>2. x.n < box'[d].tag
          BY <1>n, <2>1, <3>1, <3>3, <4>1
        <4>3. QED
          BY <1>g, <3>1, <4>2
      <3>4. QED
        BY <3>2, <3>3
    <2>2. CASE x \notin tags
      <3>1. x = tb /\ f.tag = b + 1
        BY <1>6, <2>2
      <3>2. QED
        BY <1>1, <1>2, <1>3, <1>7, <3>1
    <2>3. QED
      BY <2>1, <2>2
  <1>14. Below(leaves, "ots")' /\ Below(tags, "tag")'
    BY <1>12, <1>13 DEF Below
  <1>15. QED
    BY <1>4, <1>9, <1>10, <1>14 DEF Counted

\* No counter moves, or those of the app are given up.
LEMMA StillCounted ==
  ASSUME Typed, Counted, Loses, UNCHANGED <<born, leaves, tags>>,
         \A d \in Clients :
            /\ (box'[d].exists <=> box[d].exists) /\ box'[d].master = box[d].master
            /\ Off(d)' \/ (box'[d].ots = box[d].ots /\ box'[d].tag = box[d].tag)
  PROVE  Counted'
  <1>1. "app" \in Clients
    BY DEF Clients
  <1>2. Masters'
    BY <1>1 DEF Counted, Masters, Loses
  <1>3. \A d : Off(d) => Off(d)'
    BY DEF Off, Loses
  <1>4. Below(leaves, "ots")'
    BY <1>3 DEF Counted, Below
  <1>5. Below(tags, "tag")'
    BY <1>3 DEF Counted, Below
  <1>6. Once(leaves)' /\ Once(tags)'
    BY <1>1 DEF Counted, Once, Loses
  <1>7. QED
    BY <1>2, <1>4, <1>5, <1>6 DEF Counted

\* The counters, then: what is in hand is what is on disk.
LEMMA KeepsCount ==
  ASSUME Typed, Custody, CountInv, OneProcess, NEW p \in Procs, Shape(p), RestTyped
  PROVE  CountInv'
  <1> DEFINE o == work[p]
             Same(w) == \/ w.client = "app" /\ "app" \in lost'
                        \/ w.file.ots = box'[w.client].ots /\ w.file.tag = box'[w.client].tag
  <1>1. PICK w \in Works : WorkOk(w) /\ work' = [work EXCEPT ![p] = w] /\ Does(p, w)
    BY DEF Shape
  <1>2. "app" \in Clients /\ box \in [Clients -> Files] /\ work \in [Procs -> Works] /\ Counted /\ WorkOk(o)
    BY DEF Typed, FilesTyped, WorkTyped, Clients, CountInv, Counted
  <1>3. \A q \in Procs : work'[q] = w
    BY <1>1, <1>2 DEF OneProcess
  <1>l. Loses /\ \A d : Off(d) => Off(d)'
    BY DEF RestTyped, SealPart, Loses, Off
  <1>s. o.file.exists => Off(o.client) \/ (o.file.ots = box[o.client].ots /\ o.file.tag = box[o.client].tag)
    BY DEF CountInv, InStep
  <1>4. ASSUME Counted', w.file.exists => Same(w)
        PROVE  CountInv'
    <2>1. \A q \in Procs : work'[q].file.exists =>
             \/ work'[q].client = "app" /\ "app" \in lost'
             \/ work'[q].file.ots = box'[work'[q].client].ots /\ work'[q].file.tag = box'[work'[q].client].tag
      BY <1>3, <1>4
    <2>2. InStep'
      BY <2>1 DEF InStep, Off
    <2>3. QED
      BY <1>4, <2>2 DEF CountInv, Counted
  <1>5. CASE Holds(o, w)
    <2>1. Counted'
      BY <1>2, <1>5, <1>l, StillCounted DEF Holds
    <2>2. w.file.exists => Same(w)
      BY <1>5, <1>l, <1>s, IdleWork DEF Holds, Off
    <2>3. QED
      BY <1>4, <2>1, <2>2
  <1>6. ASSUME NEW f \in Files, Makes(o, f, w) PROVE CountInv'
    <2>1. Counted'
      BY <1>2, <1>6, <1>l, MakesCounted
    <2>2. box'[o.client] = f
      BY <1>2, <1>6 DEF Makes
    <2>3. w.file.exists => Same(w)
      BY <1>6, <2>2, IdleWork DEF Makes
    <2>4. QED
      BY <1>4, <2>1, <2>3
  <1>7. ASSUME NEW f \in Files, Saves(o, f, w) PROVE CountInv'
    <2>1. Off(o.client) \/ (o.file.ots = box[o.client].ots /\ o.file.tag = box[o.client].tag)
      BY <1>7, <1>s DEF Saves
    <2>2. Counted'
      BY <1>2, <1>7, <1>l, <2>1, SavesCounted
    <2>3. box'[o.client] = f
      BY <1>2, <1>7 DEF Saves
    <2>4. w.file.exists => Same(w)
      BY <1>7, <2>3, IdleWork DEF Saves, Alike, Off
    <2>5. QED
      BY <1>4, <2>2, <2>4
  <1>8. ASSUME NEW f \in Files, Restores(reseal[p], f), w = o PROVE CountInv'
    <2>1. /\ f.exists /\ box["app"].exists /\ f.master = box["app"].master
          /\ "app" \in lost' \/ (f.ots = box["app"].ots /\ f.tag = box["app"].tag)
          /\ UNCHANGED <<born, leaves, tags>> /\ box' = [box EXCEPT !["app"] = f]
      BY <1>8 DEF Restores, Alike, Custody
    <2>2. \A d \in Clients : box'[d] = IF d = "app" THEN f ELSE box[d]
      BY <1>2, <2>1
    <2>3. \A d \in Clients :
            /\ (box'[d].exists <=> box[d].exists) /\ box'[d].master = box[d].master
            /\ Off(d)' \/ (box'[d].ots = box[d].ots /\ box'[d].tag = box[d].tag)
      BY <2>1, <2>2 DEF Off
    <2>4. Counted'
      BY <1>2, <1>l, <2>1, <2>3, StillCounted
    <2>5. w.file.exists => Same(w)
      BY <1>2, <1>8, <1>l, <1>s, <2>3 DEF WorkOk, Off
    <2>6. QED
      BY <1>4, <2>4, <2>5
  <1>9. QED
    BY <1>1, <1>5, <1>6, <1>7, <1>8 DEF Does

\* Steps of the chain alone: the pool only grows, or the network starts over.
Grows ==
  \/ /\ chain'.id = chain.id /\ chain'.era = chain.era /\ chain.spent \subseteq chain'.spent
     /\ Len(chain.pool) <= Len(chain'.pool)
     /\ \A i \in 1..Len(chain.pool) : chain'.pool[i] = chain.pool[i]
  \/ chain'.era = chain.era + 1

\* What the wallets keep.
OwnVars == <<account, box, session, work, reseal, ops, born, leaves, tags, lost>>

\* They keep every invariant.
LEMMA GrowsKeeps ==
  ASSUME Typed, ScanInv, Grows, ChainTyped', UNCHANGED OwnVars
  PROVE  /\ Typed' /\ ScanInv' /\ (Custody => Custody') /\ (CountInv => CountInv')
         /\ \A c \in Clients : box[c].exists => box'[c].exists /\ box'[c].master = box[c].master
  <1>0. UNCHANGED <<account, box, session, work, reseal, ops, born, leaves, tags, lost>>
    BY DEF OwnVars
  <1>1. Typed'
    <2>1. FilesTyped'
      BY <1>0 DEF Typed, FilesTyped
    <2>2. WorkTyped'
      BY <1>0 DEF Typed, WorkTyped, WorkOk, ResealOk
    <2>3. QED
      BY <2>1, <2>2 DEF Typed
  <1>2. (Custody => Custody') /\ (CountInv => CountInv')
    BY <1>0 DEF Custody, CountInv, InStep, Masters, Below, Once, Off
  <1>3. ASSUME NEW s \in Caches, NEW m, Agrees(s, m) PROVE AgreesWith(chain', s, m)
    <2>1. /\ s.through \in Nat /\ s.era \in Nat /\ chain.era \in Nat /\ chain'.era \in Nat
          /\ Len(chain.pool) \in Nat /\ Len(chain'.pool) \in Nat
      BY CacheFields DEF Typed, ChainTyped, Chains
    <2>2. CASE chain'.era = chain.era + 1
      BY <1>3, <2>1, <2>2 DEF Agrees, AgreesWith
    <2>3. CASE chain'.era # chain.era + 1
      <3>1. ASSUME s.chain_id = chain'.id, s.era = chain'.era
            PROVE  /\ s.through <= Len(chain'.pool)
                   /\ s.notes = {FoundIn(chain', i) : i \in {j \in 1..s.through : chain'.pool[j].owner = m}}
                   /\ \A n \in s.spent : n.at \in chain'.spent
        <4>1. /\ s.through <= Len(chain.pool)
              /\ s.notes = {FoundIn(chain, i) : i \in {j \in 1..s.through : chain.pool[j].owner = m}}
              /\ \A n \in s.spent : n.at \in chain.spent
          BY <1>3, <2>3, <3>1 DEF Agrees, AgreesWith, Grows
        <4>2. \A i \in 1..s.through : chain'.pool[i] = chain.pool[i]
          BY <2>1, <2>3, <4>1 DEF Grows
        <4>3. s.through <= Len(chain'.pool) /\ \A n \in s.spent : n.at \in chain'.spent
          BY <2>1, <2>3, <4>1 DEF Grows
        <4>4. {j \in 1..s.through : chain.pool[j].owner = m} = {j \in 1..s.through : chain'.pool[j].owner = m}
          BY <4>2
        <4>5. \A i \in 1..s.through : FoundIn(chain', i) = FoundIn(chain, i)
          BY <2>3, <4>2 DEF FoundIn, Grows
        <4>6. s.notes = {FoundIn(chain', i) : i \in {j \in 1..s.through : chain'.pool[j].owner = m}}
          BY <4>1, <4>4, <4>5
        <4>7. QED
          BY <4>3, <4>6
      <3>2. s.era <= chain'.era
        BY <1>3, <2>3 DEF Agrees, AgreesWith, Grows
      <3>3. QED
        BY <3>1, <3>2 DEF AgreesWith
    <2>4. QED
      BY <2>2, <2>3
  <1>4. ScanInv'
    <2>1. /\ \A c \in Clients : box[c].scan \in Caches
          /\ \A p \in Procs : work[p].file.scan \in Caches /\ reseal[p].file.scan \in Caches
      BY FileFields, WorkFields, ResealFields DEF Typed, FilesTyped, WorkTyped
    <2>2. \A c \in Clients : AgreesWith(chain', box'[c].scan, box'[c].master)
      BY <1>0, <1>3, <2>1 DEF ScanInv, Complete
    <2>3. \A p \in Procs : /\ AgreesWith(chain', work'[p].file.scan, work'[p].file.master)
                           /\ AgreesWith(chain', reseal'[p].file.scan, reseal'[p].file.master)
      BY <1>0, <1>3, <2>1 DEF ScanInv, Complete
    <2>4. QED
      BY <2>2, <2>3 DEF ScanInv, Complete, Agrees
  <1>5. QED
    BY <1>0, <1>1, <1>2, <1>4

\* A block's transaction leaves a typed chain, and a longer pool.
LEMMA ApplyGrows ==
  ASSUME Typed, NEW t \in pending, valid(t)
  PROVE  /\ apply(t) \in Chains
         /\ apply(t).spent \subseteq DOMAIN apply(t).pool
         /\ apply(t).id = chain.id /\ apply(t).era = chain.era /\ chain.spent \subseteq apply(t).spent
         /\ Len(chain.pool) <= Len(apply(t).pool)
         /\ \A i \in 1..Len(chain.pool) : apply(t).pool[i] = chain.pool[i]
  <1> DEFINE gain == CASE t.op \in {"send", "shield"} -> -t.amount
                       [] t.op = "unshield" -> t.amount
                       [] OTHER -> 0
             b == chain.balance - Fee + gain
             s == IF t.op \in SpendOps THEN chain.spent \cup {t.note.at} ELSE chain.spent
             out == outputs(t)
             q == chain.pool \o out
             n == chain.nonce + 1
  <1>1. /\ chain \in Chains
        /\ chain.spent \subseteq DOMAIN chain.pool /\ chain.balance \in Nat
        /\ chain.pool \in Seq(Notes) /\ n \in Nat /\ chain.spent \subseteq Nat
    BY DEF Typed, ChainTyped, Chains
  <1>2. /\ t.amount \in Nat /\ t.note.value \in Int /\ t.note.at \in Nat /\ t.owner \in Nat /\ Fee \in Nat
        /\ t.op \in SpendOps => t.note.at \in DOMAIN chain.pool
    <2>1. t \in Txs
      BY DEF Typed, ChainTyped
    <2>2. t.amount \in Nat /\ t.note \in Founds /\ t.owner \in Nat
      BY <2>1 DEF Txs
    <2>3. t.note.value \in Int /\ t.note.at \in Nat
      BY <2>2 DEF Founds
    <2>4. t.op \in SpendOps => t.note.at \in DOMAIN chain.pool
      BY DEF valid
    <2>5. QED
      BY <2>2, <2>3, <2>4, ConstantsNat
  <1>3. b \in Nat
    <2>1. CASE t.op \in {"send", "shield"}
      <3>1. chain.balance >= t.amount + Fee /\ gain = -t.amount
        BY <2>1 DEF valid
      <3>2. QED
        BY <1>1, <1>2, <3>1
    <2>2. CASE t.op \notin {"send", "shield"}
      <3>1. chain.balance >= Fee /\ gain \in {t.amount, 0}
        BY <2>2 DEF valid
      <3>2. QED
        BY <1>1, <1>2, <3>1
    <2>3. QED
      BY <2>1, <2>2
  <1>4. out \in Seq(Notes)
    <2>1. \A o, v : o \in Nat /\ v \in Int => entry(o, v) \in Notes
      BY DEF entry, Notes
    <2>2. /\ entry(t.owner, t.amount) \in Notes /\ entry(t.owner, t.note.value - t.amount) \in Notes
          /\ entry(0, 0) \in Notes /\ entry(0, t.amount) \in Notes
      BY <1>2, <2>1
    <2>3. CASE t.op = "shield"
      BY <2>2, <2>3 DEF outputs
    <2>4. CASE t.op = "unshield"
      BY <2>2, <2>4 DEF outputs
    <2>5. CASE t.op = "pay"
      BY <2>2, <2>5 DEF outputs
    <2>6. CASE t.op \notin {"shield", "unshield", "pay"}
      BY <2>6 DEF outputs
    <2>7. QED
      BY <2>3, <2>4, <2>5, <2>6
  <1> HIDE DEF out
  <1>5. /\ q \in Seq(Notes) /\ Len(q) = Len(chain.pool) + Len(out) /\ Len(out) \in Nat
        /\ DOMAIN q = 1..Len(q) /\ Len(chain.pool) \in Nat /\ DOMAIN chain.pool = 1..Len(chain.pool)
        /\ \A i \in 1..Len(chain.pool) : q[i] = chain.pool[i]
    BY <1>1, <1>4
  <1>6. s \in SUBSET Nat /\ chain.spent \subseteq s /\ s \subseteq 1..Len(chain.pool)
    BY <1>1, <1>2, <1>5
  <1>7. apply(t) = [chain EXCEPT !.nonce = n, !.pool = q, !.spent = s, !.balance = b]
    BY <1>1 DEF apply, out
  <1> HIDE DEF b, s, q, n
  <1>8. apply(t) \in Chains
    BY <1>1, <1>3, <1>5, <1>6, <1>7 DEF Chains
  <1>9. /\ apply(t).id = chain.id /\ apply(t).era = chain.era /\ apply(t).pool = q /\ apply(t).spent = s
    BY <1>1, <1>7 DEF Chains
  <1>10. s \subseteq DOMAIN q /\ Len(chain.pool) <= Len(q)
    BY <1>5, <1>6
  <1>11. QED
    BY <1>5, <1>6, <1>8, <1>9, <1>10

\* Commit, the faucet, a payment and a relaunch.
LEMMA WorldGrows ==
  ASSUME Typed, \/ Commit \/ faucet \/ \E c \in Clients : PayMe(c)
                \/ \E id \in {chain.id, chain.id + 1} : Relaunch(id)
  PROVE  Grows /\ ChainTyped' /\ UNCHANGED OwnVars
  <1>1. /\ chain \in Chains
        /\ chain.spent \subseteq DOMAIN chain.pool /\ Len(chain.pool) \in Nat /\ chain.id \in Nat
        /\ pending \subseteq Txs /\ chain.era \in Nat /\ chain.pool \in Seq(Notes)
    BY DEF Typed, ChainTyped, Chains
  <1>2. UNCHANGED OwnVars
    BY DEF Commit, faucet, Relaunch, PayMe, files, hist, OwnVars
  <1>3. CASE Commit
    <2>1. PICK t \in pending : /\ pending' = pending \ {t}
                               /\ chain' = IF valid(t) THEN apply(t) ELSE chain
      BY <1>3 DEF Commit
    <2>2. CASE valid(t)
      <3>1. Grows
        BY <2>1, <2>2, ApplyGrows DEF Grows
      <3>2. ChainTyped'
        BY <1>1, <2>1, <2>2, ApplyGrows DEF ChainTyped
      <3>3. QED
        BY <1>2, <3>1, <3>2
    <2>3. CASE ~valid(t)
      BY <1>1, <1>2, <2>1, <2>3 DEF Grows, ChainTyped
    <2>4. QED
      BY <2>2, <2>3
  <1>4. CASE faucet
    <2> DEFINE on == TRUE
    <2>1. /\ chain' = [chain EXCEPT !.exists = on, !.balance = Drip] /\ on \in BOOLEAN
          /\ UNCHANGED pending /\ Drip \in Nat
      BY <1>4, ConstantsNat DEF faucet
    <2> HIDE DEF on
    <2>2. chain' \in Chains
      BY <1>1, <2>1 DEF Chains
    <2>3. /\ chain'.id = chain.id /\ chain'.era = chain.era /\ chain'.pool = chain.pool
          /\ chain'.spent = chain.spent
      BY <1>1, <2>1 DEF Chains
    <2>4. QED
      BY <1>1, <1>2, <2>1, <2>2, <2>3 DEF Grows, ChainTyped
  <1>5. ASSUME NEW id \in {chain.id, chain.id + 1}, Relaunch(id)
        PROVE  Grows /\ ChainTyped'
    <2> DEFINE off == FALSE
    <2>0. PICK none : none = <<>>
      BY Zenon
    <2>1. /\ chain' = [id |-> id, era |-> chain.era + 1, exists |-> off, nonce |-> 0, balance |-> 0,
                       pool |-> none, spent |-> {}]
          /\ off \in BOOLEAN /\ pending' = {}
      BY <1>5, <2>0 DEF Relaunch
    <2>2. none \in Seq(Notes) /\ id \in Nat /\ chain.era + 1 \in Nat
      BY <1>1, <2>0
    <2> HIDE DEF off
    <2>3. chain' \in Chains /\ chain'.era = chain.era + 1 /\ chain'.spent = {}
      BY <2>1, <2>2 DEF Chains
    <2>4. QED
      BY <2>1, <2>3 DEF Grows, ChainTyped
  <1>6. ASSUME NEW c \in Clients, PayMe(c)
        PROVE  Grows /\ ChainTyped'
    <2> DEFINE x == entry(box[c].master, 2)
               q == Append(chain.pool, x)
    <2>1. x \in Notes
      BY FileFields DEF Typed, FilesTyped, entry, Notes
    <2>2. chain' = [chain EXCEPT !.pool = q] /\ UNCHANGED pending
      BY <1>1, <1>6 DEF PayMe
    <2> HIDE DEF x
    <2>3. /\ q \in Seq(Notes) /\ Len(q) = Len(chain.pool) + 1
          /\ \A i \in 1..Len(chain.pool) : q[i] = chain.pool[i]
          /\ DOMAIN q = 1..Len(q) /\ DOMAIN chain.pool = 1..Len(chain.pool)
      BY <1>1, <2>1
    <2> HIDE DEF q
    <2>4. chain' \in Chains
      BY <1>1, <2>2, <2>3 DEF Chains
    <2>5. chain'.id = chain.id /\ chain'.era = chain.era /\ chain'.pool = q /\ chain'.spent = chain.spent
      BY <1>1, <2>2 DEF Chains
    <2>6. Grows
      BY <1>1, <2>3, <2>5 DEF Grows
    <2>7. chain'.spent \subseteq DOMAIN chain'.pool
      BY <1>1, <2>3, <2>5
    <2>8. QED
      BY <1>1, <2>2, <2>4, <2>6, <2>7 DEF ChainTyped
  <1>7. QED
    BY <1>2, <1>3, <1>4, <1>5, <1>6

\* A process that dies forgets all.
LEMMA CrashShape ==
  ASSUME Typed, NEW p \in Procs, Crash(p)
  PROVE  Shape(p) /\ RestTyped
  <1>1. /\ fail(p) /\ UNCHANGED <<account, box, born, leaves, tags, ops, chain, pending, lost>>
        /\ reseal' = [reseal EXCEPT ![p] = NoReseal] /\ session' = [session EXCEPT ![p] = "none"]
    BY DEF Crash, fail, files, net
  <1>2. Shape(p)
    BY <1>1, GoesOn DEF Places
  <1>3. session' \in [Procs -> Keys]
    BY <1>1 DEF Typed, WorkTyped, Keys
  <1>4. SealPart
    BY <1>1, IdleWork, SealMoves
  <1>5. QED
    BY <1>1, <1>2, <1>3, <1>4 DEF RestTyped, Typed, FilesTyped, WorkTyped, ChainTyped

-----------------------------------------------------------------------------
(* The theorems.                                                           *)

Inv == Typed /\ ScanInv

\* The invariants hold at the start.
LEMMA InvInit ==
  ASSUME Init
  PROVE  Inv /\ Custody /\ CountInv
  <1> DEFINE off == FALSE
  <1>1. off \in BOOLEAN /\ off = FALSE
    OBVIOUS
  <1>2. FilesTyped
    <2>1. account = [exists |-> off, nonce |-> 0, seal |-> "plain"] /\ box = [c \in Clients |-> NoFile]
          /\ born = 0 /\ leaves = {} /\ tags = {}
      BY DEF Init
    <2> HIDE DEF off
    <2>2. "plain" \in Seals
      BY DEF Seals
    <2>3. account \in [exists : BOOLEAN, nonce : Nat, seal : Seals]
      BY <1>1, <2>1, <2>2
    <2>4. QED
      BY <2>1, <2>3, IdleWork DEF FilesTyped
  <1>3. WorkTyped /\ \A p \in Procs : work[p] = Idle /\ reseal[p] = NoReseal
    BY IdleWork DEF Init, WorkTyped, Keys
  <1>4. ChainTyped
    <2>0. PICK none : none = <<>>
      BY Zenon
    <2>1. /\ chain = [id |-> 0, era |-> 0, exists |-> off, nonce |-> 0, balance |-> 0, pool |-> none, spent |-> {}]
          /\ pending = {}
      BY <2>0 DEF Init
    <2>2. none \in Seq(Notes)
      BY <2>0
    <2> HIDE DEF off
    <2>3. QED
      BY <1>1, <2>1, <2>2 DEF ChainTyped, Chains
  <1>5. Custody /\ InStep
    BY <1>3, IdleWork DEF Custody, InStep
  <1>6. (\A c \in Clients : box[c] = NoFile) /\ chain.id = 0 /\ chain.era = 0
    BY DEF Init
  <1>7. ScanInv
    <2>1. Complete(NoFile)
      BY <1>6 DEF Complete, Agrees, AgreesWith, NoFile, EmptyCache
    <2>2. QED
      BY <1>3, <1>6, <2>1, IdleWork DEF ScanInv
  <1>8. CountInv
    <2>1. leaves = {} /\ tags = {} /\ lost = {}
      BY DEF Init
    <2>2. QED
      BY <1>5, <1>6, <2>1, IdleWork DEF CountInv, Masters, Below, Once
  <1>9. QED
    BY <1>2, <1>3, <1>4, <1>5, <1>7, <1>8 DEF Inv, Typed

\* Every step keeps the caches; one process keeps the masters and the counters.
LEMMA InvNext ==
  ASSUME Inv, [Next]_vars
  PROVE  /\ Inv' /\ (OneProcess /\ Custody => Custody')
         /\ OneProcess /\ Custody /\ CountInv => CountInv'
         /\ Custody => \A c \in Clients : box[c].exists => box'[c].exists /\ box'[c].master = box[c].master
  <1>1. Typed /\ ScanInv
    BY DEF Inv
  <1>2. ASSUME NEW p \in Procs, Process(p) \/ Crash(p)
        PROVE  /\ Inv' /\ (OneProcess /\ Custody => Custody')
               /\ OneProcess /\ Custody /\ CountInv => CountInv'
               /\ Custody => \A c \in Clients : box[c].exists => box'[c].exists /\ box'[c].master = box[c].master
    <2>1. Shape(p) /\ RestTyped
      BY <1>1, <1>2, ProcessShape, CrashShape
    <2>2. Typed'
      BY <1>1, <2>1, KeepsTyped
    <2>3. ScanInv'
      BY <1>1, <2>1, KeepsScan
    <2>4. OneProcess /\ Custody => Custody'
      BY <1>1, <2>1, KeepsCustody
    <2>5. OneProcess /\ Custody /\ CountInv => CountInv'
      BY <1>1, <2>1, KeepsCount
    <2>6. Custody => \A c \in Clients : box[c].exists => box'[c].exists /\ box'[c].master = box[c].master
      BY <1>1, <2>1, KeepsMasters
    <2>7. QED
      BY <2>2, <2>3, <2>4, <2>5, <2>6 DEF Inv
  <1>3. CASE \/ Commit \/ faucet \/ \E c \in Clients : PayMe(c)
             \/ \E id \in {chain.id, chain.id + 1} : Relaunch(id)
    BY <1>1, <1>3, WorldGrows, GrowsKeeps DEF Inv
  <1>4. CASE UNCHANGED vars
    <2>1. UNCHANGED OwnVars /\ UNCHANGED <<chain, pending>>
      BY <1>4 DEF vars, files, net, hist, OwnVars
    <2>2. Grows /\ ChainTyped'
      BY <1>1, <2>1 DEF Grows, Typed, ChainTyped, Chains
    <2>3. QED
      BY <1>1, <2>1, <2>2, GrowsKeeps DEF Inv
  <1>5. QED
    BY <1>2, <1>3, <1>4 DEF Next

\* Of one process at a time: once made, a shielded master is never replaced,
\* whether it is locked, sealed under another passphrase, sealed again beside
\* an operation, or the process is killed between any two writes.
THEOREM WalletMasterKept == OneProcess => (Spec => MasterKept)
  <1> SUFFICES ASSUME OneProcess PROVE Spec => MasterKept
    OBVIOUS
  <1>1. Init => Inv /\ Custody
    BY InvInit
  <1>2. (Inv /\ Custody) /\ [Next]_vars => (Inv /\ Custody)'
    BY InvNext
  <1>3. (Inv /\ Custody) /\ [Next]_vars =>
          [\A c \in Clients : box[c].exists => box'[c].exists /\ box'[c].master = box[c].master]_vars
    BY InvNext
  <1>4. QED
    BY <1>1, <1>2, <1>3, PTL DEF Spec, MasterKept

\* The invariant gives what ScanComplete says of the app's cache.
LEMMA InvScan ==
  ASSUME Inv
  PROVE  ScanComplete
  <1> DEFINE f == box["app"]
  <1>1. "app" \in Clients /\ f \in Files /\ Complete(f)
    BY DEF Inv, Typed, FilesTyped, ScanInv, Clients
  <1>2. \A i : found(i) = FoundIn(chain, i)
    BY DEF found, FoundIn
  <1>3. ASSUME f.scan.chain_id = chain.id, f.scan.era = chain.era
        PROVE  /\ f.scan.through <= Len(chain.pool)
               /\ f.scan.notes = {found(i) : i \in {j \in 1..f.scan.through : chain.pool[j].owner = f.master}}
               /\ \A n \in f.scan.spent : n.at \in chain.spent
    <2>1. /\ f.scan.through <= Len(chain.pool) /\ \A n \in f.scan.spent : n.at \in chain.spent
          /\ f.scan.notes = {FoundIn(chain, i) : i \in {j \in 1..f.scan.through : chain.pool[j].owner = f.master}}
      BY <1>1, <1>3 DEF Complete, Agrees, AgreesWith
    <2>2. QED
      BY <1>2, <2>1
  <1>4. QED
    BY <1>3 DEF ScanComplete

\* On the start of the chain it is from, the cache kept by cursor holds what a
\* scan of the whole pool would find, for any number of processes that overwrite
\* each other's cache or write back an older one.
THEOREM WalletScanComplete == Spec => []ScanComplete
  <1>1. Init => Inv
    BY InvInit
  <1>2. Inv /\ [Next]_vars => Inv'
    BY InvNext
  <1>3. Inv => ScanComplete
    BY InvScan
  <1>4. QED
    BY <1>1, <1>2, <1>3, PTL DEF Spec

\* The types of the three files follow from the invariant.
LEMMA InvTypes ==
  ASSUME Inv
  PROVE  WalletTypeOK
  <1>1. account.nonce \in Nat /\ account.seal \in Passes \cup {"plain"}
    BY DEF Inv, Typed, FilesTyped, Seals
  <1>2. ASSUME NEW c \in Clients
        PROVE  /\ box[c].ots \in 0..OTS_CAPACITY /\ box[c].tag \in Nat
               /\ box[c].seal \in Passes \cup {"plain"}
               /\ box[c].scan.spent \subseteq box[c].scan.notes
               /\ \A n \in box[c].scan.notes : n.at \in 1..box[c].scan.through
    <2>1. box[c] \in Files
      BY DEF Inv, Typed, FilesTyped
    <2>2. box[c].scan \in Caches /\ box[c].seal \in Seals /\ box[c].ots \in 0..OTS_CAPACITY
          /\ box[c].tag \in Nat
      BY <2>1, FileFields
    <2>3. QED
      BY <2>2, CacheFields DEF Seals
  <1>3. chain.balance \in Nat /\ chain.spent \subseteq DOMAIN chain.pool
    BY DEF Inv, Typed, ChainTyped, Chains
  <1>4. QED
    BY <1>1, <1>2, <1>3 DEF WalletTypeOK

\* Of one process at a time: no one-time leaf signs two spends and no tag makes
\* two notes, whenever it dies and however often it is started again, but for
\* the leaves and tags of the app's master once a change of passphrase has put
\* back a shield.json an operation had moved on (lost).
THEOREM WalletLeavesUsedOnce == OneProcess => (Spec => []LeavesUsedOnce)
  <1> SUFFICES ASSUME OneProcess PROVE Spec => []LeavesUsedOnce
    OBVIOUS
  <1>1. Init => Inv /\ Custody /\ CountInv
    BY InvInit
  <1>2. (Inv /\ Custody /\ CountInv) /\ [Next]_vars => (Inv /\ Custody /\ CountInv)'
    BY InvNext
  <1>3. Inv /\ CountInv => LeavesUsedOnce
    BY InvTypes DEF LeavesUsedOnce, CountInv, Once
  <1>4. QED
    BY <1>1, <1>2, <1>3, PTL DEF Spec

-----------------------------------------------------------------------------
(* The ratchet index, of one process at a time.                            *)

\* The command line fixes its nonce at the start and carries it.
Carried   == {"check", "scan", "tag", "ots", "prove", "nonce", "reserve"}
InHand(w) == w.pc \in {"submit", "poll"}
Fixed(w)  == w.pc \in {"reserve", "submit", "poll"} \/ (w.client = "cli" /\ w.pc \in Carried)

\* Where the chain's nonce gets to if all that is pending is accepted.
Reach == chain.nonce + Cardinality(pending)

Used(i)    == (\E t \in pending : t.id = i) \/ (\E r \in receipts : r.id = i)
Refused(i) == \E r \in receipts : r.id = i /\ ~r.ok

\* An operation is in hand, pending or answered, under an id of its own.
QueueIds ==
  /\ IsFiniteSet(pending) /\ slips \in Nat
  /\ \A t \in pending : t.id \in 0..ops
  /\ \A r \in receipts : r.id \in 0..ops
  /\ \A t \in pending, r \in receipts : t.id # r.id
  /\ \A t, u \in pending : t.id = u.id => t = u

NotYetSent(w) == w.pc \notin {"idle", "poll"} /\ w.op # "init" => w.id \in 0..ops /\ ~Used(w.id)

\* None of the exceptions has happened.
Held == slips = 0 /\ "account" \notin lost

\* A nonce that was fixed can be reached; while it is in hand the index on disk
\* is one past it; and the index can be reached but between the reservation and
\* the submission, or while a refusal has not been read.
RatchetOf(w) ==
  Held =>
    /\ Fixed(w) => w.nonce <= Reach
    /\ InHand(w) => account.nonce = w.nonce + 1
    /\ w.pc = "poll" /\ Refused(w.id) => w.client # "cli"
    /\ w.pc # "submit" /\ ~(w.pc = "poll" /\ Refused(w.id)) => account.nonce <= Reach

RatchetInv ==
  /\ QueueIds /\ (Procs = {} => account.nonce = 0)
  /\ \A p \in Procs : NotYetSent(work[p]) /\ RatchetOf(work[p])

\* What a step that submits nothing and waits for nothing does.
Local(p) ==
  LET o == work[p]
      w == work'[p] IN
  /\ UNCHANGED <<chain, pending, receipts, slips, lost>> /\ account'.nonce \in {account.nonce, 0}
  /\ ~InHand(o) /\ ~InHand(w)
  /\ \/ UNCHANGED ops /\ (w.pc = "idle" \/ w.op = "init")
     \/ UNCHANGED ops /\ w.id = o.id /\ o.pc # "idle" /\ o.op # "init"
     \/ ops' = ops + 1 /\ w.id = ops + 1
  /\ Fixed(w) => (w.nonce = o.nonce /\ Fixed(o)) \/ w.nonce \in {account.nonce, chain.nonce}

\* The numbers the argument adds up.
LEMMA ReachNat ==
  ASSUME Typed, QueueIds
  PROVE  /\ Cardinality(pending) \in Nat /\ Reach \in Nat /\ chain.nonce <= Reach
         /\ account.nonce \in Nat /\ chain.nonce \in Nat /\ ops \in Nat
  <1>1. Cardinality(pending) \in Nat
    BY FS_CardinalityType DEF QueueIds
  <1>2. account.nonce \in Nat /\ chain.nonce \in Nat /\ ops \in Nat
    BY DEF Typed, FilesTyped, ChainTyped, WorkTyped, Chains
  <1>3. QED
    BY <1>1, <1>2 DEF Reach

\* With one process, its own facts are all.
LEMMA OneEnough ==
  ASSUME OneProcess, NEW p \in Procs, QueueIds', NotYetSent(work[p])', RatchetOf(work[p])'
  PROVE  RatchetInv'
  <1>1. \A q \in Procs : q = p
    BY DEF OneProcess
  <1>2. Procs # {}
    OBVIOUS
  <1>3. \A q \in Procs : NotYetSent(work[q])' /\ RatchetOf(work[q])'
    BY <1>1
  <1>4. QED
    BY <1>2, <1>3 DEF RatchetInv

\* Such a step keeps the invariant.
LEMMA LocalKeeps ==
  ASSUME Typed, RatchetInv, OneProcess, NEW p \in Procs, Local(p)
  PROVE  RatchetInv'
  <1> DEFINE o == work[p]
             w == work'[p]
  <1>1. QueueIds /\ NotYetSent(o) /\ RatchetOf(o)
    BY DEF RatchetInv
  <1>2. /\ chain' = chain /\ pending' = pending /\ receipts' = receipts /\ slips' = slips /\ lost' = lost
        /\ account'.nonce \in {account.nonce, 0} /\ ops' \in {ops, ops + 1}
        /\ ~InHand(o) /\ ~InHand(w)
    BY DEF Local
  <1>3. Cardinality(pending) \in Nat /\ Reach \in Nat /\ chain.nonce <= Reach
        /\ account.nonce \in Nat /\ chain.nonce \in Nat /\ ops \in Nat
    BY <1>1, ReachNat
  <1>4. QueueIds'
    BY <1>1, <1>2, <1>3 DEF QueueIds
  <1>5. NotYetSent(work[p])'
    <2>1. ~Used(ops + 1)
      BY <1>1, <1>3 DEF Used, QueueIds
    <2>2. \/ w.pc = "idle" \/ w.op = "init"
          \/ ops' = ops /\ w.id = o.id /\ o.pc \notin {"idle", "poll"} /\ o.op # "init"
          \/ ops' = ops + 1 /\ w.id = ops + 1
      BY DEF Local, InHand
    <2>3. w.pc = "idle" \/ w.op = "init" \/ (w.id \in 0..ops' /\ ~Used(w.id))
      BY <1>1, <1>3, <2>1, <2>2 DEF NotYetSent
    <2>4. QED
      BY <1>2, <2>3 DEF NotYetSent, Used
  <1>6. ASSUME Held PROVE account'.nonce <= Reach /\ (Fixed(w) => w.nonce <= Reach)
    <2>1. account.nonce <= Reach /\ (Fixed(o) => o.nonce <= Reach)
      BY <1>1, <1>2, <1>6 DEF RatchetOf, InHand
    <2>2. Fixed(w) => (w.nonce = o.nonce /\ Fixed(o)) \/ w.nonce \in {account.nonce, chain.nonce}
      BY DEF Local
    <2>3. QED
      BY <1>2, <1>3, <2>1, <2>2
  <1>7. Reach' = Reach
    BY <1>2 DEF Reach
  <1>8. RatchetOf(work[p])'
    BY <1>2, <1>6, <1>7 DEF RatchetOf, InHand, Fixed, Held
  <1>9. QED
    BY <1>4, <1>5, <1>8, OneEnough

\* What a process is left with when it gives up.
LEMMA FailWork ==
  ASSUME Typed, NEW p \in Procs, fail(p)
  PROVE  work'[p] = Idle /\ Idle.pc = "idle" /\ ~InHand(Idle) /\ ~Fixed(Idle)
  <1>1. work'[p] = Idle
    BY DEF fail, Typed, WorkTyped
  <1>2. Idle.pc = "idle" /\ Idle.client = "app"
    BY DEF Idle
  <1>3. QED
    BY <1>1, <1>2 DEF InHand, Fixed, Carried

\* And when it goes on.
LEMMA StepWork ==
  ASSUME Typed, NEW p \in Procs, NEW l, step(p, l)
  PROVE  /\ work'[p].pc = l /\ work'[p].client = work[p].client /\ work'[p].id = work[p].id
         /\ work'[p].nonce = work[p].nonce /\ work'[p].op = work[p].op
  BY DEF step, Typed, WorkTyped, Works

\* Giving up before anything is in hand.
LEMMA FailLocal ==
  ASSUME Typed, NEW p \in Procs, fail(p), ~InHand(work[p]),
         UNCHANGED <<account, chain, pending, receipts, slips, lost, ops>>
  PROVE  Local(p)
  BY FailWork DEF Local

\* The buttons that only touch the account and the session.
LEMMA SessionLocal ==
  ASSUME Typed, NEW p \in Procs,
         create(p) \/ lock(p) \/ \E pass \in Passes : unlock(p, pass)
  PROVE  Local(p)
  <1>1. UNCHANGED <<chain, pending, receipts, slips, lost, ops, work>>
    BY DEF create, lock, unlock, net, hist
  <1>2. account'.nonce \in {account.nonce, 0}
    <2>1. CASE create(p)
      BY <2>1 DEF create
    <2>2. QED
      BY <2>1 DEF lock, unlock, files
  <1>3. work[p].pc = "idle" /\ work'[p].pc = "idle"
    BY <1>1 DEF create, lock, unlock, free
  <1>4. QED
    BY <1>1, <1>2, <1>3 DEF Local, InHand, Fixed, Carried

\* An operation begins under a new id.
LEMMA BeginLocal ==
  ASSUME Typed, NEW p \in Procs, NEW c, NEW op, NEW a, NEW first, begin(p, c, op, a, first),
         first \in {"load", "signer"} \/ (first = "check" /\ c # "cli")
  PROVE  Local(p)
  <1>1. /\ UNCHANGED <<account, chain, pending, receipts, slips, lost>> /\ ops' = ops + 1
        /\ work[p].pc = "idle"
    BY DEF begin, files, net, hist, free
  <1>2. work'[p].pc = first /\ work'[p].client = c /\ work'[p].id = ops'
    BY DEF begin, Typed, WorkTyped, Idle
  <1>3. QED
    BY <1>1, <1>2 DEF Local, InHand, Fixed, Carried

LEMMA BeginsLocal ==
  ASSUME Typed, NEW p \in Procs,
         \/ do_scan(p) \/ do_disclose(p)
         \/ \E a \in Amounts : do_send(p, a) \/ do_shield(p, a) \/ do_unshield(p, a) \/ do_pay(p, a)
         \/ verbs(p)
  PROVE  Local(p)
  <1>1. ASSUME NEW op, NEW a, begin(p, "app", op, a, "load") PROVE Local(p)
    BY <1>1, BeginLocal
  <1>2. ASSUME NEW op, NEW a, begin(p, "cli", op, a, "signer") PROVE Local(p)
    BY <1>2, BeginLocal
  <1>3. ASSUME NEW c \in {"app", "account"}, NEW a, begin(p, c, "send", a, "check") PROVE Local(p)
    BY <1>3, BeginLocal
  <1>4. CASE do_scan(p) \/ do_disclose(p)
    BY <1>1, <1>4 DEF do_scan, do_disclose
  <1>5. CASE \E a \in Amounts : do_send(p, a) \/ do_shield(p, a) \/ do_unshield(p, a) \/ do_pay(p, a)
    BY <1>1, <1>3, <1>5 DEF do_send, do_shield, do_unshield, do_pay
  <1>6. CASE verbs(p) /\ ~cli_init(p)
    BY <1>2, <1>3, <1>6 DEF verbs, sign_submit, cli_transfer, cli_shield, cli_unshield, cli_pay
  <1>7. CASE cli_init(p)
    <2>1. /\ UNCHANGED <<account, chain, pending, receipts, slips, lost, ops>> /\ work[p].pc = "idle"
      BY <1>7 DEF cli_init, files, net, hist, free
    <2>2. work'[p].pc = "create" /\ work'[p].op = "init"
      BY <1>7 DEF cli_init, Typed, WorkTyped, Idle
    <2>3. QED
      BY <2>1, <2>2 DEF Local, InHand, Fixed, Carried
  <1>8. QED
    BY <1>4, <1>5, <1>6, <1>7

\* Where a step inside an operation leads, with the nonce it had, or none.
LEMMA OnwardLocal ==
  ASSUME Typed, NEW p \in Procs,
         UNCHANGED <<account, chain, pending, receipts, slips, lost, ops>>, work[p].op # "init",
         work[p].pc \in Carried \cup {"load", "create", "signer"}, work'[p].pc \in Carried \cup {"create"},
         work'[p].id = work[p].id, work'[p].client = work[p].client,
         \/ work'[p].nonce = work[p].nonce
         \/ work'[p].nonce \in {account.nonce, chain.nonce},
         work[p].pc \in {"load", "create", "signer"} /\ work[p].client = "cli"
            => work'[p].nonce \in {account.nonce, chain.nonce},
         work'[p].pc = "reserve"
            => work[p].client = "cli" \/ work'[p].nonce \in {account.nonce, chain.nonce}
  PROVE  Local(p)
  BY DEF Local, InHand, Fixed, Carried

\* Everything between the first step and the reservation.
LEMMA MiddleLocal ==
  ASSUME Typed, NEW p \in Procs,
         \/ load_or_create_shield(p) \/ create_master(p) \/ cli_signer(p) \/ require_fee(p) \/ scan(p)
         \/ reserve_tag(p) \/ reserve_ots(p) \/ prove(p) \/ sync_nonce(p) \/ op_error(p)
  PROVE  Local(p)
  <1> DEFINE o == work[p]
             w == work'[p]
  <1>1. UNCHANGED <<account, chain, pending, receipts, slips, lost, ops>>
    BY DEF load_or_create_shield, create_master, cli_signer, require_fee, scan, reserve_tag, reserve_ots,
           prove, sync_nonce, op_error, files, net, hist
  <1>2. /\ o \in Works /\ work \in [Procs -> Works] /\ WorkOk(o)
        /\ o.pc \in Carried \cup {"load", "create", "signer"} /\ ~InHand(o)
        /\ o.op = "init" => o.pc = "create" /\ o.client # "app"
    BY DEF Typed, WorkTyped, WorkOk, load_or_create_shield, create_master, cli_signer, require_fee, scan,
           reserve_tag, reserve_ots, prove, sync_nonce, op_error, Before, Carried, InHand
  <1>f. CASE fail(p)
    BY <1>1, <1>2, <1>f, FailLocal
  <1>3. ASSUME NEW l \in Carried, step(p, l), o.pc \notin {"load", "create", "signer"},
               l = "reserve" => o.client = "cli"
        PROVE  Local(p)
    BY <1>1, <1>2, <1>3, StepWork, OnwardLocal
  <1>4. CASE load_or_create_shield(p)
    <2>1. CASE ~fail(p)
      <3>1. w.pc \in {"check", "create"} /\ w.id = o.id /\ w.client = o.client /\ w.nonce = o.nonce
        <4>1. CASE step(p, "create")
          BY <4>1, StepWork
        <4>2. CASE ~step(p, "create")
          BY <1>2, <1>4, <2>1, <4>2 DEF load_or_create_shield, Works
        <4>3. QED
          BY <4>1, <4>2
      <3>2. o.client = "app" /\ o.pc = "load"
        BY <1>2, <1>4 DEF load_or_create_shield, WorkOk
      <3>3. QED
        BY <1>1, <1>2, <3>1, <3>2, OnwardLocal DEF Carried
    <2>2. QED
      BY <1>f, <2>1
  <1>c. CASE create_master(p)
    <2>1. o.pc = "create" /\ o.client \in Clients
      BY <1>2, <1>c DEF create_master, WorkOk
    <2>2. CASE o.client = "app"
      <3>1. PICK k : work' = [work EXCEPT ![p] = [o EXCEPT !.file = k, !.pc = "check"]]
        BY <1>c, <2>2 DEF create_master
      <3>2. w.pc = "check" /\ w.id = o.id /\ w.client = o.client /\ w.nonce = o.nonce
        BY <1>2, <3>1 DEF Works
      <3>3. QED
        BY <1>1, <1>2, <2>1, <2>2, <3>2, OnwardLocal DEF Carried
    <2>3. CASE o.client # "app"
      BY <1>c, <1>f, <2>3 DEF create_master, fail
    <2>4. QED
      BY <2>2, <2>3
  <1>5. CASE cli_signer(p)
    <2>1. CASE ~fail(p)
      <3>1. w.pc = "check" /\ w.id = o.id /\ w.client = o.client
            /\ w.nonce \in {account.nonce, chain.nonce}
        BY <1>2, <1>5, <2>1 DEF cli_signer, Works
      <3>2. o.pc = "signer"
        BY <1>5 DEF cli_signer
      <3>3. QED
        BY <1>1, <1>2, <3>1, <3>2, OnwardLocal DEF Carried
    <2>2. QED
      BY <1>f, <2>1
  <1>6. CASE require_fee(p)
    <2> DEFINE l == CASE o.op = "send" -> "nonce" [] o.op = "shield" -> "tag" [] OTHER -> "scan"
    <2>1. o.pc = "check" /\ (step(p, l) \/ fail(p))
      BY <1>6 DEF require_fee
    <2>2. l \in Carried /\ l # "reserve"
      BY DEF Carried
    <2> HIDE DEF l
    <2>3. QED
      BY <1>3, <1>f, <2>1, <2>2
  <1>7. CASE scan(p)
    <2>1. CASE ~fail(p)
      <3> DEFINE from == IF o.client = "app" THEN o.file ELSE [o.file EXCEPT !.scan = EmptyCache]
                 s(id, missed) == my_notes(from, id, missed)
                 kept(id, missed) == IF o.client = "app" THEN [o.file EXCEPT !.scan = s(id, missed)] ELSE o.file
      <3>a. \E id \in {chain.id} \cup (IF o.client = "app" THEN {-1} ELSE {}), missed \in SUBSET chain.spent :
              IF o.op \in SpendOps /\ pick_note(s(id, missed), o.amount) # {}
              THEN \E i \in pick_note(s(id, missed), o.amount) :
                     work' = [work EXCEPT ![p].note = i, ![p].file = kept(id, missed), ![p].pc = "tag"]
              ELSE fail(p)
        BY <1>7 DEF scan
      <3> HIDE DEF s, kept
      <3>1. PICK i, k : work' = [work EXCEPT ![p].note = i, ![p].file = k, ![p].pc = "tag"]
        BY <2>1, <3>a
      <3>2. w.pc = "tag" /\ w.id = o.id /\ w.client = o.client /\ w.nonce = o.nonce
        BY <1>2, <3>1 DEF Works
      <3>3. o.pc = "scan"
        BY <1>7 DEF scan
      <3>4. QED
        BY <1>1, <1>2, <3>2, <3>3, OnwardLocal DEF Carried
    <2>2. QED
      BY <1>f, <2>1
  <1>8. CASE reserve_tag(p)
    <2>1. w.pc \in {"prove", "ots"} /\ w.id = o.id /\ w.client = o.client /\ w.nonce = o.nonce
          /\ o.pc = "tag"
      BY <1>2, <1>8 DEF reserve_tag, Works
    <2>2. QED
      BY <1>1, <1>2, <2>1, OnwardLocal DEF Carried
  <1>9. CASE reserve_ots(p)
    <2>1. CASE ~fail(p)
      <3>1. w.pc = "prove" /\ w.id = o.id /\ w.client = o.client /\ w.nonce = o.nonce /\ o.pc = "ots"
        BY <1>2, <1>9, <2>1 DEF reserve_ots, Works
      <3>2. QED
        BY <1>1, <1>2, <3>1, OnwardLocal DEF Carried
    <2>2. QED
      BY <1>f, <2>1
  <1>10. CASE prove(p)
    <2>1. o.pc = "prove" /\ (step(p, "nonce") \/ fail(p)) /\ "nonce" \in Carried
      BY <1>10 DEF prove, Carried
    <2>2. QED
      BY <1>3, <1>f, <2>1
  <1>11. CASE sync_nonce(p)
    <2>1. o.pc = "nonce"
      BY <1>11 DEF sync_nonce
    <2>2. CASE o.client = "cli" /\ step(p, "reserve")
      <3>1. "reserve" \in Carried
        BY DEF Carried
      <3>2. QED
        BY <1>3, <2>1, <2>2, <3>1
    <2>3. CASE work' = [work EXCEPT ![p].nonce = chain.nonce, ![p].pc = "reserve"]
      <3>1. w.pc = "reserve" /\ w.id = o.id /\ w.client = o.client /\ w.nonce = chain.nonce
        BY <1>2, <2>3 DEF Works
      <3>2. QED
        BY <1>1, <1>2, <2>1, <3>1, OnwardLocal DEF Carried
    <2>4. QED
      BY <1>11, <1>f, <2>2, <2>3 DEF sync_nonce
  <1>12. CASE op_error(p)
    BY <1>12, <1>f DEF op_error
  <1>13. QED
    BY <1>4, <1>5, <1>6, <1>7, <1>8, <1>9, <1>10, <1>11, <1>12, <1>c

\* The index is saved one past the nonce that is about to sign.
LEMMA SavedNonce ==
  ASSUME Typed, NEW p \in Procs, NEW n, save_nonce(p, n)
  PROVE  account'.nonce = n
  BY DEF save_nonce, Typed, FilesTyped

\* reserve_nonce: the index goes one past a nonce that can be reached.
LEMMA ReserveKeeps ==
  ASSUME Typed, RatchetInv, OneProcess, NEW p \in Procs, reserve_nonce(p)
  PROVE  RatchetInv'
  <1> DEFINE o == work[p]
             w == work'[p]
  <1>1. QueueIds /\ NotYetSent(o) /\ RatchetOf(o) /\ o.pc = "reserve" /\ ~InHand(o) /\ o.op # "init"
    BY DEF RatchetInv, reserve_nonce, InHand, Typed, WorkTyped, WorkOk
  <1>2. UNCHANGED <<chain, pending, receipts, slips, lost, ops>>
    BY DEF reserve_nonce, net, hist
  <1>f. CASE fail(p) /\ UNCHANGED account
    BY <1>1, <1>2, <1>f, FailLocal, LocalKeeps
  <1>s. CASE save_nonce(p, o.nonce + 1) /\ step(p, "submit")
    <2>1. account'.nonce = o.nonce + 1
      BY <1>s, SavedNonce
    <2>2. w.pc = "submit" /\ w.id = o.id /\ w.nonce = o.nonce /\ w.op = o.op
      BY <1>s, StepWork
    <2>3. QueueIds'
      BY <1>1, <1>2 DEF QueueIds
    <2>4. NotYetSent(work[p])'
      BY <1>1, <1>2, <2>2 DEF NotYetSent, Used
    <2>5. Held => o.nonce <= Reach
      BY <1>1 DEF RatchetOf, Fixed
    <2>6. RatchetOf(work[p])'
      BY <1>2, <2>1, <2>2, <2>5 DEF RatchetOf, Reach, Held
    <2>7. QED
      BY <2>3, <2>4, <2>6, OneEnough
  <1>q. QED
    BY <1>f, <1>s DEF reserve_nonce

\* A transaction with an id of its own joins the queue.
LEMMA QueueGrows ==
  ASSUME Typed, QueueIds, NEW t, t.id \in 0..ops, ~Used(t.id), pending' = pending \cup {t},
         UNCHANGED <<chain, receipts, ops>>, slips' \in Nat
  PROVE  QueueIds' /\ Reach' = Reach + 1
  <1>1. t \notin pending
    BY DEF Used
  <1>2. IsFiniteSet(pending')
    BY FS_AddElement DEF QueueIds
  <1>3. Cardinality(pending') = Cardinality(pending) + 1 /\ Cardinality(pending) \in Nat
        /\ chain.nonce \in Nat
    BY <1>1, FS_AddElement, ReachNat DEF QueueIds
  <1>4. QueueIds'
    <2>1. \A u \in pending : u.id # t.id
      BY DEF Used
    <2>2. \A r \in receipts : r.id # t.id
      BY DEF Used
    <2>3. \A x, y \in pending' : x.id = y.id => x = y
      BY <2>1 DEF QueueIds
    <2>4. \A x \in pending', r \in receipts' : x.id # r.id
      BY <2>2 DEF QueueIds
    <2>5. QED
      BY <1>2, <2>3, <2>4 DEF QueueIds
  <1>5. QED
    BY <1>3, <1>4 DEF Reach

\* The index is put back, or the slip is counted.
LEMMA RolledBack ==
  ASSUME Typed, QueueIds, NEW p \in Procs, NEW n, rollback(p, n)
  PROVE  \/ account'.nonce = work[p].nonce /\ slips' = slips
         \/ UNCHANGED account /\ slips' = slips + 1
  BY SavedNonce DEF rollback

\* submit: queued and waited for, or the index is put back.
LEMMA SubmitKeeps ==
  ASSUME Typed, RatchetInv, OneProcess, NEW p \in Procs, submit(p)
  PROVE  RatchetInv'
  <1> DEFINE o == work[p]
             w == work'[p]
  <1>1. QueueIds /\ RatchetOf(o) /\ NotYetSent(o) /\ o.pc = "submit" /\ slips \in Nat
    BY DEF RatchetInv, submit, QueueIds
  <1>2. UNCHANGED <<chain, receipts, lost, ops>> /\ o.nonce \in Int /\ o.op # "init"
    BY <1>1 DEF submit, Typed, WorkTyped, WorkOk, Works
  <1>3. Reach \in Nat /\ o.id \in 0..ops /\ ~Used(o.id)
    BY <1>1, <1>2, ReachNat DEF NotYetSent
  <1>4. Held => o.nonce <= Reach /\ account.nonce = o.nonce + 1
    BY <1>1 DEF RatchetOf, Fixed, InHand
  <1>5. PICK t : /\ t.id = o.id
                 /\ \/ pending' = pending \cup {t} /\ step(p, "poll") /\ UNCHANGED <<account, slips>>
                    \/ /\ pending' \in {pending, pending \cup {t}} /\ fail(p)
                       /\ \/ account'.nonce = o.nonce /\ slips' = slips
                          \/ UNCHANGED account /\ slips' = slips + 1
    <2>1. \/ pending' = pending \cup {signed(o)} /\ step(p, "poll") /\ UNCHANGED <<account, slips>>
          \/ pending' \in {pending, pending \cup {signed(o)}} /\ fail(p) /\ \E n : rollback(p, n)
      BY DEF submit
    <2>2. signed(o).id = o.id
      BY DEF signed
    <2>3. QED
      BY <1>1, <2>1, <2>2, RolledBack
  <1>0. slips' \in Nat /\ (slips' = 0 => slips = 0)
    BY <1>1, <1>5
  <1>6. QueueIds' /\ Reach' \in {Reach, Reach + 1} /\ (pending' # pending => Reach' = Reach + 1)
    <2>1. CASE pending' = pending \cup {t}
      <3>1. t.id \in 0..ops /\ ~Used(t.id)
        BY <1>3, <1>5
      <3>2. QED
        BY <1>0, <1>1, <1>2, <2>1, <3>1, QueueGrows
    <2>2. CASE pending' = pending
      BY <1>0, <1>1, <1>2, <2>2 DEF QueueIds, Reach
    <2>3. QED
      BY <1>5, <2>1, <2>2
  <1>h. Held' => Held
    BY <1>0, <1>2 DEF Held
  <1>7. CASE pending' = pending \cup {t} /\ step(p, "poll") /\ UNCHANGED <<account, slips>>
    <2>1. w.pc = "poll" /\ w.id = o.id /\ w.nonce = o.nonce /\ w.client = o.client
      BY <1>7, StepWork
    <2>2. pending' # pending
      BY <1>3, <1>5, <1>7 DEF Used
    <2>3. ~Refused(work[p].id)'
      BY <1>2, <1>3, <2>1 DEF Used, Refused
    <2>4. NotYetSent(work[p])'
      BY <2>1 DEF NotYetSent
    <2>5. Held' => /\ w.nonce <= Reach' /\ account'.nonce = w.nonce + 1
                   /\ account'.nonce <= Reach'
      BY <1>2, <1>3, <1>4, <1>6, <1>7, <1>h, <2>1, <2>2
    <2>6. RatchetOf(work[p])'
      BY <2>1, <2>3, <2>5 DEF RatchetOf
    <2>7. QED
      BY <1>6, <2>4, <2>6, OneEnough
  <1>8. CASE fail(p) /\ \/ account'.nonce = o.nonce /\ slips' = slips
                        \/ UNCHANGED account /\ slips' = slips + 1
    <2>1. w.pc = "idle" /\ ~InHand(w) /\ ~Fixed(w)
      BY <1>8, FailWork
    <2>2. NotYetSent(work[p])'
      BY <2>1 DEF NotYetSent
    <2>3. Held' => account'.nonce = o.nonce
      BY <1>1, <1>8 DEF Held
    <2>4. Held' => account'.nonce <= Reach'
      BY <1>2, <1>3, <1>4, <1>6, <1>h, <2>3
    <2>5. RatchetOf(work[p])'
      BY <2>1, <2>4 DEF RatchetOf, InHand, Fixed
    <2>6. QED
      BY <1>6, <2>2, <2>5, OneEnough
  <1>9. QED
    BY <1>5, <1>7, <1>8

\* poll: a refusal that was read puts the index back; else it can be reached.
LEMMA PollKeeps ==
  ASSUME Typed, RatchetInv, OneProcess, NEW p \in Procs, poll(p)
  PROVE  RatchetInv'
  <1> DEFINE o == work[p]
             w == work'[p]
  <1>1. QueueIds /\ RatchetOf(o) /\ o.pc = "poll" /\ fail(p) /\ slips \in Nat
    BY DEF RatchetInv, poll, QueueIds
  <1>2. UNCHANGED <<chain, pending, receipts, lost, ops>>
    BY DEF poll, net
  <1>3. w.pc = "idle" /\ ~InHand(w) /\ ~Fixed(w)
    BY <1>1, FailWork
  <1>4. \/ Refused(o.id) /\ account'.nonce = o.nonce /\ slips' = slips
        \/ Refused(o.id) /\ slips' = slips + 1
        \/ ~(Refused(o.id) /\ o.client # "cli") /\ UNCHANGED account /\ slips' = slips
    <2>1. \/ Refused(o.id) /\ rollback(p, 0)
          \/ ~(Refused(o.id) /\ o.client # "cli") /\ UNCHANGED <<account, slips>>
      BY DEF poll, Refused
    <2>2. QED
      BY <1>1, <2>1, RolledBack
  <1>5. slips' \in Nat /\ (Held' => Held)
    BY <1>1, <1>2, <1>4 DEF Held
  <1>6. Held' => account'.nonce <= Reach
    <2>1. ASSUME Held', Held PROVE account'.nonce <= Reach
      <3>1. slips = 0 /\ slips' = 0
        BY <2>1 DEF Held
      <3>2. /\ o.nonce <= Reach /\ (Refused(o.id) => o.client # "cli")
            /\ ~Refused(o.id) => account.nonce <= Reach
        BY <1>1, <2>1 DEF RatchetOf, Fixed
      <3>3. QED
        BY <1>4, <3>1, <3>2
    <2>2. QED
      BY <1>5, <2>1
  <1>7. QueueIds' /\ NotYetSent(work[p])' /\ Reach' = Reach
    BY <1>1, <1>2, <1>3, <1>5 DEF QueueIds, NotYetSent, Reach
  <1>8. RatchetOf(work[p])'
    BY <1>3, <1>6, <1>7 DEF RatchetOf, InHand, Fixed
  <1>9. QED
    BY <1>7, <1>8, OneEnough

\* Crash: the index may stay ahead of what was in hand, and the slip is counted.
LEMMA CrashKeeps ==
  ASSUME Typed, RatchetInv, OneProcess, NEW p \in Procs, Crash(p)
  PROVE  RatchetInv'
  <1> DEFINE o == work[p]
             w == work'[p]
  <1>1. QueueIds /\ RatchetOf(o) /\ fail(p) /\ slips \in Nat
    BY DEF RatchetInv, Crash, fail, QueueIds
  <1>2. /\ UNCHANGED <<account, chain, pending, receipts, ops, lost>>
        /\ slips' = IF InHand(o) THEN slips + 1 ELSE slips
    BY <1>1 DEF Crash, net, files, InHand
  <1>3. w.pc = "idle" /\ ~InHand(w) /\ ~Fixed(w)
    BY <1>1, FailWork
  <1>4. Held' => account.nonce <= Reach
    BY <1>1, <1>2 DEF RatchetOf, InHand, Held
  <1>5. QueueIds' /\ NotYetSent(work[p])' /\ Reach' = Reach
    BY <1>1, <1>2, <1>3 DEF QueueIds, NotYetSent, Reach
  <1>6. RatchetOf(work[p])'
    BY <1>2, <1>3, <1>4, <1>5 DEF RatchetOf, InHand, Fixed
  <1>7. QED
    BY <1>5, <1>6, OneEnough

\* A transaction leaves the queue with its receipt.
LEMMA QueueShrinks ==
  ASSUME Typed, QueueIds, NEW t \in pending, NEW r, r.id = t.id,
         pending' = pending \ {t}, receipts' = receipts \cup {r},
         slips' \in Nat, UNCHANGED ops
  PROVE  /\ QueueIds' /\ Cardinality(pending') = Cardinality(pending) - 1
         /\ \A i : Used(i)' <=> Used(i)
  <1>1. IsFiniteSet(pending') /\ Cardinality(pending') = Cardinality(pending) - 1
    BY FS_RemoveElement DEF QueueIds
  <1>2. \A x \in pending' : x.id # t.id
    BY DEF QueueIds
  <1>3. \A x \in pending', y \in receipts' : x.id # y.id
    BY <1>2 DEF QueueIds
  <1>4. (\A y \in receipts' : y.id \in 0..ops) /\ (\A x \in pending' : x.id \in 0..ops)
    BY DEF QueueIds
  <1>5. \A x, y \in pending' : x.id = y.id => x = y
    BY DEF QueueIds
  <1>6. QueueIds'
    BY <1>1, <1>3, <1>4, <1>5 DEF QueueIds
  <1>7. \A i : Used(i)' <=> Used(i)
    BY DEF Used
  <1>8. QED
    BY <1>1, <1>6, <1>7

\* Commit: an accepted transaction moves what can be reached from the queue to
\* the chain; a refused one takes it back by one, and the process that waits
\* for it, which put the index there, will read of it.
LEMMA CommitKeeps ==
  ASSUME Typed, RatchetInv, OneProcess, Commit
  PROVE  RatchetInv'
  <1>1. PICK t \in pending :
          /\ pending' = pending \ {t} /\ receipts' = receipts \cup {[id |-> t.id, ok |-> valid(t)]}
          /\ chain' = IF valid(t) THEN apply(t) ELSE chain
          /\ slips' = slips + (IF ~valid(t) /\ ~awaited(t) THEN 1 ELSE 0)
          /\ UNCHANGED <<account, work, ops, lost>>
    BY DEF Commit, files
  <1> DEFINE ok == valid(t)
             r == [id |-> t.id, ok |-> ok]
  <1>2. r.id = t.id /\ (r.ok <=> valid(t))
    OBVIOUS
  <1>3. QueueIds /\ slips \in Nat /\ slips' \in Nat /\ (Held' => Held)
        /\ (Held' => valid(t) \/ awaited(t))
    BY <1>1 DEF RatchetInv, QueueIds, Held
  <1>4. chain'.nonce = IF valid(t) THEN chain.nonce + 1 ELSE chain.nonce
    BY <1>1 DEF apply, Typed, ChainTyped, Chains
  <1>5. receipts' = receipts \cup {r}
    BY <1>1
  <1> HIDE DEF r
  <1>6. /\ QueueIds' /\ Cardinality(pending') = Cardinality(pending) - 1
        /\ \A i : Used(i)' <=> Used(i)
    BY <1>1, <1>2, <1>3, <1>5, QueueShrinks
  <1>7. Reach' = (IF valid(t) THEN Reach ELSE Reach - 1) /\ Reach \in Nat /\ account.nonce \in Nat
    <2>1. Cardinality(pending) \in Nat /\ chain.nonce \in Nat
      BY <1>3, ReachNat
    <2>2. QED
      BY <1>3, <1>4, <1>6, <2>1, ReachNat DEF Reach
  <1>8. ASSUME NEW p \in Procs
        PROVE  NotYetSent(work[p])' /\ RatchetOf(work[p])'
    <2> DEFINE o == work[p]
    <2>1. NotYetSent(o) /\ RatchetOf(o) /\ o.nonce \in Int
      BY DEF RatchetInv, Typed, WorkTyped, Works
    <2>2. NotYetSent(work[p])'
      BY <1>1, <1>6, <2>1 DEF NotYetSent
    <2>3. Refused(o.id)' <=> Refused(o.id) \/ (~valid(t) /\ t.id = o.id)
      BY <1>1, <1>2, <1>5 DEF Refused
    <2>4. CASE ~Held'
      BY <2>2, <2>4 DEF RatchetOf
    <2>5. CASE Held' /\ valid(t)
      <3>1. Reach' = Reach /\ Held /\ (Refused(o.id)' <=> Refused(o.id))
        BY <1>3, <1>7, <2>3, <2>5
      <3>2. RatchetOf(work[p])'
        BY <1>1, <2>1, <3>1 DEF RatchetOf
      <3>3. QED
        BY <2>2, <3>2
    <2>6. CASE Held' /\ ~valid(t)
      <3>1. o.pc = "poll" /\ o.id = t.id /\ o.client # "cli"
        BY <1>3, <2>6 DEF awaited, OneProcess
      <3>2. ~Refused(o.id)
        BY <1>3, <3>1 DEF Refused, QueueIds
      <3>3. Reach' = Reach - 1 /\ Held /\ Refused(o.id)'
        BY <1>3, <1>7, <2>3, <2>6, <3>1
      <3>4. account.nonce = o.nonce + 1 /\ account.nonce <= Reach
        BY <2>1, <3>1, <3>2, <3>3 DEF RatchetOf, InHand
      <3>5. o.nonce <= Reach'
        BY <1>7, <2>1, <3>3, <3>4
      <3>6. RatchetOf(work[p])'
        BY <1>1, <3>1, <3>3, <3>4, <3>5 DEF RatchetOf
      <3>7. QED
        BY <2>2, <3>6
    <2>7. QED
      BY <2>4, <2>5, <2>6
  <1>9. Procs = {} => account'.nonce = 0
    BY <1>1 DEF RatchetInv
  <1>10. QED
    BY <1>6, <1>8, <1>9 DEF RatchetInv

\* Nothing of this moves when the account is created on the chain, a note is
\* paid to the user or the files are sealed again; an account.json that is put
\* back is counted.
LEMMA StillKeeps ==
  ASSUME Typed, RatchetInv, UNCHANGED <<work, pending, receipts, ops, slips>>, lost \subseteq lost',
         chain'.nonce = chain.nonce,
         account'.nonce = account.nonce \/ ("account" \in lost' /\ Procs # {})
  PROVE  RatchetInv'
  <1>1. Reach' = Reach /\ (\A i : Used(i)' <=> Used(i)) /\ (\A i : Refused(i)' <=> Refused(i))
    BY DEF Reach, Used, Refused
  <1>2. QueueIds' /\ (Procs = {} => account'.nonce = 0)
    BY DEF RatchetInv, QueueIds
  <1>3. Held' => Held /\ account'.nonce = account.nonce
    BY DEF Held
  <1>4. ASSUME NEW p \in Procs PROVE NotYetSent(work[p])' /\ RatchetOf(work[p])'
    <2>1. NotYetSent(work[p]) /\ RatchetOf(work[p])
      BY DEF RatchetInv
    <2>2. NotYetSent(work[p])'
      BY <1>1, <2>1 DEF NotYetSent
    <2>3. RatchetOf(work[p])'
      BY <1>1, <1>3, <2>1 DEF RatchetOf
    <2>4. QED
      BY <2>2, <2>3
  <1>5. QED
    BY <1>2, <1>4 DEF RatchetInv

\* A change of passphrase.
LEMMA ResealStill ==
  ASSUME Typed, NEW p \in Procs,
         \/ \E pass \in Passes \cup {"none"} : read_secret_files(p, pass)
         \/ protect(p) \/ write_secret_files(p)
  PROVE  /\ UNCHANGED <<work, pending, receipts, ops, slips>> /\ lost \subseteq lost'
         /\ chain'.nonce = chain.nonce
         /\ account'.nonce = account.nonce \/ ("account" \in lost' /\ Procs # {})
  <1>1. UNCHANGED <<work, pending, receipts, ops, slips, chain>>
    BY DEF read_secret_files, protect, write_secret_files, net, hist
  <1>2. CASE UNCHANGED <<account, lost>>
    BY <1>1, <1>2
  <1>3. CASE write_secret_files(p) /\ reseal[p].pc = "shield"
    BY <1>1, <1>3 DEF write_secret_files, files
  <1>4. CASE write_secret_files(p) /\ reseal[p].pc = "account" /\ ~UNCHANGED <<account, lost>>
    <2>1. /\ account' = [account EXCEPT !.nonce = reseal[p].nonce, !.seal = encode(p, account)]
          /\ lost' = lost \cup {f \in {"account"} : reseal[p].nonce # account.nonce}
      BY <1>4 DEF write_secret_files, files
    <2>2. account'.nonce = reseal[p].nonce
      BY <2>1 DEF Typed, FilesTyped
    <2>3. QED
      BY <1>1, <2>1, <2>2
  <1>5. QED
    BY <1>2, <1>3, <1>4 DEF read_secret_files, protect, write_secret_files, files, hist

\* Relaunch: the queue is lost and the slip counted.
LEMMA RelaunchKeeps ==
  ASSUME Typed, RatchetInv, NEW id, Relaunch(id)
  PROVE  RatchetInv'
  <1>1. /\ pending' = {} /\ slips' = slips + 1 /\ UNCHANGED <<account, work, receipts, ops>>
    BY DEF Relaunch, files
  <1>2. slips \in Nat /\ IsFiniteSet({})
    BY FS_EmptySet DEF RatchetInv, QueueIds
  <1>3. slips' \in Nat /\ slips' # 0
    BY <1>1, <1>2
  <1>4. QueueIds' /\ (Procs = {} => account'.nonce = 0)
    BY <1>1, <1>2, <1>3 DEF RatchetInv, QueueIds
  <1>5. \A i : Used(i)' => Used(i)
    BY <1>1 DEF Used
  <1>6. \A p \in Procs : NotYetSent(work[p])' /\ RatchetOf(work[p])'
    BY <1>1, <1>3, <1>5 DEF RatchetInv, NotYetSent, RatchetOf, Held
  <1>7. QED
    BY <1>4, <1>6 DEF RatchetInv

\* Every step keeps it, of one process.
LEMMA RatchetNext ==
  ASSUME Inv, RatchetInv, OneProcess, [Next]_vars
  PROVE  RatchetInv'
  <1>1. Typed
    BY DEF Inv
  <1>2. ASSUME NEW p \in Procs, Process(p) PROVE RatchetInv'
    <2>1. CASE \/ \E pass \in Passes \cup {"none"} : read_secret_files(p, pass)
               \/ protect(p) \/ write_secret_files(p)
      BY <1>1, <2>1, ResealStill, StillKeeps
    <2>2. CASE window(p) /\ ~\E pass \in Passes \cup {"none"} : read_secret_files(p, pass)
      <3>1. Local(p)
        BY <1>1, <2>2, SessionLocal, BeginsLocal DEF window
      <3>2. QED
        BY <1>1, <3>1, LocalKeeps
    <2>3. CASE ~window(p) /\ ~protect(p) /\ ~write_secret_files(p)
      <3>1. \/ Local(p) \/ reserve_nonce(p) \/ submit(p) \/ poll(p)
        BY <1>1, <1>2, <2>3, BeginsLocal, MiddleLocal DEF Process
      <3>2. QED
        BY <1>1, <3>1, LocalKeeps, ReserveKeeps, SubmitKeeps, PollKeeps
    <2>4. QED
      BY <2>1, <2>2, <2>3
  <1>3. ASSUME NEW p \in Procs, Crash(p) PROVE RatchetInv'
    BY <1>1, <1>3, CrashKeeps
  <1>4. CASE Commit
    BY <1>1, <1>4, CommitKeeps
  <1>5. ASSUME NEW id \in {chain.id, chain.id + 1}, Relaunch(id) PROVE RatchetInv'
    BY <1>1, <1>5, RelaunchKeeps
  <1>7. CASE faucet \/ \E c \in Clients : PayMe(c)
    <2>1. UNCHANGED <<account, work, pending, receipts, ops, slips, lost>>
      BY <1>7 DEF faucet, PayMe, files, hist
    <2>2. chain'.nonce = chain.nonce
      BY <1>1, <1>7 DEF faucet, PayMe, Typed, ChainTyped, Chains
    <2>3. QED
      BY <1>1, <2>1, <2>2, StillKeeps
  <1>8. CASE UNCHANGED vars
    <2>1. UNCHANGED <<account, work, pending, receipts, ops, slips, lost>> /\ chain'.nonce = chain.nonce
      BY <1>8 DEF vars, files, net, hist
    <2>2. QED
      BY <1>1, <2>1, StillKeeps
  <1>9. QED
    BY <1>2, <1>3, <1>4, <1>5, <1>7, <1>8 DEF Next

\* It holds at the start.
LEMMA RatchetInit ==
  ASSUME Init
  PROVE  RatchetInv
  <1>1. pending = {} /\ receipts = {} /\ slips = 0 /\ ops = 0 /\ account.nonce = 0 /\ chain.nonce = 0
        /\ \A p \in Procs : work[p].pc = "idle" /\ work[p].client = "app"
    BY DEF Init, Idle
  <1>2. QueueIds /\ Reach = 0
    BY <1>1, FS_EmptySet DEF QueueIds, Reach
  <1>3. \A p \in Procs : NotYetSent(work[p]) /\ RatchetOf(work[p])
    BY <1>1, <1>2 DEF NotYetSent, RatchetOf, Fixed, InHand, Carried
  <1>4. QED
    BY <1>1, <1>2, <1>3 DEF RatchetInv

\* What it says of the index.
LEMMA RatchetBound ==
  ASSUME Inv, RatchetInv, OneProcess
  PROVE  RatchetReachable
  <1> DEFINE H == {p \in Procs : work[p].pc \in {"submit", "poll"}}
  <1>1. SUFFICES ASSUME Held PROVE account.nonce <= Reach + Cardinality(H)
    BY DEF RatchetReachable, Reach, Held
  <1>2. QueueIds /\ Reach \in Nat /\ account.nonce \in Nat
    BY ReachNat DEF RatchetInv, Inv
  <1>3. CASE Procs = {}
    <2>1. H = {} /\ account.nonce = 0
      BY <1>3 DEF RatchetInv
    <2>2. QED
      BY <1>2, <2>1, FS_EmptySet
  <1>4. ASSUME NEW p \in Procs, InHand(work[p]) PROVE account.nonce <= Reach + Cardinality(H)
    <2>1. H = {p}
      BY <1>4 DEF InHand, OneProcess
    <2>2. Cardinality(H) = 1
      BY <2>1, FS_Singleton
    <2>3. account.nonce = work[p].nonce + 1 /\ work[p].nonce <= Reach /\ work[p].nonce \in Int
      BY <1>1, <1>4 DEF RatchetInv, RatchetOf, InHand, Fixed, Inv, Typed, WorkTyped, Works
    <2>4. QED
      BY <1>2, <2>2, <2>3
  <1>5. ASSUME NEW p \in Procs, ~InHand(work[p]) PROVE account.nonce <= Reach + Cardinality(H)
    <2>1. H = {}
      BY <1>5 DEF InHand, OneProcess
    <2>2. Cardinality(H) = 0
      BY <2>1, FS_EmptySet
    <2>3. account.nonce <= Reach
      BY <1>1, <1>5 DEF RatchetInv, RatchetOf, InHand
    <2>4. QED
      BY <1>2, <2>2, <2>3
  <1>6. QED
    BY <1>3, <1>4, <1>5

\* Of one process at a time: the index on disk stays within reach of the chain,
\* so the account can go on signing, until one of these happens: a crash
\* between reservation and answer, a rollback that could not be saved, a
\* relaunch, a refusal nobody waited for, or a change of passphrase that put
\* back an account.json an operation had moved on.
THEOREM WalletRatchetReachable == OneProcess => (Spec => []RatchetReachable)
  <1> SUFFICES ASSUME OneProcess PROVE Spec => []RatchetReachable
    OBVIOUS
  <1>1. Init => Inv /\ RatchetInv
    BY InvInit, RatchetInit
  <1>2. (Inv /\ RatchetInv) /\ [Next]_vars => (Inv /\ RatchetInv)'
    BY InvNext, RatchetNext
  <1>3. Inv /\ RatchetInv => RatchetReachable
    BY RatchetBound
  <1>4. QED
    BY <1>1, <1>2, <1>3, PTL DEF Spec
=============================================================================
