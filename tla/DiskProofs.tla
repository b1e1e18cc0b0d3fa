----------------------------- MODULE DiskProofs -----------------------------
(***************************************************************************)
(* Proofs about the files of CdnDisk, for any threads, jobs and contents:  *)
(* everything has its type, and no content is torn.                        *)
(***************************************************************************)
EXTENDS LruProofs, DiskInvariants

-----------------------------------------------------------------------------
(* Inodes.                                                                 *)

Directory == [Stores -> [Files -> Inodes \cup {None}]]
Handles   == [Threads -> Inodes \cup {None}]
Blocks    == Seq(Versions \cup {Hole})

\* No inode is an empty sequence, and no inode of a name is a spare one.
LEMMA InodeNames ==
  /\ None \notin Inodes
  /\ \A s \in Stores, f \in Files : <<s, f>> \in Inodes
  /\ \A t \in Threads : <<"spare", t>> \in Inodes
  /\ \A s \in Stores, f \in Files, t \in Threads : <<s, f>> # <<"spare", t>>
BY DEF Inodes, None, Stores

LEMMA InodesFinite == IsFiniteSet(Inodes)
<1>1. IsFiniteSet(Stores) /\ IsFiniteSet({"spare"})
  <2>1. IsFiniteSet({"cdn"}) /\ IsFiniteSet({"spare"})
    BY FS_Singleton
  <2>2. IsFiniteSet({"cdn"} \cup {"fss"})
    BY <2>1, FS_AddElement
  <2>3. Stores = {"cdn"} \cup {"fss"}
    BY DEF Stores
  <2> QED BY <2>1, <2>2, <2>3
<1>2. IsFiniteSet(Files)
  BY KeysAssumption DEF Files
<1>3. IsFiniteSet(Stores \X Files) /\ IsFiniteSet({"spare"} \X Threads)
  BY <1>1, <1>2, ThreadsAssumption, FS_Product
<1> QED BY <1>3, FS_Union DEF Inodes

\* While a file has no name, there is an inode that neither a name nor a thread has.
LEMMA SomeInodeFree ==
  ASSUME NEW d \in Directory, NEW h \in Handles, NEW s \in Stores, NEW f \in Files,
         d[s][f] = None
  PROVE  \E i \in Inodes : i \notin InUse(d, h)
<1> SUFFICES ASSUME \A i \in Inodes : i \in InUse(d, h) PROVE FALSE
  OBVIOUS
<1> DEFINE own == <<s, f>>
           rest == Inodes \ {own}
           Holder(x) == IF x[1] = "spare" THEN h[x[2]] ELSE d[x[1]][x[2]]
           m == [x \in rest |-> IF Holder(x) \in Inodes THEN Holder(x) ELSE own]
<1>1. own \in Inodes
  BY InodeNames
<1>2. m \in [rest -> Inodes]
  BY <1>1
<1>3. ASSUME NEW i \in Inodes PROVE \E x \in rest : m[x] = i
  <2>1. CASE \E t \in Threads : h[t] = i
    <3>1. PICK t \in Threads : h[t] = i
      BY <2>1
    <3>2. <<"spare", t>> \in rest
      BY InodeNames
    <3>3. Holder(<<"spare", t>>) = i
      BY <3>1
    <3> QED BY <3>2, <3>3
  <2>2. CASE \E r \in Stores, g \in Files : d[r][g] = i
    <3>1. PICK r \in Stores, g \in Files : d[r][g] = i
      BY <2>2
    <3>2. <<r, g>> # own
      <4>1. i # None
        BY InodeNames
      <4> QED BY <3>1, <4>1
    <3>3. <<r, g>> \in rest
      BY <3>2, InodeNames
    <3>4. Holder(<<r, g>>) = i
      BY <3>1 DEF Stores
    <3> QED BY <3>3, <3>4
  <2>3. i \in InUse(d, h)
    OBVIOUS
  <2> QED BY <2>1, <2>2, <2>3 DEF InUse
<1>4. m \in Surjection(rest, Inodes)
  BY <1>2, <1>3 DEF Surjection
<1>5. IsFiniteSet(rest) /\ Cardinality(rest) = Cardinality(Inodes) - 1
  BY <1>1, InodesFinite, FS_RemoveElement
<1>6. Cardinality(Inodes) <= Cardinality(rest)
  <2> HIDE DEF m, rest
  <2> QED BY <1>4, <1>5, FS_Surjection
<1>7. Cardinality(Inodes) \in Nat
  BY InodesFinite, FS_CardinalityType
<1> QED BY <1>5, <1>6, <1>7

LEMMA FreeInodeIsFree ==
  ASSUME dir \in Directory, fh \in Handles, NEW s \in Stores, NEW f \in Files,
         dir[s][f] = None
  PROVE  FreeInode(s, f) \in Inodes /\ FreeInode(s, f) \notin InUse(dir, fh)
<1>1. \E i \in Inodes : i \notin InUse(dir, fh)
  BY SomeInodeFree
<1>2. <<s, f>> \in Inodes
  BY InodeNames
<1>3. \E i \in Inodes : /\ i \notin InUse(dir, fh)
                        /\ <<s, f>> \notin InUse(dir, fh) => i = <<s, f>>
  BY <1>1, <1>2
<1> QED BY <1>3 DEF FreeInode

-----------------------------------------------------------------------------
(* Types.                                                                  *)

Contents == Seq(Versions \cup {Hole, Garbage})

StorageTyped == dir \in Directory /\ data \in [Inodes -> Blocks] /\ fh \in Handles

HandlersTyped ==
  /\ got \in [Threads -> Contents] /\ pos \in [Threads -> Nat]
  /\ victim \in [Threads -> Files \cup {Null}]

WorldTyped ==
  up \in BOOLEAN /\ faults \in 0..MaxFaults /\ orderly \in BOOLEAN /\ disturbed \in SUBSET Files

FilesTyped == StorageTyped /\ HandlersTyped /\ WorldTyped

TypeInv == ListInv /\ JobInv /\ FilesTyped /\ GotTyped /\ OpenInv

LEMMA TypeParts == TypeInv => TypeOK
BY DEF TypeInv, ListInv, JobInv, FilesTyped, StorageTyped, HandlersTyped, WorldTyped, TypeOK,
       Places, Directory, Handles, Blocks, Contents

\* A content is a sequence of blocks, and what can be stored can be answered.
LEMMA ContentTyped ==
  /\ \A v \in Versions : Content(v) \in Blocks
  /\ <<>> \in Blocks
  /\ \A s : s \in Blocks => s \in Contents
  /\ <<Garbage>> \in Contents
<1>1. ASSUME NEW v \in Versions PROVE Content(v) \in Blocks
  <2>1. Length[v] \in Nat
    BY LengthAssumption
  <2> QED BY <2>1 DEF Content, Blocks
<1>2. <<>> \in Blocks /\ <<Garbage>> \in Contents
  BY DEF Blocks, Contents
<1>3. ASSUME NEW s \in Blocks PROVE s \in Contents
  BY DEF Blocks, Contents
<1> QED BY <1>1, <1>2, <1>3

LEMMA ReclaimTyped ==
  ASSUME NEW d, NEW h, NEW x \in [Inodes -> Blocks]
  PROVE  Reclaim(d, h, x) \in [Inodes -> Blocks]
BY ContentTyped DEF Reclaim

LEMMA PutBlockTyped ==
  ASSUME NEW s \in Blocks, NEW p \in Nat \ {0}, NEW b \in Versions \cup {Hole}
  PROVE  PutBlock(s, p, b) \in Blocks
<1> DEFINE n == IF p > Len(s) THEN p ELSE Len(s)
           At(i) == IF i = p THEN b ELSE IF i <= Len(s) THEN s[i] ELSE Hole
<1>1. Len(s) \in Nat /\ \A i \in 1..Len(s) : s[i] \in Versions \cup {Hole}
  BY DEF Blocks
<1>2. n \in Nat
  BY <1>1
<1>3. \A i \in 1..n : At(i) \in Versions \cup {Hole}
  BY <1>1
<1>4. [i \in 1..n |-> At(i)] \in Seq(Versions \cup {Hole})
  <2> HIDE DEF n, At
  <2> QED BY <1>2, <1>3
<1> QED BY <1>4 DEF PutBlock, Blocks

\* What a thread that is not idle asks for.
LEMMA FileTyped ==
  ASSUME JobInv, NEW t \in Threads, pc[t] # "idle"
  PROVE  FileOf(t) \in Files /\ job[t] \in Request
BY DEF JobInv, Request, FileOf

LEMMA OpenWriteTyped ==
  ASSUME StorageTyped, HandlersTyped, WorldTyped, NEW t \in Threads, FileOf(t) \in Files,
         NEW s \in Stores, OpenWrite(t, s)
  PROVE  /\ StorageTyped' /\ pos' \in [Threads -> Nat] /\ disturbed' \in SUBSET Files
         /\ fh'[t] # None /\ fh' = [fh EXCEPT ![t] = fh'[t]]
<1> DEFINE f == FileOf(t)
           i == IF dir[s][f] = None THEN FreeInode(s, f) ELSE dir[s][f]
<1>1. i \in Inodes
  BY FreeInodeIsFree DEF StorageTyped, Directory
<1>2. /\ dir'  = [dir EXCEPT ![s][f] = i] /\ data' = [data EXCEPT ![i] = <<>>]
      /\ fh'   = [fh EXCEPT ![t] = i] /\ pos'  = [pos EXCEPT ![t] = 0]
      /\ disturbed' \subseteq disturbed \cup {f}
  BY DEF OpenWrite
<1>3. i # None
  BY <1>1, InodeNames
<1> HIDE DEF i
<1> QED BY <1>1, <1>2, <1>3, ContentTyped
        DEF StorageTyped, HandlersTyped, WorldTyped, Directory, Handles

LEMMA OpenReadTyped ==
  ASSUME StorageTyped, HandlersTyped, WorldTyped, NEW t \in Threads, FileOf(t) \in Files,
         NEW s \in Stores, dir[s][FileOf(t)] # None, OpenRead(t, s)
  PROVE  /\ fh' \in Handles /\ got' \in [Threads -> Contents] /\ disturbed' \in SUBSET Files
         /\ fh'[t] # None /\ fh' = [fh EXCEPT ![t] = fh'[t]] /\ got' = [got EXCEPT ![t] = <<>>]
<1>1. dir[s][FileOf(t)] \in Inodes
  BY DEF StorageTyped, Directory
<1>2. /\ fh' = [fh EXCEPT ![t] = dir[s][FileOf(t)]] /\ got' = [got EXCEPT ![t] = <<>>]
      /\ disturbed' \subseteq disturbed \cup {FileOf(t)}
  BY DEF OpenRead
<1> QED BY <1>1, <1>2, ContentTyped
        DEF StorageTyped, HandlersTyped, WorldTyped, Handles

LEMMA CloseTyped ==
  ASSUME StorageTyped, NEW t \in Threads, Close(t)
  PROVE  fh' = [fh EXCEPT ![t] = None] /\ fh' \in Handles /\ data' \in [Inodes -> Blocks]
<1>1. fh' = [fh EXCEPT ![t] = None] /\ data' = Reclaim(dir, fh', data)
  BY DEF Close
<1> QED BY <1>1, ReclaimTyped DEF StorageTyped, Handles

LEMMA RemoveNameTyped ==
  ASSUME StorageTyped, NEW f, RemoveName(f)
  PROVE  dir' \in Directory /\ data' \in [Inodes -> Blocks]
<1>1. dir' = [dir EXCEPT !["cdn"][f] = None] /\ data' = Reclaim(dir', fh, data)
  BY DEF RemoveName
<1> QED BY <1>1, ReclaimTyped DEF StorageTyped, Directory, Stores

LEMMA FinishTyped ==
  ASSUME HandlersTyped, NEW t \in Threads, Finish(t)
  PROVE  got' \in [Threads -> Contents] /\ pos' \in [Threads -> Nat]
BY ContentTyped DEF HandlersTyped, Finish

LEMMA DieTyped ==
  ASSUME JobInv, FilesTyped, Die, orderly' \in BOOLEAN
  PROVE  FilesTyped'
<1>1. dir' \in Directory /\ fh' \in Handles
  BY DEF Die, FilesTyped, StorageTyped, Handles
<1>2. data' \in [Inodes -> Blocks]
  BY ReclaimTyped DEF Die, FilesTyped, StorageTyped
<1>3. HandlersTyped'
  BY ContentTyped DEF Die, FilesTyped, HandlersTyped
<1>4. disturbed' \in SUBSET Files
  BY FileTyped DEF Die, FilesTyped, WorldTyped
<1> QED BY <1>1, <1>2, <1>3, <1>4 DEF Die, FilesTyped, StorageTyped, WorldTyped

-----------------------------------------------------------------------------
(* What a step of one thread leaves of the others.                         *)

\* Thread u is left alone, but for the members it shares in get_size_of_storage.
Stays(u) ==
  /\ fh'[u] = fh[u] /\ job'[u] = job[u] /\ got'[u] = got[u] /\ pos'[u] = pos[u]
  /\ pc'[u] = pc[u] \/ (pc[u] = "manage" /\ pc'[u] = "raced")

Elsewhere(t) == \A u \in Threads \ {t} : Stays(u)

LEMMA GotoIs ==
  ASSUME JobInv, NEW t \in Threads, NEW l, Goto(t, l)
  PROVE  pc'[t] = l /\ \A u \in Threads \ {t} : pc'[u] = pc[u]
BY DEF JobInv, Goto

LEMMA GotoManageIs ==
  ASSUME JobInv, NEW t \in Threads, GotoManage(t)
  PROVE  /\ pc'[t] \in {"manage", "raced"}
         /\ \A u \in Threads \ {t} : pc'[u] = pc[u] \/ (pc[u] = "manage" /\ pc'[u] = "raced")
BY DEF JobInv, GotoManage, Goto

LEMMA FinishIs ==
  ASSUME JobInv, HandlersTyped, NEW t \in Threads, Finish(t)
  PROVE  /\ pc'[t] = "idle" /\ got'[t] = <<>>
         /\ \A u \in Threads \ {t} : /\ pc'[u] = pc[u] /\ job'[u] = job[u]
                                     /\ got'[u] = got[u] /\ pos'[u] = pos[u]
BY DEF JobInv, HandlersTyped, Finish

\* The parts of GotTyped and OpenInv that are about thread t.
GotAt(t)  == pc[t] \in Carrying \cup {"fetching"} => got[t] \in Blocks
OpenAt(t) == fh[t] # None <=> pc[t] \in Holding

LEMMA TypesElsewhere ==
  ASSUME GotTyped, OpenInv, NEW t \in Threads, Elsewhere(t), GotAt(t)', OpenAt(t)'
  PROVE  GotTyped' /\ OpenInv'
<1>1. ASSUME NEW u \in Threads \ {t} PROVE GotAt(u)' /\ OpenAt(u)'
  BY <1>1 DEF Elsewhere, Stays, GotTyped, OpenInv, GotAt, OpenAt, Carrying, Holding, Blocks
<1> QED BY <1>1 DEF GotTyped, OpenInv, GotAt, OpenAt, Blocks

\* What each step of a thread keeps.
Typed(t) == FilesTyped' /\ GotAt(t)' /\ OpenAt(t)' /\ Elsewhere(t)

\* A step that leaves the files alone.
LEMMA QuietTyped ==
  ASSUME TypeInv, NEW t \in Threads, Elsewhere(t),
         UNCHANGED <<diskVars, fh, up, orderly, disturbed>>, faults' \in 0..MaxFaults,
         pc[t] \notin Holding, pc'[t] \notin Holding, GotAt(t)',
         got' \in [Threads -> Contents], pos' \in [Threads -> Nat],
         victim' \in [Threads -> Files \cup {Null}]
  PROVE  Typed(t)
<1>1. OpenAt(t)'
  BY DEF TypeInv, OpenInv, OpenAt
<1> QED BY <1>1 DEF Typed, TypeInv, FilesTyped, StorageTyped, HandlersTyped, WorldTyped, diskVars

LEMMA ReadTyped ==
  ASSUME TypeInv, NEW t \in Threads, Read(t)
  PROVE  Typed(t)
<1> USE DEF TypeInv, FilesTyped, diskVars, faultVars, Carrying, Holding
<1>0. pc[t] # "idle"
  BY DEF Read, Lookup, Fetch, ReadBlock, ReadEnd, Relookup, Load, Reply
<1>1. FileOf(t) \in Files /\ GotAt(t) /\ OpenAt(t) /\ {"cdn", "fss"} \subseteq Stores
  BY <1>0, FileTyped DEF GotTyped, GotAt, OpenInv, OpenAt, Blocks, Stores
<1>2. CASE Lookup(t)
  <2>1. pc'[t] \in {"relookup", "fetch"} /\ \A u \in Threads \ {t} : pc'[u] = pc[u]
    BY <1>2, GotoIs DEF Lookup
  <2> QED BY <1>2, <2>1, QuietTyped DEF Lookup, Elsewhere, Stays, GotAt, HandlersTyped, WorldTyped
<1>3. CASE Fetch(t)
  <2>1. CASE dir["fss"][FileOf(t)] = None
    <3>1. Finish(t) /\ pc[t] = "fetch"
          /\ UNCHANGED <<listVars, diskVars, victim, faultVars, orderly, fh, disturbed>>
      BY <1>3, <2>1 DEF Fetch
    <3> QED BY <3>1, FinishIs, FinishTyped, QuietTyped
            DEF Elsewhere, Stays, GotAt, HandlersTyped, WorldTyped
  <2>2. CASE dir["fss"][FileOf(t)] # None
    <3>1. OpenRead(t, "fss") /\ Goto(t, "fetching")
          /\ UNCHANGED <<diskVars, victim, faultVars, orderly, job, pos>>
      BY <1>3, <2>2 DEF Fetch
    <3>2. /\ fh' \in Handles /\ got' \in [Threads -> Contents] /\ disturbed' \in SUBSET Files
          /\ fh'[t] # None /\ fh' = [fh EXCEPT ![t] = fh'[t]] /\ got' = [got EXCEPT ![t] = <<>>]
      BY <1>1, <2>2, <3>1, OpenReadTyped
    <3>3. pc'[t] = "fetching" /\ \A u \in Threads \ {t} : pc'[u] = pc[u]
      BY <3>1, GotoIs
    <3>4. got'[t] = <<>>
      BY <3>2 DEF HandlersTyped
    <3> QED BY <3>1, <3>2, <3>3, <3>4, ContentTyped DEF Typed, Elsewhere, Stays, GotAt, OpenAt,
               StorageTyped, HandlersTyped, WorldTyped, Handles
  <2> QED BY <2>1, <2>2
<1>4. CASE ReadBlock(t)
  <2>1. /\ pc[t] \in {"fetching", "loading"} /\ Len(got[t]) < Len(data[fh[t]])
        /\ got' = [got EXCEPT ![t] = Append(@, data[fh[t]][Len(@) + 1])]
        /\ UNCHANGED <<diskVars, fh, pc, job, pos, victim, faultVars, orderly, disturbed>>
    BY <1>4 DEF ReadBlock
  <2>2. fh[t] \in Inodes
    BY <1>1, <2>1 DEF OpenAt, StorageTyped, Handles
  <2>3. data[fh[t]] \in Blocks /\ got[t] \in Contents
    BY <2>2 DEF StorageTyped, HandlersTyped
  <2>4. data[fh[t]][Len(got[t]) + 1] \in Versions \cup {Hole}
    <3>1. Len(got[t]) + 1 \in 1..Len(data[fh[t]])
      BY <2>1, <2>3 DEF Blocks, Contents
    <3> QED BY <2>3, <3>1 DEF Blocks
  <2>5. /\ got'[t] \in Contents
        /\ got[t] \in Blocks => got'[t] \in Blocks
    BY <2>1, <2>3, <2>4 DEF Blocks, Contents, HandlersTyped
  <2>6. got' \in [Threads -> Contents] /\ \A u \in Threads \ {t} : got'[u] = got[u]
    BY <2>1, <2>5 DEF HandlersTyped
  <2> QED BY <1>1, <2>1, <2>5, <2>6 DEF Typed, Elsewhere, Stays, GotAt, OpenAt,
             StorageTyped, HandlersTyped, WorldTyped
<1>5. CASE ReadEnd(t)
  <2>1. /\ pc[t] \in {"fetching", "loading"} /\ Close(t)
        /\ UNCHANGED <<dir, job, got, pos, victim, faultVars, orderly, disturbed>>
    BY <1>5 DEF ReadEnd
  <2>2. fh' = [fh EXCEPT ![t] = None] /\ fh' \in Handles /\ data' \in [Inodes -> Blocks]
    BY <2>1, CloseTyped
  <2>3. /\ \/ pc[t] = "fetching" /\ pc'[t] \in {"manage", "raced"}
           \/ pc'[t] = "reply"
        /\ \A u \in Threads \ {t} : pc'[u] = pc[u] \/ (pc[u] = "manage" /\ pc'[u] = "raced")
    BY <1>5, GotoIs, GotoManageIs DEF ReadEnd
  <2> QED BY <1>1, <2>1, <2>2, <2>3 DEF Typed, Elsewhere, Stays, GotAt, OpenAt,
             StorageTyped, HandlersTyped, WorldTyped, Handles
<1>6. CASE Relookup(t)
  <2>1. CASE FileOf(t) \in OnDisk
    <3>1. pc'[t] = "load" /\ \A u \in Threads \ {t} : pc'[u] = pc[u]
      BY <1>6, <2>1, GotoIs DEF Relookup
    <3> QED BY <1>6, <2>1, <3>1, QuietTyped
            DEF Relookup, Elsewhere, Stays, GotAt, HandlersTyped, WorldTyped
  <2>2. CASE FileOf(t) \notin OnDisk
    BY <1>6, <2>2, FinishIs, FinishTyped, QuietTyped
       DEF Relookup, Elsewhere, Stays, GotAt, HandlersTyped, WorldTyped
  <2> QED BY <2>1, <2>2
<1>7. CASE Load(t)
  <2>1. CASE FileOf(t) \in OnDisk
    <3>1. OpenRead(t, "cdn") /\ Goto(t, "loading")
          /\ UNCHANGED <<diskVars, job, pos, victim, faultVars, orderly>>
      BY <1>7, <2>1 DEF Load
    <3>2. /\ fh' \in Handles /\ got' \in [Threads -> Contents] /\ disturbed' \in SUBSET Files
          /\ fh'[t] # None /\ fh' = [fh EXCEPT ![t] = fh'[t]] /\ got' = [got EXCEPT ![t] = <<>>]
      BY <1>1, <2>1, <3>1, OpenReadTyped DEF OnDisk
    <3>3. pc'[t] = "loading" /\ \A u \in Threads \ {t} : pc'[u] = pc[u]
      BY <3>1, GotoIs
    <3> QED BY <3>1, <3>2, <3>3 DEF Typed, Elsewhere, Stays, GotAt, OpenAt,
               StorageTyped, HandlersTyped, WorldTyped, Handles
  <2>2. CASE FileOf(t) \notin OnDisk
    <3>1. pc[t] = "load" /\ got' = [got EXCEPT ![t] = <<Garbage>>]
          /\ UNCHANGED <<fh, disturbed, diskVars, job, pos, victim, faultVars, orderly>>
      BY <1>7, <2>2 DEF Load
    <3>2. pc'[t] = "reply" /\ \A u \in Threads \ {t} : pc'[u] = pc[u]
      BY <1>7, <2>2, GotoIs DEF Load
    <3>3. got' \in [Threads -> Contents] /\ \A u \in Threads \ {t} : got'[u] = got[u]
      BY <3>1, ContentTyped DEF HandlersTyped
    <3> QED BY <3>1, <3>2, <3>3, QuietTyped
            DEF Elsewhere, Stays, GotAt, HandlersTyped, WorldTyped
  <2> QED BY <2>1, <2>2
<1>8. CASE Reply(t)
  BY <1>8, FinishIs, FinishTyped, QuietTyped
     DEF Reply, Elsewhere, Stays, GotAt, HandlersTyped, WorldTyped
<1> QED BY <1>2, <1>3, <1>4, <1>5, <1>6, <1>7, <1>8 DEF Read

LEMMA ManageTyped ==
  ASSUME TypeInv, NEW t \in Threads, Manage(t)
  PROVE  Typed(t)
<1> USE DEF TypeInv, FilesTyped, diskVars, faultVars, Carrying, Holding
<1>0. pc[t] \in {"manage", "raced", "evict"}
  BY DEF Manage, Evict, RemoveVictim, Refuse, Track
<1>1. GotAt(t) /\ OpenAt(t)
  BY DEF GotTyped, GotAt, OpenInv, OpenAt, Blocks
<1>2. CASE Evict(t)
  <2>1. pc'[t] = "evict" /\ \A u \in Threads \ {t} : pc'[u] = pc[u]
    BY <1>2, GotoIs DEF Evict
  <2>2. victim' \in [Threads -> Files \cup {Null}]
    BY <1>2 DEF Evict, HandlersTyped, ListInv, ListTyped, Files
  <2> QED BY <1>0, <1>1, <1>2, <2>1, <2>2, QuietTyped
          DEF Evict, Elsewhere, Stays, GotAt, HandlersTyped, WorldTyped
<1>3. CASE RemoveVictim(t)
  <2>1. dir' \in Directory /\ data' \in [Inodes -> Blocks]
    BY <1>3, RemoveNameTyped DEF RemoveVictim
  <2>2. /\ pc'[t] \in {"manage", "raced"}
        /\ \A u \in Threads \ {t} : pc'[u] = pc[u] \/ (pc[u] = "manage" /\ pc'[u] = "raced")
    BY <1>3, GotoManageIs DEF RemoveVictim
  <2>3. /\ victim' = [victim EXCEPT ![t] = Null] /\ UNCHANGED disturbed
        /\ UNCHANGED <<fh, job, got, pos, faultVars, orderly>>
    BY <1>3 DEF RemoveVictim, RemoveName
  <2> QED BY <1>0, <1>1, <2>1, <2>2, <2>3 DEF Typed, Elsewhere, Stays, GotAt, OpenAt,
             StorageTyped, HandlersTyped, WorldTyped
<1>4. CASE Refuse(t)
  BY <1>0, <1>4, FinishIs, FinishTyped, QuietTyped
     DEF Refuse, Elsewhere, Stays, GotAt, HandlersTyped, WorldTyped
<1>5. CASE Track(t)
  <2>1. pc'[t] = "open" /\ \A u \in Threads \ {t} : pc'[u] = pc[u]
    BY <1>5, GotoIs DEF Track
  <2> QED BY <1>0, <1>1, <1>5, <2>1, QuietTyped
          DEF Track, Elsewhere, Stays, GotAt, HandlersTyped, WorldTyped
<1> QED BY <1>2, <1>3, <1>4, <1>5 DEF Manage

LEMMA WriteTyped ==
  ASSUME TypeInv, NEW t \in Threads, Write(t)
  PROVE  Typed(t)
<1> USE DEF TypeInv, FilesTyped, diskVars, faultVars, Carrying, Holding
<1>0. pc[t] # "idle"
  BY DEF Write, OpenCopy, Post, WriteBlock, WriteEnd, PostRefused, Writing
<1>1. FileOf(t) \in Files /\ GotAt(t) /\ OpenAt(t) /\ {"cdn", "fss"} \subseteq Stores
  BY <1>0, FileTyped DEF GotTyped, GotAt, OpenInv, OpenAt, Blocks, Stores
<1>2. ASSUME NEW s \in Stores, NEW l \in {"write", "store"}, OpenWrite(t, s), Goto(t, l),
             UNCHANGED <<job, got, victim, faultVars, orderly>>, GotAt(t)'
      PROVE  Typed(t)
  <2>1. /\ StorageTyped' /\ pos' \in [Threads -> Nat] /\ disturbed' \in SUBSET Files
        /\ fh'[t] # None /\ fh' = [fh EXCEPT ![t] = fh'[t]]
    BY <1>1, <1>2, OpenWriteTyped
  <2>2. pc'[t] = l /\ \A u \in Threads \ {t} : pc'[u] = pc[u]
    BY <1>2, GotoIs
  <2>3. pos' = [pos EXCEPT ![t] = 0]
    BY <1>2 DEF OpenWrite
  <2> QED BY <1>2, <2>1, <2>2, <2>3 DEF Typed, Elsewhere, Stays, OpenAt,
             StorageTyped, HandlersTyped, WorldTyped, Handles
<1>3. CASE OpenCopy(t)
  BY <1>1, <1>2, <1>3 DEF OpenCopy, GotAt
<1>4. CASE Post(t)
  BY <1>1, <1>2, <1>4 DEF Post, GotAt
<1>5. CASE WriteBlock(t)
  <2>1. /\ pc[t] \in {"write", "store"} /\ pos[t] < Len(got[t])
        /\ pos'  = [pos EXCEPT ![t] = @ + 1]
        /\ data' = [data EXCEPT ![fh[t]] = PutBlock(@, pos[t] + 1, got[t][pos[t] + 1])]
        /\ UNCHANGED <<dir, fh, pc, job, got, victim, faultVars, orderly, disturbed>>
    BY <1>5 DEF WriteBlock, Writing
  <2>2. fh[t] \in Inodes
    BY <1>1, <2>1 DEF OpenAt, StorageTyped, Handles
  <2>3. data[fh[t]] \in Blocks /\ got[t] \in Blocks /\ pos[t] \in Nat
    BY <1>1, <2>1, <2>2 DEF StorageTyped, HandlersTyped, GotAt
  <2>4. got[t][pos[t] + 1] \in Versions \cup {Hole}
    <3>1. pos[t] + 1 \in 1..Len(got[t])
      BY <2>1, <2>3 DEF Blocks
    <3> QED BY <2>3, <3>1 DEF Blocks
  <2>5. PutBlock(data[fh[t]], pos[t] + 1, got[t][pos[t] + 1]) \in Blocks
    BY <2>3, <2>4, PutBlockTyped
  <2>6. data' \in [Inodes -> Blocks]
    BY <2>1, <2>5 DEF StorageTyped
  <2> QED BY <1>1, <2>1, <2>3, <2>6 DEF Typed, Elsewhere, Stays, GotAt, OpenAt,
             StorageTyped, HandlersTyped, WorldTyped
<1>6. CASE WriteEnd(t)
  <2>1. Writing(t) /\ Close(t) /\ UNCHANGED <<dir, victim, faultVars, orderly, disturbed>>
    BY <1>6 DEF WriteEnd
  <2>2. fh' = [fh EXCEPT ![t] = None] /\ fh' \in Handles /\ data' \in [Inodes -> Blocks]
    BY <2>1, CloseTyped
  <2>3. CASE pc[t] = "write"
    <3>1. /\ Goto(t, "post") \/ Goto(t, "relookup")
          /\ pos' = [pos EXCEPT ![t] = 0] /\ UNCHANGED <<job, got>>
      BY <1>6, <2>3 DEF WriteEnd
    <3>2. pc'[t] \in {"post", "relookup"} /\ \A u \in Threads \ {t} : pc'[u] = pc[u]
      BY <3>1, GotoIs
    <3> QED BY <1>1, <2>1, <2>2, <2>3, <3>1, <3>2 DEF Typed, Elsewhere, Stays, GotAt, OpenAt,
               StorageTyped, HandlersTyped, WorldTyped, Handles
  <2>4. CASE pc[t] = "store"
    <3>1. Finish(t)
      BY <1>6, <2>4 DEF WriteEnd
    <3>2. /\ pc'[t] = "idle" /\ got' \in [Threads -> Contents] /\ pos' \in [Threads -> Nat]
          /\ \A u \in Threads \ {t} : /\ pc'[u] = pc[u] /\ job'[u] = job[u]
                                      /\ got'[u] = got[u] /\ pos'[u] = pos[u]
      BY <3>1, FinishIs, FinishTyped
    <3> QED BY <2>1, <2>2, <3>2 DEF Typed, Elsewhere, Stays, GotAt, OpenAt,
               StorageTyped, HandlersTyped, WorldTyped, Handles
  <2> QED BY <2>1, <2>3, <2>4 DEF Writing
<1>7. CASE PostRefused(t)
  <2>1. pc'[t] = "forget" /\ \A u \in Threads \ {t} : pc'[u] = pc[u]
    BY <1>7, GotoIs DEF PostRefused
  <2> QED BY <1>7, <2>1, QuietTyped DEF PostRefused, Elsewhere, Stays, GotAt, HandlersTyped, WorldTyped
<1> QED BY <1>3, <1>4, <1>5, <1>6, <1>7 DEF Write

LEMMA DeleteTyped ==
  ASSUME TypeInv, NEW t \in Threads, Delete(t)
  PROVE  Typed(t)
<1> USE DEF TypeInv, FilesTyped, diskVars, faultVars, Carrying, Holding
<1>1. CASE Forget(t)
  <2>1. pc'[t] = "unlink" /\ \A u \in Threads \ {t} : pc'[u] = pc[u]
    BY <1>1, GotoIs DEF Forget
  <2> QED BY <1>1, <2>1, QuietTyped DEF Forget, Elsewhere, Stays, GotAt, HandlersTyped, WorldTyped
<1>2. CASE RemoveFile(t)
  <2>1. dir' \in Directory /\ data' \in [Inodes -> Blocks]
    BY <1>2, RemoveNameTyped DEF RemoveFile
  <2>2. /\ pc'[t] = "idle" /\ got' \in [Threads -> Contents] /\ pos' \in [Threads -> Nat]
        /\ \A u \in Threads \ {t} : /\ pc'[u] = pc[u] /\ job'[u] = job[u]
                                    /\ got'[u] = got[u] /\ pos'[u] = pos[u]
    BY <1>2, FinishIs, FinishTyped DEF RemoveFile
  <2>3. pc[t] = "unlink" /\ UNCHANGED <<fh, victim, faultVars, orderly, disturbed>>
    BY <1>2 DEF RemoveFile, RemoveName
  <2>4. fh[t] = None
    BY <2>3 DEF OpenInv
  <2> QED BY <2>1, <2>2, <2>3, <2>4 DEF Typed, Elsewhere, Stays, GotAt, OpenAt,
             StorageTyped, HandlersTyped, WorldTyped
<1> QED BY <1>1, <1>2 DEF Delete

LEMMA DiskErrorTyped ==
  ASSUME TypeInv, NEW t \in Threads, DiskError(t)
  PROVE  Typed(t)
<1> USE DEF TypeInv, FilesTyped, diskVars, Carrying, Holding
<1>1. faults' \in 0..MaxFaults /\ orderly' \in BOOLEAN
  <2>1. faults < MaxFaults /\ faults' = faults + 1 /\ orderly' = FALSE
    BY DEF DiskError
  <2>2. faults \in 0..MaxFaults
    BY DEF WorldTyped
  <2>3. faults' \in 0..MaxFaults
    BY <2>1, <2>2, FaultAssumption
  <2> QED BY <2>1, <2>3
<1>2. UNCHANGED <<diskVars, fh, victim, up>>
  BY DEF DiskError
<1>3. CASE pc[t] \in {"open", "post"} /\ Finish(t) /\ UNCHANGED disturbed
  <2>1. /\ pc'[t] = "idle" /\ got' \in [Threads -> Contents] /\ pos' \in [Threads -> Nat]
        /\ \A u \in Threads \ {t} : /\ pc'[u] = pc[u] /\ job'[u] = job[u]
                                    /\ got'[u] = got[u] /\ pos'[u] = pos[u]
    BY <1>3, FinishIs, FinishTyped
  <2>2. fh[t] = None
    BY <1>3 DEF OpenInv
  <2> QED BY <1>1, <1>2, <1>3, <2>1, <2>2 DEF Typed, Elsewhere, Stays, GotAt, OpenAt,
             StorageTyped, HandlersTyped, WorldTyped
<1>4. CASE /\ Writing(t) /\ pos' = [pos EXCEPT ![t] = Len(got[t])]
           /\ disturbed' = disturbed \cup {FileOf(t)} /\ UNCHANGED <<pc, job, got>>
  <2>1. FileOf(t) \in Files /\ OpenAt(t) /\ GotAt(t)
    BY <1>4, FileTyped DEF Writing, OpenInv, OpenAt, GotTyped, GotAt, Blocks
  <2>2. Len(got[t]) \in Nat
    BY DEF HandlersTyped, Contents
  <2> QED BY <1>1, <1>2, <1>4, <2>1, <2>2 DEF Typed, Elsewhere, Stays, GotAt, OpenAt,
             StorageTyped, HandlersTyped, WorldTyped
<1> QED BY <1>3, <1>4 DEF DiskError

LEMMA StartTyped ==
  ASSUME TypeInv, NEW t \in Threads, NEW j \in Jobs[t], Start(t, j)
  PROVE  Typed(t)
<1> USE DEF TypeInv, FilesTyped, diskVars, faultVars, Carrying, Holding
<1>1. j \in Request
  BY JobsAssumption
<1>2. /\ pc'[t] \in {"lookup", "forget"} \/ (j.op = "put" /\ pc'[t] \in {"manage", "raced"})
      /\ \A u \in Threads \ {t} : pc'[u] = pc[u] \/ (pc[u] = "manage" /\ pc'[u] = "raced")
  <2>1. CASE j.op = "get" /\ Goto(t, "lookup")
    BY <2>1, GotoIs
  <2>2. CASE j.op = "put" /\ GotoManage(t)
    BY <2>2, GotoManageIs
  <2>3. CASE j.op = "del" /\ Goto(t, "forget")
    BY <2>3, GotoIs
  <2> QED BY <1>1, <2>1, <2>2, <2>3 DEF Start, Request
<1>3. got'[t] = IF j.op = "put" THEN Content(j.ver) ELSE <<>>
  BY DEF Start, HandlersTyped
<1>4. got'[t] \in Blocks /\ got'[t] \in Contents
  BY <1>1, <1>3, ContentTyped DEF Request
<1>5. got' \in [Threads -> Contents] /\ \A u \in Threads \ {t} : got'[u] = got[u]
  BY <1>4 DEF Start, HandlersTyped
<1>6. /\ pc[t] = "idle" /\ orderly' \in BOOLEAN
      /\ UNCHANGED <<diskVars, fh, pos, victim, faultVars, disturbed>>
  <2>1. orderly' = (orderly /\ \A u \in Threads \ {t} : pc[u] = "idle")
    BY DEF Start
  <2>2. orderly' \in BOOLEAN
    BY <2>1
  <2> QED BY <2>2 DEF Start
<1>7. fh[t] = None
  BY <1>6 DEF OpenInv
<1>8. Elsewhere(t)
  BY <1>2, <1>5, <1>6 DEF Elsewhere, Stays, Start, JobInv
<1> QED BY <1>2, <1>4, <1>5, <1>6, <1>7, <1>8 DEF Typed, GotAt, OpenAt,
           StorageTyped, HandlersTyped, WorldTyped

LEMMA TypeInvDie ==
  ASSUME TypeInv, Die, orderly' \in BOOLEAN
  PROVE  FilesTyped' /\ GotTyped' /\ OpenInv'
<1>1. FilesTyped'
  BY DieTyped DEF TypeInv
<1>2. ASSUME NEW t \in Threads PROVE GotAt(t)' /\ OpenAt(t)'
  BY DEF Die, TypeInv, JobInv, Places, GotTyped, OpenInv, GotAt, OpenAt, Carrying, Holding, CdnSteps,
         Blocks
<1> QED BY <1>1, <1>2 DEF GotTyped, OpenInv, GotAt, OpenAt, Blocks

LEMMA TypesKept == TypeInv /\ [Next]_vars => TypeInv'
<1> SUFFICES ASSUME TypeInv, [Next]_vars PROVE TypeInv'
  OBVIOUS
<1>1. ListInv' /\ JobInv'
  BY ListSteps, StepInv, JobsKept DEF TypeInv
<1>2. ASSUME NEW t \in Threads, Typed(t) PROVE FilesTyped' /\ GotTyped' /\ OpenInv'
  BY <1>2, TypesElsewhere DEF Typed, TypeInv
<1>3. ASSUME NEW t \in Threads, Step(t) PROVE FilesTyped' /\ GotTyped' /\ OpenInv'
  <2>1. CASE Crash(t) \/ RacedCrash(t)
    <3>1. Die /\ orderly' \in BOOLEAN
      BY <2>1 DEF Crash, RacedCrash, TypeInv, FilesTyped, WorldTyped
    <3> QED BY <3>1, TypeInvDie
  <2> QED BY <1>2, <1>3, <2>1, ReadTyped, ManageTyped, WriteTyped, DeleteTyped, DiskErrorTyped
          DEF Step, Break
<1>4. ASSUME NEW t \in Threads, NEW j \in Jobs[t], Start(t, j)
      PROVE  FilesTyped' /\ GotTyped' /\ OpenInv'
  BY <1>2, <1>4, StartTyped
<1>5. CASE Stop
  <2>1. Die /\ orderly' = FALSE
    BY <1>5 DEF Stop
  <2> QED BY <1>1, <2>1, TypeInvDie DEF TypeInv
<1>6. CASE Restart
  <2>1. faults' \in 0..MaxFaults
    <3>1. faults < MaxFaults /\ faults' = faults + 1 /\ faults \in 0..MaxFaults
      BY <1>6 DEF Restart, TypeInv, FilesTyped, WorldTyped
    <3> QED BY <3>1, FaultAssumption
  <2>2. UNCHANGED <<diskVars, threadVars, disturbed>> /\ up' = TRUE /\ orderly' = FALSE
    BY <1>6 DEF Restart
  <2>3. StorageTyped' /\ HandlersTyped'
    BY <2>2 DEF TypeInv, FilesTyped, StorageTyped, HandlersTyped, diskVars, threadVars
  <2>4. GotTyped' /\ OpenInv'
    BY <2>2 DEF TypeInv, GotTyped, OpenInv, threadVars
  <2>5. WorldTyped'
    BY <2>1, <2>2 DEF TypeInv, FilesTyped, WorldTyped
  <2> QED BY <1>1, <2>3, <2>4, <2>5 DEF TypeInv, FilesTyped
<1>7. CASE UNCHANGED vars
  <2>1. UNCHANGED <<diskVars, threadVars, faultVars, orderly, disturbed>>
    BY <1>7 DEF vars
  <2>2. StorageTyped' /\ HandlersTyped'
    BY <2>1 DEF TypeInv, FilesTyped, StorageTyped, HandlersTyped, diskVars, threadVars
  <2>3. GotTyped' /\ OpenInv'
    BY <2>1 DEF TypeInv, GotTyped, OpenInv, threadVars
  <2>4. WorldTyped'
    BY <2>1 DEF TypeInv, FilesTyped, WorldTyped, faultVars
  <2> QED BY <1>1, <2>2, <2>3, <2>4 DEF TypeInv, FilesTyped
<1> QED BY <1>1, <1>3, <1>4, <1>5, <1>6, <1>7 DEF Next, TypeInv

LEMMA TypesInit == Init => TypeInv
<1> SUFFICES ASSUME Init PROVE TypeInv
  OBVIOUS
<1>1. ListInv /\ JobInv
  BY DiskInit
<1>2. dir \in Directory
  BY InodeNames DEF Init, Directory
<1>3. data \in [Inodes -> Blocks]
  <2>1. ASSUME NEW i \in Inodes, i[1] = "fss", Stored[i[2]] # Null
        PROVE  Content(Stored[i[2]]) \in Blocks
    <3>1. i[2] \in Keys
      BY <2>1 DEF Inodes, Stores, Files
    <3>2. Stored[i[2]] \in Versions
      BY <2>1, <3>1, StoredAssumption
    <3> QED BY <3>2, ContentTyped
  <2> QED BY <2>1, ContentTyped DEF Init
<1>4. fh \in Handles /\ HandlersTyped /\ WorldTyped
  BY ContentTyped, FaultAssumption DEF Init, Handles, HandlersTyped, WorldTyped
<1>5. GotTyped /\ OpenInv
  BY DEF Init, GotTyped, OpenInv, Carrying, Holding
<1> QED BY <1>1, <1>2, <1>3, <1>4, <1>5 DEF TypeInv, FilesTyped, StorageTyped

(* Every variable of the storage keeps its type: there is always an inode  *)
(* for a new file, and only what was read or received is written           *)
(* (CDN_Node.cpp, fss.cpp).                                                *)
THEOREM DiskTypes == Spec => []TypeOK
BY TypesInit, TypesKept, TypeParts, PTL DEF Spec

-----------------------------------------------------------------------------
(* Whole contents: steps that open nothing and write nothing.              *)

DiskInv == TypeInv /\ HandleInv /\ AloneInv /\ ContentInv

\* Thread u closes what it has open, if it has; what it wrote is whole or known not
\* to be.
Leaves(u) ==
  /\ fh'[u] = None \/ (fh'[u] = fh[u] /\ job'[u] = job[u] /\ pc'[u] = pc[u])
  /\ Writing(u) /\ fh'[u] = None => pos[u] = Len(got[u]) \/ FileOf(u) \in disturbed'
  /\ ThreadInv(u)'

Passive ==
  /\ \A s \in Stores, f \in Files : dir'[s][f] = dir[s][f] \/ dir'[s][f] = None
  /\ \A i \in InUse(dir', fh') \cap Inodes : data'[i] = data[i]
  /\ disturbed \subseteq disturbed'
  /\ \A u \in Threads : Stays(u) \/ Leaves(u)

\* An inode that a thread or a name has, and what it holds.
LEMMA InodeOf ==
  ASSUME StorageTyped
  PROVE  /\ \A t \in Threads : fh[t] # None => /\ fh[t] \in InUse(dir, fh) \cap Inodes
                                               /\ data[fh[t]] \in Blocks
         /\ \A s \in Stores, f \in Files :
              dir[s][f] # None => /\ dir[s][f] \in InUse(dir, fh) \cap Inodes
                                  /\ data[dir[s][f]] \in Blocks
BY DEF StorageTyped, Directory, Handles, InUse

\* Who still has a file open is where it was.
LEMMA PassiveOpen ==
  ASSUME OpenInv', Passive, NEW u \in Threads, fh'[u] # None
  PROVE  fh'[u] = fh[u] /\ job'[u] = job[u] /\ pc'[u] = pc[u]
<1>1. pc'[u] # "raced"
  BY DEF OpenInv, Holding
<1> QED BY <1>1 DEF Passive, Stays, Leaves

LEMMA PassiveHandles ==
  ASSUME DiskInv, OpenInv', Passive
  PROVE  HandleInv' /\ AloneInv'
<1>1. ASSUME NEW r \in Stores, NEW s \in Stores, NEW f \in Files, NEW g \in Files,
             dir'[r][f] = dir'[s][g], dir'[r][f] # None
      PROVE  r = s /\ f = g
  BY <1>1 DEF Passive, DiskInv, HandleInv
<1>2. ASSUME NEW t \in Threads, NEW s \in Stores, NEW f \in Files,
             fh'[t] # None, dir'[s][f] = fh'[t]
      PROVE  f = FileOf(t)'
  BY <1>2, PassiveOpen DEF Passive, DiskInv, HandleInv, FileOf
<1>3. ASSUME NEW t \in Threads, NEW u \in Threads, fh'[t] # None, fh'[t] = fh'[u]
      PROVE  FileOf(t)' = FileOf(u)'
  BY <1>3, PassiveOpen DEF DiskInv, HandleInv, FileOf
<1>4. ASSUME NEW t \in Threads, NEW u \in Threads, t # u, fh'[t] = fh'[u], Writing(t)'
      PROVE  FileOf(t)' \in disturbed'
  <2>1. fh'[t] # None
    BY <1>4 DEF OpenInv, Writing, Holding
  <2> QED BY <1>4, <2>1, PassiveOpen DEF Passive, DiskInv, AloneInv, FileOf, Writing
<1> QED BY <1>1, <1>2, <1>3, <1>4 DEF HandleInv, AloneInv

\* What was written to its end is whole.
LEMMA WrittenWhole ==
  ASSUME DiskInv, NEW t \in Threads, Writing(t), FileOf(t) \notin disturbed,
         pos[t] = Len(got[t])
  PROVE  Whole(got[t]) /\ data[fh[t]] = got[t]
<1>1. Whole(got[t]) /\ data[fh[t]] = [i \in 1..pos[t] |-> got[t][i]]
  BY DEF DiskInv, ContentInv, ThreadInv, Writing, Carrying
<1>2. got[t] \in Contents
  BY DEF DiskInv, TypeInv, FilesTyped, HandlersTyped
<1>3. got[t] = [i \in 1..Len(got[t]) |-> got[t][i]]
  BY <1>2 DEF Contents
<1> QED BY <1>1, <1>3

\* What was read to its end is whole.
LEMMA ReadWhole ==
  ASSUME DiskInv, NEW t \in Threads, pc[t] \in {"fetching", "loading"},
         FileOf(t) \notin disturbed, Len(got[t]) >= Len(data[fh[t]])
  PROVE  Whole(got[t]) /\ got[t] = data[fh[t]]
<1>1. /\ Whole(data[fh[t]]) /\ Len(got[t]) <= Len(data[fh[t]])
      /\ \A i \in 1..Len(got[t]) : got[t][i] = data[fh[t]][i]
  BY DEF DiskInv, ContentInv, ThreadInv
<1>2. got[t] \in Contents
  BY DEF DiskInv, TypeInv, FilesTyped, HandlersTyped
<1>3. data[fh[t]] \in Contents
  <2>1. fh[t] # None
    BY DEF DiskInv, TypeInv, OpenInv, Holding
  <2> QED BY <2>1, InodeOf, ContentTyped DEF DiskInv, TypeInv, FilesTyped
<1>4. Len(got[t]) = Len(data[fh[t]])
  BY <1>1, <1>2, <1>3 DEF Contents
<1>5. got[t] = data[fh[t]]
  BY <1>1, <1>2, <1>3, <1>4 DEF Contents
<1> QED BY <1>1, <1>5

LEMMA PassiveNames ==
  ASSUME DiskInv, TypeInv', Passive
  PROVE  NamesWhole'
<1> SUFFICES ASSUME NEW s \in Stores, NEW f \in Files \ disturbed', dir'[s][f] # None,
                    ~BeingWritten(dir[s][f])'
             PROVE  Whole(data'[dir'[s][f]])
  BY DEF NamesWhole, Whole, Content
<1> DEFINE i == dir[s][f]
<1>1. dir'[s][f] = i /\ f \notin disturbed
  BY DEF Passive
<1>2. i \in Inodes /\ data'[i] = data[i]
  <2>1. dir'[s][f] \in Inodes /\ dir'[s][f] \in InUse(dir', fh')
    BY DEF TypeInv, FilesTyped, StorageTyped, Directory, InUse
  <2> QED BY <1>1, <2>1 DEF Passive
<1>3. CASE BeingWritten(i)
  <2>1. PICK u \in Threads : fh[u] = i /\ Writing(u)
    BY <1>3 DEF BeingWritten
  <2>2. i # None
    BY <1>2, InodeNames
  <2>3. FileOf(u) = f
    BY <2>1, <2>2 DEF DiskInv, HandleInv
  <2>4. fh'[u] = None
    <3>1. fh'[u] # None => fh'[u] = dir'[s][f] /\ Writing(u)'
      BY <1>1, <2>1, PassiveOpen DEF TypeInv, Writing
    <3> QED BY <3>1 DEF BeingWritten
  <2>5. Leaves(u)
    BY <2>1, <2>2, <2>4 DEF Passive, Stays
  <2>6. pos[u] = Len(got[u])
    BY <2>1, <2>3, <2>4, <2>5 DEF Leaves
  <2>7. Whole(data[i])
    BY <1>1, <2>1, <2>3, <2>6, WrittenWhole
  <2> QED BY <1>1, <1>2, <2>7
<1>4. CASE ~BeingWritten(i)
  <2>1. Whole(data[i])
    BY <1>1, <1>4 DEF DiskInv, ContentInv, NamesWhole
  <2> QED BY <1>1, <1>2, <2>1
<1> QED BY <1>3, <1>4

\* A thread that is left alone knows what it knew, if what it has open is kept.
LEMMA StaysKnows ==
  ASSUME DiskInv, NEW u \in Threads, Stays(u), disturbed \subseteq disturbed',
         FileOf(u) \in disturbed' \/ (pc[u] \in Holding => data'[fh[u]] = data[fh[u]])
  PROVE  ThreadInv(u)'
<1>1. ThreadInv(u)
  BY DEF DiskInv, ContentInv
<1>2. FileOf(u)' = FileOf(u) /\ (FileOf(u)' \notin disturbed' => FileOf(u) \notin disturbed)
  BY DEF Stays, FileOf
<1>3. (Writing(u)' <=> Writing(u)) /\ (pc'[u] \in Carrying => pc[u] \in Carrying)
  BY DEF Stays, Writing, Carrying
<1>4. pc'[u] # "idle" => pc[u] # "idle"
  BY DEF Stays
<1>5. CASE FileOf(u) \in disturbed'
  BY <1>2, <1>5 DEF ThreadInv
<1>6. CASE FileOf(u) \notin disturbed' /\ (pc[u] \in Holding => data'[fh[u]] = data[fh[u]])
  <2>1. CASE pc[u] \in Holding
    <3>1. pc'[u] = pc[u] /\ data'[fh'[u]] = data[fh[u]]
      BY <1>6, <2>1 DEF Stays, Holding
    <3> QED BY <1>1, <1>2, <3>1 DEF ThreadInv, Stays, Writing, Whole, Content
  <2>2. CASE pc[u] \notin Holding
    BY <1>1, <1>2, <1>3, <1>4, <2>2 DEF ThreadInv, Stays, Writing, Holding, Whole, Content
  <2> QED BY <2>1, <2>2
<1> QED BY <1>5, <1>6

LEMMA PassiveKeeps ==
  ASSUME DiskInv, TypeInv', Passive
  PROVE  DiskInv'
<1>1. HandleInv' /\ AloneInv' /\ NamesWhole'
  BY PassiveHandles, PassiveNames DEF TypeInv
<1>2. ASSUME NEW u \in Threads PROVE ThreadInv(u)'
  <2>1. CASE Leaves(u)
    BY <2>1 DEF Leaves
  <2>2. CASE Stays(u)
    <3>1. pc[u] \in Holding => data'[fh[u]] = data[fh[u]]
      <4>1. pc[u] \in Holding => fh[u] # None /\ fh'[u] = fh[u]
        BY <2>2 DEF Stays, DiskInv, TypeInv, OpenInv
      <4>2. pc[u] \in Holding => fh[u] \in Inodes /\ fh[u] \in InUse(dir', fh')
        BY <4>1 DEF DiskInv, TypeInv, FilesTyped, StorageTyped, Handles, InUse
      <4> QED BY <4>2 DEF Passive
    <3> QED BY <2>2, <3>1, StaysKnows DEF Passive
  <2> QED BY <2>1, <2>2 DEF Passive
<1> QED BY <1>1, <1>2 DEF DiskInv, ContentInv

\* What Reclaim leaves alone.
LEMMA ReclaimKeeps ==
  ASSUME NEW d, NEW h, NEW x, NEW i \in InUse(d, h) \cap Inodes
  PROVE  Reclaim(d, h, x)[i] = x[i]
BY DEF Reclaim

\* A thread that has no file open and carries nothing knows nothing.
LEMMA KnowsNothing ==
  ASSUME NEW t, pc'[t] \notin Carrying \cup {"fetching", "loading", "reply"}
  PROVE  ThreadInv(t)'
BY DEF ThreadInv, Carrying, Writing

\* A thread that carries a whole content, and has nothing open, knows that.
LEMMA CarriesOn ==
  ASSUME DiskInv, NEW t \in Threads, pc[t] \in Carrying, got'[t] = got[t], job'[t] = job[t],
         disturbed \subseteq disturbed', pc'[t] \notin Holding \cup {"reply"}
  PROVE  ThreadInv(t)'
<1>1. FileOf(t)' = FileOf(t) /\ pc[t] # "idle"
  BY DEF FileOf, Carrying
<1>2. FileOf(t) \notin disturbed => Whole(got[t])
  BY <1>1 DEF DiskInv, ContentInv, ThreadInv
<1> QED BY <1>1, <1>2 DEF ThreadInv, Writing, Holding, Whole, Content

\* Steps that leave the files alone.
LEMMA QuietPassive ==
  ASSUME DiskInv, NEW t \in Threads, Elsewhere(t), UNCHANGED <<diskVars, fh>>,
         disturbed \subseteq disturbed', pc[t] \notin Holding, ThreadInv(t)'
  PROVE  Passive
<1>1. Leaves(t)
  <2>1. fh'[t] = None /\ ~Writing(t)
    BY DEF DiskInv, TypeInv, OpenInv, Writing, Holding
  <2> QED BY <2>1 DEF Leaves
<1> QED BY <1>1 DEF Passive, Elsewhere, diskVars

\* Steps that close a file.
LEMMA ClosePassive ==
  ASSUME DiskInv, NEW t \in Threads, Elsewhere(t), Close(t), UNCHANGED <<dir, disturbed>>,
         Writing(t) => pos[t] = Len(got[t]), ThreadInv(t)'
  PROVE  Passive
<1>1. fh' = [fh EXCEPT ![t] = None] /\ data' = Reclaim(dir', fh', data)
  BY DEF Close
<1>2. fh'[t] = None
  BY <1>1 DEF DiskInv, TypeInv, FilesTyped, StorageTyped, Handles
<1>3. Leaves(t)
  BY <1>2 DEF Leaves
<1>4. \A i \in InUse(dir', fh') \cap Inodes : data'[i] = data[i]
  BY <1>1, ReclaimKeeps
<1> QED BY <1>3, <1>4 DEF Passive, Elsewhere

\* Steps that remove a name.
LEMMA RemovePassive ==
  ASSUME DiskInv, NEW t \in Threads, Elsewhere(t), NEW f, RemoveName(f),
         UNCHANGED <<fh, disturbed>>, pc[t] \notin Holding, ThreadInv(t)'
  PROVE  Passive
<1>1. dir' = [dir EXCEPT !["cdn"][f] = None] /\ data' = Reclaim(dir', fh', data)
  BY DEF RemoveName
<1>2. Leaves(t)
  <2>1. fh'[t] = None /\ ~Writing(t)
    BY DEF DiskInv, TypeInv, OpenInv, Writing, Holding
  <2> QED BY <2>1 DEF Leaves
<1>3. \A i \in InUse(dir', fh') \cap Inodes : data'[i] = data[i]
  BY <1>1, ReclaimKeeps
<1>4. \A s \in Stores, g \in Files : dir'[s][g] = dir[s][g] \/ dir'[s][g] = None
  BY <1>1 DEF DiskInv, TypeInv, FilesTyped, StorageTyped, Directory, Stores
<1> QED BY <1>2, <1>3, <1>4 DEF Passive, Elsewhere

LEMMA DiePassive ==
  ASSUME DiskInv, Die
  PROVE  Passive
<1>1. data' = Reclaim(dir', fh', data) /\ UNCHANGED dir /\ disturbed \subseteq disturbed'
  BY DEF Die
<1>2. \A i \in InUse(dir', fh') \cap Inodes : data'[i] = data[i]
  BY <1>1, ReclaimKeeps
<1>3. ASSUME NEW u \in Threads PROVE Stays(u) \/ Leaves(u)
  <2>1. CASE pc[u] \in CdnSteps
    <3>1. fh'[u] = None /\ pc'[u] = "idle"
      BY <2>1 DEF Die
    <3>2. ThreadInv(u)'
      BY <3>1, KnowsNothing DEF Carrying
    <3>3. Writing(u) => FileOf(u) \in disturbed'
      BY <2>1 DEF Die, Writing, CdnSteps
    <3> QED BY <3>1, <3>2, <3>3 DEF Leaves
  <2>2. CASE pc[u] \notin CdnSteps
    BY <2>2 DEF Die, Stays
  <2> QED BY <2>1, <2>2
<1> QED BY <1>1, <1>2, <1>3 DEF Passive

LEMMA ReadPassive ==
  ASSUME DiskInv, NEW t \in Threads, Elsewhere(t),
         \/ Lookup(t) \/ ReadEnd(t) \/ Relookup(t) \/ Reply(t)
         \/ Fetch(t) /\ dir["fss"][FileOf(t)] = None
         \/ Load(t) /\ FileOf(t) \notin OnDisk
  PROVE  Passive
<1> USE DEF Carrying, Holding
<1>0. JobInv /\ HandlersTyped
  BY DEF DiskInv, TypeInv, FilesTyped
<1>1. CASE Lookup(t)
  <2>1. pc'[t] \in {"relookup", "fetch"}
    BY <1>0, <1>1, GotoIs DEF Lookup
  <2> QED BY <1>1, <2>1, KnowsNothing, QuietPassive DEF Lookup
<1>2. CASE ReadEnd(t)
  <2>1. /\ Len(got[t]) >= Len(data[fh[t]]) /\ Close(t)
        /\ UNCHANGED <<dir, job, got, pos, disturbed>>
        /\ pc[t] \in {"fetching", "loading"}
    BY <1>2 DEF ReadEnd
  <2>2. pc'[t] \in {"manage", "raced", "reply"}
    BY <1>0, <1>2, GotoIs, GotoManageIs DEF ReadEnd
  <2>3. ThreadInv(t)'
    <3>1. FileOf(t)' = FileOf(t)
      BY <2>1 DEF FileOf
    <3>2. FileOf(t) \notin disturbed => Whole(got[t])
      BY <2>1, ReadWhole
    <3> QED BY <2>1, <2>2, <3>1, <3>2 DEF ThreadInv, Writing, Whole, Content
  <2> QED BY <2>1, <2>3, ClosePassive DEF Writing
<1>3. CASE Relookup(t)
  <2>1. pc'[t] \in {"load", "idle"}
    BY <1>0, <1>3, GotoIs, FinishIs DEF Relookup
  <2> QED BY <1>3, <2>1, KnowsNothing, QuietPassive DEF Relookup
<1>4. CASE Reply(t)
  <2>1. pc'[t] = "idle"
    BY <1>0, <1>4, FinishIs DEF Reply
  <2> QED BY <1>4, <2>1, KnowsNothing, QuietPassive DEF Reply
<1>5. CASE Fetch(t) /\ dir["fss"][FileOf(t)] = None
  <2>1. pc[t] = "fetch" /\ Finish(t) /\ UNCHANGED <<fh, disturbed, diskVars>>
    BY <1>5 DEF Fetch
  <2>2. pc'[t] = "idle"
    BY <1>0, <2>1, FinishIs
  <2> QED BY <2>1, <2>2, KnowsNothing, QuietPassive
<1>6. CASE Load(t) /\ FileOf(t) \notin OnDisk
  <2>1. /\ pc[t] = "load" /\ got' = [got EXCEPT ![t] = <<Garbage>>]
        /\ Goto(t, "reply") /\ UNCHANGED <<fh, disturbed, diskVars>>
    BY <1>6 DEF Load
  <2>2. pc'[t] = "reply" /\ got'[t] = <<Garbage>>
    BY <1>0, <2>1, GotoIs DEF HandlersTyped
  <2>3. ThreadInv(t)'
    BY <2>2 DEF ThreadInv, Writing
  <2> QED BY <2>1, <2>3, QuietPassive
<1> QED BY <1>1, <1>2, <1>3, <1>4, <1>5, <1>6

LEMMA ManagePassive ==
  ASSUME DiskInv, NEW t \in Threads, Elsewhere(t), Manage(t)
  PROVE  Passive
<1> USE DEF Carrying, Holding
<1>0. JobInv /\ HandlersTyped
  BY DEF DiskInv, TypeInv, FilesTyped
<1>1. CASE Evict(t)
  <2>1. pc'[t] = "evict"
    BY <1>0, <1>1, GotoIs DEF Evict
  <2> QED BY <1>1, <2>1, CarriesOn, QuietPassive DEF Evict
<1>2. CASE RemoveVictim(t)
  <2>1. pc'[t] \in {"manage", "raced"}
    BY <1>0, <1>2, GotoManageIs DEF RemoveVictim
  <2>2. pc[t] = "evict" /\ RemoveName(victim[t]) /\ UNCHANGED <<fh, job, got, disturbed>>
    BY <1>2 DEF RemoveVictim, RemoveName
  <2>3. ThreadInv(t)'
    BY <2>1, <2>2, CarriesOn
  <2> QED BY <2>2, <2>3, RemovePassive
<1>3. CASE Refuse(t)
  <2>1. pc'[t] = "idle"
    BY <1>0, <1>3, FinishIs DEF Refuse
  <2> QED BY <1>3, <2>1, KnowsNothing, QuietPassive DEF Refuse
<1>4. CASE Track(t)
  <2>1. pc'[t] = "open"
    BY <1>0, <1>4, GotoIs DEF Track
  <2> QED BY <1>4, <2>1, CarriesOn, QuietPassive DEF Track
<1> QED BY <1>1, <1>2, <1>3, <1>4 DEF Manage

LEMMA WritePassive ==
  ASSUME DiskInv, NEW t \in Threads, Elsewhere(t), WriteEnd(t) \/ PostRefused(t)
  PROVE  Passive
<1> USE DEF Carrying, Holding
<1>0. JobInv /\ HandlersTyped
  BY DEF DiskInv, TypeInv, FilesTyped
<1>1. CASE WriteEnd(t)
  <2>1. /\ Writing(t) /\ pos[t] = Len(got[t]) /\ Close(t)
        /\ UNCHANGED <<dir, disturbed>>
    BY <1>1 DEF WriteEnd
  <2>2. CASE pc[t] = "write"
    <3>1. /\ pc'[t] \in {"post", "relookup"} /\ UNCHANGED <<job, got>>
      BY <1>0, <1>1, <2>2, GotoIs DEF WriteEnd
    <3>2. ThreadInv(t)'
      BY <2>1, <2>2, <3>1, CarriesOn
    <3> QED BY <2>1, <3>2, ClosePassive
  <2>3. CASE pc[t] = "store"
    <3>1. pc'[t] = "idle"
      BY <1>0, <1>1, <2>3, FinishIs DEF WriteEnd
    <3> QED BY <2>1, <3>1, KnowsNothing, ClosePassive
  <2> QED BY <2>1, <2>2, <2>3 DEF Writing
<1>2. CASE PostRefused(t)
  <2>1. pc'[t] = "forget"
    BY <1>0, <1>2, GotoIs DEF PostRefused
  <2> QED BY <1>2, <2>1, KnowsNothing, QuietPassive DEF PostRefused
<1> QED BY <1>1, <1>2

LEMMA DeletePassive ==
  ASSUME DiskInv, NEW t \in Threads, Elsewhere(t), Delete(t)
  PROVE  Passive
<1> USE DEF Carrying, Holding
<1>0. JobInv /\ HandlersTyped
  BY DEF DiskInv, TypeInv, FilesTyped
<1>1. CASE Forget(t)
  <2>1. pc'[t] = "unlink"
    BY <1>0, <1>1, GotoIs DEF Forget
  <2> QED BY <1>1, <2>1, KnowsNothing, QuietPassive DEF Forget
<1>2. CASE RemoveFile(t)
  <2>1. pc'[t] = "idle"
    BY <1>0, <1>2, FinishIs DEF RemoveFile
  <2>2. pc[t] = "unlink" /\ RemoveName(FileOf(t)) /\ UNCHANGED <<fh, disturbed>>
    BY <1>2 DEF RemoveFile, RemoveName
  <2> QED BY <2>1, <2>2, KnowsNothing, RemovePassive
<1> QED BY <1>1, <1>2 DEF Delete

LEMMA ErrorPassive ==
  ASSUME DiskInv, NEW t \in Threads, Elsewhere(t), DiskError(t)
  PROVE  Passive
<1> USE DEF Carrying, Holding
<1>0. JobInv /\ HandlersTyped /\ UNCHANGED <<diskVars, fh>>
  BY DEF DiskInv, TypeInv, FilesTyped, DiskError
<1>1. CASE pc[t] \in {"open", "post"} /\ Finish(t) /\ UNCHANGED disturbed
  <2>1. pc'[t] = "idle"
    BY <1>0, <1>1, FinishIs
  <2> QED BY <1>0, <1>1, <2>1, KnowsNothing, QuietPassive
<1>2. CASE Writing(t) /\ disturbed' = disturbed \cup {FileOf(t)} /\ UNCHANGED <<pc, job, got>>
  <2>1. ThreadInv(t)'
    BY <1>2 DEF ThreadInv, FileOf
  <2>2. Leaves(t)
    BY <1>0, <1>2, <2>1 DEF Leaves
  <2> QED BY <1>0, <1>2, <2>2 DEF Passive, Elsewhere, diskVars
<1> QED BY <1>1, <1>2 DEF DiskError

LEMMA StartPassive ==
  ASSUME DiskInv, NEW t \in Threads, Elsewhere(t), NEW j \in Jobs[t], Start(t, j)
  PROVE  Passive
<1>0. JobInv /\ HandlersTyped /\ j \in Request
  BY JobsAssumption DEF DiskInv, TypeInv, FilesTyped
<1>1. pc[t] = "idle" /\ UNCHANGED <<diskVars, fh, disturbed>>
  BY DEF Start
<1>2. got'[t] = IF j.op = "put" THEN Content(j.ver) ELSE <<>>
  BY <1>0 DEF Start, HandlersTyped
<1>3. pc'[t] \in {"lookup", "forget"} \/ (j.op = "put" /\ pc'[t] \in {"manage", "raced"})
  <2>1. CASE j.op = "get" /\ Goto(t, "lookup")
    BY <1>0, <2>1, GotoIs
  <2>2. CASE j.op = "put" /\ GotoManage(t)
    BY <1>0, <2>2, GotoManageIs
  <2>3. CASE j.op = "del" /\ Goto(t, "forget")
    BY <1>0, <2>3, GotoIs
  <2> QED BY <1>0, <2>1, <2>2, <2>3 DEF Start, Request
<1>4. ThreadInv(t)'
  <2>1. CASE pc'[t] \in {"lookup", "forget"}
    BY <2>1, KnowsNothing DEF Carrying
  <2>2. CASE j.op = "put" /\ pc'[t] \in {"manage", "raced"}
    <3>1. j.ver \in Versions /\ got'[t] = Content(j.ver)
      BY <1>0, <1>2, <2>2 DEF Request
    <3>2. \E v \in Versions : got'[t] = Content(v)
      BY <3>1
    <3> QED BY <2>2, <3>2 DEF ThreadInv, Whole, Writing, Content
  <2> QED BY <1>3, <2>1, <2>2
<1> QED BY <1>1, <1>4, QuietPassive DEF Holding

-----------------------------------------------------------------------------
(* Whole contents: steps that open, read or write a file.                  *)

\* OpenRead with its place, as the handlers use it.
LEMMA OpenReadKeeps ==
  ASSUME DiskInv, NEW t \in Threads, Elsewhere(t), NEW s \in Stores, FileOf(t) \in Files,
         dir[s][FileOf(t)] # None, OpenRead(t, s), pc[t] \notin Holding,
         pc'[t] \in {"fetching", "loading"}, UNCHANGED <<diskVars, job>>
  PROVE  HandleInv' /\ AloneInv' /\ ContentInv'
<1> DEFINE f == FileOf(t)
           i == dir[s][f]
<1>1. /\ fh'[t] = i /\ got'[t] = <<>>
      /\ disturbed' = disturbed \cup {g \in {f} : \E u \in Threads : fh[u] = i /\ Writing(u)}
      /\ dir' = dir /\ data' = data
  BY DEF OpenRead, DiskInv, TypeInv, FilesTyped, StorageTyped, HandlersTyped, Handles, diskVars
<1>2. \A u \in Threads : FileOf(u)' = FileOf(u)
  BY DEF FileOf
<1>3. \A u \in Threads \ {t} : fh'[u] = fh[u] /\ (Writing(u)' <=> Writing(u))
  BY DEF Elsewhere, Stays, Writing
<1>4. ~Writing(t) /\ ~Writing(t)'
  BY DEF Writing, Holding
<1>5. \A u \in Threads : fh[u] = i => FileOf(u) = f
  BY DEF DiskInv, HandleInv
<1>6. \A u \in Threads : fh[u] = i /\ Writing(u) => f \in disturbed'
  BY <1>1
<1>7. disturbed \subseteq disturbed'
  BY <1>1
<1> HIDE DEF i, f
<1>8. HandleInv'
  <2>1. \A r, q \in Stores, g, h \in Files :
          dir'[r][g] = dir'[q][h] /\ dir'[r][g] # None => r = q /\ g = h
    BY <1>1 DEF DiskInv, HandleInv
  <2>2. ASSUME NEW u \in Threads, NEW r \in Stores, NEW g \in Files,
               fh'[u] # None, dir'[r][g] = fh'[u]
        PROVE  g = FileOf(u)'
    BY <1>1, <1>2, <1>3, <2>1, <2>2 DEF DiskInv, HandleInv, i, f
  <2>3. ASSUME NEW u \in Threads, NEW w \in Threads, fh'[u] # None, fh'[u] = fh'[w]
        PROVE  FileOf(u)' = FileOf(w)'
    <3>1. CASE u = t \/ w = t
      BY <1>1, <1>2, <1>3, <1>5, <2>3, <3>1 DEF f
    <3>2. CASE u # t /\ w # t
      BY <1>2, <1>3, <2>3, <3>2 DEF DiskInv, HandleInv
    <3> QED BY <3>1, <3>2
  <2> QED BY <2>1, <2>2, <2>3 DEF HandleInv
<1>9. AloneInv'
  <2>1. SUFFICES ASSUME NEW u \in Threads, NEW w \in Threads, u # w, fh'[u] = fh'[w], Writing(u)'
                 PROVE  FileOf(u)' \in disturbed'
    BY DEF AloneInv
  <2>2. u # t /\ fh[u] = fh'[u] /\ Writing(u)
    BY <1>3, <1>4, <2>1
  <2>3. CASE w = t
    BY <1>1, <1>2, <1>5, <1>6, <2>1, <2>2, <2>3
  <2>4. CASE w # t
    BY <1>2, <1>3, <1>7, <2>1, <2>2, <2>4 DEF DiskInv, AloneInv
  <2> QED BY <2>3, <2>4
<1>10. NamesWhole'
  <2>1. \A x : x # None => (BeingWritten(x)' <=> BeingWritten(x))
    BY <1>3, <1>4 DEF BeingWritten
  <2> QED BY <1>1, <1>7, <2>1 DEF DiskInv, ContentInv, NamesWhole, Whole, Content
<1>11. ASSUME NEW u \in Threads PROVE ThreadInv(u)'
  <2>1. CASE u = t
    <3>1. SUFFICES ASSUME f \notin disturbed' PROVE ThreadInv(t)'
      BY <1>2, <2>1 DEF ThreadInv, f
    <3>2. ~BeingWritten(i)
      BY <1>6, <3>1 DEF BeingWritten
    <3>3. Whole(data[i])
      BY <1>7, <3>1, <3>2 DEF DiskInv, ContentInv, NamesWhole, i, f
    <3>4. data'[fh'[t]] = data[i] /\ Len(got'[t]) = 0 /\ Len(data[i]) \in Nat
      <4>1. data[i] \in Blocks
        BY InodeOf DEF DiskInv, TypeInv, FilesTyped, i, f
      <4> QED BY <1>1, <4>1 DEF Blocks
    <3>5. Whole(data'[fh'[t]]) /\ Len(got'[t]) <= Len(data'[fh'[t]])
      BY <3>3, <3>4
    <3>6. \A j \in 1..Len(got'[t]) : got'[t][j] = data'[fh'[t]][j]
      BY <3>4
    <3>7. pc'[t] \notin Carrying /\ ~Writing(t)' /\ pc'[t] # "reply"
      BY <1>4 DEF Carrying
    <3> QED BY <3>5, <3>6, <3>7 DEF ThreadInv, Whole, Content
  <2>2. CASE u # t
    BY <1>1, <1>7, <2>2, StaysKnows DEF Elsewhere
  <2> QED BY <2>1, <2>2
<1> QED BY <1>8, <1>9, <1>10, <1>11 DEF ContentInv

\* An inode is opened to write that no other name has.
LEMMA OpenWriteIs ==
  ASSUME DiskInv, NEW t \in Threads, NEW s \in Stores, FileOf(t) \in Files, OpenWrite(t, s)
  PROVE  \E i \in Inodes :
           /\ i # None
           /\ \A r \in Stores, g \in Files : dir[r][g] = i => r = s /\ g = FileOf(t)
           /\ \A u \in Threads : fh[u] = i => FileOf(u) = FileOf(t)
           /\ fh'[t] = i /\ data'[i] = <<>> /\ pos'[t] = 0
           /\ \A j \in Inodes : j # i => data'[j] = data[j]
           /\ dir'[s][FileOf(t)] = i
           /\ \A r \in Stores, g \in Files : ~(r = s /\ g = FileOf(t)) => dir'[r][g] = dir[r][g]
           /\ disturbed' = disturbed \cup {g \in {FileOf(t)} : \E u \in Threads : fh[u] = i}
<1> DEFINE f == FileOf(t)
           i == IF dir[s][f] = None THEN FreeInode(s, f) ELSE dir[s][f]
<1>0. StorageTyped /\ HandlersTyped
  BY DEF DiskInv, TypeInv, FilesTyped
<1>1. i \in Inodes /\ i # None
  BY <1>0, FreeInodeIsFree, InodeNames DEF StorageTyped, Directory
<1>2. /\ dir'  = [dir EXCEPT ![s][f] = i] /\ data' = [data EXCEPT ![i] = <<>>]
      /\ fh'   = [fh EXCEPT ![t] = i] /\ pos'  = [pos EXCEPT ![t] = 0]
      /\ disturbed' = disturbed \cup {g \in {f} : \E u \in Threads : fh[u] = i}
  BY DEF OpenWrite
<1>3. /\ \A r \in Stores, g \in Files : dir[r][g] = i => r = s /\ g = f
      /\ \A u \in Threads : fh[u] = i => FileOf(u) = f
  <2>1. CASE dir[s][f] = None
    <3>1. i \notin InUse(dir, fh)
      BY <1>0, <2>1, FreeInodeIsFree DEF StorageTyped
    <3> QED BY <3>1 DEF InUse
  <2>2. CASE dir[s][f] # None
    BY <1>1, <2>2 DEF DiskInv, HandleInv
  <2> QED BY <2>1, <2>2
<1> HIDE DEF i
<1>4. /\ fh'[t] = i /\ data'[i] = <<>> /\ pos'[t] = 0
      /\ \A j \in Inodes : j # i => data'[j] = data[j]
      /\ dir'[s][f] = i
      /\ \A r \in Stores, g \in Files : ~(r = s /\ g = f) => dir'[r][g] = dir[r][g]
  BY <1>0, <1>1, <1>2 DEF StorageTyped, HandlersTyped, Handles, Directory
<1> QED BY <1>1, <1>2, <1>3, <1>4

LEMMA OpenWriteKeeps ==
  ASSUME DiskInv, NEW t \in Threads, Elsewhere(t), NEW s \in Stores, FileOf(t) \in Files,
         OpenWrite(t, s), pc[t] \in {"open", "post"}, pc'[t] \in {"write", "store"},
         UNCHANGED <<job, got>>
  PROVE  HandleInv' /\ AloneInv' /\ ContentInv'
<1> DEFINE f == FileOf(t)
<1>0. StorageTyped /\ HandlersTyped
  BY DEF DiskInv, TypeInv, FilesTyped
<1>1. PICK i \in Inodes :
        /\ i # None
        /\ \A r \in Stores, g \in Files : dir[r][g] = i => r = s /\ g = f
        /\ \A u \in Threads : fh[u] = i => FileOf(u) = f
        /\ fh'[t] = i /\ data'[i] = <<>> /\ pos'[t] = 0
        /\ \A j \in Inodes : j # i => data'[j] = data[j]
        /\ dir'[s][f] = i
        /\ \A r \in Stores, g \in Files : ~(r = s /\ g = f) => dir'[r][g] = dir[r][g]
        /\ disturbed' = disturbed \cup {g \in {f} : \E u \in Threads : fh[u] = i}
  BY OpenWriteIs
<1>2. disturbed' = disturbed \cup {g \in {f} : \E u \in Threads : fh[u] = i}
  BY <1>1
<1>3. /\ \A r \in Stores, g \in Files : dir[r][g] = i => r = s /\ g = f
      /\ \A u \in Threads : fh[u] = i => FileOf(u) = f
  BY <1>1
<1>4. /\ fh'[t] = i /\ data'[i] = <<>> /\ pos'[t] = 0
      /\ \A j \in Inodes : j # i => data'[j] = data[j]
      /\ dir'[s][f] = i
      /\ \A r \in Stores, g \in Files : ~(r = s /\ g = f) => dir'[r][g] = dir[r][g]
  BY <1>1
<1>5. \A u \in Threads : FileOf(u)' = FileOf(u)
  BY DEF FileOf
<1>6. \A u \in Threads \ {t} : fh'[u] = fh[u] /\ (Writing(u)' <=> Writing(u))
  BY DEF Elsewhere, Stays, Writing
<1>7. fh[t] = None /\ ~Writing(t) /\ Writing(t)'
  BY DEF DiskInv, TypeInv, OpenInv, Writing, Holding
<1>8. disturbed \subseteq disturbed' /\ \A u \in Threads : fh[u] = i => f \in disturbed'
  BY <1>2
<1> HIDE DEF f
<1>9. f \in Files /\ f = FileOf(t)
  BY DEF f
<1>10. HandleInv'
  <2>1. ASSUME NEW r \in Stores, NEW q \in Stores, NEW g \in Files, NEW h \in Files,
               dir'[r][g] = dir'[q][h], dir'[r][g] # None
        PROVE  r = q /\ g = h
    <3>1. CASE (r = s /\ g = f) \/ (q = s /\ h = f)
      BY <1>3, <1>4, <2>1, <3>1
    <3>2. CASE ~(r = s /\ g = f) /\ ~(q = s /\ h = f)
      BY <1>4, <2>1, <3>2 DEF DiskInv, HandleInv
    <3> QED BY <3>1, <3>2
  <2>2. ASSUME NEW u \in Threads, NEW r \in Stores, NEW g \in Files,
               fh'[u] # None, dir'[r][g] = fh'[u]
        PROVE  g = FileOf(u)'
    <3>1. CASE u = t
      BY <1>3, <1>4, <1>5, <1>9, <2>2, <3>1
    <3>2. CASE u # t /\ r = s /\ g = f
      BY <1>3, <1>4, <1>5, <1>6, <2>2, <3>2
    <3>3. CASE u # t /\ ~(r = s /\ g = f)
      BY <1>4, <1>5, <1>6, <2>2, <3>3 DEF DiskInv, HandleInv
    <3> QED BY <3>1, <3>2, <3>3
  <2>3. ASSUME NEW u \in Threads, NEW w \in Threads, fh'[u] # None, fh'[u] = fh'[w]
        PROVE  FileOf(u)' = FileOf(w)'
    <3>1. CASE u = t \/ w = t
      BY <1>3, <1>4, <1>5, <1>6, <1>9, <2>3, <3>1
    <3>2. CASE u # t /\ w # t
      BY <1>5, <1>6, <2>3, <3>2 DEF DiskInv, HandleInv
    <3> QED BY <3>1, <3>2
  <2> QED BY <2>1, <2>2, <2>3 DEF HandleInv
<1>11. AloneInv'
  <2>1. SUFFICES ASSUME NEW u \in Threads, NEW w \in Threads, u # w, fh'[u] = fh'[w], Writing(u)'
                 PROVE  FileOf(u)' \in disturbed'
    BY DEF AloneInv
  <2>2. CASE u = t \/ w = t
    BY <1>3, <1>4, <1>5, <1>6, <1>8, <1>9, <2>1, <2>2
  <2>3. CASE u # t /\ w # t
    BY <1>5, <1>6, <1>8, <2>1, <2>3 DEF DiskInv, AloneInv
  <2> QED BY <2>2, <2>3
<1>12. NamesWhole'
  <2>1. SUFFICES ASSUME NEW r \in Stores, NEW g \in Files \ disturbed', dir'[r][g] # None,
                        ~BeingWritten(dir[r][g])'
                 PROVE  Whole(data'[dir'[r][g]])
    BY DEF NamesWhole, Whole, Content
  <2>2. ~(r = s /\ g = f)
    BY <1>4, <1>7, <2>1 DEF BeingWritten
  <2>3. dir'[r][g] = dir[r][g] /\ dir[r][g] # i /\ dir[r][g] \in Inodes
    BY <1>0, <1>3, <1>4, <2>1, <2>2 DEF StorageTyped, Directory
  <2>4. ~BeingWritten(dir[r][g])
    BY <1>6, <1>7, <2>1, <2>3 DEF BeingWritten
  <2>5. Whole(data[dir[r][g]])
    BY <1>8, <2>1, <2>3, <2>4 DEF DiskInv, ContentInv, NamesWhole
  <2> QED BY <1>4, <2>3, <2>5
<1>13. ASSUME NEW u \in Threads PROVE ThreadInv(u)'
  <2>1. CASE u = t
    <3>1. SUFFICES ASSUME f \notin disturbed' PROVE ThreadInv(t)'
      BY <1>5, <1>9, <2>1 DEF ThreadInv
    <3>2. Whole(got[t])
      BY <1>8, <1>9, <3>1 DEF DiskInv, ContentInv, ThreadInv, Carrying
    <3>3. got'[t] = got[t] /\ Len(got[t]) \in Nat
      BY <1>0 DEF HandlersTyped, Contents
    <3>4. data'[fh'[t]] = [j \in 1..pos'[t] |-> got'[t][j]]
      BY <1>4
    <3>5. pos'[t] <= Len(got'[t])
      BY <1>4, <3>3
    <3> QED BY <3>2, <3>3, <3>4, <3>5 DEF ThreadInv, Writing, Carrying, Whole, Content
  <2>2. CASE u # t
    <3>1. CASE fh[u] = i
      BY <1>3, <1>8, <2>2, <3>1, StaysKnows DEF Elsewhere
    <3>2. CASE fh[u] # i
      <4>1. pc[u] \in Holding => fh[u] \in Inodes
        BY <1>0 DEF DiskInv, TypeInv, OpenInv, StorageTyped, Handles
      <4> QED BY <1>4, <1>8, <2>2, <3>2, <4>1, StaysKnows DEF Elsewhere
    <3> QED BY <3>1, <3>2
  <2> QED BY <2>1, <2>2
<1> QED BY <1>10, <1>11, <1>12, <1>13 DEF ContentInv

LEMMA ReadBlockKeeps ==
  ASSUME DiskInv, NEW t \in Threads, Elsewhere(t), ReadBlock(t)
  PROVE  HandleInv' /\ AloneInv' /\ ContentInv'
<1>0. StorageTyped /\ HandlersTyped
  BY DEF DiskInv, TypeInv, FilesTyped
<1>1. /\ pc[t] \in {"fetching", "loading"} /\ Len(got[t]) < Len(data[fh[t]])
      /\ got' = [got EXCEPT ![t] = Append(@, data[fh[t]][Len(@) + 1])]
      /\ UNCHANGED <<dir, data, fh, pc, job, pos, disturbed>>
  BY DEF ReadBlock, diskVars
<1>2. UNCHANGED <<job, disturbed>> /\ pc'[t] # "idle"
  BY <1>1
<1>3. HandleInv' /\ AloneInv' /\ NamesWhole'
  BY <1>1 DEF DiskInv, HandleInv, AloneInv, ContentInv, NamesWhole, BeingWritten, Writing,
          FileOf, Whole, Content
<1>4. ASSUME NEW u \in Threads PROVE ThreadInv(u)'
  <2>1. CASE u = t
    <3>1. SUFFICES ASSUME FileOf(t) \notin disturbed PROVE ThreadInv(t)'
      BY <1>2, <2>1 DEF ThreadInv, FileOf
    <3>2. /\ Whole(data[fh[t]])
          /\ \A i \in 1..Len(got[t]) : got[t][i] = data[fh[t]][i]
      BY <1>1, <3>1 DEF DiskInv, ContentInv, ThreadInv
    <3>3. data[fh[t]] \in Blocks /\ got[t] \in Contents
      <4>1. fh[t] # None
        BY <1>1 DEF DiskInv, TypeInv, OpenInv, Holding
      <4> QED BY <1>0, <4>1, InodeOf DEF HandlersTyped
    <3>4. got'[t] = Append(got[t], data[fh[t]][Len(got[t]) + 1])
      BY <1>0, <1>1 DEF HandlersTyped
    <3>5. /\ Len(got'[t]) = Len(got[t]) + 1 /\ Len(got'[t]) <= Len(data[fh[t]])
          /\ \A i \in 1..Len(got'[t]) : got'[t][i] = data[fh[t]][i]
      <4>1. PICK g \in Contents : g = got[t]
        BY <3>3
      <4>2. PICK d \in Blocks : d = data[fh[t]]
        BY <3>3
      <4>3. Len(g) \in Nat /\ Len(d) \in Nat /\ Len(g) < Len(d) /\ d[Len(g) + 1] \in Versions \cup {Hole, Garbage}
        BY <1>1, <4>1, <4>2 DEF Blocks, Contents
      <4>4. PICK x \in Versions \cup {Hole, Garbage} : x = d[Len(g) + 1]
        BY <4>3
      <4>5. got'[t] = Append(g, x)
        BY <3>4, <4>1, <4>2, <4>4
      <4>6. /\ Len(Append(g, x)) = Len(g) + 1 /\ Append(g, x)[Len(g) + 1] = x
            /\ \A i \in 1..Len(g) : Append(g, x)[i] = g[i]
        BY DEF Contents
      <4> QED BY <3>2, <4>1, <4>2, <4>3, <4>4, <4>5, <4>6
    <3> QED BY <1>1, <3>2, <3>5 DEF ThreadInv, Writing, Carrying, Whole, Content
  <2>2. CASE u # t
    BY <1>1, <2>2, StaysKnows DEF Elsewhere
  <2> QED BY <2>1, <2>2
<1> QED BY <1>3, <1>4 DEF ContentInv

\* The next block after the beginning of a content makes a longer beginning.
LEMMA PutNext ==
  ASSUME NEW s \in Contents, NEW p \in Nat, p < Len(s)
  PROVE  PutBlock([i \in 1..p |-> s[i]], p + 1, s[p + 1]) = [i \in 1..(p + 1) |-> s[i]]
<1>1. Len([i \in 1..p |-> s[i]]) = p
  BY DEF Contents
<1> QED BY <1>1 DEF PutBlock

LEMMA WriteBlockKeeps ==
  ASSUME DiskInv, NEW t \in Threads, Elsewhere(t), WriteBlock(t)
  PROVE  HandleInv' /\ AloneInv' /\ ContentInv'
<1>0. StorageTyped /\ HandlersTyped
  BY DEF DiskInv, TypeInv, FilesTyped
<1>1. /\ Writing(t) /\ pos[t] < Len(got[t])
      /\ pos'  = [pos EXCEPT ![t] = @ + 1]
      /\ data' = [data EXCEPT ![fh[t]] = PutBlock(@, pos[t] + 1, got[t][pos[t] + 1])]
      /\ UNCHANGED <<dir, fh, pc, job, got, disturbed>>
  BY DEF WriteBlock
<1>2. fh[t] # None /\ fh[t] \in Inodes
  BY <1>0, <1>1 DEF DiskInv, TypeInv, OpenInv, Writing, Holding, StorageTyped, Handles
<1>3. \A i \in Inodes : i # fh[t] => data'[i] = data[i]
  BY <1>0, <1>1 DEF StorageTyped
<1>4. HandleInv' /\ AloneInv'
  BY <1>1 DEF DiskInv, HandleInv, AloneInv, Writing, FileOf
<1>5. NamesWhole'
  <2>1. SUFFICES ASSUME NEW r \in Stores, NEW g \in Files \ disturbed, dir[r][g] # None,
                        ~BeingWritten(dir[r][g])
                 PROVE  Whole(data'[dir[r][g]])
    BY <1>1 DEF NamesWhole, BeingWritten, Writing, Whole, Content
  <2>2. dir[r][g] # fh[t] /\ dir[r][g] \in Inodes
    BY <1>0, <1>1, <2>1 DEF BeingWritten, StorageTyped, Directory
  <2>3. Whole(data[dir[r][g]])
    BY <2>1 DEF DiskInv, ContentInv, NamesWhole
  <2> QED BY <1>3, <2>2, <2>3
<1>6. ASSUME NEW u \in Threads PROVE ThreadInv(u)'
  <2>1. CASE u = t
    <3>1. SUFFICES ASSUME FileOf(t) \notin disturbed PROVE ThreadInv(t)'
      BY <1>1, <2>1 DEF ThreadInv, FileOf
    <3>2. Whole(got[t]) /\ data[fh[t]] = [i \in 1..pos[t] |-> got[t][i]]
      BY <1>1, <3>1 DEF DiskInv, ContentInv, ThreadInv, Writing, Carrying
    <3>3. got[t] \in Contents /\ pos[t] \in Nat
      BY <1>0 DEF HandlersTyped
    <3>4. data'[fh[t]] = PutBlock(data[fh[t]], pos[t] + 1, got[t][pos[t] + 1])
      BY <1>0, <1>1, <1>2 DEF StorageTyped
    <3>5. data'[fh[t]] = [i \in 1..(pos[t] + 1) |-> got[t][i]]
      BY <1>1, <3>2, <3>3, <3>4, PutNext
    <3>6. pos'[t] = pos[t] + 1 /\ pos'[t] <= Len(got[t])
      <4>1. Len(got[t]) \in Nat
        BY <3>3 DEF Contents
      <4> QED BY <1>0, <1>1, <3>3, <4>1 DEF HandlersTyped
    <3>7. pc[t] \in {"write", "store"}
      BY <1>1 DEF Writing
    <3> QED BY <1>1, <3>2, <3>5, <3>6, <3>7 DEF ThreadInv, Writing, Carrying, Whole, Content
  <2>2. CASE u # t
    <3>1. CASE fh[u] = fh[t]
      <4>1. FileOf(u) \in disturbed
        BY <1>1, <1>2, <2>2, <3>1 DEF DiskInv, HandleInv, AloneInv
      <4> QED BY <1>1, <2>2, <4>1, StaysKnows DEF Elsewhere
    <3>2. CASE fh[u] # fh[t]
      <4>1. pc[u] \in Holding => fh[u] \in Inodes
        BY <1>0 DEF DiskInv, TypeInv, OpenInv, StorageTyped, Handles
      <4> QED BY <1>1, <1>3, <2>2, <3>2, <4>1, StaysKnows DEF Elsewhere
    <3> QED BY <3>1, <3>2
  <2> QED BY <2>1, <2>2
<1> QED BY <1>4, <1>5, <1>6 DEF ContentInv

-----------------------------------------------------------------------------
(* Whole contents: the theorem.                                            *)

LEMMA DiskThreadKeeps ==
  ASSUME DiskInv, TypeInv', NEW t \in Threads, Step(t)
  PROVE  DiskInv'
<1> USE DEF Holding
<1>0. TypeInv
  BY DEF DiskInv
<1>1. CASE Crash(t) \/ RacedCrash(t)
  BY <1>1, DiePassive, PassiveKeeps DEF Crash, RacedCrash
<1>2. CASE ~(Crash(t) \/ RacedCrash(t))
  <2>1. Elsewhere(t)
    BY <1>0, <1>2, ReadTyped, ManageTyped, WriteTyped, DeleteTyped, DiskErrorTyped
       DEF Step, Break, Typed
  <2>2. pc[t] # "idle" => FileOf(t) \in Files
    BY <1>0, FileTyped DEF TypeInv
  <2>3. JobInv /\ {"cdn", "fss"} \subseteq Stores
    BY <1>0 DEF TypeInv, Stores
  <2>4. CASE Fetch(t) /\ dir["fss"][FileOf(t)] # None
    <3>1. /\ OpenRead(t, "fss") /\ Goto(t, "fetching") /\ pc[t] = "fetch"
          /\ UNCHANGED <<diskVars, job>>
      BY <2>4 DEF Fetch
    <3>2. pc'[t] = "fetching"
      BY <2>3, <3>1, GotoIs
    <3> QED BY <2>1, <2>2, <2>3, <2>4, <3>1, <3>2, OpenReadKeeps DEF DiskInv
  <2>5. CASE Load(t) /\ FileOf(t) \in OnDisk
    <3>1. /\ OpenRead(t, "cdn") /\ Goto(t, "loading") /\ pc[t] = "load"
          /\ dir["cdn"][FileOf(t)] # None /\ UNCHANGED <<diskVars, job>>
      BY <2>5 DEF Load, OnDisk
    <3>2. pc'[t] = "loading"
      BY <2>3, <3>1, GotoIs
    <3> QED BY <2>1, <2>2, <2>3, <3>1, <3>2, OpenReadKeeps DEF DiskInv
  <2>6. CASE OpenCopy(t)
    <3>1. /\ OpenWrite(t, "cdn") /\ Goto(t, "write") /\ pc[t] = "open" /\ UNCHANGED <<job, got>>
      BY <2>6 DEF OpenCopy
    <3>2. pc'[t] = "write"
      BY <2>3, <3>1, GotoIs
    <3> QED BY <2>1, <2>2, <2>3, <3>1, <3>2, OpenWriteKeeps DEF DiskInv
  <2>7. CASE Post(t)
    <3>1. /\ OpenWrite(t, "fss") /\ Goto(t, "store") /\ pc[t] = "post" /\ UNCHANGED <<job, got>>
      BY <2>7 DEF Post
    <3>2. pc'[t] = "store"
      BY <2>3, <3>1, GotoIs
    <3> QED BY <2>1, <2>2, <2>3, <3>1, <3>2, OpenWriteKeeps DEF DiskInv
  <2>8. CASE ReadBlock(t) \/ WriteBlock(t)
    BY <2>1, <2>8, ReadBlockKeeps, WriteBlockKeeps DEF DiskInv
  <2>9. CASE ~(\/ Fetch(t) /\ dir["fss"][FileOf(t)] # None
               \/ Load(t) /\ FileOf(t) \in OnDisk
               \/ OpenCopy(t) \/ Post(t) \/ ReadBlock(t) \/ WriteBlock(t))
    <3>1. \/ Lookup(t) \/ ReadEnd(t) \/ Relookup(t) \/ Reply(t)
          \/ Fetch(t) /\ dir["fss"][FileOf(t)] = None
          \/ Load(t) /\ FileOf(t) \notin OnDisk
          \/ Manage(t) \/ WriteEnd(t) \/ PostRefused(t) \/ Delete(t) \/ DiskError(t)
      BY <1>2, <2>9 DEF Step, Read, Write, Break
    <3>2. Passive
      BY <2>1, <3>1, ReadPassive, ManagePassive, WritePassive, DeletePassive, ErrorPassive
    <3> QED BY <3>2, PassiveKeeps
  <2> QED BY <2>4, <2>5, <2>6, <2>7, <2>8, <2>9
<1> QED BY <1>1, <1>2

LEMMA DiskKept == DiskInv /\ [Next]_vars => DiskInv'
<1> SUFFICES ASSUME DiskInv, [Next]_vars PROVE DiskInv'
  OBVIOUS
<1>1. TypeInv /\ TypeInv'
  BY TypesKept DEF DiskInv
<1>2. ASSUME NEW t \in Threads, NEW j \in Jobs[t], Start(t, j) PROVE DiskInv'
  BY <1>1, <1>2, StartTyped, StartPassive, PassiveKeeps DEF Typed
<1>3. CASE Stop
  BY <1>1, <1>3, DiePassive, PassiveKeeps DEF Stop
<1>4. CASE UNCHANGED <<diskVars, threadVars, disturbed>>
  <2>1. Passive
    BY <1>4 DEF Passive, Stays, diskVars, threadVars
  <2> QED BY <1>1, <2>1, PassiveKeeps
<1>5. CASE Restart
  BY <1>4, <1>5 DEF Restart
<1>6. CASE UNCHANGED vars
  BY <1>4, <1>6 DEF vars
<1> QED BY <1>1, <1>2, <1>3, <1>5, <1>6, DiskThreadKeeps DEF Next

LEMMA WholeInit == Init => DiskInv
<1> SUFFICES ASSUME Init PROVE DiskInv
  OBVIOUS
<1>1. TypeInv
  BY TypesInit
<1>2. \A s \in Stores, f \in Files : dir[s][f] # None =>
        dir[s][f] = <<s, f>> /\ s = "fss" /\ Stored[f] # Null
  BY DEF Init
<1>3. HandleInv /\ AloneInv
  BY <1>2 DEF Init, HandleInv, AloneInv, Writing
<1>4. NamesWhole
  <2>1. ASSUME NEW s \in Stores, NEW f \in Files, dir[s][f] # None
        PROVE  \E v \in Versions : data[dir[s][f]] = Content(v)
    <3>1. dir[s][f] = <<"fss", f>> /\ Stored[f] # Null /\ <<"fss", f>> \in Inodes
      BY <1>2, <2>1, InodeNames
    <3>2. data[<<"fss", f>>] = Content(Stored[f])
      BY <3>1 DEF Init
    <3>3. Stored[f] \in Versions
      BY <3>1, StoredAssumption DEF Files
    <3> QED BY <3>1, <3>2, <3>3
  <2> QED BY <2>1 DEF NamesWhole, Whole
<1>5. \A t \in Threads : ThreadInv(t)
  BY DEF Init, ThreadInv
<1> QED BY <1>1, <1>3, <1>4, <1>5 DEF DiskInv, ContentInv

(* However the handlers interleave, and whatever fails or dies, a file     *)
(* whose writes met no other access and no error is whole, and so is what  *)
(* is fetched or answered of it: evictions, removals and re-creations tear *)
(* nothing (CDN_Node.cpp, fss.cpp).                                        *)
THEOREM DiskWhole == Spec => []WholeContents
<1>1. DiskInv => WholeContents
  BY DEF DiskInv, ContentInv, NamesWhole, ThreadInv, WholeContents
<1> QED BY <1>1, WholeInit, DiskKept, PTL DEF Spec

-----------------------------------------------------------------------------
(* Handlers that never overlap: the space that copies take.                *)

LEMMA OneFileBlocks ==
  ASSUME NEW f, NEW s, s \in Blocks
  PROVE  /\ IsFiniteSet({f} \X DOMAIN s)
         /\ Cardinality({f} \X DOMAIN s) = Len(s)
<1>1. PICK n \in Nat : n = Len(s)
  BY DEF Blocks
<1>2. DOMAIN s = 1..n
  BY <1>1 DEF Blocks
<1>3. IsFiniteSet({f}) /\ Cardinality({f}) = 1
  BY FS_Singleton
<1>4. IsFiniteSet(1..n) /\ Cardinality(1..n) = n
  <2>1. Cardinality(1..n) = IF 1 > n THEN 0 ELSE n - 1 + 1
    BY FS_Interval
  <2>2. IsFiniteSet(1..n)
    BY FS_Interval
  <2> QED BY <2>1, <2>2
<1>5. /\ IsFiniteSet({f} \X (1..n))
      /\ Cardinality({f} \X (1..n)) = 1 * n
  <2> DEFINE I == 1..n
  <2>1. IsFiniteSet(I) /\ Cardinality(I) = n
    BY <1>4
  <2> HIDE DEF I
  <2>2. IsFiniteSet({f} \X I) /\ Cardinality({f} \X I) = 1 * n
    BY <1>3, <2>1, FS_Product
  <2> QED BY <2>2 DEF I
<1> QED BY <1>1, <1>2, <1>5

LEMMA BlockedFinite ==
  ASSUME StorageTyped, NEW F, F \subseteq OnDisk
  PROVE  IsFiniteSet(Blocked(F, dir, data)) /\ Space(F, dir, data) \in Nat
<1> DEFINE b == [f \in F |-> {f} \X DOMAIN data[dir["cdn"][f]]]
           T == {b[f] : f \in F}
<1>1. IsFiniteSet(F)
  <2>1. F \in SUBSET Keys
    BY DEF OnDisk, Files
  <2> QED BY <2>1, KeysAssumption, FS_Subset
<1>2. \A f \in F : data[dir["cdn"][f]] \in Blocks
  BY InodeOf DEF OnDisk, Stores
<1>3. IsFiniteSet(T)
  <2>1. b \in [F -> T] /\ \A y \in T : \E f \in F : b[f] = y
    OBVIOUS
  <2>2. b \in Surjection(F, T)
    BY <2>1 DEF Surjection
  <2> HIDE DEF b, T
  <2> QED BY <1>1, <2>2, FS_Surjection
<1>4. \A y \in T : IsFiniteSet(y)
  <2>1. ASSUME NEW f \in F PROVE IsFiniteSet(b[f])
    <3>1. IsFiniteSet({f} \X DOMAIN data[dir["cdn"][f]])
      BY <1>2, OneFileBlocks
    <3> QED BY <3>1
  <2> QED BY <2>1
<1>5. IsFiniteSet(UNION T)
  <2> HIDE DEF T
  <2> QED BY <1>3, <1>4, FS_UNION
<1>6. Blocked(F, dir, data) = UNION T
  BY DEF Blocked
<1> QED BY <1>5, <1>6, FS_CardinalityType DEF Space

\* Fewer copies take no more space.
LEMMA SpaceGrows ==
  ASSUME StorageTyped, NEW G, G \subseteq OnDisk, NEW F, F \subseteq G
  PROVE  Space(F, dir, data) <= Space(G, dir, data)
<1>1. Blocked(F, dir, data) \subseteq Blocked(G, dir, data)
  BY DEF Blocked
<1>2. IsFiniteSet(Blocked(G, dir, data))
  BY BlockedFinite
<1> QED BY <1>1, <1>2, FS_Subset DEF Space

\* One more copy takes no more than its length.
LEMMA SpaceWith ==
  ASSUME StorageTyped, NEW F, F \subseteq OnDisk, NEW f \in OnDisk
  PROVE  Space(F \cup {f}, dir, data) <= Space(F, dir, data) + Len(data[dir["cdn"][f]])
<1> DEFINE A == Blocked(F, dir, data)
           B == {f} \X DOMAIN data[dir["cdn"][f]]
<1>1. data[dir["cdn"][f]] \in Blocks
  BY InodeOf DEF OnDisk, Stores
<1>2. IsFiniteSet(A) /\ Cardinality(A) \in Nat
  BY BlockedFinite DEF Space
<1>3. IsFiniteSet(B) /\ Cardinality(B) = Len(data[dir["cdn"][f]]) /\ Cardinality(B) \in Nat
  BY <1>1, OneFileBlocks, FS_CardinalityType
<1>4. Blocked(F \cup {f}, dir, data) = A \cup B
  BY DEF Blocked
<1> HIDE DEF A, B
<1>5. Cardinality(A \cup B) = Cardinality(A) + Cardinality(B) - Cardinality(A \cap B)
  BY <1>2, <1>3, FS_Union
<1>6. Cardinality(A \cap B) \in Nat
  <2>1. A \cap B \in SUBSET A
    OBVIOUS
  <2> QED BY <1>2, <2>1, FS_Subset, FS_CardinalityType
<1>7. Cardinality(A \cup B) <= Cardinality(A) + Cardinality(B)
  BY <1>2, <1>3, <1>5, <1>6
<1> QED BY <1>3, <1>4, <1>7 DEF Space, A

LEMMA UsedIs == Used = Space(OnDisk, dir, data)
BY DEF Used, Space, Blocked

\* Copies that do not change take the space they took.
LEMMA SpaceSame ==
  ASSUME NEW F, NEW d, NEW e, NEW x, NEW y, \A f \in F : x[d["cdn"][f]] = y[e["cdn"][f]]
  PROVE  Space(F, d, x) = Space(F, e, y)
<1>1. Blocked(F, d, x) = Blocked(F, e, y)
  BY DEF Blocked
<1> QED BY <1>1 DEF Space

-----------------------------------------------------------------------------
(* Handlers that never overlap: their steps.                               *)

Alone(t)   == \A u \in Threads \ {t} : pc[u] = "idle"
RestPlaces == {"lookup", "fetch", "relookup", "load", "loading", "reply"}

\* What is known when only thread t is busy, or becomes so.
OnlyBusy(t) == DiskInv /\ OrderlyInv /\ orderly /\ Alone(t) /\ Elsewhere(t)

\* The names and what they name stay.
NamesKept ==
  /\ dir' = dir
  /\ \A s \in Stores, f \in Files : dir[s][f] # None => data'[dir[s][f]] = data[dir[s][f]]

LEMMA OrderlyFacts ==
  ASSUME NEW t \in Threads, OnlyBusy(t)
  PROVE  /\ StorageTyped /\ HandlersTyped /\ JobInv /\ HandleInv
         /\ up /\ nulls = {} /\ disturbed = {}
         /\ \A u \in Threads \ {t} : fh[u] = None /\ ~Writing(u)
         /\ fh[t] # None <=> pc[t] \in Holding
<1>1. /\ StorageTyped /\ HandlersTyped /\ JobInv /\ HandleInv
      /\ up /\ nulls = {} /\ disturbed = {}
  BY DEF OnlyBusy, OrderlyInv, DiskInv, TypeInv, FilesTyped
<1>2. OpenInv /\ Alone(t)
  BY DEF OnlyBusy, DiskInv, TypeInv
<1> QED BY <1>1, <1>2 DEF OpenInv, Alone, Holding, Writing

LEMMA OrderlyNext ==
  ASSUME NEW t \in Threads, OnlyBusy(t), up' = up, nulls' = nulls, disturbed' = disturbed,
         pc'[t] = "idle" => RestInv', pc'[t] # "idle" => OrderlyAt(t)'
  PROVE  OrderlyInv'
<1>1. up' = up /\ up /\ nulls' = {} /\ disturbed' = {}
  BY OrderlyFacts
<1>2. \A u \in Threads : pc'[u] # "idle" => u = t
  BY DEF OnlyBusy, Alone, Elsewhere, Stays
<1>3. Idle' => RestInv'
  BY DEF Idle
<1>4. up'
  BY <1>1
<1> QED BY <1>1, <1>2, <1>3, <1>4 DEF OrderlyInv

LEMMA BusyAt ==
  ASSUME NEW t \in Threads, OnlyBusy(t), pc[t] # "idle"
  PROVE  OrderlyAt(t) /\ FileOf(t) \in Files
<1>1. FileOf(t) \in Files
  BY FileTyped DEF OnlyBusy, DiskInv, TypeInv
<1> QED BY <1>1 DEF OnlyBusy, OrderlyInv

\* What the copies are and take, when names and what they name stay.
LEMMA ViewKept ==
  ASSUME NamesKept
  PROVE  /\ OnDisk' = OnDisk
         /\ \A F \in SUBSET OnDisk : /\ Space(F, dir', data') = Space(F, dir, data)
                                     /\ Exact(F, dir, data) => Exact(F, dir', data')
<1>1. OnDisk' = OnDisk
  BY DEF NamesKept, OnDisk
<1>2. ASSUME NEW F \in SUBSET OnDisk
      PROVE  /\ Space(F, dir', data') = Space(F, dir, data)
             /\ Exact(F, dir, data) => Exact(F, dir', data')
  <2>1. \A f \in F : data'[dir'["cdn"][f]] = data[dir["cdn"][f]]
    BY DEF NamesKept, OnDisk, Stores
  <2>2. \A f \in F : dir["fss"][f] # None => data'[dir'["fss"][f]] = data[dir["fss"][f]]
    BY DEF NamesKept, OnDisk, Stores
  <2>3. Space(F, dir', data') = Space(F, dir, data)
    BY <2>1, SpaceSame
  <2>4. Exact(F, dir, data) => Exact(F, dir', data')
    BY <2>1, <2>2 DEF Exact, NamesKept
  <2> QED BY <2>3, <2>4
<1> QED BY <1>1, <1>2

LEMMA RestKept ==
  ASSUME RestInv, NamesKept, nodes' = nodes
  PROVE  RestInv'
<1>1. OnDisk' = OnDisk /\ OnDisk \in SUBSET OnDisk
  BY ViewKept
<1>2. Space(OnDisk, dir', data') = Space(OnDisk, dir, data) /\ Exact(OnDisk, dir', data')
  BY <1>1, ViewKept DEF RestInv
<1> QED BY <1>1, <1>2 DEF RestInv

LEMMA RestAt ==
  ASSUME NEW t \in Threads, pc'[t] \in RestPlaces, RestInv'
  PROVE  OrderlyAt(t)'
BY DEF OrderlyAt, RestInv, RestPlaces

LEMMA AtRest ==
  ASSUME NEW t \in Threads, pc[t] \in RestPlaces \cup {"fetching", "manage"}, OrderlyAt(t)
  PROVE  RestInv
BY DEF OrderlyAt, RestInv, RestPlaces

LEMMA CloseKeepsNames ==
  ASSUME StorageTyped, NEW t \in Threads, Close(t), dir' = dir
  PROVE  NamesKept
<1>1. data' = Reclaim(dir', fh', data)
  BY DEF Close
<1>2. \A s \in Stores, f \in Files : dir[s][f] # None =>
        dir[s][f] \in InUse(dir', fh') \cap Inodes
  BY DEF StorageTyped, Directory, InUse
<1> QED BY <1>1, <1>2, ReclaimKeeps DEF NamesKept

\* Steps from rest to rest.
LEMMA RestStep ==
  ASSUME NEW t \in Threads, OnlyBusy(t), pc[t] \in RestPlaces, NamesKept,
         UNCHANGED <<up, nodes, nulls, disturbed>>, pc'[t] \in RestPlaces \cup {"idle"}
  PROVE  OrderlyInv'
<1>1. RestInv
  BY BusyAt, AtRest DEF RestPlaces
<1>2. RestInv'
  BY <1>1, RestKept
<1> QED BY <1>2, RestAt, OrderlyNext

\* Nobody else has a file open.
LEMMA OpenReadAlone ==
  ASSUME NEW t \in Threads, OnlyBusy(t), NEW s \in Stores, OpenRead(t, s), ~Writing(t)
  PROVE  disturbed' = disturbed /\ fh'[t] = dir[s][FileOf(t)]
<1>1. \A u \in Threads : ~Writing(u)
  BY OrderlyFacts
<1>2. fh \in Handles
  BY OrderlyFacts DEF StorageTyped
<1> QED BY <1>1, <1>2 DEF OpenRead, Handles

LEMMA ReadOrderly ==
  ASSUME NEW t \in Threads, OnlyBusy(t), Read(t)
  PROVE  OrderlyInv'
<1> USE DEF RestPlaces
<1>0. JobInv /\ HandlersTyped /\ StorageTyped /\ nulls = {} /\ {"cdn", "fss"} \subseteq Stores
  BY OrderlyFacts DEF Stores
<1>1. CASE Lookup(t)
  <2>1. pc'[t] \in {"relookup", "fetch"}
    BY <1>0, <1>1, GotoIs DEF Lookup
  <2> QED BY <1>1, <2>1, RestStep DEF Lookup, NamesKept, diskVars, listVars, faultVars
<1>2. CASE Fetch(t)
  <2>1. CASE dir["fss"][FileOf(t)] = None
    <3>1. Finish(t) /\ pc[t] = "fetch"
          /\ UNCHANGED <<listVars, diskVars, faultVars, disturbed>>
      BY <1>2, <2>1 DEF Fetch
    <3>2. pc'[t] = "idle"
      BY <1>0, <3>1, FinishIs
    <3> QED BY <3>1, <3>2, RestStep DEF NamesKept, diskVars, listVars, faultVars
  <2>2. CASE dir["fss"][FileOf(t)] # None
    <3>1. OpenRead(t, "fss") /\ Goto(t, "fetching") /\ pc[t] = "fetch"
          /\ UNCHANGED <<listVars, diskVars, faultVars, job>>
      BY <1>2, <2>2 DEF Fetch
    <3>2. pc'[t] = "fetching"
      BY <1>0, <3>1, GotoIs
    <3>3. disturbed' = disturbed /\ fh'[t] = dir["fss"][FileOf(t)]
      BY <1>0, <3>1, OpenReadAlone DEF Writing
    <3>4. RestInv
      BY <3>1, BusyAt, AtRest
    <3>5. RestInv'
      BY <3>1, <3>4, RestKept DEF NamesKept, diskVars, listVars
    <3>6. OrderlyAt(t)'
      BY <2>2, <3>1, <3>2, <3>3, <3>5 DEF OrderlyAt, RestInv, FileOf, diskVars
    <3> QED BY <3>1, <3>2, <3>3, <3>6, OrderlyNext DEF listVars, faultVars
  <2> QED BY <2>1, <2>2
<1>3. CASE ReadBlock(t)
  <2>1. UNCHANGED <<listVars, diskVars, fh, pc, job, faultVars, disturbed>>
        /\ pc[t] \in {"fetching", "loading"}
    BY <1>3 DEF ReadBlock
  <2>2. NamesKept
    BY <2>1 DEF NamesKept, diskVars
  <2>3. CASE pc[t] = "loading"
    BY <2>1, <2>2, <2>3, RestStep DEF listVars, faultVars
  <2>4. CASE pc[t] = "fetching"
    <3>1. OrderlyAt(t) /\ RestInv
      BY <2>4, BusyAt, AtRest
    <3>2. RestInv'
      BY <2>1, <2>2, <3>1, RestKept DEF listVars
    <3>3. OrderlyAt(t)'
      BY <2>1, <2>4, <3>1, <3>2 DEF OrderlyAt, RestInv, FileOf, diskVars
    <3> QED BY <2>1, <2>4, <3>3, OrderlyNext DEF listVars, faultVars
  <2> QED BY <2>1, <2>3, <2>4
<1>4. CASE ReadEnd(t)
  <2>1. /\ Close(t) /\ Len(got[t]) >= Len(data[fh[t]])
        /\ UNCHANGED <<listVars, dir, job, got, faultVars, disturbed>>
        /\ pc[t] \in {"fetching", "loading"}
    BY <1>4 DEF ReadEnd
  <2>2. NamesKept
    BY <1>0, <2>1, CloseKeepsNames
  <2>3. CASE pc[t] = "loading"
    <3>1. pc'[t] = "reply"
      BY <1>0, <1>4, <2>3, GotoIs DEF ReadEnd
    <3> QED BY <2>1, <2>2, <2>3, <3>1, RestStep DEF listVars, faultVars
  <2>4. CASE pc[t] = "fetching"
    <3>1. GotoManage(t)
      BY <1>4, <2>4 DEF ReadEnd
    <3>2. pc'[t] = "manage"
      <4>1. Goto(t, "manage")
        BY <3>1 DEF GotoManage, OnlyBusy, Alone
      <4> QED BY <1>0, <4>1, GotoIs
    <3>3. OrderlyAt(t) /\ RestInv /\ FileOf(t) \in Files
      BY <2>4, BusyAt, AtRest
    <3>4. RestInv'
      BY <2>1, <2>2, <3>3, RestKept DEF listVars
    <3>5. dir["fss"][FileOf(t)] # None /\ fh[t] = dir["fss"][FileOf(t)]
      BY <2>4, <3>3 DEF OrderlyAt
    <3>6. got[t] = data[fh[t]]
      <4>1. DiskInv /\ FileOf(t) \notin disturbed
        BY OrderlyFacts DEF OnlyBusy
      <4> QED BY <2>1, <4>1, ReadWhole
    <3>7. got'[t] = data'[dir'["fss"][FileOf(t)]] /\ dir'["fss"][FileOf(t)] # None
      BY <1>0, <2>1, <2>2, <3>3, <3>5, <3>6 DEF NamesKept
    <3>8. OrderlyAt(t)'
      BY <2>1, <3>2, <3>4, <3>7 DEF OrderlyAt, RestInv, FileOf
    <3> QED BY <2>1, <3>2, <3>8, OrderlyNext DEF listVars, faultVars
  <2> QED BY <2>1, <2>3, <2>4
<1>5. CASE Relookup(t)
  <2>1. pc'[t] \in {"load", "idle"}
    BY <1>0, <1>5, GotoIs, FinishIs DEF Relookup
  <2> QED BY <1>5, <2>1, RestStep DEF Relookup, NamesKept, diskVars, listVars, faultVars
<1>6. CASE Load(t)
  <2>1. CASE FileOf(t) \in OnDisk
    <3>1. OpenRead(t, "cdn") /\ Goto(t, "loading") /\ pc[t] = "load" /\ ListGet(FileOf(t))
          /\ UNCHANGED <<diskVars, faultVars>>
      BY <1>6, <2>1 DEF Load
    <3>2. pc'[t] = "loading"
      BY <1>0, <3>1, GotoIs
    <3>3. disturbed' = disturbed
      BY <1>0, <3>1, OpenReadAlone DEF Writing
    <3>4. RestInv
      BY <3>1, BusyAt, AtRest
    <3>5. UNCHANGED <<nodes, nulls>>
      BY <2>1, <3>1, <3>4 DEF RestInv, ListGet, Update, listVars
    <3> QED BY <3>1, <3>2, <3>3, <3>5, RestStep DEF NamesKept, diskVars, faultVars
  <2>2. CASE FileOf(t) \notin OnDisk
    <3>1. pc'[t] = "reply"
      BY <1>0, <1>6, <2>2, GotoIs DEF Load
    <3> QED BY <1>6, <2>2, <3>1, RestStep DEF Load, NamesKept, diskVars, listVars, faultVars
  <2> QED BY <2>1, <2>2
<1>7. CASE Reply(t)
  <2>1. pc'[t] = "idle"
    BY <1>0, <1>7, FinishIs DEF Reply
  <2> QED BY <1>7, <2>1, RestStep DEF Reply, NamesKept, diskVars, listVars, faultVars
<1> QED BY <1>1, <1>2, <1>3, <1>4, <1>5, <1>6, <1>7 DEF Read

LEMMA RemoveView ==
  ASSUME StorageTyped, NEW v, RemoveName(v), fh' = fh
  PROVE  /\ OnDisk' = OnDisk \ {v} /\ dir'["fss"] = dir["fss"]
         /\ \A f \in Files : dir["fss"][f] # None => data'[dir["fss"][f]] = data[dir["fss"][f]]
         /\ \A F \in SUBSET OnDisk' : /\ Space(F, dir', data') = Space(F, dir, data)
                                      /\ Exact(F, dir, data) => Exact(F, dir', data')
<1>1. dir' = [dir EXCEPT !["cdn"][v] = None] /\ data' = Reclaim(dir', fh', data)
  BY DEF RemoveName
<1>2. /\ dir'["fss"] = dir["fss"]
      /\ \A f \in Files : dir'["cdn"][f] = IF f = v THEN None ELSE dir["cdn"][f]
  BY <1>1 DEF StorageTyped, Directory, Stores
<1>3. OnDisk' = OnDisk \ {v}
  BY <1>2 DEF OnDisk
<1>4. \A s \in Stores, f \in Files : dir'[s][f] # None =>
        /\ dir'[s][f] = dir[s][f] /\ data'[dir'[s][f]] = data[dir[s][f]]
  <2>1. SUFFICES ASSUME NEW s \in Stores, NEW f \in Files, dir'[s][f] # None
                 PROVE  dir'[s][f] = dir[s][f] /\ data'[dir'[s][f]] = data[dir[s][f]]
    OBVIOUS
  <2>2. dir'[s][f] = dir[s][f]
    BY <1>2, <2>1 DEF Stores
  <2>3. dir'[s][f] \in InUse(dir', fh') \cap Inodes
    BY <2>1, <2>2 DEF InUse, StorageTyped, Directory
  <2> QED BY <1>1, <2>2, <2>3, ReclaimKeeps
<1>5. \A f \in Files : dir["fss"][f] # None => data'[dir["fss"][f]] = data[dir["fss"][f]]
  BY <1>2, <1>4 DEF Stores
<1>6. ASSUME NEW F \in SUBSET OnDisk'
      PROVE  /\ Space(F, dir', data') = Space(F, dir, data)
             /\ Exact(F, dir, data) => Exact(F, dir', data')
  <2>1. \A f \in F : f \in Files /\ data'[dir'["cdn"][f]] = data[dir["cdn"][f]]
    BY <1>4 DEF OnDisk, Stores
  <2>2. Space(F, dir', data') = Space(F, dir, data)
    BY <2>1, SpaceSame
  <2>3. Exact(F, dir, data) => Exact(F, dir', data')
    BY <1>2, <1>5, <2>1 DEF Exact
  <2> QED BY <2>2, <2>3
<1> QED BY <1>2, <1>3, <1>5, <1>6

LEMMA SpaceNumber ==
  ASSUME StorageTyped, NEW F \in SUBSET OnDisk
  PROVE  Space(F, dir, data) \in Nat /\ Space(F, dir, data) <= Space(OnDisk, dir, data)
BY BlockedFinite, SpaceGrows

LEMMA ManageOrderly ==
  ASSUME NEW t \in Threads, OnlyBusy(t), Manage(t)
  PROVE  OrderlyInv'
<1> DEFINE f == FileOf(t)
<1>0. JobInv /\ HandlersTyped /\ StorageTyped /\ nulls = {} /\ got[t] \in Contents
  BY OrderlyFacts DEF HandlersTyped
<1>1. pc[t] \in {"manage", "raced", "evict"}
  BY DEF Manage, Evict, RemoveVictim, Refuse, Track
<1>2. OrderlyAt(t) /\ f \in Files /\ pc[t] # "raced"
  <2>1. pc[t] # "idle"
    BY <1>1
  <2>2. OrderlyAt(t) /\ f \in Files
    BY <2>1, BusyAt
  <2> QED BY <2>2 DEF OrderlyAt
<1>3. CASE Evict(t)
  <2>1. /\ pc[t] = "manage" /\ RemoveTail /\ victim' = [victim EXCEPT ![t] = tail]
        /\ UNCHANGED <<diskVars, fh, job, got, pos, faultVars, disturbed>>
    BY <1>1, <1>2, <1>3 DEF Evict
  <2>2. pc'[t] = "evict"
    BY <1>0, <1>3, GotoIs DEF Evict
  <2>3. victim'[t] = tail /\ nodes' = nodes \ {tail} /\ nulls' = nulls
    BY <1>0, <2>1 DEF RemoveTail, HandlersTyped
  <2>4. RestInv
    BY <1>2, <2>1, AtRest
  <2>5. OnDisk' = OnDisk /\ dir' = dir /\ data' = data /\ got' = got /\ job' = job
    BY <2>1 DEF OnDisk, diskVars
  <2>6. OrderlyAt(t)'
    BY <1>2, <2>1, <2>2, <2>3, <2>4, <2>5 DEF OrderlyAt, RestInv, FileOf
  <2> QED BY <2>1, <2>2, <2>3, <2>6, OrderlyNext DEF faultVars
<1>4. CASE RemoveVictim(t)
  <2> DEFINE v == victim[t]
  <2>1. /\ pc[t] = "evict" /\ RemoveName(v) /\ GotoManage(t)
        /\ UNCHANGED <<listVars, fh, job, got, faultVars, disturbed>>
    BY <1>4 DEF RemoveVictim, RemoveName
  <2>2. pc'[t] = "manage"
    <3>1. Goto(t, "manage")
      BY <2>1 DEF GotoManage, OnlyBusy, Alone
    <3> QED BY <1>0, <3>1, GotoIs
  <2>3. /\ nodes = OnDisk \ {v} /\ Space(OnDisk, dir, data) <= Capacity
        /\ Exact(OnDisk, dir, data)
        /\ job[t].op # "put" => dir["fss"][f] # None /\ got[t] = data[dir["fss"][f]]
    BY <1>2, <2>1 DEF OrderlyAt
  <2>4. /\ OnDisk' = OnDisk \ {v} /\ dir'["fss"] = dir["fss"]
        /\ \A g \in Files : dir["fss"][g] # None => data'[dir["fss"][g]] = data[dir["fss"][g]]
        /\ \A F \in SUBSET OnDisk' : /\ Space(F, dir', data') = Space(F, dir, data)
                                     /\ Exact(F, dir, data) => Exact(F, dir', data')
    BY <1>0, <2>1, RemoveView
  <2>5. Space(OnDisk', dir', data') <= Capacity
    <3>1. OnDisk' \in SUBSET OnDisk
      BY <2>4
    <3>2. Space(OnDisk, dir, data) \in Nat /\ Space(OnDisk', dir, data) \in Nat
          /\ Space(OnDisk', dir, data) <= Space(OnDisk, dir, data)
      BY <1>0, <3>1, SpaceNumber
    <3> QED BY <2>3, <2>4, <3>2, LengthAssumption
  <2>6. Exact(OnDisk', dir', data')
    <3>1. Exact(OnDisk', dir, data)
      BY <2>3, <2>4 DEF Exact
    <3> QED BY <2>4, <3>1
  <2>7. nodes' = OnDisk' /\ UNCHANGED <<nulls, up, job, got>>
    BY <2>1, <2>3, <2>4 DEF listVars, faultVars
  <2>8. job[t].op # "put" => dir'["fss"][f] # None /\ got[t] = data'[dir'["fss"][f]]
    BY <1>2, <2>3, <2>4
  <2>9. OrderlyAt(t)'
    BY <2>2, <2>5, <2>6, <2>7, <2>8 DEF OrderlyAt, FileOf
  <2> QED BY <2>1, <2>2, <2>7, <2>9, OrderlyNext
<1>5. CASE Refuse(t)
  <2>1. pc[t] = "manage" /\ UNCHANGED <<listVars, diskVars, faultVars, disturbed>>
    BY <1>1, <1>2, <1>5 DEF Refuse
  <2>2. pc'[t] = "idle"
    BY <1>0, <1>5, FinishIs DEF Refuse
  <2>3. RestInv'
    BY <1>2, <2>1, AtRest, RestKept DEF NamesKept, diskVars, listVars
  <2> QED BY <2>1, <2>2, <2>3, OrderlyNext DEF listVars, faultVars
<1>6. CASE Track(t)
  <2>1. /\ pc[t] = "manage" /\ ListSet(f) /\ Used + Len(got[t]) <= Capacity
        /\ UNCHANGED <<diskVars, fh, job, got, faultVars, disturbed>>
    BY <1>1, <1>2, <1>6 DEF Track
  <2>2. pc'[t] = "open"
    BY <1>0, <1>6, GotoIs DEF Track
  <2>3. nodes' = nodes \cup {f} /\ nulls' = nulls
    BY <1>0, <2>1 DEF ListSet, AddNode, Update, listVars
  <2>4. RestInv
    BY <1>2, <2>1, AtRest
  <2>5. OnDisk' = OnDisk /\ dir' = dir /\ data' = data /\ got' = got /\ job' = job
    BY <2>1 DEF OnDisk, diskVars
  <2>6. Space(OnDisk \ {f}, dir, data) + Len(got[t]) <= Capacity
    <3>1. Space(OnDisk, dir, data) + Len(got[t]) <= Capacity
      BY <2>1, UsedIs
    <3>2. OnDisk \ {f} \in SUBSET OnDisk /\ OnDisk \in SUBSET OnDisk
      OBVIOUS
    <3>3. Space(OnDisk, dir, data) \in Nat /\ Space(OnDisk \ {f}, dir, data) \in Nat
          /\ Space(OnDisk \ {f}, dir, data) <= Space(OnDisk, dir, data)
      BY <1>0, <3>2, SpaceNumber
    <3>4. Len(got[t]) \in Nat
      BY <1>0 DEF Contents
    <3> QED BY <3>1, <3>3, <3>4, LengthAssumption
  <2>7. OrderlyAt(t)'
    BY <1>2, <2>1, <2>2, <2>3, <2>4, <2>5, <2>6 DEF OrderlyAt, RestInv, FileOf
  <2> QED BY <2>1, <2>2, <2>3, <2>7, OrderlyNext DEF faultVars
<1> QED BY <1>3, <1>4, <1>5, <1>6 DEF Manage

\* What is not the file f of store s stays.
OthersKept(s, f) ==
  \A r \in Stores, g \in Files :
    ~(r = s /\ g = f) => /\ dir'[r][g] = dir[r][g]
                         /\ dir[r][g] # None => data'[dir[r][g]] = data[dir[r][g]]

LEMMA OthersView ==
  ASSUME NEW s \in Stores, NEW f \in Files, OthersKept(s, f)
  PROVE  LET F == OnDisk \ {f} IN
         /\ OnDisk' \ {f} = F
         /\ Space(F, dir', data') = Space(F, dir, data)
         /\ Exact(F, dir, data) => Exact(F, dir', data')
<1> DEFINE F == OnDisk \ {f}
<1>1. OnDisk' \ {f} = F
  BY DEF OnDisk, OthersKept, Stores
<1>2. \A g \in F : data'[dir'["cdn"][g]] = data[dir["cdn"][g]]
  BY DEF OthersKept, OnDisk, Stores
<1>3. \A g \in F : /\ dir'["fss"][g] = dir["fss"][g]
                   /\ dir["fss"][g] # None => data'[dir'["fss"][g]] = data[dir["fss"][g]]
  BY DEF OthersKept, OnDisk, Stores
<1> HIDE DEF F
<1>4. Space(F, dir', data') = Space(F, dir, data)
  BY <1>2, SpaceSame
<1>5. Exact(F, dir, data) => Exact(F, dir', data')
  BY <1>2, <1>3 DEF Exact
<1> QED BY <1>1, <1>4, <1>5 DEF F

LEMMA OpenWriteAlone ==
  ASSUME NEW t \in Threads, OnlyBusy(t), NEW s \in Stores, FileOf(t) \in Files, OpenWrite(t, s),
         pc[t] \in {"open", "post"}
  PROVE  /\ disturbed' = disturbed /\ OthersKept(s, FileOf(t))
         /\ dir'[s][FileOf(t)] # None /\ fh'[t] = dir'[s][FileOf(t)]
<1> DEFINE f == FileOf(t)
<1>0. DiskInv /\ StorageTyped
  BY OrderlyFacts DEF OnlyBusy
<1>1. PICK i \in Inodes :
        /\ i # None
        /\ \A r \in Stores, g \in Files : dir[r][g] = i => r = s /\ g = f
        /\ fh'[t] = i
        /\ \A j \in Inodes : j # i => data'[j] = data[j]
        /\ dir'[s][f] = i
        /\ \A r \in Stores, g \in Files : ~(r = s /\ g = f) => dir'[r][g] = dir[r][g]
        /\ disturbed' = disturbed \cup {g \in {f} : \E u \in Threads : fh[u] = i}
  BY <1>0, OpenWriteIs
<1>2. \A u \in Threads : fh[u] # i
  BY <1>1, OrderlyFacts DEF Holding
<1>3. disturbed' = disturbed
  BY <1>1, <1>2
<1>4. OthersKept(s, f)
  <2>1. SUFFICES ASSUME NEW r \in Stores, NEW g \in Files, ~(r = s /\ g = f)
                 PROVE  /\ dir'[r][g] = dir[r][g]
                        /\ dir[r][g] # None => data'[dir[r][g]] = data[dir[r][g]]
    BY DEF OthersKept
  <2>2. dir[r][g] # i /\ (dir[r][g] # None => dir[r][g] \in Inodes)
    BY <1>0, <1>1, <2>1 DEF StorageTyped, Directory
  <2> QED BY <1>1, <2>1, <2>2
<1> QED BY <1>1, <1>3, <1>4

LEMMA WriteOrderly ==
  ASSUME NEW t \in Threads, OnlyBusy(t), Write(t)
  PROVE  OrderlyInv'
<1> DEFINE f == FileOf(t)
           F == OnDisk \ {f}
<1>0. /\ JobInv /\ HandlersTyped /\ StorageTyped /\ HandleInv /\ got[t] \in Contents
      /\ "cdn" \in Stores /\ "fss" \in Stores /\ DiskInv /\ disturbed = {}
  BY OrderlyFacts DEF HandlersTyped, Stores, OnlyBusy
<1>1. OrderlyAt(t) /\ f \in Files
  <2>1. pc[t] # "idle"
    BY DEF Write, OpenCopy, Post, WriteBlock, WriteEnd, PostRefused, Writing
  <2> QED BY <2>1, BusyAt
<1>2. CASE OpenCopy(t)
  <2>1. /\ pc[t] = "open" /\ OpenWrite(t, "cdn")
        /\ UNCHANGED <<listVars, job, got, faultVars>>
    BY <1>2 DEF OpenCopy
  <2>2. pc'[t] = "write"
    BY <1>0, <1>2, GotoIs DEF OpenCopy
  <2>3. /\ disturbed' = disturbed /\ OthersKept("cdn", f)
        /\ dir'["cdn"][f] # None /\ fh'[t] = dir'["cdn"][f]
    BY <1>0, <1>1, <2>1, OpenWriteAlone
  <2>4. /\ OnDisk' \ {f} = F /\ Space(F, dir', data') = Space(F, dir, data)
        /\ Exact(F, dir, data) => Exact(F, dir', data')
    BY <1>0, <1>1, <2>3, OthersView
  <2>5. OnDisk' = OnDisk \cup {f}
    BY <1>1, <2>3, <2>4 DEF OnDisk
  <2>6. /\ nodes = OnDisk \cup {f} /\ Exact(F, dir, data)
        /\ Space(F, dir, data) + Len(got[t]) <= Capacity
        /\ job[t].op # "put" => dir["fss"][f] # None /\ got[t] = data[dir["fss"][f]]
    BY <1>1, <2>1 DEF OrderlyAt, Exact
  <2>7. job[t].op # "put" => dir'["fss"][f] # None /\ got[t] = data'[dir'["fss"][f]]
    BY <1>0, <1>1, <2>3, <2>6 DEF OthersKept
  <2>8. nodes' = nodes /\ nulls' = nulls /\ up' = up /\ got' = got /\ job' = job
    BY <2>1 DEF listVars, faultVars
  <2> HIDE DEF F
  <2>9. OrderlyAt(t)'
    BY <2>2, <2>3, <2>4, <2>5, <2>6, <2>7, <2>8 DEF OrderlyAt, FileOf
  <2> QED BY <2>2, <2>3, <2>8, <2>9, OrderlyNext
<1>3. CASE Post(t)
  <2>1. /\ pc[t] = "post" /\ OpenWrite(t, "fss")
        /\ UNCHANGED <<listVars, job, got, faultVars>>
    BY <1>3 DEF Post
  <2>2. pc'[t] = "store"
    BY <1>0, <1>3, GotoIs DEF Post
  <2>3. /\ disturbed' = disturbed /\ OthersKept("fss", f)
        /\ dir'["fss"][f] # None /\ fh'[t] = dir'["fss"][f]
    BY <1>0, <1>1, <2>1, OpenWriteAlone
  <2>4. /\ OnDisk' \ {f} = F
        /\ Exact(F, dir, data) => Exact(F, dir', data')
    BY <1>0, <1>1, <2>3, OthersView
  <2>5. OnDisk' = OnDisk
    BY <2>3 DEF OnDisk, OthersKept, Stores
  <2>6. Space(OnDisk, dir', data') = Space(OnDisk, dir, data)
    <3>1. \A g \in OnDisk : data'[dir'["cdn"][g]] = data[dir["cdn"][g]]
      BY <2>3 DEF OnDisk, OthersKept, Stores
    <3> QED BY <3>1, SpaceSame
  <2>7. /\ nodes = OnDisk /\ Exact(F, dir, data) /\ Space(OnDisk, dir, data) <= Capacity
        /\ f \in OnDisk /\ data[dir["cdn"][f]] = got[t]
    BY <1>1, <2>1 DEF OrderlyAt
  <2>8. data'[dir'["cdn"][f]] = got[t]
    BY <1>1, <2>3, <2>7 DEF OthersKept, OnDisk, Stores
  <2>9. nodes' = nodes /\ nulls' = nulls /\ up' = up /\ got' = got /\ job' = job
    BY <2>1 DEF listVars, faultVars
  <2> HIDE DEF F
  <2>10. OrderlyAt(t)'
    BY <2>2, <2>3, <2>4, <2>5, <2>6, <2>7, <2>8, <2>9 DEF OrderlyAt, FileOf
  <2> QED BY <2>2, <2>3, <2>9, <2>10, OrderlyNext
<1>4. CASE WriteBlock(t)
  <2>1. /\ Writing(t)
        /\ data' = [data EXCEPT ![fh[t]] = PutBlock(@, pos[t] + 1, got[t][pos[t] + 1])]
        /\ UNCHANGED <<listVars, dir, fh, pc, job, got, faultVars, disturbed>>
    BY <1>4 DEF WriteBlock
  <2>2. \A j \in Inodes : j # fh[t] => data'[j] = data[j]
    BY <1>0, <2>1 DEF StorageTyped
  <2>3. ASSUME NEW s \in Stores, fh[t] = dir[s][f], fh[t] # None PROVE OthersKept(s, f)
    <3>1. SUFFICES ASSUME NEW r \in Stores, NEW g \in Files, ~(r = s /\ g = f), dir[r][g] # None
                   PROVE  data'[dir[r][g]] = data[dir[r][g]]
      BY <2>1 DEF OthersKept
    <3>2. dir[r][g] \in Inodes
      BY <1>0, <3>1 DEF StorageTyped, Directory
    <3>3. dir[r][g] # dir[s][f]
      BY <1>0, <1>1, <3>1 DEF HandleInv
    <3> QED BY <2>2, <2>3, <3>2, <3>3
  <2>4. OnDisk' = OnDisk /\ nodes' = nodes /\ nulls' = nulls /\ up' = up
        /\ UNCHANGED <<got, job, pc, dir, fh>>
    BY <2>1 DEF OnDisk, listVars, faultVars
  <2>5. CASE pc[t] = "write"
    <3>1. OthersKept("cdn", f)
      BY <1>0, <1>1, <2>3, <2>5 DEF OrderlyAt, OnDisk
    <3>2. /\ Space(F, dir', data') = Space(F, dir, data)
          /\ Exact(F, dir, data) => Exact(F, dir', data')
      BY <1>0, <1>1, <3>1, OthersView
    <3>3. dir["fss"][f] # None => data'[dir["fss"][f]] = data[dir["fss"][f]]
      BY <1>0, <1>1, <3>1 DEF OthersKept
    <3> HIDE DEF F
    <3>4. OrderlyAt(t)'
      BY <1>1, <2>4, <2>5, <3>2, <3>3 DEF OrderlyAt, FileOf, F
    <3> QED BY <2>1, <2>4, <2>5, <3>4, OrderlyNext
  <2>6. CASE pc[t] = "store"
    <3>1. OthersKept("fss", f)
      BY <1>0, <1>1, <2>3, <2>6 DEF OrderlyAt
    <3>2. Exact(F, dir, data) => Exact(F, dir', data')
      BY <1>0, <1>1, <3>1, OthersView
    <3>3. Space(OnDisk, dir', data') = Space(OnDisk, dir, data)
      <4>1. \A g \in OnDisk : data'[dir'["cdn"][g]] = data[dir["cdn"][g]]
        BY <3>1 DEF OnDisk, OthersKept, Stores
      <4> QED BY <4>1, SpaceSame
    <3>4. f \in OnDisk => data'[dir["cdn"][f]] = data[dir["cdn"][f]]
      BY <1>0, <1>1, <3>1 DEF OthersKept, OnDisk
    <3> HIDE DEF F
    <3>5. OrderlyAt(t)'
      BY <1>1, <2>4, <2>6, <3>2, <3>3, <3>4 DEF OrderlyAt, FileOf, F
    <3> QED BY <2>1, <2>4, <2>6, <3>5, OrderlyNext
  <2> QED BY <2>1, <2>5, <2>6 DEF Writing
<1>5. CASE WriteEnd(t)
  <2>1. /\ Writing(t) /\ pos[t] = Len(got[t]) /\ Close(t)
        /\ UNCHANGED <<listVars, dir, faultVars, disturbed>>
    BY <1>5 DEF WriteEnd
  <2>2. NamesKept
    BY <1>0, <2>1, CloseKeepsNames
  <2>3. data[fh[t]] = got[t]
    BY <1>0, <2>1, WrittenWhole
  <2>4. /\ OnDisk' = OnDisk
        /\ \A G \in SUBSET OnDisk : /\ Space(G, dir', data') = Space(G, dir, data)
                                    /\ Exact(G, dir, data) => Exact(G, dir', data')
    BY <2>2, ViewKept
  <2>5. nodes' = nodes /\ nulls' = nulls /\ up' = up
    BY <2>1 DEF listVars, faultVars
  <2>6. OnDisk \in SUBSET OnDisk /\ F \in SUBSET OnDisk
    OBVIOUS
  <2>7. CASE pc[t] = "write"
    <3>1. UNCHANGED <<job, got>> /\ pc'[t] = IF job[t].op = "put" THEN "post" ELSE "relookup"
      BY <1>0, <1>5, <2>7, GotoIs DEF WriteEnd
    <3>2. /\ f \in OnDisk /\ data[dir["cdn"][f]] = got[t] /\ nodes = OnDisk
          /\ Space(F, dir, data) + Len(got[t]) <= Capacity /\ Exact(F, dir, data)
      BY <1>1, <2>3, <2>7 DEF OrderlyAt
    <3>3. Space(OnDisk, dir, data) <= Capacity
      <4>1. Space(F \cup {f}, dir, data) <= Space(F, dir, data) + Len(got[t])
        BY <1>0, <2>6, <3>2, SpaceWith
      <4>2. F \cup {f} = OnDisk
        BY <3>2
      <4>3. Space(F, dir, data) \in Nat /\ Space(OnDisk, dir, data) \in Nat
        BY <1>0, <2>6, SpaceNumber
      <4>4. Len(got[t]) \in Nat
        BY <1>0 DEF Contents
      <4>5. Space(OnDisk, dir, data) <= Space(F, dir, data) + Len(got[t])
        BY <4>1, <4>2
      <4> HIDE DEF F
      <4> QED BY <3>2, <4>3, <4>4, <4>5, LengthAssumption
    <3>4. data'[dir'["cdn"][f]] = got[t]
      BY <1>0, <1>1, <2>2, <3>2 DEF NamesKept, OnDisk
    <3>5. CASE job[t].op = "put"
      <4> HIDE DEF F
      <4>1. OrderlyAt(t)'
        BY <2>4, <2>5, <2>6, <3>1, <3>2, <3>3, <3>4, <3>5 DEF OrderlyAt, FileOf, F
      <4> QED BY <2>1, <2>5, <3>1, <3>5, <4>1, OrderlyNext
    <3>6. CASE job[t].op # "put"
      <4>1. dir["fss"][f] # None /\ got[t] = data[dir["fss"][f]]
        BY <1>1, <2>7, <3>6 DEF OrderlyAt
      <4>2. Exact(OnDisk, dir, data)
        BY <3>2, <4>1 DEF Exact
      <4>3. RestInv'
        BY <2>4, <2>5, <2>6, <3>2, <3>3, <4>2 DEF RestInv
      <4>4. OrderlyAt(t)'
        BY <3>1, <3>6, <4>3, RestAt DEF RestPlaces
      <4> QED BY <2>1, <2>5, <3>1, <3>6, <4>4, OrderlyNext
    <3> QED BY <3>5, <3>6
  <2>8. CASE pc[t] = "store"
    <3>1. pc'[t] = "idle"
      BY <1>0, <1>5, <2>8, FinishIs DEF WriteEnd
    <3>2. /\ f \in OnDisk /\ data[dir["cdn"][f]] = got[t] /\ nodes = OnDisk
          /\ Space(OnDisk, dir, data) <= Capacity /\ Exact(F, dir, data)
          /\ dir["fss"][f] # None /\ data[dir["fss"][f]] = got[t]
      BY <1>1, <2>3, <2>8 DEF OrderlyAt
    <3>3. Exact(OnDisk, dir, data)
      BY <3>2 DEF Exact
    <3>4. RestInv'
      BY <2>4, <2>5, <2>6, <3>2, <3>3 DEF RestInv
    <3> QED BY <2>1, <2>5, <3>1, <3>4, OrderlyNext
  <2> QED BY <2>1, <2>7, <2>8 DEF Writing
<1>6. CASE PostRefused(t)
  <2>1. pc[t] = "post" /\ UNCHANGED <<listVars, diskVars, job, got, faultVars, disturbed>>
    BY <1>6 DEF PostRefused
  <2>2. pc'[t] = "forget"
    BY <1>0, <1>6, GotoIs DEF PostRefused
  <2>3. OnDisk' = OnDisk /\ dir' = dir /\ data' = data /\ nodes' = nodes /\ job' = job
    BY <2>1 DEF OnDisk, diskVars, listVars
  <2>4. OrderlyAt(t)'
    BY <1>1, <2>1, <2>2, <2>3 DEF OrderlyAt, FileOf
  <2> QED BY <2>1, <2>2, <2>4, OrderlyNext DEF listVars, faultVars
<1> QED BY <1>2, <1>3, <1>4, <1>5, <1>6 DEF Write

LEMMA DeleteOrderly ==
  ASSUME NEW t \in Threads, OnlyBusy(t), Delete(t)
  PROVE  OrderlyInv'
<1> DEFINE f == FileOf(t)
<1>0. JobInv /\ HandlersTyped /\ StorageTyped /\ nulls = {}
  BY OrderlyFacts
<1>1. OrderlyAt(t) /\ f \in Files
  <2>1. pc[t] # "idle"
    BY DEF Delete, Forget, RemoveFile
  <2> QED BY <2>1, BusyAt
<1>2. CASE Forget(t)
  <2>1. /\ pc[t] = "forget" /\ ListRemove(f)
        /\ UNCHANGED <<diskVars, job, got, faultVars, disturbed>>
    BY <1>2 DEF Forget
  <2>2. pc'[t] = "unlink"
    BY <1>0, <1>2, GotoIs DEF Forget
  <2>3. nodes' = nodes \ {f} /\ nulls' = nulls
    BY <2>1 DEF ListRemove, listVars
  <2>4. OnDisk' = OnDisk /\ dir' = dir /\ data' = data /\ job' = job
    BY <2>1 DEF OnDisk, diskVars
  <2>5. OrderlyAt(t)'
    BY <1>1, <2>1, <2>2, <2>3, <2>4 DEF OrderlyAt, FileOf
  <2> QED BY <2>1, <2>2, <2>3, <2>5, OrderlyNext DEF faultVars
<1>3. CASE RemoveFile(t)
  <2>1. /\ pc[t] = "unlink" /\ RemoveName(f)
        /\ UNCHANGED <<listVars, fh, faultVars, disturbed>>
    BY <1>3 DEF RemoveFile, RemoveName
  <2>2. pc'[t] = "idle"
    BY <1>0, <1>3, FinishIs DEF RemoveFile
  <2>3. /\ nodes = OnDisk \ {f} /\ Space(OnDisk, dir, data) <= Capacity
        /\ Exact(OnDisk \ {f}, dir, data)
    BY <1>1, <2>1 DEF OrderlyAt
  <2>4. /\ OnDisk' = OnDisk \ {f}
        /\ \A F \in SUBSET OnDisk' : /\ Space(F, dir', data') = Space(F, dir, data)
                                     /\ Exact(F, dir, data) => Exact(F, dir', data')
    BY <1>0, <2>1, RemoveView
  <2>5. Space(OnDisk', dir', data') <= Capacity
    <3>1. OnDisk' \in SUBSET OnDisk /\ OnDisk \in SUBSET OnDisk
      BY <2>4
    <3>2. Space(OnDisk, dir, data) \in Nat /\ Space(OnDisk', dir, data) \in Nat
          /\ Space(OnDisk', dir, data) <= Space(OnDisk, dir, data)
      BY <1>0, <3>1, SpaceNumber
    <3> QED BY <2>3, <2>4, <3>2, LengthAssumption
  <2>6. RestInv'
    BY <2>1, <2>3, <2>4, <2>5 DEF RestInv, listVars
  <2> QED BY <2>1, <2>2, <2>6, OrderlyNext DEF listVars, faultVars
<1> QED BY <1>2, <1>3 DEF Delete

\* The tracker never follows a NULL node.
LEMMA NeverCrashes ==
  ASSUME NEW t \in Threads, OrderlyInv, orderly, JobInv
  PROVE  ~Crash(t) /\ ~RacedCrash(t)
<1> SUFFICES ASSUME pc[t] # "idle" PROVE ~Crash(t) /\ ~RacedCrash(t)
  BY DEF Crash, RacedCrash
<1>1. OrderlyAt(t) /\ nulls = {}
  BY DEF OrderlyInv
<1>2. pc[t] # "raced"
  BY <1>1 DEF OrderlyAt
<1>3. pc[t] = "load" => nodes = OnDisk
  BY <1>1 DEF OrderlyAt
<1> QED BY <1>1, <1>2, <1>3 DEF Crash, RacedCrash, SetCrashes, GetCrashes, RemoveCrashes

LEMMA StartOrderly ==
  ASSUME NEW t \in Threads, OnlyBusy(t), NEW j \in Jobs[t], Start(t, j)
  PROVE  OrderlyInv'
<1>0. JobInv /\ HandlersTyped /\ StorageTyped /\ j \in Request
  BY OrderlyFacts, JobsAssumption
<1>1. pc[t] = "idle" /\ job' = [job EXCEPT ![t] = j]
      /\ UNCHANGED <<listVars, diskVars, fh, faultVars, disturbed>>
  BY DEF Start
<1>2. Idle
  BY <1>1 DEF Idle, OnlyBusy, Alone
<1>3. RestInv
  BY <1>2 DEF OnlyBusy, OrderlyInv
<1>4. RestInv'
  BY <1>1, <1>3, RestKept DEF NamesKept, diskVars, listVars
<1>5. CASE j.op = "get" /\ Goto(t, "lookup")
  <2>1. pc'[t] = "lookup"
    BY <1>0, <1>5, GotoIs
  <2> QED BY <1>1, <1>4, <2>1, RestAt, OrderlyNext DEF RestPlaces, listVars, faultVars
<1>6. CASE j.op = "put" /\ GotoManage(t)
  <2>1. Goto(t, "manage")
    BY <1>6 DEF GotoManage, OnlyBusy, Alone
  <2>2. pc'[t] = "manage"
    BY <1>0, <2>1, GotoIs
  <2>3. job'[t].op = "put"
    BY <1>0, <1>1, <1>6 DEF JobInv
  <2>4. OrderlyAt(t)'
    BY <1>4, <2>2, <2>3 DEF OrderlyAt, RestInv
  <2> QED BY <1>1, <2>2, <2>4, OrderlyNext DEF listVars, faultVars
<1>7. CASE j.op = "del" /\ Goto(t, "forget")
  <2>1. pc'[t] = "forget"
    BY <1>0, <1>7, GotoIs
  <2>2. OrderlyAt(t)'
    BY <1>4, <2>1 DEF OrderlyAt, RestInv, Exact
  <2> QED BY <1>1, <2>1, <2>2, OrderlyNext DEF listVars, faultVars
<1> QED BY <1>0, <1>5, <1>6, <1>7 DEF Start, Request

LEMMA OrderlyKept == DiskInv /\ OrderlyInv /\ [Next]_vars => OrderlyInv'
<1> SUFFICES ASSUME DiskInv, OrderlyInv, [Next]_vars, orderly' PROVE OrderlyInv'
  BY DEF OrderlyInv
<1>0. TypeInv /\ JobInv
  BY DEF DiskInv, TypeInv
<1>1. ASSUME NEW t \in Threads, NEW j \in Jobs[t], Start(t, j) PROVE OrderlyInv'
  <2>1. orderly /\ Alone(t)
    BY <1>1 DEF Start, Alone
  <2>2. Elsewhere(t)
    BY <1>0, <1>1, StartTyped DEF Typed
  <2> QED BY <1>1, <2>1, <2>2, StartOrderly DEF OnlyBusy
<1>2. ASSUME NEW t \in Threads, Step(t) PROVE OrderlyInv'
  <2>1. ~DiskError(t)
    BY DEF DiskError
  <2>2. orderly
    BY <1>2, <2>1
       DEF Step, Read, Lookup, Fetch, ReadBlock, ReadEnd, Relookup, Load, Reply,
           Manage, Evict, RemoveVictim, Refuse, Track,
           Write, OpenCopy, Post, WriteBlock, WriteEnd, PostRefused,
           Delete, Forget, RemoveFile, Break, Crash, RacedCrash
  <2>3. ~Crash(t) /\ ~RacedCrash(t)
    BY <1>0, <2>2, NeverCrashes
  <2>4. Read(t) \/ Manage(t) \/ Write(t) \/ Delete(t)
    BY <1>2, <2>1, <2>3 DEF Step, Break
  <2>5. Elsewhere(t)
    BY <1>0, <2>4, ReadTyped, ManageTyped, WriteTyped, DeleteTyped DEF Typed
  <2>6. pc[t] # "idle"
    BY <2>4 DEF Read, Lookup, Fetch, ReadBlock, ReadEnd, Relookup, Load, Reply,
           Manage, Evict, RemoveVictim, Refuse, Track,
           Write, OpenCopy, Post, WriteBlock, WriteEnd, PostRefused, Writing,
           Delete, Forget, RemoveFile
  <2>7. OnlyBusy(t)
    BY <2>2, <2>5, <2>6 DEF OnlyBusy, Alone, OrderlyInv
  <2> QED BY <2>4, <2>7, ReadOrderly, ManageOrderly, WriteOrderly, DeleteOrderly
<1>3. CASE Stop \/ Restart
  BY <1>3 DEF Stop, Restart
<1>4. CASE UNCHANGED vars
  <2>1. UNCHANGED <<listVars, diskVars, threadVars, faultVars, orderly, disturbed>>
    BY <1>4 DEF vars
  <2>2. RestInv => RestInv'
    BY <2>1, RestKept DEF NamesKept, diskVars, listVars
  <2>3. ASSUME NEW t \in Threads, OrderlyAt(t) PROVE OrderlyAt(t)'
    <3>1. OnDisk' = OnDisk
      BY <2>1 DEF OnDisk, diskVars
    <3> QED BY <2>1, <2>3, <3>1 DEF OrderlyAt, FileOf, diskVars, listVars, threadVars
  <2> QED BY <2>1, <2>2, <2>3 DEF OrderlyInv, Idle, listVars, threadVars, faultVars
<1> QED BY <1>1, <1>2, <1>3, <1>4 DEF Next

LEMMA OrderlyInit == Init => OrderlyInv
<1> SUFFICES ASSUME Init PROVE OrderlyInv
  OBVIOUS
<1>1. OnDisk = {} /\ nodes = {} /\ up /\ nulls = {} /\ disturbed = {} /\ Idle
  BY DEF Init, ListInit, OnDisk, Stores, Idle
<1>2. Space(OnDisk, dir, data) = 0
  <2>1. Blocked(OnDisk, dir, data) = {}
    BY <1>1 DEF Blocked
  <2> QED BY <2>1, FS_EmptySet DEF Space
<1>3. RestInv
  BY <1>1, <1>2, LengthAssumption DEF RestInv, Exact
<1> QED BY <1>1, <1>3 DEF OrderlyInv, Idle

(* Handlers that never overlap, in any sequence and with any contents,     *)
(* leave a tracker that has the files of the directory, a directory within *)
(* its capacity and copies that are what the FSS has, and they never make  *)
(* or follow a NULL node (CDN_Node.cpp, CDN_Cache.h).                      *)
THEOREM DiskOrderly == Spec => []OrderlyExact
<1>1. OrderlyInv => OrderlyExact
  <2>1. RestInv => /\ nodes = OnDisk /\ Used <= Capacity
                   /\ \A f \in OnDisk : /\ dir["fss"][f] # None
                                        /\ data[dir["cdn"][f]] = data[dir["fss"][f]]
    BY UsedIs DEF RestInv, Exact
  <2> QED BY <2>1 DEF OrderlyInv, OrderlyExact
<1> QED BY <1>1, WholeInit, DiskKept, OrderlyInit, OrderlyKept, PTL DEF Spec

=============================================================================
