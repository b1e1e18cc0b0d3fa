------------------------------ MODULE CdnDisk ------------------------------
(***************************************************************************)
(* The storage of one CDN, its directory and its tracker, and the          *)
(* directory of the FSS, as the handlers of several threads use them:      *)
(* nothing is locked, a file is written in place block by block, a file    *)
(* that is removed stays readable for who has it open, and a call of the   *)
(* tracker is one step (LruList).  What Meta is told is in ContentNetwork. *)
(***************************************************************************)
EXTENDS LruList, Sequences

CONSTANTS
  Threads,      \* threads of the CDN that run a handler
  Jobs,         \* Jobs[t]: the requests thread t may be given
  Versions,     \* contents of files
  Length,       \* Length[v]: blocks of content v
  Stored,       \* Stored[f]: the content the FSS has of f from before, or Null
  Capacity,     \* storage_capacity, in blocks
  MaxFaults,    \* bound: errors of a disk and starts of the CDN after the first
  Hole,         \* a block that was skipped over: zeros
  Garbage       \* the text "Can't load the file"

ASSUME ThreadsAssumption == IsFiniteSet(Threads)
ASSUME LengthAssumption == Length \in [Versions -> Nat] /\ Capacity \in Nat
ASSUME StoredAssumption == Stored \in [Keys -> Versions \cup {Null}] /\ Null \notin Versions
ASSUME FaultAssumption  == MaxFaults \in Nat
ASSUME BlockAssumption  == /\ Hole \notin Versions /\ Garbage \notin Versions
                           /\ Hole # Garbage

VARIABLES
  dir,       \* dir[s][f]: the inode of file f in store s, or None
  data,      \* the blocks of each inode
  fh,        \* the inode a thread has open, or None
  pc,        \* where each thread is
  job,       \* the request it handles
  got,       \* the content it has read, received or answers with
  pos,       \* how many blocks of it are written
  victim,    \* the file it took from the tail and has not removed yet
  up,        \* whether the CDN process runs
  faults,
  orderly,   \* history: no handlers overlapped, no restart, no disk error
  disturbed  \* history: files whose write met another access to the same inode,
             \* or an error, or the end of the process

diskVars   == <<dir, data>>
threadVars == <<fh, pc, job, got, pos, victim>>
faultVars  == <<up, faults>>
vars == <<listVars, diskVars, threadVars, faultVars, orderly, disturbed>>

Files  == Keys
Stores == {"cdn", "fss"}
\* One inode for each file of a store, and one for each thread that may still
\* have a file open whose name was removed and given out again.
None   == <<>>
Inodes == (Stores \X Files) \cup ({"spare"} \X Threads)

Content(v) == [i \in 1..Length[v] |-> v]
Whole(s)   == \E v \in Versions : s = Content(v)

Request  == [op : {"get", "put", "del"}, file : Files, ver : Versions]
ASSUME JobsAssumption == Jobs \in [Threads -> SUBSET Request]

NoJob    == [op |-> "none"]
CdnSteps == {"lookup", "fetch", "fetching", "manage", "raced", "evict", "open", "write",
             "relookup", "load", "loading", "reply", "post", "forget", "unlink"}

\* The type of every variable.
TypeOK ==
  /\ ListTyped
  /\ dir       \in [Stores -> [Files -> Inodes \cup {None}]]
  /\ data      \in [Inodes -> Seq(Versions \cup {Hole})]
  /\ fh        \in [Threads -> Inodes \cup {None}]
  /\ pc        \in [Threads -> CdnSteps \cup {"store", "idle"}]
  /\ job       \in [Threads -> Request \cup {NoJob}]
  /\ got       \in [Threads -> Seq(Versions \cup {Hole, Garbage})]
  /\ pos       \in [Threads -> Nat]
  /\ victim    \in [Threads -> Files \cup {Null}]
  /\ up        \in BOOLEAN
  /\ faults    \in 0..MaxFaults
  /\ orderly   \in BOOLEAN
  /\ disturbed \in SUBSET Files

Init ==
  /\ ListInit
  /\ dir       = [s \in Stores |-> [f \in Files |->
                    IF s = "fss" /\ Stored[f] # Null THEN <<s, f>> ELSE None]]
  /\ data      = [i \in Inodes |-> IF i[1] = "fss" /\ Stored[i[2]] # Null
                                  THEN Content(Stored[i[2]]) ELSE <<>>]
  /\ fh        = [t \in Threads |-> None]
  /\ pc        = [t \in Threads |-> "idle"]
  /\ job       = [t \in Threads |-> NoJob]
  /\ got       = [t \in Threads |-> <<>>]
  /\ pos       = [t \in Threads |-> 0]
  /\ victim    = [t \in Threads |-> Null]
  /\ up        = TRUE
  /\ faults    = 0
  /\ orderly   = TRUE
  /\ disturbed = {}

-----------------------------------------------------------------------------
(* The two directories.                                                    *)

FileOf(t)  == job[t].file
OnDisk     == {f \in Files : dir["cdn"][f] # None}
Writing(t) == pc[t] \in {"write", "store"}

\* What get_size_of_storage measures while no other thread is in it.
Used == Cardinality(UNION {{f} \X DOMAIN data[dir["cdn"][f]] : f \in OnDisk})

\* An inode that has no name and that no thread has open is free.
InUse(d, h) == {d[s][f] : s \in Stores, f \in Files} \cup {h[t] : t \in Threads}

Reclaim(d, h, x) == [i \in Inodes |-> IF i \in InUse(d, h) THEN x[i] ELSE <<>>]

\* A new file gets its own inode, unless someone has the removed one still open.
FreeInode(s, f) ==
  CHOOSE i \in Inodes : /\ i \notin InUse(dir, fh)
                        /\ <<s, f>> \notin InUse(dir, fh) => i = <<s, f>>

\* s with block b at p; what was skipped over is zeros.
PutBlock(s, p, b) ==
  [i \in 1..(IF p > Len(s) THEN p ELSE Len(s)) |->
     IF i = p THEN b ELSE IF i <= Len(s) THEN s[i] ELSE Hole]

Goto(t, l) == pc' = [pc EXCEPT ![t] = l]

\* The handler of t answers and is gone.
Finish(t) == /\ pc'  = [pc EXCEPT ![t] = "idle"]
             /\ job' = [job EXCEPT ![t] = NoJob]
             /\ got' = [got EXCEPT ![t] = <<>>]
             /\ pos' = [pos EXCEPT ![t] = 0]

\* get_size_of_storage keeps its sum and its DIR in members of CDN_Node: threads
\* that are in it together disturb each other.
GotoManage(t) ==
  IF \E u \in Threads \ {t} : pc[u] \in {"manage", "raced"}
  THEN pc' = [u \in Threads |-> IF u = t \/ pc[u] = "manage" THEN "raced" ELSE pc[u]]
  ELSE Goto(t, "manage")

\* Mutant of OpenWrite: the file is not cut.
OpenWriteUncut(t, s) ==
  LET f == FileOf(t)
      i == IF dir[s][f] = None THEN FreeInode(s, f) ELSE dir[s][f] IN
  /\ dir'  = [dir EXCEPT ![s][f] = i]
  /\ fh'   = [fh EXCEPT ![t] = i]
  /\ pos'  = [pos EXCEPT ![t] = 0]
  /\ disturbed' = disturbed \cup {g \in {f} : \E u \in Threads : fh[u] = i}
  /\ UNCHANGED data

\* An ofstream is opened: the file is created, or cut to length 0 in place.
OpenWrite(t, s) ==
  LET f == FileOf(t)
      i == IF dir[s][f] = None THEN FreeInode(s, f) ELSE dir[s][f] IN
  /\ dir'  = [dir EXCEPT ![s][f] = i]
  /\ data' = [data EXCEPT ![i] = <<>>]
  /\ fh'   = [fh EXCEPT ![t] = i]
  /\ pos'  = [pos EXCEPT ![t] = 0]
  /\ disturbed' = disturbed \cup {g \in {f} : \E u \in Threads : fh[u] = i}

\* An ifstream is opened for a file that exists.
OpenRead(t, s) ==
  LET i == dir[s][FileOf(t)] IN
  /\ fh'  = [fh EXCEPT ![t] = i]
  /\ got' = [got EXCEPT ![t] = <<>>]
  /\ disturbed' = disturbed \cup {g \in {FileOf(t)} :
                                    \E u \in Threads : fh[u] = i /\ Writing(u)}

Close(t) == /\ fh'   = [fh EXCEPT ![t] = None]
            /\ data' = Reclaim(dir, fh', data)

\* A name is removed from the directory of the CDN, if it is there.
RemoveName(f) ==
  /\ dir'  = [dir EXCEPT !["cdn"][f] = None]
  /\ data' = Reclaim(dir', fh, data)

\* The process of the CDN dies with its threads; the FSS finishes its own writes.
Die ==
  /\ up' = FALSE
  /\ Reset
  /\ pc'     = [t \in Threads |-> IF pc[t] \in CdnSteps THEN "idle" ELSE pc[t]]
  /\ job'    = [t \in Threads |-> IF pc[t] \in CdnSteps THEN NoJob ELSE job[t]]
  /\ got'    = [t \in Threads |-> IF pc[t] \in CdnSteps THEN <<>> ELSE got[t]]
  /\ pos'    = [t \in Threads |-> IF pc[t] \in CdnSteps THEN 0 ELSE pos[t]]
  /\ fh'     = [t \in Threads |-> IF pc[t] \in CdnSteps THEN None ELSE fh[t]]
  /\ victim' = [t \in Threads |-> Null]
  /\ data'   = Reclaim(dir, fh', data)
  /\ disturbed' = disturbed \cup {FileOf(t) : t \in {u \in Threads : pc[u] = "write"}}
  /\ UNCHANGED <<dir, faults>>

-----------------------------------------------------------------------------
(* The handlers.                                                           *)

Start(t, j) ==
  /\ pc[t] = "idle"
  /\ job' = [job EXCEPT ![t] = j]
  /\ got' = [got EXCEPT ![t] = IF j.op = "put" THEN Content(j.ver) ELSE <<>>]
  /\ CASE j.op = "get" -> Goto(t, "lookup")
       [] j.op = "put" -> GotoManage(t)
       [] j.op = "del" -> Goto(t, "forget")
  /\ orderly' = (orderly /\ \A u \in Threads \ {t} : pc[u] = "idle")
  /\ UNCHANGED <<listVars, diskVars, fh, pos, victim, faultVars, disturbed>>

\* handle_get: is there a copy?
Lookup(t) ==
  /\ pc[t] = "lookup"
  /\ Goto(t, IF FileOf(t) \in OnDisk THEN "relookup" ELSE "fetch")
  /\ UNCHANGED <<listVars, diskVars, fh, job, got, pos, victim, faultVars, orderly, disturbed>>

\* Mutant of Fetch: the status of the answer is not looked at.
FetchUnchecked(t) ==
  /\ pc[t] = "fetch"
  /\ \/ /\ dir["fss"][FileOf(t)] = None
        /\ got' = [got EXCEPT ![t] = <<Garbage>>]
        /\ GotoManage(t)
        /\ UNCHANGED <<fh, disturbed>>
     \/ /\ dir["fss"][FileOf(t)] # None
        /\ OpenRead(t, "fss")
        /\ Goto(t, "fetching")
  /\ UNCHANGED <<listVars, diskVars, job, pos, victim, faultVars, orderly>>

\* A miss: FSS::handle_get opens the file, if it has it.
Fetch(t) ==
  /\ pc[t] = "fetch"
  /\ \/ /\ dir["fss"][FileOf(t)] = None
        /\ Finish(t)
        /\ UNCHANGED <<fh, disturbed>>
     \/ /\ dir["fss"][FileOf(t)] # None
        /\ OpenRead(t, "fss")
        /\ Goto(t, "fetching")
        /\ UNCHANGED <<job, pos>>
  /\ UNCHANGED <<listVars, diskVars, victim, faultVars, orderly>>

\* get_file_contents and load_file: the blocks up to the end of the file.
ReadBlock(t) ==
  /\ pc[t] \in {"fetching", "loading"}
  /\ Len(got[t]) < Len(data[fh[t]])
  /\ got' = [got EXCEPT ![t] = Append(@, data[fh[t]][Len(@) + 1])]
  /\ UNCHANGED <<listVars, diskVars, fh, pc, job, pos, victim, faultVars, orderly, disturbed>>

ReadEnd(t) ==
  /\ pc[t] \in {"fetching", "loading"}
  /\ Len(got[t]) >= Len(data[fh[t]])
  /\ \/ pc[t] = "fetching" /\ GotoManage(t)
     \/ pc[t] = "loading" /\ Goto(t, "reply")
  /\ Close(t)
  /\ UNCHANGED <<listVars, dir, job, got, pos, victim, faultVars, orderly, disturbed>>

\* managing_files: the storage is found full, and the tail leaves the tracker ...
Evict(t) ==
  /\ \/ pc[t] = "manage" /\ Used + Len(got[t]) > Capacity
     \/ pc[t] = "raced"
  /\ RemoveTail
  /\ victim' = [victim EXCEPT ![t] = tail]
  /\ Goto(t, "evict")
  /\ UNCHANGED <<diskVars, fh, job, got, pos, faultVars, orderly, disturbed>>

\* ... and then the directory.
RemoveVictim(t) ==
  /\ pc[t] = "evict"
  /\ RemoveName(victim[t])
  /\ victim' = [victim EXCEPT ![t] = Null]
  /\ GotoManage(t)
  /\ UNCHANGED <<listVars, fh, job, got, pos, faultVars, orderly, disturbed>>

\* ... it is full and nothing is tracked: the file is not stored.
Refuse(t) ==
  /\ \/ pc[t] = "manage" /\ Used + Len(got[t]) > Capacity
     \/ pc[t] = "raced"
  /\ tail = Null
  /\ Finish(t)
  /\ UNCHANGED <<listVars, diskVars, fh, victim, faultVars, orderly, disturbed>>

\* ... there is room: the file is tracked before it is written.
Track(t) ==
  /\ \/ pc[t] = "manage" /\ Used + Len(got[t]) <= Capacity
     \/ pc[t] = "raced"
  /\ ListSet(FileOf(t))
  /\ Goto(t, "open")
  /\ UNCHANGED <<diskVars, fh, job, got, pos, victim, faultVars, orderly, disturbed>>

\* write_file opens the file,
OpenCopy(t) ==
  /\ pc[t] = "open"
  /\ OpenWrite(t, "cdn")
  /\ Goto(t, "write")
  /\ UNCHANGED <<listVars, job, got, victim, faultVars, orderly>>

\* and FSS::handle_post does.
Post(t) ==
  /\ pc[t] = "post"
  /\ OpenWrite(t, "fss")
  /\ Goto(t, "store")
  /\ UNCHANGED <<listVars, job, got, victim, faultVars, orderly>>

\* The content is written block by block,
WriteBlock(t) ==
  /\ Writing(t)
  /\ pos[t] < Len(got[t])
  /\ pos'  = [pos EXCEPT ![t] = @ + 1]
  /\ data' = [data EXCEPT ![fh[t]] = PutBlock(@, pos[t] + 1, got[t][pos[t] + 1])]
  /\ UNCHANGED <<listVars, dir, fh, pc, job, got, victim, faultVars, orderly, disturbed>>

\* and the file closed: a PUT goes on to the FSS, a GET to the second look-up.
WriteEnd(t) ==
  /\ Writing(t)
  /\ pos[t] = Len(got[t])
  /\ \/ /\ pc[t] = "write"
        /\ Goto(t, IF job[t].op = "put" THEN "post" ELSE "relookup")
        /\ pos' = [pos EXCEPT ![t] = 0]
        /\ UNCHANGED <<job, got>>
     \/ pc[t] = "store" /\ Finish(t)
  /\ Close(t)
  /\ UNCHANGED <<listVars, dir, victim, faultVars, orderly, disturbed>>

\* The FSS refuses the upload: handle_put calls delete_file.
PostRefused(t) ==
  /\ pc[t] = "post"
  /\ Goto(t, "forget")
  /\ UNCHANGED <<listVars, diskVars, fh, job, got, pos, victim, faultVars, orderly, disturbed>>

\* handle_get: is there a copy now?
Relookup(t) ==
  /\ pc[t] = "relookup"
  /\ IF FileOf(t) \in OnDisk THEN Goto(t, "load") /\ UNCHANGED <<job, got, pos>>
                            ELSE Finish(t)
  /\ UNCHANGED <<listVars, diskVars, fh, victim, faultVars, orderly, disturbed>>

\* load_file opens the copy, if it is still there, and notes its use.
Load(t) ==
  /\ pc[t] = "load"
  /\ \/ /\ FileOf(t) \in OnDisk
        /\ ListGet(FileOf(t))
        /\ OpenRead(t, "cdn")
        /\ Goto(t, "loading")
     \/ /\ FileOf(t) \notin OnDisk
        /\ got' = [got EXCEPT ![t] = <<Garbage>>]
        /\ Goto(t, "reply")
        /\ UNCHANGED <<listVars, fh, disturbed>>
  /\ UNCHANGED <<diskVars, job, pos, victim, faultVars, orderly>>

\* The client gets what was loaded.
Reply(t) ==
  /\ pc[t] = "reply"
  /\ Finish(t)
  /\ UNCHANGED <<listVars, diskVars, fh, victim, faultVars, orderly, disturbed>>

\* Mutant of Forget: the file stays in the tracker.
ForgetNothing(t) ==
  /\ pc[t] = "forget"
  /\ Goto(t, "unlink")
  /\ UNCHANGED <<listVars, diskVars, fh, job, got, pos, victim, faultVars, orderly, disturbed>>

\* delete_file: the file leaves the tracker ...
Forget(t) ==
  /\ pc[t] = "forget"
  /\ ListRemove(FileOf(t))
  /\ Goto(t, "unlink")
  /\ UNCHANGED <<diskVars, fh, job, got, pos, victim, faultVars, orderly, disturbed>>

\* ... and then the directory.
RemoveFile(t) ==
  /\ pc[t] = "unlink"
  /\ RemoveName(FileOf(t))
  /\ Finish(t)
  /\ UNCHANGED <<listVars, fh, victim, faultVars, orderly, disturbed>>

\* The tracker follows a NULL node.
Crash(t) ==
  /\ \/ /\ \/ pc[t] = "manage" /\ Used + Len(got[t]) <= Capacity
           \/ pc[t] = "raced"
        /\ SetCrashes(FileOf(t))
     \/ pc[t] = "load" /\ FileOf(t) \in OnDisk /\ GetCrashes(FileOf(t))
     \/ pc[t] = "forget" /\ RemoveCrashes(FileOf(t))
  /\ Die
  /\ UNCHANGED orderly

\* Two threads in get_size_of_storage use the same DIR, which one of them closes.
RacedCrash(t) ==
  /\ pc[t] = "raced"
  /\ Die
  /\ UNCHANGED orderly

-----------------------------------------------------------------------------
(* What goes wrong around the handlers.                                    *)

\* A file cannot be opened, or not written to its end: the CDN sees only the
\* former, the FSS neither.
DiskError(t) ==
  /\ faults < MaxFaults
  /\ faults' = faults + 1
  /\ \/ pc[t] \in {"open", "post"} /\ Finish(t) /\ UNCHANGED disturbed
     \/ /\ Writing(t)
        /\ pos[t] < Len(got[t])
        /\ pos' = [pos EXCEPT ![t] = Len(got[t])]
        /\ disturbed' = disturbed \cup {FileOf(t)}
        /\ UNCHANGED <<pc, job, got>>
  /\ orderly' = FALSE
  /\ UNCHANGED <<listVars, diskVars, fh, victim, up>>

\* The CDN is stopped from outside, and started again over its directory.
Stop ==
  /\ up
  /\ faults < MaxFaults
  /\ Die
  /\ orderly' = FALSE

Restart ==
  /\ ~up
  /\ faults < MaxFaults
  /\ up' = TRUE
  /\ faults' = faults + 1
  /\ orderly' = FALSE
  /\ UNCHANGED <<listVars, diskVars, threadVars, disturbed>>

-----------------------------------------------------------------------------
Read(t)   == Lookup(t) \/ Fetch(t) \/ ReadBlock(t) \/ ReadEnd(t) \/ Relookup(t) \/ Load(t)
             \/ Reply(t)
Manage(t) == Evict(t) \/ RemoveVictim(t) \/ Refuse(t) \/ Track(t)
Write(t)  == OpenCopy(t) \/ Post(t) \/ WriteBlock(t) \/ WriteEnd(t) \/ PostRefused(t)
Delete(t) == Forget(t) \/ RemoveFile(t)
Break(t)  == Crash(t) \/ RacedCrash(t) \/ DiskError(t)

Step(t) == Read(t) \/ Manage(t) \/ Write(t) \/ Delete(t) \/ Break(t)

Next == \/ \E t \in Threads : \/ up /\ \E j \in Jobs[t] : Start(t, j)
                              \/ Step(t)
        \/ Stop \/ Restart

Spec == Init /\ [][Next]_vars

-----------------------------------------------------------------------------
(* Properties.                                                             *)

Idle == \A t \in Threads : pc[t] = "idle"

BeingWritten(i) == \E t \in Threads : fh[t] = i /\ Writing(t)

\* No content is torn by evictions, removals and re-creations of a file, whoever
\* has it open: what is on a disk, and what is answered or fetched, is a whole content
\* of some upload unless a write met another access to the same inode or an
\* error (CDN_Node.cpp, fss.cpp).
WholeContents ==
  /\ \A s \in Stores, f \in Files \ disturbed :
       dir[s][f] # None /\ ~BeingWritten(dir[s][f]) => Whole(data[dir[s][f]])
  /\ \A t \in Threads :
       pc[t] = "reply" /\ FileOf(t) \notin disturbed
         => got[t] = <<Garbage>> \/ Whole(got[t])

\* Handlers that never overlap keep the storage exact, whatever their sequence:
\* between them the tracker has the files of the directory, the directory fits
\* its capacity, each copy is what the FSS has; and no NULL node is ever made
\* or followed (CDN_Node.cpp, CDN_Cache.h).
OrderlyExact ==
  orderly => /\ up
             /\ nulls = {}
             /\ Idle => /\ nodes = OnDisk
                        /\ Used <= Capacity
                        /\ \A f \in OnDisk : /\ dir["fss"][f] # None
                                             /\ data[dir["cdn"][f]] = data[dir["fss"][f]]

=============================================================================
