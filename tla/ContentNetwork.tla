--------------------------- MODULE ContentNetwork ---------------------------
(***************************************************************************)
(* The CDN nodes, the file storage server (FSS) and the Meta server's      *)
(* table, as one composed system driven by client requests.                *)
(*                                                                         *)
(* Every HTTP call in the code is a blocking `.get()`, so a client request *)
(* is one logical thread that runs through the handlers of several         *)
(* processes: CDN -> FSS, CDN -> Meta -> (for each other CDN) DEL -> Meta. *)
(* A request is therefore modelled as one process with a program counter;  *)
(* the processes interleave because each server runs its handlers on a     *)
(* thread pool and no component takes a lock.                              *)
(*                                                                         *)
(* Each file server write, each call of a Meta table operation and each    *)
(* call of the LRU tracker is one atomic step (MetaStore refines the table *)
(* operations; torn reads of half-written files are left out).             *)
(***************************************************************************)
EXTENDS Integers, FiniteSets, SequencesExt

CONSTANTS
  Cdns,       \* CDN processes, named by their address
  Files,      \* file names
  Reqs,       \* client request slots: each has one request outstanding
  Reads,      \* Reads[r]: the files slot r may GET
  Writes,     \* Writes[r]: the files slot r may PUT
  Versions,   \* file contents, each with its own hash and time stamp
  Size,       \* Size[f]: bytes of f
  Measured,   \* Measured[f]: bytes get_size_of_storage counts for f on disk
  Capacity,   \* storage_capacity
  MaxIds,     \* bound: how many times CDNs register
  MaxFaults,  \* bound: how many stops and failed calls the environment causes
  Absent,     \* no such file, entry or copy
  Garbage     \* the text "Can't load the file" served as a body

ASSUME AccessAssumption  == /\ Reads \in [Reqs -> SUBSET Files]
                            /\ Writes \in [Reqs -> SUBSET Files]
ASSUME SizeAssumption    == /\ Size \in [Files -> Nat]
                            /\ Measured \in [Files -> Nat]
                            /\ Capacity \in Nat
ASSUME BoundAssumption   == MaxIds \in Nat /\ MaxFaults \in Nat
ASSUME MarkersAssumption == /\ Absent \notin Versions \cup Files
                            /\ Garbage \notin Versions
                            /\ Absent # Garbage

VARIABLES
  fss,      \* FSS disk: content of each file
  hash,     \* Meta entry of a file: hash of its content, Absent = no entry
  stamp,    \* Meta time stamp table: content whose time stamp is recorded
  holders,  \* Meta entry of a file: ids of the CDNs listed as having a copy
  addr,     \* Meta: addr[id] is the CDN registered as id
  myId,     \* m_cdnId of each CDN, 0 before it has registered
  up,       \* whether the CDN process runs
  disk,     \* CDN disk (./cache): survives a crash
  lru,      \* CDN memory: tracked files, most recently used first
  nulls,    \* CDN memory: keys mapped to a NULL node in the tracker
  faults,   \* stops, failed calls and crashes so far
  pc,       \* where each request is
  req,      \* the request: operation, id of the CDN that handles it, file
  body,     \* content being uploaded, fetched or returned
  evicted,  \* deletedFiles not yet reported to Meta, in order
  targets,  \* ids the invalidation loop still has to visit
  peer      \* id of the CDN whose DEL handler the request is in, or 0

metaVars  == <<hash, stamp, holders>>
nodeVars  == <<addr, myId, up>>
cacheVars == <<disk, lru, nulls>>
callVars  == <<req, body, evicted, targets, peer>>
vars == <<fss, metaVars, nodeVars, cacheVars, faults, pc, callVars>>

Request   == [op : {"none", "get", "put"}, self : Nat, file : Files \cup {Absent}]
NoRequest == [op |-> "none", self |-> 0, file |-> Absent]

Final     == {"idle", "ok", "notFound", "error"}
CdnSteps  == {"lookup", "fetch", "manage", "write", "report", "update",
              "relookup", "load"}
MetaSteps == {"stamp", "invalidate", "revoke"}

\* The type of every variable.
TypeOK ==
  /\ fss     \in [Files -> Versions \cup {Absent}]
  /\ hash    \in [Files -> Versions \cup {Absent}]
  /\ stamp   \in [Files -> Versions \cup {Absent}]
  /\ holders \in [Files -> SUBSET Nat]
  /\ addr    \in Seq(Cdns)
  /\ myId    \in [Cdns -> Nat]
  /\ up      \in [Cdns -> BOOLEAN]
  /\ disk    \in [Cdns -> [Files -> Versions \cup {Absent}]]
  /\ lru     \in [Cdns -> Seq(Files)]
  /\ nulls   \in [Cdns -> SUBSET Files]
  /\ faults  \in Nat
  /\ pc      \in [Reqs -> Final \cup CdnSteps \cup MetaSteps]
  /\ req     \in [Reqs -> Request]
  /\ body    \in [Reqs -> Versions \cup {Absent, Garbage}]
  /\ evicted \in [Reqs -> Seq(Files)]
  /\ targets \in [Reqs -> SUBSET Nat]
  /\ peer    \in [Reqs -> Nat]

Init ==
  /\ fss     = [f \in Files |-> Absent]
  /\ hash    = [f \in Files |-> Absent]
  /\ stamp   = [f \in Files |-> Absent]
  /\ holders = [f \in Files |-> {}]
  /\ addr    = <<>>
  /\ myId    = [c \in Cdns |-> 0]
  /\ up      = [c \in Cdns |-> FALSE]
  /\ disk    = [c \in Cdns |-> [f \in Files |-> Absent]]
  /\ lru     = [c \in Cdns |-> <<>>]
  /\ nulls   = [c \in Cdns |-> {}]
  /\ faults  = 0
  /\ pc      = [r \in Reqs |-> "idle"]
  /\ req     = [r \in Reqs |-> NoRequest]
  /\ body    = [r \in Reqs |-> Absent]
  /\ evicted = [r \in Reqs |-> <<>>]
  /\ targets = [r \in Reqs |-> {}]
  /\ peer    = [r \in Reqs |-> 0]

-----------------------------------------------------------------------------
(* The LRU tracker and the storage directory of a CDN.                     *)

Tracked(c) == {lru[c][i] : i \in DOMAIN lru[c]}
OnDisk(c)  == {f \in Files : disk[c][f] # Absent}

\* LRUCache::remove(key): the list without f.
Without(s, f) ==
  IF \E i \in DOMAIN s : s[i] = f
  THEN RemoveAt(s, CHOOSE i \in DOMAIN s : s[i] = f)
  ELSE s

\* LRUCache::set and LRUCache::get of a node in the list: f becomes the head.
ToFront(s, f) == <<f>> \o Without(s, f)

Erase(d, S) == [f \in Files |-> IF f \in S THEN Absent ELSE d[f]]

\* Mutant of Kept: the evicted files stay in the list.
KeptEvicted(s, k) == s

\* What k turns of the eviction loop take from the tail, and what they leave.
Victims(s, k) == [i \in 1..k |-> s[Len(s) - i + 1]]
Kept(s, k)    == SubSeq(s, 1, Len(s) - k)
Gone(s, k)    == {Victims(s, k)[i] : i \in 1..k}

\* Mutant of Fits: the size of the new file is not counted.
FitsWithoutNew(c, f, k) ==
  SumFunctionOnSet(Measured, OnDisk(c) \ Gone(lru[c], k)) <= Capacity

\* The test of the eviction loop after k turns.
Fits(c, f, k) ==
  SumFunctionOnSet(Measured, OnDisk(c) \ Gone(lru[c], k)) + Size[f] <= Capacity

\* The number of turns after which the loop ends with room for f (if any).
Turns(c, f) ==
  {k \in 0..Len(lru[c]) : Fits(c, f, k) /\ \A j \in 0..(k - 1) : ~Fits(c, f, j)}

\* The CDN process dies; its directory stays.
Crash(c) ==
  /\ up'     = [up EXCEPT ![c] = FALSE]
  /\ lru'    = [lru EXCEPT ![c] = <<>>]
  /\ nulls'  = [nulls EXCEPT ![c] = {}]
  /\ faults' = faults + 1
  /\ UNCHANGED <<addr, myId>>

-----------------------------------------------------------------------------
(* Requests.                                                               *)

CdnOf(r)  == addr[req[r].self]
FileOf(r) == req[r].file

\* The process that registered as id still runs.
Alive(id)   == up[addr[id]] /\ myId[addr[id]] = id
Goto(r, s)  == pc' = [pc EXCEPT ![r] = s]
At(r, s)    == pc[r] = s /\ Alive(req[r].self)

Begin(r, c, f, o) ==
  /\ pc[r] \in Final
  /\ up[c]
  /\ req'     = [req EXCEPT ![r] = [op |-> o, self |-> myId[c], file |-> f]]
  /\ evicted' = [evicted EXCEPT ![r] = <<>>]
  /\ UNCHANGED <<fss, metaVars, nodeVars, cacheVars, faults, targets, peer>>

StartGet(r, c, f) ==
  /\ f \in Reads[r]
  /\ Begin(r, c, f, "get")
  /\ body' = [body EXCEPT ![r] = Absent]
  /\ Goto(r, "lookup")

StartPut(r, c, f, v) ==
  /\ f \in Writes[r]
  /\ Begin(r, c, f, "put")
  /\ body' = [body EXCEPT ![r] = v]
  /\ Goto(r, "manage")

\* Mutant of Lookup: handle_get serves the file without looking it up.
LookupSkipped(r) ==
  /\ At(r, "lookup")
  /\ Goto(r, "load")
  /\ UNCHANGED <<fss, metaVars, nodeVars, cacheVars, faults, callVars>>

\* The first look_up_and_remove_storage(file, 0) of handle_get.
Lookup(r) ==
  /\ At(r, "lookup")
  /\ Goto(r, IF FileOf(r) \in OnDisk(CdnOf(r)) THEN "relookup" ELSE "fetch")
  /\ UNCHANGED <<fss, metaVars, nodeVars, cacheVars, faults, callVars>>

\* Mutant of Fetch: the text of an error is taken for the content.
FetchUnchecked(r) ==
  LET f == FileOf(r) IN
  /\ At(r, "fetch")
  /\ body' = [body EXCEPT ![r] = IF fss[f] = Absent THEN Garbage ELSE fss[f]]
  /\ Goto(r, "manage")
  /\ UNCHANGED <<fss, metaVars, nodeVars, cacheVars, faults,
                 req, evicted, targets, peer>>

\* The GET a CDN sends to the FSS on a miss.
Fetch(r) ==
  LET f == FileOf(r) IN
  /\ At(r, "fetch")
  /\ \/ /\ fss[f] = Absent
        /\ Goto(r, "notFound")
        /\ UNCHANGED body
     \/ /\ fss[f] # Absent
        /\ body' = [body EXCEPT ![r] = fss[f]]
        /\ Goto(r, "manage")
  /\ UNCHANGED <<fss, metaVars, nodeVars, cacheVars, faults,
                 req, evicted, targets, peer>>

\* managing_files finds room, evicting from the tail, and tracks the file.
Manage(r) ==
  LET c == CdnOf(r)  f == FileOf(r) IN
  /\ At(r, "manage")
  /\ f \notin nulls[c]
  /\ \E k \in Turns(c, f) :
       /\ disk'    = [disk EXCEPT ![c] = Erase(@, Gone(lru[c], k))]
       /\ lru'     = [lru EXCEPT ![c] = ToFront(Kept(@, k), f)]
       /\ evicted' = [evicted EXCEPT ![r] = Victims(lru[c], k)]
  /\ Goto(r, "write")
  /\ UNCHANGED <<fss, metaVars, nodeVars, nulls, faults, req, body, targets, peer>>

\* managing_files runs out of tracked files: everything was evicted, the
\* request is refused and Meta is told of none of it.
ManageFails(r) ==
  LET c == CdnOf(r)  f == FileOf(r) IN
  /\ At(r, "manage")
  /\ Turns(c, f) = {}
  /\ disk' = [disk EXCEPT ![c] = Erase(@, Tracked(c))]
  /\ lru'  = [lru EXCEPT ![c] = <<>>]
  /\ Goto(r, "notFound")
  /\ UNCHANGED <<fss, metaVars, nodeVars, nulls, faults, callVars>>

\* managing_files finds room, then LRUCache::set follows a NULL node.
ManageCrashes(r) ==
  LET c == CdnOf(r)  f == FileOf(r) IN
  /\ At(r, "manage")
  /\ f \in nulls[c]
  /\ \E k \in Turns(c, f) :
       disk' = [disk EXCEPT ![c] = Erase(@, Gone(lru[c], k))]
  /\ Crash(c)
  /\ UNCHANGED <<fss, metaVars, pc, callVars>>

\* write_file creates or overwrites the copy.
WriteCopy(r) ==
  /\ At(r, "write")
  /\ disk' = [disk EXCEPT ![CdnOf(r)][FileOf(r)] = body[r]]
  /\ Goto(r, "report")
  /\ UNCHANGED <<fss, metaVars, nodeVars, lru, nulls, faults, callVars>>

\* The copy cannot be opened: the request is refused, the file stays tracked and
\* Meta is told of no eviction.
WriteFails(r) ==
  /\ faults < MaxFaults
  /\ At(r, "write")
  /\ Goto(r, "notFound")
  /\ faults' = faults + 1
  /\ UNCHANGED <<fss, metaVars, nodeVars, cacheVars, callVars>>

\* One DEL message to Meta for an evicted file: deleteCdnFromMetaEntry.
Report(r) ==
  /\ At(r, "report")
  /\ evicted[r] # <<>>
  /\ holders' = [holders EXCEPT ![Head(evicted[r])] = @ \ {req[r].self}]
  /\ evicted' = [evicted EXCEPT ![r] = Tail(@)]
  /\ UNCHANGED <<fss, hash, stamp, nodeVars, cacheVars, faults, pc,
                 req, body, targets, peer>>

\* Mutant of Advertise: Meta is not told of the new copy.
AdvertiseForgotten(r) ==
  /\ At(r, "report")
  /\ evicted[r] = <<>>
  /\ req[r].op = "get"
  /\ Goto(r, "relookup")
  /\ UNCHANGED <<fss, metaVars, nodeVars, cacheVars, faults, callVars>>

\* Mutant of Advertise: a file that Meta does not know gets a holder.
AdvertiseUnknown(r) ==
  /\ At(r, "report")
  /\ evicted[r] = <<>>
  /\ req[r].op = "get"
  /\ holders' = [holders EXCEPT ![FileOf(r)] = @ \cup {req[r].self}]
  /\ Goto(r, "relookup")
  /\ UNCHANGED <<fss, hash, stamp, nodeVars, cacheVars, faults, callVars>>

\* getFileFromFSS tells Meta of the new copy: addCdnToMetaEntry, which does
\* nothing when Meta has no entry for the file.
Advertise(r) ==
  LET f == FileOf(r) IN
  /\ At(r, "report")
  /\ evicted[r] = <<>>
  /\ req[r].op = "get"
  /\ holders' = IF hash[f] = Absent THEN holders
                ELSE [holders EXCEPT ![f] = @ \cup {req[r].self}]
  /\ Goto(r, "relookup")
  /\ UNCHANGED <<fss, hash, stamp, nodeVars, cacheVars, faults, callVars>>

\* The second look_up_and_remove_storage(file, 0) of handle_get.
Relookup(r) ==
  /\ At(r, "relookup")
  /\ Goto(r, IF FileOf(r) \in OnDisk(CdnOf(r)) THEN "load" ELSE "notFound")
  /\ UNCHANGED <<fss, metaVars, nodeVars, cacheVars, faults, callVars>>

\* load_file: reads the copy and marks it as the most recently used.  A file
\* that is not tracked gets a NULL node, which is harmless only while the
\* list is empty.  A file that has vanished is answered with Garbage.
Load(r) ==
  LET c == CdnOf(r)  f == FileOf(r) IN
  /\ At(r, "load")
  /\ Goto(r, "ok")
  /\ \/ /\ f \in OnDisk(c)
        /\ body' = [body EXCEPT ![r] = disk[c][f]]
        /\ \/ /\ f \in Tracked(c)
              /\ lru' = [lru EXCEPT ![c] = ToFront(@, f)]
              /\ UNCHANGED nulls
           \/ /\ lru[c] = <<>>
              /\ nulls' = [nulls EXCEPT ![c] = @ \cup {f}]
              /\ UNCHANGED lru
     \/ /\ f \notin OnDisk(c)
        /\ body' = [body EXCEPT ![r] = Garbage]
        /\ UNCHANGED <<lru, nulls>>
  /\ UNCHANGED <<fss, metaVars, nodeVars, disk, faults, req, evicted, targets, peer>>

\* LRUCache::get of an untracked file with a non-empty list: update(NULL).
LoadCrashes(r) ==
  LET c == CdnOf(r)  f == FileOf(r) IN
  /\ At(r, "load")
  /\ f \in OnDisk(c) \ Tracked(c)
  /\ lru[c] # <<>>
  /\ Crash(c)
  /\ UNCHANGED <<fss, metaVars, disk, pc, callVars>>

\* Mutant of Upload: Meta is told before the FSS has the file.
UploadLater(r) ==
  /\ At(r, "report")
  /\ evicted[r] = <<>>
  /\ req[r].op = "put"
  /\ Goto(r, "update")
  /\ UNCHANGED <<fss, metaVars, nodeVars, cacheVars, faults, callVars>>

\* The POST of handle_put to the FSS.
Upload(r) ==
  /\ At(r, "report")
  /\ evicted[r] = <<>>
  /\ req[r].op = "put"
  /\ fss' = [fss EXCEPT ![FileOf(r)] = body[r]]
  /\ Goto(r, "update")
  /\ UNCHANGED <<metaVars, nodeVars, cacheVars, faults, callVars>>

\* Mutant of DeleteFile: the file leaves the tracker but not the disk.
DeleteTrackedOnly(c, f) ==
  /\ f \notin nulls[c]
  /\ lru' = [lru EXCEPT ![c] = Without(@, f)]
  /\ UNCHANGED <<disk, nulls>>

\* CDN_Node::delete_file on CDN c for a key whose node is not NULL.
DeleteFile(c, f) ==
  /\ f \notin nulls[c]
  /\ lru'  = [lru EXCEPT ![c] = Without(@, f)]
  /\ disk' = [disk EXCEPT ![c][f] = Absent]
  /\ UNCHANGED nulls

\* Mutant of UploadRefused: the copy is not rolled back.
UploadRefusedKept(r) ==
  /\ At(r, "report")
  /\ evicted[r] = <<>>
  /\ req[r].op = "put"
  /\ Goto(r, "notFound")
  /\ UNCHANGED <<fss, metaVars, nodeVars, cacheVars, faults, callVars>>

\* The FSS answers with an error: the copy is rolled back, Meta is not told.
UploadRefused(r) ==
  /\ At(r, "report")
  /\ evicted[r] = <<>>
  /\ req[r].op = "put"
  /\ DeleteFile(CdnOf(r), FileOf(r))
  /\ Goto(r, "notFound")
  /\ UNCHANGED <<fss, metaVars, nodeVars, faults, callVars>>

\* The same, when the file has a NULL node in the tracker.
RollbackCrashes(r) ==
  /\ At(r, "report")
  /\ evicted[r] = <<>>
  /\ req[r].op = "put"
  /\ FileOf(r) \in nulls[CdnOf(r)]
  /\ Crash(CdnOf(r))
  /\ UNCHANGED <<fss, metaVars, disk, pc, callVars>>

\* Mutant of Update: an entry that exists keeps its hash.
UpdateNewOnly(r) ==
  LET f == FileOf(r) IN
  /\ At(r, "update")
  /\ hash'    = [hash EXCEPT ![f] = IF @ = Absent THEN body[r] ELSE @]
  /\ holders' = [holders EXCEPT ![f] = {req[r].self}]
  /\ Goto(r, "stamp")
  /\ UNCHANGED <<fss, stamp, nodeVars, cacheVars, faults, callVars>>

\* Meta's handle_update, type 1: updateMetaEntry.
Update(r) ==
  LET f == FileOf(r) IN
  /\ At(r, "update")
  /\ hash'    = [hash EXCEPT ![f] = body[r]]
  /\ holders' = [holders EXCEPT ![f] = {req[r].self}]
  /\ Goto(r, "stamp")
  /\ UNCHANGED <<fss, stamp, nodeVars, cacheVars, faults, callVars>>

\* ... updateTimeStamp, then the invalidation loop starts.
Stamp(r) ==
  /\ pc[r] = "stamp"
  /\ stamp'   = [stamp EXCEPT ![FileOf(r)] = body[r]]
  /\ targets' = [targets EXCEPT ![r] = DOMAIN addr \ {req[r].self}]
  /\ Goto(r, "invalidate")
  /\ UNCHANGED <<fss, hash, holders, nodeVars, cacheVars, faults,
                 req, body, evicted, peer>>

\* ... one turn of the loop: the DEL handler of CDN d removes its copy and,
\* if there was one, goes on to tell Meta.
Invalidate(r, d) ==
  LET c == addr[d]  f == FileOf(r) IN
  /\ pc[r] = "invalidate"
  /\ d \in targets[r]
  /\ up[c]
  /\ DeleteFile(c, f)
  /\ targets' = [targets EXCEPT ![r] = @ \ {d}]
  /\ \/ /\ f \in OnDisk(c)
        /\ peer' = [peer EXCEPT ![r] = myId[c]]
        /\ Goto(r, "revoke")
     \/ /\ f \notin OnDisk(c)
        /\ UNCHANGED <<peer, pc>>
  /\ UNCHANGED <<fss, metaVars, nodeVars, faults, req, body, evicted>>

\* ... the DEL handler dies on a NULL node; the exception ends Meta's loop.
InvalidateCrashes(r, d) ==
  LET c == addr[d] IN
  /\ pc[r] = "invalidate"
  /\ d \in targets[r]
  /\ up[c]
  /\ FileOf(r) \in nulls[c]
  /\ targets' = [targets EXCEPT ![r] = {}]
  /\ Crash(c)
  /\ UNCHANGED <<fss, metaVars, disk, pc, req, body, evicted, peer>>

\* Mutant of Unreachable: Meta tries again.
UnreachableRetried(r, d) ==
  /\ pc[r] = "invalidate"
  /\ d \in targets[r]
  /\ ~up[addr[d]]
  /\ UNCHANGED vars

\* ... the CDN cannot be reached; the exception ends Meta's loop.
Unreachable(r, d) ==
  /\ pc[r] = "invalidate"
  /\ d \in targets[r]
  /\ ~up[addr[d]]
  /\ targets' = [targets EXCEPT ![r] = {}]
  /\ UNCHANGED <<fss, metaVars, nodeVars, cacheVars, faults, pc,
                 req, body, evicted, peer>>

\* The DEL handler's message to Meta: deleteCdnFromMetaEntry.
Revoke(r) ==
  LET f == FileOf(r) IN
  /\ pc[r] = "revoke"
  /\ Alive(peer[r])
  /\ holders' = [holders EXCEPT ![f] = @ \ {peer[r]}]
  /\ peer'    = [peer EXCEPT ![r] = 0]
  /\ Goto(r, "invalidate")
  /\ UNCHANGED <<fss, hash, stamp, nodeVars, cacheVars, faults,
                 req, body, evicted, targets>>

\* The CDN died inside its DEL handler: the exception ends Meta's loop.
RevokeLost(r) ==
  /\ pc[r] = "revoke"
  /\ ~Alive(peer[r])
  /\ targets' = [targets EXCEPT ![r] = {}]
  /\ peer'    = [peer EXCEPT ![r] = 0]
  /\ Goto(r, "invalidate")
  /\ UNCHANGED <<fss, metaVars, nodeVars, cacheVars, faults, req, body, evicted>>

\* Meta answers, the CDN ignores the answer and replies OK to the client --
\* if the CDN is still there.
Reply(r) ==
  /\ pc[r] = "invalidate"
  /\ targets[r] = {}
  /\ Goto(r, IF Alive(req[r].self) THEN "ok" ELSE "error")
  /\ UNCHANGED <<fss, metaVars, nodeVars, cacheVars, faults, callVars>>

-----------------------------------------------------------------------------
(* Processes that start, stop and calls that fail.                         *)

\* The CDN that handled the request has died: the client's call throws.
Abandon(r) ==
  /\ pc[r] \in CdnSteps
  /\ ~Alive(req[r].self)
  /\ Goto(r, "error")
  /\ UNCHANGED <<fss, metaVars, nodeVars, cacheVars, faults, callVars>>

\* A call of the CDN throws before it has an effect; no handler catches it,
\* so the client gets an error and nothing is rolled back.
CallThrows(r) ==
  /\ faults < MaxFaults
  /\ \E s \in {"fetch", "report", "update"} : At(r, s)
  /\ Goto(r, "error")
  /\ faults' = faults + 1
  /\ UNCHANGED <<fss, metaVars, nodeVars, cacheVars, callVars>>

\* A DEL call of Meta throws: the loop ends there.
DeleteThrows(r) ==
  /\ faults < MaxFaults
  /\ pc[r] = "invalidate"
  /\ targets[r] # {}
  /\ targets' = [targets EXCEPT ![r] = {}]
  /\ faults' = faults + 1
  /\ UNCHANGED <<fss, metaVars, nodeVars, cacheVars, pc, req, body, evicted, peer>>

\* The DEL handler's message to Meta throws: it answers with an error, which
\* Meta only logs.
RevokeThrows(r) ==
  /\ faults < MaxFaults
  /\ pc[r] = "revoke"
  /\ peer' = [peer EXCEPT ![r] = 0]
  /\ Goto(r, "invalidate")
  /\ faults' = faults + 1
  /\ UNCHANGED <<fss, metaVars, nodeVars, cacheVars, req, body, evicted, targets>>

\* The invalidation loops that have not come to their end.
Looping == {r \in Reqs : \/ pc[r] = "invalidate" /\ targets[r] # {}
                         \/ pc[r] = "revoke"}

\* A CDN process starts: an empty tracker over the directory it finds, and a
\* new id from Meta, which keeps the old id mapped to the same address.  A
\* loop over the map may or may not come to an id that is added meanwhile.
CdnStart(c) ==
  /\ ~up[c]
  /\ Len(addr) < MaxIds
  /\ addr'  = Append(addr, c)
  /\ myId'  = [myId EXCEPT ![c] = Len(addr) + 1]
  /\ up'    = [up EXCEPT ![c] = TRUE]
  /\ \E R \in SUBSET Looping :
       targets' = [r \in Reqs |-> IF r \in R THEN targets[r] \cup {Len(addr) + 1}
                                             ELSE targets[r]]
  /\ UNCHANGED <<fss, metaVars, cacheVars, faults, pc, req, body, evicted, peer>>

\* A CDN process stops for a reason outside the model.
CdnStop(c) ==
  /\ faults < MaxFaults
  /\ up[c]
  /\ Crash(c)
  /\ UNCHANGED <<fss, metaVars, disk, pc, callVars>>

-----------------------------------------------------------------------------
\* What the handlers of request r do next.
GetStep(r) == Lookup(r) \/ Fetch(r) \/ Advertise(r) \/ Relookup(r)
              \/ Load(r) \/ LoadCrashes(r)

StoreStep(r) == Manage(r) \/ ManageFails(r) \/ ManageCrashes(r)
                \/ WriteCopy(r) \/ Report(r)

PutStep(r) == Upload(r) \/ UploadRefused(r) \/ RollbackCrashes(r)
              \/ Update(r) \/ Stamp(r) \/ Revoke(r) \/ RevokeLost(r) \/ Reply(r)

LoopStep(r) == \E d \in targets[r] :
                 Invalidate(r, d) \/ InvalidateCrashes(r, d) \/ Unreachable(r, d)

Step(r) == GetStep(r) \/ StoreStep(r) \/ PutStep(r) \/ LoopStep(r) \/ Abandon(r)

Start(r) == \E c \in Cdns, f \in Files :
              StartGet(r, c, f) \/ \E v \in Versions : StartPut(r, c, f, v)

Fail(r) == WriteFails(r) \/ CallThrows(r) \/ DeleteThrows(r) \/ RevokeThrows(r)

Next == \/ \E r \in Reqs : Start(r) \/ Step(r) \/ Fail(r)
        \/ \E c \in Cdns : CdnStart(c) \/ CdnStop(c)

Spec == Init /\ [][Next]_vars

\* The servers run the handlers they have started; clients need not ask, and
\* nothing is sure to fail.
FairSpec == Spec /\ \A r \in Reqs : WF_vars(Step(r))

=============================================================================
